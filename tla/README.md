# TLA+ models of argo-events (gateway client and sensor controller)

This directory holds TLA+ models of the Go code under `src/`. Each model comes with
the TLC configurations that check it. `PROJECT.json` lists:

- the components;
- every run, with what it is expected to show;
- the mutants that show each checked property can fail;
- the map from every definition to the source lines it translates;
- the findings;
- the hazards.

## The system

| Part | Source | What it does |
|---|---|---|
| EventSourceManager, SourceRegistry | `src/gateways/config.go` | `manageEventSources(cm)` runs on every change of the gateway configmap. `createInternalEventSources` hashes every entry with `Hasher(key+value)` and dials a gRPC connection with its own cancellable context for each. `diffEventSources` compares the hashes with `registeredConfigs`. `stopEventSources` sends `Remove` on the unbuffered `StatusCh`, cancels the context and closes the connection of each stale source. `startEventSources` registers each new source and starts a goroutine for it. |
| SourceWorker | `config.go` 239-319 | The goroutine first checks that the connection is Ready, then calls `ValidateEventSource`, sends `Running`, calls `StartEventSource` and loops on `Recv`. `io.EOF` sends `Completed`; any other error sends `Error`. Every early exit sends `Error`. |
| Event source validators | `core/artifact`, `core/stream/amqp`, `core/stream/nats` | Parse the raw config, then run a chain of early returns over the required fields. |
| SensorReconciler | `src/controllers/sensor/operator.go` | `operate` works on a deep copy of the cached Sensor and switches on its phase: New validates, initializes the nodes, appends the env vars, Get-then-Creates the Deployment and Service and marks the sensor Active. Active checks completion, Complete counts the run and re-runs it. The deferred `persistUpdates` writes the whole object. `soc.s, err = sensorClient.Update(soc.s)` replaces `soc.s` by the client's result even on error, which is then an empty Sensor. A conflict drops the write. Any other error calls `reapplyUpdate` (Get, overlay Status, Update, with backoff), whose Get by the now empty name fails at once. |
| Sensor API deep copy | `zz_generated.deepcopy.go` | Generated code. |

The parts interact like this:

- The configmap watch calls the manager.
- The manager and its goroutines share the registry, the contexts and `StatusCh`.
- The sensor controller and the sensor pod (outside `src/`) both write the Sensor resource.
- The controller reads the resource through an informer cache, so the copy it reads may be stale.

## Modules

| Module | Models | State and actions |
|---|---|---|
| `SourceDiff` | `diffEventSources` | `Missing` is the recursive form of the inner loop with its `found` flag. `diffEventSources` runs it in both directions, as the swapped second round of the outer loop does. |
| `Gateway` | manager and goroutines | See below. |
| `Validators` | the three `ValidateEventSource` executors | See below. |
| `Sensor` | `operate` for one Sensor | See below. |
| `SensorLifecycle` | what spec sections 3 and 8 promise of a Sensor | Only the stored phase and `CompletionCount`: New → Active, New → Error, Active → Complete, and Complete → New with the count raised by one. `Sensor` is shown to implement it. |

### Gateway

The variables stand for this state of the code:

| Variable | State in the code |
|---|---|
| `cm` | the configmap |
| `pending` | a watch notification not yet handled |
| `registered` | `registeredConfigs` |
| `conns` | the state of every dialled connection, numbered in dial order |
| `cancelled` | the contexts whose `Cancel` has been called |
| `workers` | the goroutine of each connection, with its program counter |
| `statuses` | what each connection's source has sent on `StatusCh` |

The actions are:

- `ManageEventSources` is one whole call of `manageEventSources`. It is built from one operator per Go function: `createInternalEventSources`, `diffEventSources`, `StopStatuses`, `CancelStale`, `CloseStale`, `Register` and `SpawnWorkers`. When two entries hash to one identity, the entry the map iteration keeps is a nondeterministic choice (`winner`).
- `DialFailsAndRestart` is the dial timeout that reaches `Log.Panic`. The process restarts empty.
- Each goroutine step is its own action: `CheckConnection`, `ValidateEventSource`, `AnnounceRunning`, `StartEventSource` and `RecvEnds`.
- The environment edits the configmap (`UpdateConfigMap`) and breaks a live connection (`ConnectionFails`).

One connection number names a connection, its context and its goroutine, because the code creates them together. Validation by the gateway server is the constant `ValidValues`. `MC_Gateway` composes the two modules: it computes `ValidValues` with the AMQP executor of `Validators` (`INSTANCE Validators`), from what `parseEventSource` makes of each raw config. The client's goroutine treats any error as an invalid source and ignores `IsValid`, so the composition keeps only the configs the executor returns no error for.

### Validators

A config is a record of:

- the `parseEventSource` outcome (parsed, malformed or null);
- the set of required fields that are set;
- the S3 event name.

`FirstFailure` is the chain of `if … { return err }` statements. `NotificationEventType` is the Go string conversion, which keeps the bytes.

`ErrorKind` and `ExpectedKind` state the executor contract of spec sections 6 and 7:
- a malformed config is a ConfigParseError;
- an empty config, a missing field or an unknown event is a ValidationError.

### Sensor

The variables:

| Variable | What it is |
|---|---|
| `store` | the Sensor in the API server |
| `cache` | the informer copy |
| `cacheFresh` | stands in for `resourceVersion`: whether `cache` is still the latest version |
| `queued` | the work queue |
| `deployed`, `serviced` | the Deployment and Service exist |
| `pc` | `"reapply"` while `reapplyUpdate` runs |
| `local` | `soc.s`; `EmptySensor` after a failed Update |

The actions:

- `Operate` is one pass: `OperateNew`, `OperateActive`, `OperateError` or `OperateComplete`, each ending in `PersistUpdates`.
- `ReapplyUpdate` is the backoff loop's first step. Its Get of `soc.s.Name` fails because the name is empty, so it gives up without writing. The overlay at `operator.go:248` is unreachable, and the model has no step for it.
- The environment:
  - `InformerSync` delivers the latest version and enqueues the key.
  - `PodCompletesNode` is the sensor pod completing a node. It is modelled from the spec, because the pod is not in `src/`.

The status is abstracted to the phase, the nodes (type and phase by name) and `CompletionCount`.

**Refinement.** `Sensor` defines `Lifecycle == INSTANCE SensorLifecycle WITH phase <- store.phase, count <- store.count`. The property `ImplementsLifecycle == Lifecycle!Spec` says that every step of the detailed model, seen through the stored Sensor, is a step of the abstract lifecycle or a stutter. Writes the controller computes from a stale copy are among those steps, and so are dropped conflicts, the pod's node completions and the backoff loop.

## Runs

The passing runs:

| Run | Checks | Result |
|---|---|---|
| `source_diff` | `DiffIsSetDifference`, over all pairs of key slices from 4 identities, in every order | holds, 4225 states |
| `gateway` | `SingleWorkerPerSource`, `UndeclaredWorkersCancelled`, `CancelledWorkerExits`, over 1 edit (any mix of removals, additions and changes), 1 restart and 1 broken connection | holds, 28,528 states, about a minute |
| `validators` | `VerdictMatchesContract`, over every config shape of the three executors, with S3 events absent or known | holds |
| `sensor` | `TypeOK`, `CompleteOnlyWhenAllFired`, with conflicts and non-conflict Update errors, 3 dependencies, 2 triggers and 3 runs | holds, 5,933 states |
| `sensor_conflicts` | `ImplementsLifecycle` (the refinement) and `RunEventuallyCounted` (liveness under `LiveSpec`), when the only failed Updates are conflicts, same bounds | holds, 5,022 states |

The violation runs:

| Run | What the counterexample shows |
|---|---|
| `gateway_readd` | A removed and re-added source is never restarted. |
| `gateway_remove_status` | One source gets two terminal statuses (`OneTerminalStatus`). The counterexample is `Remove` followed by `Error`: the cancelled goroutine's pending call fails. The reverse order is also reachable, because `stopEventSources` sends `Remove` for a goroutine that has already exited with `Error`. |
| `gateway_conn_leak` | Connections of unchanged sources are left open. |
| `validators_unknown_event` | S3 accepts an unknown event. |
| `sensor_update_lost` | `RunEventuallyCounted` fails under `LiveSpec`. The pod completes every node and the Active pass writes Complete. Then the Complete pass's Update fails with a non-conflict error, which leaves `soc.s` empty, and `reapplyUpdate`'s Get by the empty name fails. Nothing requeues the sensor, so the finished run is never counted. The log line at `operator.go:228` and spec section 5 say such a write is re-applied and retried. |
| `sensor_unprovisioned` | The sensor goes Active with no Deployment or Service. |
| `sensor_node_revert` | `NodePhasesForward` fails in four steps. The New pass creates the Deployment, but the Service Create fails, so it persists the initialized nodes and requeues. The pod completes `d1`. The informer syncs, and the retried New pass marks `d1` Active again. |

`PROJECT.json` records the findings each violation run supports.

More observations were made while modelling. They are kept as hazards or notes rather than runs:
- The AMQP and NATS executors return the zero `ValidEventSource`, so `IsValid` is false even for a config they accept. The gateway client reads only the error, so this changes nothing.
- A retried New pass appends the default env vars again. The env list is abstracted away.
- A trigger named like a dependency shares its node. With `Dependencies = {t1}` and `Triggers = {t1}`, `CompleteOnlyWhenAllFired` fails. Spec section 9 makes unique names a documented constraint on callers.
- `Hasher(key + value)` hashes the plain concatenation, so `"a"+"bc"` and `"ab"+"c"` get one identity, and `configs[hashKey]` keeps only one of the two sources. Spec section 3 prescribes exactly this identity, and such a pair of configmap entries is implausible. `ManageEventSources` still models the map keeping either entry (`winner`).
- Spec section 5 retries a conflicting write by overlaying the status on the latest version. The code drops it (`operator.go:226`) and relies on the watch to bring the controller back. `sensor_conflicts` shows this still counts every finished run.
- The periodic informer resync, configured outside `src/`, would bring back a sensor whose write was lost in `sensor_update_lost`. The model has no resync, so the run shows what the controller itself does.

Every property of a passing run has a mutant in `PROJECT.json`: an operator of the code's shape with a plausible bug, which TLC finds violating the property. The mutants are:
- a diff with no swap;
- a diff that starts every source;
- a missing `Cancel`;
- a Recv loop that ignores errors;
- an AMQP validator without the routing-key check;
- a re-run that keeps the phase;
- an Active pass that checks only dependencies;
- a Complete pass that re-runs without `CompletionCount + 1` (it breaks the refinement);
- a Complete pass that never sets `soc.updated`, so the re-run is never written (it breaks `RunEventuallyCounted`).

## Bounds

Every bound is a named constant.

**Gateway:**
- One configmap edit can remove, add and change sources at once; the re-add run takes two edits.
- The identities come from two keys and two values.
- One broken connection hits every goroutine step.
- One crash covers the restart after the dial panic.

**Sensor:**
- Three dependencies and two triggers cover the order of node completions, with stale copies and pod writes interleaved, and triggers waiting on dependencies.
- Three runs cover repeated re-runs and the count.
- The violation runs keep two dependencies, or one, for short counterexamples.
- The passing gateway run keeps one edit, and it must. Two edits can remove a source and declare it again, and then `DeclaredSourcesServed` fails (`gateway_readd`). Any liveness property that says every declared source eventually runs fails the same way. So no such property is claimed: one edit would only hide that bug. `SingleWorkerPerSource` and `UndeclaredWorkersCancelled` also hold over two edits (12 s, 237,984 states). `CancelledWorkerExits` at two edits has 8 connection ids, each with its own fairness conjunct, and takes about 9 minutes.

**Validators:** every field subset is enumerated.

**SourceDiff:** four identities give every overlap of the two sets in every order.

## Fairness

- `Gateway` assumes weak fairness of `ManageEventSources`: the watch handler eventually runs on a pending notification.
- It also assumes weak fairness, per connection, of the goroutine's steps without a server fault (`Progress`). The Go scheduler runs a runnable goroutine. A gRPC call returns: with the server's answer, or with an error on a cancelled context or a closed connection. Server faults, broken connections, edits and restarts stay possible but are never forced.
- `Sensor`'s `LiveSpec` assumes weak fairness of `Operate`, `InformerSync` and `ReapplyUpdate`:
  - the controller's worker takes a queued key;
  - the shared informer eventually delivers every write and enqueues the key;
  - the backoff loop takes its next step.

  client-go's informer and work queue give these guarantees.
- No fairness is assumed for the API server's answers, for the configmap or for the sensor pod.

## Deadlock checking

The gateway and sensor runs set `CHECK_DEADLOCK FALSE`, because those systems really do idle:
- the gateway once all goroutines have returned and no edit is pending;
- the sensor once the pod stops at `MaxRuns` and every pass is done.

The validator and diff runs always have a next config to take, so they check deadlock.

## Not modelled

- The consumer of `StatusCh`. It is outside `src/`, and sends are taken as received.
- Event dispatch (`DispatchEvent`), which changes no state.
- Labels, annotations, timestamps and messages that `markSensorPhase` and `markNodePhase` set.
- Deployment and Service contents.
- The generated deep copy.
- The unit tests.

## Plan for later sittings

1. A model of the `StatusCh` consumer, if its code comes under `src/`, to check the unbuffered-channel deadlock.
2. `CancelledWorkerExits` over two edits. This needs a cheaper statement of the per-connection fairness.
3. A liveness property for the New phase. It holds only if the Deployment and Service Creates eventually succeed. That assumes fairness of the API server's answers, which nothing in the code guarantees, so it is not stated. (`RunEventuallyCounted` covers the progress that the controller, informer and work queue do guarantee.)
