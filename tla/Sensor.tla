------------------------------- MODULE Sensor -------------------------------
(***************************************************************************)
(* The sensor controller's operation on one Sensor resource,              *)
(* src/controllers/sensor/operator.go.                                     *)
(*                                                                         *)
(* A pass (sOperationCtx.operate) works on a deep copy of the Sensor read *)
(* from the informer cache, switches on its phase, and in its deferred    *)
(* persistUpdates writes the whole object back with an optimistic-        *)
(* concurrency Update.  A failed Update leaves soc.s the empty Sensor the *)
(* generated client returns, so reapplyUpdate, entered on a non-conflict  *)
(* error, Gets by an empty name, fails at once and writes nothing.  The   *)
(* sensor pod is the other writer of the resource: it marks nodes         *)
(* complete as events arrive (outside src/, modelled from the spec).      *)
(*                                                                         *)
(* resourceVersion is abstracted to cacheFresh: whether the cached copy   *)
(* is still the latest version in the store.  Node IDs are the node       *)
(* names (NodeID hashes the name).                                         *)
(***************************************************************************)
EXTENDS Naturals, FiniteSets, TLC

CONSTANTS
    Dependencies,  \* names of Spec.EventDependencies
    Triggers,      \* names of Spec.Triggers
    MaxRuns,       \* bound on completed runs: the pod stops after MaxRuns
    TransientErrors \* the API server may fail an Update with a non-conflict error

ASSUME MaxRuns \in Nat /\ TransientErrors \in BOOLEAN

Phases == {"New", "Active", "Complete", "Error"}
NodeNames == Dependencies \cup Triggers
NodeTypes == {"EventDependency", "Trigger"}
Node == [type : NodeTypes, phase : {"New", "Active", "Complete"}]

\* The part of a Sensor the operation reads and writes: its status (phase,
\* nodes, completion count).
Sensors == [phase : Phases, nodes : UNION {[D -> Node] : D \in SUBSET NodeNames},
            count : 0 .. MaxRuns]

VARIABLES
    store,       \* the Sensor in the API server
    cache,       \* the informer's copy, from which a pass starts
    cacheFresh,  \* no write to the store since cache was synced
    queued,      \* the sensor key is in the work queue
    valid,       \* result of ValidateSensor on the (fixed) spec
    deployed,    \* the sensor Deployment exists
    serviced,    \* the sensor Service exists
    pc,          \* "idle", or "reapply" inside reapplyUpdate's backoff
    local        \* soc.s: the object the current pass computed

vars == <<store, cache, cacheFresh, queued, valid, deployed, serviced, pc,
          local>>

\* &v1alpha1.Sensor{}: what sensorClient.Update returns with an error; its
\* Name is empty.
EmptySensor == [phase |-> "", nodes |-> <<>>, count |-> 0]

TypeOK ==
    /\ store \in Sensors /\ cache \in Sensors /\ local \in Sensors \cup {EmptySensor}
    /\ {cacheFresh, queued, valid, deployed, serviced} \subseteq BOOLEAN
    /\ pc \in {"idle", "reapply"}

NewSensor == [phase |-> "New", nodes |-> <<>>, count |-> 0]

Init ==
    /\ store = NewSensor
    /\ cache = store
    /\ cacheFresh = TRUE
    /\ queued = TRUE
    /\ valid \in BOOLEAN
    /\ deployed = FALSE
    /\ serviced = FALSE
    /\ pc = "idle"
    /\ local = store

-----------------------------------------------------------------------------
(* Helpers of sOperationCtx.                                               *)

\* initializeNode for every name: a name whose NodeID is already in
\* Status.Nodes keeps its node, the others get a node in phase New.
InitializeNodes(nodes, names, type) ==
    nodes @@ [n \in names \ DOMAIN nodes |-> [type |-> type, phase |-> "New"]]

\* markNodePhase(name, Active) for every dependency name.
MarkNodesActive(nodes, names) ==
    [n \in DOMAIN nodes |->
        IF n \in names THEN [nodes[n] EXCEPT !.phase = "Active"] ELSE nodes[n]]

\* markSensorPhase: a change of phase sets soc.updated (with the labels,
\* annotations and timestamps, not modelled).
markSensorPhase(s, phase) == [s EXCEPT !.phase = phase]

\* Sensor.AreAllNodesSuccess(type): every node of that type in Status.Nodes
\* is complete (outside src/, from the spec).
AreAllNodesSuccess(s, type) ==
    \A n \in DOMAIN s.nodes : s.nodes[n].type = type => s.nodes[n].phase = "Complete"

\* What a Get-then-Create of a Deployment or Service returns when the
\* object is absent: it is created, the Create fails, or the Get fails
\* with an error other than NotFound and no Create is attempted.
ProvisionOutcomes(exists) ==
    IF exists THEN {"exists"} ELSE {"created", "createFailed", "getFailed"}

-----------------------------------------------------------------------------
(* persistUpdates, deferred at the start of operate, ends every pass.      *)

\* soc.s, err = sensorClient.Update(soc.s): it succeeds when the cached copy
\* was the latest version; on any error soc.s becomes the empty Sensor, a
\* conflict returns, any other error enters reapplyUpdate.  operate's
\* returned error requeues the key.
PersistUpdates(obj, updated, requeue) ==
    /\ queued' = requeue
    /\ \/ /\ ~updated
          /\ local' = obj
          /\ pc' = "idle"
          /\ UNCHANGED <<store, cacheFresh>>
       \/ /\ updated /\ cacheFresh
          /\ store' = obj
          /\ cacheFresh' = FALSE
          /\ local' = obj
          /\ pc' = "idle"
       \/ /\ updated /\ ~cacheFresh      \* errors.IsConflict: return
          /\ local' = EmptySensor
          /\ pc' = "idle"
          /\ UNCHANGED <<store, cacheFresh>>
       \/ /\ updated /\ TransientErrors   \* another error: reapplyUpdate
          /\ local' = EmptySensor
          /\ pc' = "reapply"
          /\ UNCHANGED <<store, cacheFresh>>

-----------------------------------------------------------------------------
(* operate(), one action per phase of the switch.                          *)

\* The New case.  The default env vars appended to the pod spec ride along
\* in the persisted object and are not modelled.
OperateNew ==
    /\ cache.phase = "New"
    /\ IF ~valid
       THEN \* markSensorPhase(Error, true, err): no requeue
            /\ PersistUpdates(markSensorPhase(cache, "Error"), TRUE, FALSE)
            /\ UNCHANGED <<deployed, serviced>>
       ELSE
       LET nodes  == InitializeNodes(InitializeNodes(cache.nodes, Dependencies,
                                      "EventDependency"), Triggers, "Trigger")
           added  == DOMAIN nodes # DOMAIN cache.nodes
           inited == [cache EXCEPT !.nodes = nodes]
           active == markSensorPhase([inited EXCEPT
                               !.nodes = MarkNodesActive(nodes, Dependencies)], "Active")
       IN \E dep \in ProvisionOutcomes(deployed), svc \in ProvisionOutcomes(serviced) :
          /\ deployed' = (deployed \/ dep = "created")
          /\ IF dep = "createFailed"
             THEN /\ UNCHANGED serviced
                  /\ PersistUpdates(inited, added, TRUE)
             ELSE /\ serviced' = (serviced \/ svc = "created")
                  /\ IF svc = "createFailed"
                     THEN PersistUpdates(inited, added, TRUE)
                     ELSE PersistUpdates(active, TRUE, FALSE)

\* Mutant of OperateActive: only the dependency nodes are checked.
OperateActiveDepsOnly ==
    /\ cache.phase = "Active"
    /\ LET done == AreAllNodesSuccess(cache, "EventDependency")
       IN PersistUpdates(IF done THEN markSensorPhase(cache, "Complete") ELSE cache,
                         done, FALSE)
    /\ UNCHANGED <<deployed, serviced>>

\* All dependency and trigger nodes complete: markSensorPhase(Complete).
OperateActive ==
    /\ cache.phase = "Active"
    /\ LET done == /\ AreAllNodesSuccess(cache, "EventDependency")
                   /\ AreAllNodesSuccess(cache, "Trigger")
       IN PersistUpdates(IF done THEN markSensorPhase(cache, "Complete") ELSE cache,
                         done, FALSE)
    /\ UNCHANGED <<deployed, serviced>>

OperateError ==
    /\ cache.phase = "Error"
    /\ PersistUpdates(cache, FALSE, FALSE)
    /\ UNCHANGED <<deployed, serviced>>

\* Mutant of reRunSensor: the markSensorPhase(New) call is left out.
reRunSensorPhaseKept(s) == [s EXCEPT !.nodes = <<>>]

\* CompletionCount + 1, then reRunSensor: empty Status.Nodes, phase New.
reRunSensor(s) == markSensorPhase([s EXCEPT !.nodes = <<>>], "New")

\* Mutant of OperateComplete: CompletionCount + 1 is left out.
OperateCompleteUncounted ==
    /\ cache.phase = "Complete"
    /\ PersistUpdates(reRunSensor(cache), TRUE, FALSE)
    /\ UNCHANGED <<deployed, serviced>>

\* Mutant of OperateComplete: the re-run is computed but soc.updated is
\* never set, so persistUpdates returns without writing.
OperateCompleteNotPersisted ==
    /\ cache.phase = "Complete"
    /\ PersistUpdates(reRunSensor([cache EXCEPT !.count = @ + 1]), FALSE, FALSE)
    /\ UNCHANGED <<deployed, serviced>>

OperateComplete ==
    /\ cache.phase = "Complete"
    /\ PersistUpdates(reRunSensor([cache EXCEPT !.count = @ + 1]), TRUE, FALSE)
    /\ UNCHANGED <<deployed, serviced>>

\* The controller takes the key off its queue and operates on the cached copy.
Operate ==
    /\ pc = "idle"
    /\ queued
    /\ \/ OperateNew
       \/ OperateActive
       \/ OperateError
       \/ OperateComplete
    /\ UNCHANGED <<cache, valid>>

\* reapplyUpdate's wait.ExponentialBackoff: its first step Gets soc.s.Name,
\* empty after the failed Update, so the Get fails, the backoff returns the
\* error and persistUpdates gives up without a write.
ReapplyUpdate ==
    /\ pc = "reapply"
    /\ local = EmptySensor
    /\ pc' = "idle"
    /\ UNCHANGED <<store, cache, cacheFresh, queued, valid, deployed, serviced,
                   local>>

-----------------------------------------------------------------------------
(* The environment: the informer and the sensor pod (outside src/).        *)

\* The watch delivers the latest version to the cache, then enqueues the key.
InformerSync ==
    /\ ~cacheFresh
    /\ cache' = store
    /\ cacheFresh' = TRUE
    /\ queued' = TRUE
    /\ UNCHANGED <<store, valid, deployed, serviced, pc, local>>

\* The sensor pod records an event of a dependency, or a fired trigger once
\* every dependency is resolved, by completing its node.
PodCompletesNode(n) ==
    /\ deployed
    /\ store.count < MaxRuns
    /\ n \in DOMAIN store.nodes
    /\ store.nodes[n].phase # "Complete"
    /\ store.nodes[n].type = "EventDependency" \/ AreAllNodesSuccess(store, "EventDependency")
    /\ store' = [store EXCEPT !.nodes[n].phase = "Complete"]
    /\ cacheFresh' = FALSE
    /\ UNCHANGED <<cache, queued, valid, deployed, serviced, pc, local>>

Next ==
    \/ Operate
    \/ ReapplyUpdate
    \/ InformerSync
    \/ \E n \in NodeNames : PodCompletesNode(n)

Spec == Init /\ [][Next]_vars

-----------------------------------------------------------------------------
(* Properties.                                                             *)

\* A persisted Complete means the run really finished: every declared
\* dependency has a completed node and every declared trigger a completed
\* trigger node, whatever interleaving of pod writes, stale cache reads,
\* conflicts and re-applied updates led there.
CompleteOnlyWhenAllFired ==
    store.phase = "Complete" =>
        /\ \A d \in Dependencies :
              d \in DOMAIN store.nodes /\ store.nodes[d].phase = "Complete"
        /\ \A t \in Triggers :
              /\ t \in DOMAIN store.nodes
              /\ store.nodes[t].type = "Trigger"
              /\ store.nodes[t].phase = "Complete"

\* The controller's worker takes the key whenever it is queued, the watch
\* eventually delivers every write, and the backoff loop eventually takes
\* its next step: client-go's informer and work queue guarantee these.
\* Nothing is assumed of the sensor pod or of the API server's answers.
LiveSpec ==
    /\ Spec
    /\ WF_vars(Operate)
    /\ WF_vars(InformerSync)
    /\ WF_vars(ReapplyUpdate)

\* The abstract lifecycle, seen through the Sensor in the API server.
Lifecycle == INSTANCE SensorLifecycle WITH phase <- store.phase, count <- store.count

\* The Sensor as the API server holds it implements the abstract lifecycle:
\* its phase moves New -> Active -> Complete -> New or New -> Error, and
\* CompletionCount goes up by exactly one with each re-run and never
\* otherwise, whatever the stale copies, dropped conflicts and pod writes
\* in between.
ImplementsLifecycle == Lifecycle!Spec

\* In the store, every declared dependency and trigger has completed and
\* the sensor is past New.
RunFinished ==
    /\ store.phase \in {"Active", "Complete"}
    /\ NodeNames \subseteq DOMAIN store.nodes
    /\ \A n \in NodeNames : store.nodes[n].phase = "Complete"

\* A finished run is eventually counted and the sensor re-run: a write of
\* the Complete phase or of the re-run that loses a version conflict is
\* dropped by persistUpdates, and only the watch re-delivering the newer
\* version brings the controller back to it.
RunEventuallyCounted ==
    \A k \in 0 .. MaxRuns - 1 :
        (RunFinished /\ store.count = k) ~> (store.phase = "New" /\ store.count = k + 1)

\* The order of node phases.
NodeRank == [New |-> 0, Active |-> 1, Complete |-> 2]

-----------------------------------------------------------------------------
(* What the code does against its spec or its own intent; each is checked *)
(* by a run that expects a violation.                                      *)

\* Spec 4.4: the New pass provisions the Deployment and Service the sensor
\* needs to receive events before marking it Active.  A Get failing with an
\* error other than NotFound skips the Create and the pass goes on.
ActiveImpliesProvisioned ==
    store.phase = "Active" => deployed /\ serviced

\* Within one run, nodes are append-only and a node's phase only moves
\* forward, New -> Active -> Complete (spec section 3); only the re-run,
\* which counts the run, clears them.  The pod may complete a node while a
\* New pass is retried after a failed Create; the retried pass marks every
\* dependency node Active again.
NodePhasesForward ==
    [][store'.count = store.count =>
         \A n \in DOMAIN store.nodes :
            /\ n \in DOMAIN store'.nodes
            /\ NodeRank[store'.nodes[n].phase] >= NodeRank[store.nodes[n].phase]]_store

=============================================================================
