------------------------------- MODULE Gateway -------------------------------
(***************************************************************************)
(* The gateway client of src/gateways/config.go: GatewayConfig keeps the  *)
(* registry of running event sources (registeredConfigs) and reconciles   *)
(* it with the gateway configmap in manageEventSources; every started     *)
(* event source runs as its own goroutine (the func literal in            *)
(* startEventSources) that checks its gRPC connection, validates the      *)
(* source, reports Running and reads the event stream, sending every      *)
(* status transition on the unbuffered StatusCh.                          *)
(*                                                                         *)
(* Each EventSourceContext owns one gRPC connection and one cancellable   *)
(* context, created together in createInternalEventSources; a connection  *)
(* number therefore names the context, the connection and the goroutine   *)
(* started for it.                                                         *)
(***************************************************************************)
EXTENDS Integers, Sequences, SequencesExt, FiniteSets, SourceDiff

CONSTANTS
    Keys,         \* configmap keys (event source names), as strings
    Values,       \* configmap values (raw event source configs), as strings
    Definitions,  \* the <<key, value>> entries a configmap may hold
    ValidValues,  \* the configs the gateway server's ValidateEventSource accepts
    MaxUpdates,   \* bound on configmap changes delivered by the watch
    MaxCrashes,   \* bound on process restarts after the dial panic
    MaxConnFailures \* bound on connections breaking under a goroutine

ASSUME /\ Definitions \subseteq Keys \X Values
       /\ ValidValues \subseteq Values
       /\ {MaxUpdates, MaxCrashes, MaxConnFailures} \subseteq Nat

\* Hasher(configKey + configValue): the hash is taken as injective on the
\* concatenated string, so the identity is the concatenation itself.
Identity(key, value) == key \o value

\* Configmap data: a map from keys to values, built from Definitions.
ConfigMaps ==
    {m \in UNION {[D -> Values] : D \in SUBSET Keys} :
        \A k \in DOMAIN m : <<k, m[k]>> \in Definitions}

\* Connection numbers: every manageEventSources call dials one connection per
\* configmap entry.
MaxConns == (MaxUpdates + MaxCrashes + 1) * Cardinality(Keys)
ConnIds == 1 .. MaxConns

ConnStates == {"ready", "failed", "closed"}
WorkerPcs == {"check", "validate", "announce", "start", "recv", "exited"}
Phases == {"Error", "Running", "Completed", "Remove"}

VARIABLES
    cm,          \* data of the gateway configmap in the store
    pending,     \* a watch notification for cm has not been handled yet
    registered,  \* registeredConfigs: identity -> [src, config, conn]
    conns,       \* state of every dialled gRPC connection, by number
    cancelled,   \* connections whose context Cancel has been called
    workers,     \* goroutine per started connection: [id, pc]
    statuses,    \* EventSourceStatus phases sent on StatusCh, per connection
    updates,     \* configmap changes so far
    crashes,     \* process restarts so far
    failures     \* connections broken so far

vars == <<cm, pending, registered, conns, cancelled, workers, statuses,
          updates, crashes, failures>>

DeclaredIds(m) == {Identity(k, m[k]) : k \in DOMAIN m}

Live(c) == c \in DOMAIN workers /\ workers[c].pc # "exited"

Init ==
    /\ cm \in ConfigMaps
    /\ pending = TRUE
    /\ registered = <<>>
    /\ conns = <<>>
    /\ cancelled = {}
    /\ workers = <<>>
    /\ statuses = <<>>
    /\ updates = 0
    /\ crashes = 0
    /\ failures = 0

-----------------------------------------------------------------------------
(* The environment: the configmap is edited, a connection breaks.          *)

UpdateConfigMap ==
    /\ updates < MaxUpdates
    /\ \E m \in ConfigMaps \ {cm} :
          /\ cm' = m
          /\ pending' = TRUE
          /\ updates' = updates + 1
    /\ UNCHANGED <<registered, conns, cancelled, workers, statuses, crashes,
                   failures>>

ConnectionFails(c) ==
    /\ Live(c)
    /\ conns[c] = "ready"
    /\ failures < MaxConnFailures
    /\ conns' = [conns EXCEPT ![c] = "failed"]
    /\ failures' = failures + 1
    /\ UNCHANGED <<cm, pending, registered, cancelled, workers, statuses,
                   updates, crashes>>

-----------------------------------------------------------------------------
(* manageEventSources(cm): createInternalEventSources, diffEventSources,  *)
(* stopEventSources(stale), startEventSources(new), as one call of the    *)
(* watch handler.  Each function is an operator on the state it changes.  *)

\* createInternalEventSources: one context and connection per configmap
\* entry, numbered base+1.. in dial order defSeq; configs[hashKey] keeps,
\* of two entries with one hash, the one the map iteration reaches last
\* (winner).
createInternalEventSources(winner, base, defSeq) ==
    [i \in DOMAIN winner |->
        [src    |-> winner[i][1],
         config |-> winner[i][2],
         conn   |-> base + CHOOSE n \in 1 .. Len(defSeq) : defSeq[n] = winner[i]]]

\* Mutant of CancelStale: the Cancel() call is left out.
CancelStaleSkipped(cset, staleConns) == cset

\* eventSource.Cancel() of stopEventSources, for every stale source.
CancelStale(cset, staleConns) == cset \cup staleConns

\* stopEventSources, StatusCh <- Remove: one Remove per stale source, sent
\* by the manager itself; the fresh connections get an empty log.
StopStatuses(st, staleConns, total) ==
    [c \in 1 .. total |->
        IF c \notin DOMAIN st THEN <<>>
        ELSE IF c \in staleConns THEN Append(st[c], "Remove") ELSE st[c]]

\* stopEventSources, Conn.Close() of every stale source; the connections
\* just dialled by createInternalEventSources are ready.
CloseStale(cs, staleConns, total) ==
    [c \in 1 .. total |->
        IF c \notin DOMAIN cs THEN "ready"
        ELSE IF c \in staleConns THEN "closed" ELSE cs[c]]

\* startEventSources: registeredConfigs[key] = eventSource for the new keys;
\* nothing ever deletes a key.
Register(reg, configs, new) ==
    [i \in DOMAIN reg \cup new |-> IF i \in new THEN configs[i] ELSE reg[i]]

\* startEventSources, go func(): one goroutine per new key, on its context.
SpawnWorkers(ws, configs, new) ==
    ws @@ [c \in {configs[i].conn : i \in new} |->
              [id |-> CHOOSE i \in new : configs[i].conn = c, pc |-> "check"]]

ManageEventSources ==
    /\ pending
    /\ LET defs   == {<<k, cm[k]>> : k \in DOMAIN cm}
           defSeq == SetToSeq(defs)             \* dial order
           base   == Len(conns)
           total  == base + Len(defSeq)
           ids    == DeclaredIds(cm)
       IN \E winner \in [ids -> defs] :
          /\ \A i \in ids : Identity(winner[i][1], winner[i][2]) = i
          /\ LET configs    == createInternalEventSources(winner, base, defSeq)
                 d          == diffEventSources(SetToSeq(DOMAIN registered),
                                                SetToSeq(ids))
                 new        == ToSet(d.new)
                 staleConns == {registered[i].conn : i \in ToSet(d.stale)}
             IN /\ statuses'   = StopStatuses(statuses, staleConns, total)
                /\ cancelled'  = CancelStale(cancelled, staleConns)
                /\ conns'      = CloseStale(conns, staleConns, total)
                /\ registered' = Register(registered, configs, new)
                /\ workers'    = SpawnWorkers(workers, configs, new)
    /\ pending' = FALSE
    /\ UNCHANGED <<cm, updates, crashes, failures>>

\* grpc.DialContext with WithBlock does not reach the server within
\* ServerConnTimeout: Log.Panic ends the process; it is restarted with an
\* empty registry, its goroutines and connections gone, and the watch
\* delivers the configmap again.
DialFailsAndRestart ==
    /\ pending
    /\ cm # <<>>
    /\ crashes < MaxCrashes
    /\ registered' = <<>>
    /\ conns' = [c \in DOMAIN conns |-> "closed"]
    /\ workers' = [c \in DOMAIN workers |-> [workers[c] EXCEPT !.pc = "exited"]]
    /\ crashes' = crashes + 1
    /\ UNCHANGED <<cm, pending, cancelled, statuses, updates, failures>>

-----------------------------------------------------------------------------
(* The goroutine of startEventSources, for the context on connection c.    *)

Send(c, phase) == statuses' = [statuses EXCEPT ![c] = Append(@, phase)]

Goto(c, pc) == workers' = [workers EXCEPT ![c].pc = pc]

Exit(c, phase) == Send(c, phase) /\ Goto(c, "exited")

Config(c) == registered[workers[c].id].config

\* The RPC fails on its own (server fault) or because the context was
\* cancelled or the connection is not usable.
Interrupted(c) == c \in cancelled \/ conns[c] # "ready"

\* if eventSource.Conn.GetState() != connectivity.Ready: send Error, return
CheckConnection(c) ==
    /\ workers[c].pc = "check"
    /\ IF conns[c] = "ready" THEN Goto(c, "validate") /\ UNCHANGED statuses
                             ELSE Exit(c, "Error")
    /\ UNCHANGED <<cm, pending, registered, conns, cancelled, updates, crashes,
                   failures>>

\* ValidateEventSource: on error close the connection, send Error, return.
ValidateEventSource(c) ==
    /\ workers[c].pc = "validate"
    /\ \/ /\ ~Interrupted(c)
          /\ Config(c) \in ValidValues
          /\ Goto(c, "announce")
          /\ UNCHANGED <<conns, statuses>>
       \/ /\ \/ Interrupted(c)
             \/ Config(c) \notin ValidValues
          /\ conns' = [conns EXCEPT ![c] = "closed"]
          /\ Exit(c, "Error")
    /\ UNCHANGED <<cm, pending, registered, cancelled, updates, crashes,
                   failures>>

\* mark event source as running
AnnounceRunning(c) ==
    /\ workers[c].pc = "announce"
    /\ Send(c, "Running")
    /\ Goto(c, "start")
    /\ UNCHANGED <<cm, pending, registered, conns, cancelled, updates, crashes,
                   failures>>

\* StartEventSource: a stream, or an error (the server refuses, or the
\* context is cancelled): send Error, return.
StartEventSource(c, serverFault) ==
    /\ workers[c].pc = "start"
    /\ IF Interrupted(c) \/ serverFault THEN Exit(c, "Error")
                                        ELSE Goto(c, "recv") /\ UNCHANGED statuses
    /\ UNCHANGED <<cm, pending, registered, conns, cancelled, updates, crashes,
                   failures>>

\* Mutant of RecvEnds: a non-EOF error continues the receive loop.
RecvEndsContinuing(c, serverFault) ==
    /\ workers[c].pc = "recv"
    /\ serverFault /\ ~Interrupted(c)
    /\ Exit(c, "Completed")
    /\ UNCHANGED <<cm, pending, registered, conns, cancelled, updates, crashes,
                   failures>>

\* eventStream.Recv() returns an error: io.EOF when the server ends the
\* stream (Completed), any other error (Error), including the cancellation
\* of the context and the closing of the connection.  Received events are
\* dispatched without any change of state and are not modelled.
RecvEnds(c, serverFault) ==
    /\ workers[c].pc = "recv"
    /\ \/ /\ serverFault /\ ~Interrupted(c)
          /\ Exit(c, "Completed")
       \/ /\ serverFault \/ Interrupted(c)
          /\ Exit(c, "Error")
    /\ UNCHANGED <<cm, pending, registered, conns, cancelled, updates, crashes,
                   failures>>

Worker(c) ==
    \/ CheckConnection(c)
    \/ ValidateEventSource(c)
    \/ AnnounceRunning(c)
    \/ \E f \in BOOLEAN : StartEventSource(c, f)
    \/ \E f \in BOOLEAN : RecvEnds(c, f)

\* The steps of a goroutine without any fault of the gateway server: every
\* blocking call returns, with its answer or, once the context is cancelled
\* or the connection is unusable, with an error.
Progress(c) ==
    \/ CheckConnection(c)
    \/ ValidateEventSource(c)
    \/ AnnounceRunning(c)
    \/ StartEventSource(c, FALSE)
    \/ RecvEnds(c, FALSE)

Next ==
    \/ UpdateConfigMap
    \/ ManageEventSources
    \/ DialFailsAndRestart
    \/ \E c \in DOMAIN conns : ConnectionFails(c)
    \/ \E c \in DOMAIN workers : Worker(c)

\* The watch handler runs whenever a notification is pending, the gateway
\* server answers every call, and the Go scheduler runs a goroutine whose
\* blocking call has returned.  Edits, restarts, broken connections and
\* server faults are not forced to happen.
Fairness ==
    /\ WF_vars(ManageEventSources)
    /\ \A c \in ConnIds : WF_vars(c \in DOMAIN workers /\ Progress(c))

Spec == Init /\ [][Next]_vars /\ Fairness

-----------------------------------------------------------------------------
(* Properties.                                                             *)

\* At most one goroutine per event source: no identity ever has two live
\* goroutines, across any sequence of configmap edits, removals, re-adds and
\* restarts (spec 4.3, exactly one worker per ActiveSource).
SingleWorkerPerSource ==
    \A i \in DeclaredIds(cm) \cup DOMAIN registered :
        Cardinality({c \in DOMAIN workers : Live(c) /\ workers[c].id = i}) <= 1

\* Once the watch notification is handled, every goroutine still running for
\* an identity that the configmap no longer declares has had its context
\* cancelled by stopEventSources.
UndeclaredWorkersCancelled ==
    ~pending =>
        \A c \in DOMAIN workers :
            Live(c) /\ workers[c].id \notin DeclaredIds(cm) => c \in cancelled

\* A goroutine whose context is cancelled eventually returns: each of its
\* blocking calls observes the cancellation or the closed connection.
CancelledWorkerExits ==
    \A c \in ConnIds :
        [](c \in DOMAIN workers /\ c \in cancelled =>
             <>(c \in DOMAIN workers /\ workers[c].pc = "exited"))

-----------------------------------------------------------------------------
(* What the spec states of the gateway and the code does not do; each is  *)
(* checked by a run that expects a violation.                              *)

\* Spec 4.2/4.1: a source whose identity disappears from the configmap is
\* torn down, one that appears is stood up.  So once a notification is
\* handled, every declared source has a registered, uncancelled context.
\* stopEventSources cancels a stale source but never deletes it from
\* registeredConfigs, so a source removed and declared again stays stopped.
DeclaredSourcesServed ==
    ~pending =>
        \A i \in DeclaredIds(cm) :
            i \in DOMAIN registered /\ registered[i].conn \notin cancelled

\* Spec 3 and 4.3: Completed, Error and Removed are terminal, the worker
\* exits after one of them, and cancelling a worker already in Completed or
\* Error is a no-op.  So a source reports at most one terminal status.  In
\* the code the two senders do not coordinate.  stopEventSources sends
\* Remove whatever the goroutine's state, even after it has sent Error or
\* Completed and returned.  The goroutine ignores the cancellation, so its
\* pending call fails and it sends Error after the manager's Remove.
TerminalPhases == {"Error", "Completed", "Remove"}

OneTerminalStatus ==
    \A c \in DOMAIN statuses :
        Cardinality({n \in DOMAIN statuses[c] : statuses[c][n] \in TerminalPhases}) <= 1

\* Spec 3: an ActiveSource owns its connection and is destroyed with it.
\* So every connection that is not closed belongs to a registered source.
\* createInternalEventSources dials a connection for every configmap entry,
\* and the entries already registered are dropped with their connection
\* and context still open.
NoLeakedConnection ==
    \A c \in DOMAIN conns :
        conns[c] # "closed" =>
            \E i \in DOMAIN registered : registered[i].conn = c

=============================================================================
