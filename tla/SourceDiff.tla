----------------------------- MODULE SourceDiff -----------------------------
(***************************************************************************)
(* GatewayConfig.diffEventSources (src/gateways/config.go).               *)
(*                                                                         *)
(* The registry keys and the keys of the freshly built configuration are  *)
(* collected into slices in Go map-iteration order; a nested linear scan  *)
(* then emits every current key that is missing from the updated keys     *)
(* (stale), swaps the two slices and repeats the scan (new).  The scan is *)
(* translated as a recursion over the slice, so its result is a sequence  *)
(* in the order the Go code appends to it.                                 *)
(***************************************************************************)
EXTENDS Sequences, SequencesExt

\* The inner `for _, uc := range updatedConfigKeys` loop with its `found`
\* flag and the `if !found` append, folded over the outer loop on cur.
RECURSIVE Missing(_, _)
Missing(cur, upd) ==
    IF cur = <<>> THEN <<>>
    ELSE (IF Contains(upd, Head(cur)) THEN <<>> ELSE <<Head(cur)>>)
           \o Missing(Tail(cur), upd)

\* Mutants of diffEventSources: the slices are never swapped, so the second
\* round repeats the first.
diffEventSourcesNoSwap(currentKeys, updatedKeys) ==
    [stale |-> Missing(currentKeys, updatedKeys),
     new   |-> Missing(currentKeys, updatedKeys)]

\* The `found` test dropped in the second round: every updated key is new.
diffEventSourcesAllNew(currentKeys, updatedKeys) ==
    [stale |-> Missing(currentKeys, updatedKeys),
     new   |-> updatedKeys]

\* The two rounds of the outer loop: first pass over the current keys fills
\* staleConfigKeys, then the slices are swapped and newConfigKeys is filled.
diffEventSources(currentKeys, updatedKeys) ==
    [stale |-> Missing(currentKeys, updatedKeys),
     new   |-> Missing(updatedKeys, currentKeys)]

=============================================================================
