---------------------------- MODULE MC_SourceDiff ----------------------------
(***************************************************************************)
(* Checks diffEventSources against the set difference it should compute,  *)
(* over every pair of key slices a Go map iteration can produce from a    *)
(* small set of identities (each key once, in any order).                  *)
(***************************************************************************)
EXTENDS SourceDiff, FiniteSets

CONSTANT Ids

\* Every slice holding each key of some subset of Ids once, in any order.
KeySlices == UNION {SetToSeqs(S) : S \in SUBSET Ids}

VARIABLES current, updated
vars == <<current, updated>>

\* The first configmap: nothing registered yet.
Init == /\ current = <<>>
        /\ updated \in KeySlices

\* The next configmap: the keys of the previous one are now the current
\* keys, in whatever order the map iteration yields them, and any slice
\* of identities may be declared.
Next == /\ current' \in SetToSeqs(ToSet(updated))
        /\ updated' \in KeySlices

Spec == Init /\ [][Next]_vars

\* Diff completeness (spec 4.1 and 8): the stale keys are exactly C \ U, the
\* new keys exactly U \ C, and each key is emitted once, so a stale source is
\* stopped once and a new source started once by manageEventSources.
DiffIsSetDifference ==
    LET d == diffEventSources(current, updated)
        C == ToSet(current)
        U == ToSet(updated)
    IN /\ ToSet(d.stale) = C \ U
       /\ ToSet(d.new) = U \ C
       /\ Len(d.stale) = Cardinality(C \ U)
       /\ Len(d.new) = Cardinality(U \ C)

=============================================================================
