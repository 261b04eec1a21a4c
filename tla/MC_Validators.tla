---------------------------- MODULE MC_Validators ----------------------------
(***************************************************************************)
(* Validates one event source config after another, as the gateway server  *)
(* does for each source a worker announces, and compares each verdict     *)
(* with the executor contract.                                             *)
(***************************************************************************)
EXTENDS Validators

VARIABLE es
vars == <<es>>

Init == es \in EventSources

\* The next source to validate may carry any config.
Next == es' \in EventSources

Spec == Init /\ [][Next]_vars

\* Each executor rejects a config with exactly the error kind the contract
\* gives it: a parse failure for a malformed config, a validation error for
\* an empty one, a missing required field or an unknown S3 event, and no
\* error otherwise, whatever order its early returns check things in.
VerdictMatchesContract ==
    ErrorKind(ValidateEventSource(es).err) = ExpectedKind(es)

=============================================================================
