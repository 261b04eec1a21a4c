----------------------------- MODULE MC_Gateway -----------------------------
(***************************************************************************)
(* Two event sources; source "a" is declared with a config the gateway    *)
(* server accepts or with one it rejects, so that editing its value       *)
(* changes its identity.  Which configs the server accepts is computed by *)
(* the AMQP executor of the Validators module.                             *)
(***************************************************************************)
EXTENDS Gateway

MCKeys == {"a", "b"}
MCValues == {"x", "y"}
MCDefinitions == {<<"a", "x">>, <<"a", "y">>, <<"b", "x">>}
\* The gateway server behind the client is the AMQP gateway: its executor is
\* the Validators module.  parseEventSource (yaml.Unmarshal, outside src/)
\* makes of "x" a config with every field set and of "y" one without its
\* routing key.
Executor == INSTANCE Validators WITH Events <- {""}, KnownEvents <- {}

MCParsed ==
    [x |-> [kind |-> "amqp", parse |-> "parsed", present |-> Executor!AMQPFields,
            event |-> ""],
     y |-> [kind |-> "amqp", parse |-> "parsed",
            present |-> Executor!AMQPFields \ {"routingKey"}, event |-> ""]]

\* The client's goroutine treats any error from ValidateEventSource as an
\* invalid source and ignores IsValid.
MCValidValues == {v \in MCValues : Executor!ValidateEventSource(MCParsed[v]).err = "nil"}

=============================================================================
