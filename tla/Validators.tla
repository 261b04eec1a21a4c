----------------------------- MODULE Validators -----------------------------
(***************************************************************************)
(* The ValidateEventSource executors of the S3 artifact, AMQP and NATS     *)
(* gateways, as pure operators.  A raw config is abstracted to what the    *)
(* checks read of it: the outcome of parseEventSource (yaml.Unmarshal into *)
(* the executor's struct, outside src/), the set of required fields that   *)
(* are set (non-nil pointer or non-empty string), and the S3 event name.   *)
(* A result is the ValidEventSource.IsValid flag and the error returned,   *)
(* named by the gateways package error it wraps ("nil" for no error).     *)
(***************************************************************************)
EXTENDS Sequences, FiniteSetsExt

CONSTANTS
    Events,        \* event names an S3 config may carry, "" among them
    KnownEvents    \* the minio notification event types

ParseOutcomes == {"parsed", "malformed", "null"}   \* "null": a nil struct

S3Fields   == {"s3EventConfig", "accessKey", "secretKey", "endpoint", "bucket"}
AMQPFields == {"url", "routingKey", "exchangeName", "exchangeType"}
NATSFields == {"url", "subject"}

EventSources ==
    [kind : {"s3"}, parse : ParseOutcomes, present : SUBSET S3Fields,
     event : Events]
    \cup [kind : {"amqp"}, parse : ParseOutcomes, present : SUBSET AMQPFields,
          event : {""}]
    \cup [kind : {"nats"}, parse : ParseOutcomes, present : SUBSET NATSFields,
          event : {""}]

\* A chain of `if <bad> { return err }` statements: the error of the first
\* check that fails, "nil" when all pass.
FirstFailure(checks) ==
    LET failing == {i \in DOMAIN checks : ~checks[i].ok}
    IN IF failing = {} THEN "nil" ELSE checks[Min(failing)].err

\* The conversion string -> minio.NotificationEventType keeps the bytes.
NotificationEventType(e) == e

\* S3ConfigExecutor.validate: the nil artifact, then each required field in
\* turn, then the event name.
s3validate(es) ==
    FirstFailure(<<
        [ok |-> es.parse # "null",                err |-> "ErrEmptyConfig"],
        [ok |-> "s3EventConfig" \in es.present, err |-> "ErrInvalidConfig"],
        [ok |-> "accessKey" \in es.present,     err |-> "ErrInvalidConfig"],
        [ok |-> "secretKey" \in es.present,     err |-> "ErrInvalidConfig"],
        [ok |-> "endpoint" \in es.present,      err |-> "ErrInvalidConfig"],
        [ok |-> "bucket" \in es.present,        err |-> "ErrInvalidConfig"],
        [ok |-> ~(es.event # "" /\ NotificationEventType(es.event) = ""),
         err |-> "ErrInvalidConfig"] >>)

ValidateS3(es) ==
    IF es.parse = "malformed"
    THEN [valid |-> FALSE, err |-> "ErrConfigParseFailed"]
    ELSE [valid |-> s3validate(es) = "nil", err |-> s3validate(es)]

\* Mutant of ValidateAMQP: the routing key check is left out.
ValidateAMQPNoRoutingKey(es) ==
    [valid |-> FALSE,
     err |-> IF es.parse = "malformed" THEN "ErrEventSourceParseFailed"
             ELSE FirstFailure(<<
                 [ok |-> es.parse # "null",             err |-> "ErrInvalidEventSource"],
                 [ok |-> "url" \in es.present,          err |-> "ErrInvalidEventSource"],
                 [ok |-> "exchangeName" \in es.present, err |-> "ErrInvalidEventSource"],
                 [ok |-> "exchangeType" \in es.present, err |-> "ErrInvalidEventSource"] >>)]

\* AMQPEventSourceExecutor.ValidateEventSource: v is the zero
\* ValidEventSource on every path, IsValid false even when err is nil.
ValidateAMQP(es) ==
    [valid |-> FALSE,
     err |-> IF es.parse = "malformed" THEN "ErrEventSourceParseFailed"
             ELSE FirstFailure(<<
                 [ok |-> es.parse # "null",             err |-> "ErrInvalidEventSource"],
                 [ok |-> "url" \in es.present,          err |-> "ErrInvalidEventSource"],
                 [ok |-> "routingKey" \in es.present,   err |-> "ErrInvalidEventSource"],
                 [ok |-> "exchangeName" \in es.present, err |-> "ErrInvalidEventSource"],
                 [ok |-> "exchangeType" \in es.present, err |-> "ErrInvalidEventSource"] >>)]

\* NatsConfigExecutor.ValidateEventSource: as AMQP, IsValid never set.
ValidateNATS(es) ==
    [valid |-> FALSE,
     err |-> IF es.parse = "malformed" THEN "ErrConfigParseFailed"
             ELSE FirstFailure(<<
                 [ok |-> es.parse # "null",        err |-> "ErrInvalidConfig"],
                 [ok |-> "url" \in es.present,     err |-> "ErrInvalidConfig"],
                 [ok |-> "subject" \in es.present, err |-> "ErrInvalidConfig"] >>)]

\* The executor the gateway server dispatches to for the config's type.
ValidateEventSource(es) ==
    CASE es.kind = "s3"   -> ValidateS3(es)
      [] es.kind = "amqp" -> ValidateAMQP(es)
      [] es.kind = "nats" -> ValidateNATS(es)

-----------------------------------------------------------------------------
(* The executor contract of spec.md (sections 6 and 7), as a reference.    *)

\* Error kinds: a malformed config is a ConfigParseError, a well-formed but
\* semantically invalid one a ValidationError.
ErrorKind(err) ==
    CASE err = "nil" -> "none"
      [] err \in {"ErrConfigParseFailed", "ErrEventSourceParseFailed"} -> "ConfigParseError"
      [] OTHER -> "ValidationError"

RequiredFields(kind) ==
    CASE kind = "s3" -> S3Fields [] kind = "amqp" -> AMQPFields [] kind = "nats" -> NATSFields

\* The kind of error a config deserves: unparseable, empty, a required
\* field missing, or an S3 event name that is not a notification type.
ExpectedKind(es) ==
    IF es.parse = "malformed" THEN "ConfigParseError"
    ELSE IF \/ es.parse = "null"
            \/ ~(RequiredFields(es.kind) \subseteq es.present)
            \/ es.event \notin {""} \cup KnownEvents
         THEN "ValidationError"
         ELSE "none"

=============================================================================
