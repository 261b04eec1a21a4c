\* As MC_Validators.cfg, with an S3 config naming an event minio does not
\* know: validate's unknown-event check compares a converted non-empty
\* string with "" and never fires.
CONSTANTS
    Events = {"", "s3:ObjectCreated:Put", "s3:ObjectCreated:Putt"}
    KnownEvents = {"s3:ObjectCreated:Put"}
SPECIFICATION Spec
INVARIANT VerdictMatchesContract
