\* Every config shape over the three executors, with an S3 event that is
\* either absent or a notification type.  Validation goes on as long as
\* configs arrive, so every state has a successor.
CONSTANTS
    Events = {"", "s3:ObjectCreated:Put"}
    KnownEvents = {"s3:ObjectCreated:Put"}
SPECIFICATION Spec
INVARIANT VerdictMatchesContract
