SPECIFICATION ServerSpec
CONSTANTS
  Callers = {c1, c2, c3}
  Scripts <- MCScripts
  Address = "unix"
INVARIANT TypeOK
INVARIANT JobsRunOnceInOrder
INVARIANT RepliesAreTrue
INVARIANT SocketIsOurs
PROPERTY JobsRunOnFullSchema
PROPERTY ImplementsCalls
PROPERTY CallsSettle
PROPERTY AbandonedJobsRun
PROPERTY AlwaysUpAgain
