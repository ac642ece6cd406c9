SPECIFICATION MainFairSpec
CONSTANTS
  Transports = {"http", "serial"}
  Loggers = {"console"}
  Capacity = 2
  Addresses = {"a", "b"}
  MaxRetries = 1
  EventRoom = 2
INVARIANT MainTypeOK
INVARIANT PausedIffTransferring
INVARIANT TransfersFindAll
INVARIANT StatusAgrees
INVARIANT NoRetryLost
PROPERTY BacklogLeaves
PROPERTY SerialServed
PROPERTY UpIsReported
PROPERTY LossIsReported
