SPECIFICATION FairSpec
CONSTANTS
  Size = 4
  Newlines = {2}
  Returns = {1, 3}
  Room = 2
  Burst = 2
  Commands = 4
INVARIANT TypeOK
INVARIANT PayloadIsOwn
INVARIANT OneCommandLost
PROPERTY LinesAgain
PROPERTY HostNotStuck
CHECK_DEADLOCK FALSE
