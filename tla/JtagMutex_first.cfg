SPECIFICATION Spec
CONSTANTS
  Tasks = {"http", "serial"}
  Handles = {"h1", "h2"}
INVARIANT OneMutexOneUser
INVARIANT LockNotLost
