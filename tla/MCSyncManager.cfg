SPECIFICATION Spec
CONSTANTS
  Users = {"u1", "u2"}
  Topics = {"t1", "t2"}
  Blocked <- MCBlocked
  Handshakes <- MCHandshakes
  SessionBuffer = 1
  EventsBuffer = 2
  Plans <- MCPlans
INVARIANT OnlyCloseEndsATopic
INVARIANT CloseFlushes
INVARIANT SyncFollowsView
INVARIANT FailedIsRetried
INVARIANT NoLostReply
CHECK_DEADLOCK FALSE
