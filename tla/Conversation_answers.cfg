\* A request of each kind on one connection, and a client that may leave it.
SPECIFICATION ConversationSpec
CONSTANTS
  r1 = r1
  r2 = r2
  r3 = r3
  r4 = r4
  r5 = r5
  r6 = r6
  r7 = r7
  r8 = r8
  Requests = {r1, r2, r3, r4, r5, r6, r7, r8}
  Kind <- Mixed
  Id <- Ids
  AtOnce = {r4}
  AfterSend <- Pushing
  AfterAnswer <- Chained
  NoRequest = none
CHECK_DEADLOCK FALSE
INVARIANT AnsweredOnce
INVARIANT NoAnswerDropped
INVARIANT OnlyPushedAreLost
INVARIANT OnlyRefusedWaitInVain
PROPERTY ImplementsExchange
