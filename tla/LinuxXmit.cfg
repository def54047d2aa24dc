SPECIFICATION FairSpec
CONSTANTS
  Skb = {s1, s2, s3}
  NULL = NULL
  MaxOpens = 3
INVARIANT TypeOK
INVARIANT RemoveQuiesces
INVARIANT Ownership
INVARIANT SentOnce
INVARIANT OpenedOnceSafe
PROPERTY NothingStartsAfterShutdown
PROPERTY QueueResumes
PROPERTY CallsComplete
CHECK_DEADLOCK FALSE
