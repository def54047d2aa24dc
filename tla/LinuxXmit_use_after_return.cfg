SPECIFICATION Spec
CONSTANTS
  Skb = {s1, s2}
  NULL = NULL
  MaxOpens = 2
INVARIANT NoUseAfterReturn
CHECK_DEADLOCK FALSE
