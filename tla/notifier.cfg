SPECIFICATION FairSpec
CONSTANTS
  Enqueuers = {e1, e2}
  Workers = {w1, w2}
  Subs = {a, b}
  Events = {ev1, ev2}
  None = None
  Threshold = 2
  MaxPosts = 3
  Posted = {a}
INVARIANTS TypeOK SeqAccounts VerdictsEarned
PROPERTIES VerdictsFinal SeqInOrder EnqueueCompletes
CHECK_DEADLOCK FALSE
