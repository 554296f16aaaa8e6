SPECIFICATION Spec
CONSTANTS
  Enqueuers = {e1, e2}
  Workers = {}
  Subs = {a}
  Events = {ev1, ev2}
  None = None
  Threshold = 2
  MaxPosts = 0
  Posted = {}
INVARIANT SeqUnique
CHECK_DEADLOCK FALSE
