\* A Publish between its snapshot and its sends while the subscription is cancelled.
CONSTANTS
  s1 = s1  s2 = s2
  Publishers = {a}
  Subs = {s1, s2}
  Wants <- OneListens
  Policy <- NewestOldest
  Capacity = 1
  MaxEvents = 1
  None = None
SPECIFICATION Spec
INVARIANT PublishIsSafe
CHECK_DEADLOCK FALSE
