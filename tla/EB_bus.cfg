\* Two events and their dead letters through queues of one, under both overflow policies.
CONSTANTS
  s1 = s1  s2 = s2
  Publishers = {a}
  Subs = {s1, s2}
  Wants <- OneListens
  Policy <- NewestOldest
  Capacity = 1
  MaxEvents = 2
  None = None
SPECIFICATION FairSpec
INVARIANTS ExactlyOnePlace InOrder
PROPERTY DeliveriesEnd
CHECK_DEADLOCK FALSE
