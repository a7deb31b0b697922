\* One enqueue, two consumers, one deletion of the queue, failed writes, crashes.
SPECIFICATION FairSpec
CONSTANTS
  Queues = {q1}
  Senders = {s1}
  Consumers = {c1, c2}
  Size <- OneByte
  Limits = {1}
  MaxGen = 1
  MayFail = TRUE
  MayCrash = TRUE
  None = None
INVARIANTS TypeOK OneHolder
PROPERTIES RequestsEnd KeepsContract
CHECK_DEADLOCK FALSE
