\* Two threads that do everything, one of them observing too: they compete for
\* both counters, and four tickets go twice round a ring of two nodes.
SPECIFICATION FairSpec
CONSTANTS
  Pushers = {p, b}
  Poppers = {p, b}
  Observers = {p}
  Val = {v1}
  NoVal = NoVal
  Capacity = 2
  TicketBound = 4
INVARIANTS TypeOK NodeExclusive NothingLost SizeNeverNegative
PROPERTIES FifoSpec LockFree
