CONSTANTS
  t1 = t1
  t2 = t2
  m1 = m1
  m2 = m2
  m3 = m3
  Handlers = {t1, t2}
  Metadata = {m1, m2, m3}
  Empty = Empty
  NoThread = NoThread
  RingSize = 5
  Backlog = 2
  MaxRefused = 1
SPECIFICATION Spec
INVARIANTS TypeOK IndexesOff OwnMetadata
PROPERTY ChannelSpec
