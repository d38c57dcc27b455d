CONSTANTS
  t1 = t1 t2 = t2 t3 = t3
  Threads = {t1, t2, t3}
  Configs = {"UnboundedMailbox", "UnsafeOneSlotMailbox", "BoundedMailbox"}
  RingCapacity = 1 RingPosMod = 16 RingStartPos = 14 RingPushes = 2
  ListThreads = {t1, t2} ListCapacity = 1 ListPushes = 2 ListNodes = 8
  SlotPushes = 2
SPECIFICATION Spec
CHECK_DEADLOCK FALSE
INVARIANTS NoCellRace NodeOnce
PROPERTIES RejectsOnlyWhenFull ImplementsFifo
