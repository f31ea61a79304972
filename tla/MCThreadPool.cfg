\* Two workers and the main thread share a ring of two slots for five tasks:
\* the positions wrap, the ring is full and empty again.
SPECIFICATION Spec
CONSTANTS
  Worker = {w1, w2}
  Main = main
  Task = {t1, t2, t3, t4, t5}
  Capacity = 2
  NoTask = NoTask
  Nobody = Nobody
INVARIANTS
  TypeOK
  NoSlotRace
  PermitsMatchSlots
PROPERTIES
  ImplementsQueue
  QueuedTaskIsServed
\* Once every task has been created and run, the workers wait for ever
CHECK_DEADLOCK FALSE
