SPECIFICATION Spec
CONSTANTS
  Senders = {s1, s2}
  Messages = {m1, m2, m3, m4}
  None = None
INVARIANTS
  TypeOK
  FreedOnce
  NoLeak
  NoSleepOnWork
PROPERTIES
  ImplementsSyncCalls
SYMMETRY Symmetric
