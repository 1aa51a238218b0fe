SPECIFICATION FairSpec
CONSTANTS
  auto = auto
  manual = manual
  events <- MCEvents
  ManualReset = {manual}
  GroupWaiter = {g1, g2}
  EventWaiter = {d1, d2}
  Setter = {s1, s2}
  NULL = NULL
INVARIANTS NoLostSignal
PROPERTIES WaitersReleased GroupReleased
