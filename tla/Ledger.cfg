\* Two publishers, three events, an index, one verify() and two disturbances.
SPECIFICATION LedgerSpec
CONSTANTS
  Procs = {p1, p2}
  a1 = a1
  a1x = a1x
  b1 = b1
  doc = doc
  index = index
  t1 = t1
  t2 = t2
  Events = {a1, a1x, b1}
  Files = {doc, index}
  Texts = {t1, t2}
  Identity <- MCIdentity
  LockOf <- MCLockOf
  DirCount = 2
  DirOf <- MCDirOf
  Lists <- MCLists
  Refs <- MCRefs
  Intents = {"immutable_ref", "snapshot_at_publication", "working_copy"}
  MaxFaults = 2
  Nobody = Nobody
INVARIANTS TypeOK AlarmIsJustified DamageIsSeen
PROPERTIES IndexIsVerified
SYMMETRY Symmetry
