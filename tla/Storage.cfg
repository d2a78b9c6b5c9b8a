\* Sessions in both roles with two peers over several runs of LuminT, which
\* may be killed, though not while it writes lumint.conf.
SPECIFICATION Spec
CONSTANTS
  a = a
  b = b
  t1 = t1
  t2 = t2
  Char = {a, b}
  KeySize = 2
  OwnKey <- MCOwnKey
  Typed <- MCTyped
  MaxItems = 3
  MaxSeq = 1
  KilledIn = {"running", "recording"}
  NoConf = NoConf
  Role = {"sender", "receiver"}
  Transfer = {t1, t2}
  Abandons = {"unrecorded"}
  NoTransfer = NoTransfer
SYMMETRY MCSymmetry
INVARIANTS
  TypeOK
  ViewMirrorsList
PROPERTIES
  ListSurvivesRestart
  OwnKeyForLife
  RecordComesBack
