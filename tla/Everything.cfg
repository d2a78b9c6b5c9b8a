\* Every liberty at once; one file of two packets.
SPECIFICATION FairSpec
CONSTANTS
  f1 = f1
  f2 = f2
  empty = empty
  n1 = n1
  n2 = n2
  d1 = d1
  d2 = d2
  File = {f1}
  Packets <- MCTwoPackets
  Name = {n1}
  NameOf <- MCNameOf
  Folder = {d1}
  Documents = d1
  Environment = {"interrupt", "rename", "browse", "cancelPausing", "cancelSaved", "diskFault", "osFault", "register", "suspend", "crash", "quit"}
  MaxTexts = 1
  MaxChunks = 4
  NoFile = NoFile
  Absent = Absent
  NoName = NoName
  NoPath = NoPath
  NoRecord = NoRecord
  Foreign = Foreign
INVARIANTS
  TypeOK
  KeyVerification
  ServerConsistent
  TimersStopWithHandshake
  StartPageIsIdle
PROPERTIES
  SessionEndsQuietly
  SessionsOpenInOrder
  HandshakeEnds
