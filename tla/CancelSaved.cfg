\* Cancel is pressed on a transfer resumed from its record.
SPECIFICATION Spec
CONSTANTS
  f1 = f1
  f2 = f2
  empty = empty
  n1 = n1
  n2 = n2
  d1 = d1
  d2 = d2
  File = {f1}
  Packets <- MCPackets
  Name = {n1}
  NameOf <- MCNameOf
  Folder = {d1}
  Documents = d1
  Environment = {"interrupt", "cancelSaved"}
  MaxTexts = 0
  MaxChunks = 4
  NoFile = NoFile
  Absent = Absent
  NoName = NoName
  NoPath = NoPath
  NoRecord = NoRecord
  Foreign = Foreign
PROPERTIES
  CancelledStaysDeleted
