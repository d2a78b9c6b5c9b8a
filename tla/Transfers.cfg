\* Sessions cut, the application suspended or closed at any step; three
\* files of 3, 1 and 0 packets with one name; the folder stays the first.
SPECIFICATION FairSpec
CONSTANTS
  f1 = f1
  f2 = f2
  empty = empty
  n1 = n1
  n2 = n2
  d1 = d1
  d2 = d2
  File = {f1, f2, empty}
  Packets <- MCPackets
  Name = {n1}
  NameOf <- MCNameOf
  Folder = {d1, d2}
  Documents = d1
  Environment = {"interrupt", "suspend", "quit"}
  MaxTexts = 1
  MaxChunks = 4
  NoFile = NoFile
  Absent = Absent
  NoName = NoName
  NoPath = NoPath
  NoRecord = NoRecord
  Foreign = Foreign
INVARIANTS
  OneRequestAtATime
  StreamInSync
  RowsFollowTransfer
  CompletedFilesIntact
  ResumePointExact
  NoOrphans
PROPERTIES
  ForeignFilesKept
  CancelledStaysDeleted
  FileDelivered
  CancelEnds
  TransferEnds
