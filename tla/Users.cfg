\* One uninterrupted session in which the Receiver's user renames files
\* and changes the folder at any time; two names and two folders.
SPECIFICATION Spec
CONSTANTS
  f1 = f1
  f2 = f2
  empty = empty
  n1 = n1
  n2 = n2
  d1 = d1
  d2 = d2
  File = {f1, f2}
  Packets <- MCPackets
  Name = {n1, n2}
  NameOf <- MCNameOf
  Folder = {d1, d2}
  Documents = d1
  Environment = {"rename", "browse"}
  MaxTexts = 2
  MaxChunks = 4
  NoFile = NoFile
  Absent = Absent
  NoName = NoName
  NoPath = NoPath
  NoRecord = NoRecord
  Foreign = Foreign
INVARIANTS
  OneRequestAtATime
  PopupHoldsTransfer
  TransferHasReceiver
  CompletedFilesIntact
PROPERTIES
  ForeignFilesKept
  FileDelivered
