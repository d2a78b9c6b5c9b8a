\* Texts, files of every shape and files that are refused; sizes at which the offset of a packet fits an int.
SPECIFICATION FairSpec
CONSTANTS
  Base = 4
  PACKET_BYTES = 20
  TextSizes = {0, 1, 15, 16}
  MaxTexts = 2
  NoSize = NoSize
  Sizes = {0, 1, 19, 20, 21, 60, 140, 256, 257}
INVARIANTS
  TypeOK
  FileArrivesWhole
  TextsArrive
  NothingLeftBehind
PROPERTIES
  TransferCompletes
