\* Files with a packet whose offset does not fit an int.
SPECIFICATION Spec
CONSTANTS
  Base = 4
  PACKET_BYTES = 20
  TextSizes = {1}
  MaxTexts = 0
  NoSize = NoSize
  Sizes = {20, 141, 255}
INVARIANTS
  FileArrivesWhole
