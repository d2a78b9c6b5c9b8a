\* A device is removed after others were read from lumint.conf and added.
SPECIFICATION ListSpec
CONSTANTS
  a = a
  b = b
  Char = {a, b}
  KeySize = 2
  OwnKey <- MCOwnKey
  Typed <- MCTyped
  MaxItems = 4
  MaxSeq = 3
  KilledIn = {}
  NoConf = NoConf
PROPERTIES
  ClickedRowGoes
