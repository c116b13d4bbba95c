SPECIFICATION Spec
CONSTANTS
  Object = {a, b}
  ByteWidth = 4
  DigitWidth = 2
  MaxLayers = 5
INVARIANTS TypeOK Represents EqualIffSame EqualHash PrefixAgrees
