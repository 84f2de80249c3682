CONSTANTS
  ByteWidth = 2
  PointerBytes = 4
  AddressLimit = 256
  Lanes = 2
  MinimumAnchor = 2
  PrefixBytes = 2
  Programs <- MCPrograms
  Sources <- MCSources
  HexDigits <- MCHexDigits
  DecimalDigits <- MCDecimalDigits
  Exponents <- MCExponents
  Characters <- MCCharacters
  SlotLimit = 4
  IndexLimit = 6
  Bases <- MCBases
  Images <- MCImages
  Ranges <- MCRanges
  StaticParts <- MCStaticParts
SPECIFICATION Spec
INVARIANTS
  UniqueMeansOne
CHECK_DEADLOCK FALSE
