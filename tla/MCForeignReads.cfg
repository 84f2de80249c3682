CONSTANTS
  FieldCount = 3
  Values = {0, 1}
  Lifts = 8
  Agreeing = 2
  x = x
  y = y
  Unmapped = Unmapped
  Addresses = {0, 1, 2, 3, 4}
  Bytes = {x, y}
  Calls <- MCCalls
  MaxWrites = 1
  Nul = y
  Granule = 2
  Names <- MCNames
  BadName = "unterminated"
  GnuHash <- MCGnuHash
  SysvHash <- MCSysvHash
  HashBits = 4
  ClassWords = 2
  SymbolWords = 2
  AddressLimit = 64
  Images <- MCImages
  Becomes <- MCBecomes
SPECIFICATION MCReadsSpec
INVARIANTS
  LiftStood
  QuietLiftSettles
  BytesTypeOK
  SteadyOccurrencesFound
  ReportsHold
  TextStood
  TextRefusalExplained
  TypeOK
  LookupExact
  ReadsInside
  MetadataAgrees
PROPERTIES
  LiftEnds
  ReadsEnd
  WalksEnd
CHECK_DEADLOCK FALSE
