SPECIFICATION FairSpec
CONSTANTS
  MaxLength = 3
  MaxKeyFile = 3
INVARIANTS
  OkMeansWholeObject
  CleanExchangeConverts
PROPERTIES
  ConversionEnds
