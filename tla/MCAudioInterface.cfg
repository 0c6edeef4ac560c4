SPECIFICATION AiSpec
CONSTANTS
  Pages = 2
  PageSize = 4
  Addresses <- MCAddresses
  Lengths <- MCLengths
INVARIANT AiTypeOK RegistersTellTheTruth PlaysWhatWasAsked
