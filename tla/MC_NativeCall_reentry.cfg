CONSTANTS
  Int64Bits = 4
  Int32Bits = 3
  DoubleBits = 2
  FloatLimit = 8
  StringSlots = 3
  ArgLists <- MCStringArgLists
  ResultLists <- MCNoResults
  MaxNest = 3
  MaxAcquired = 7

SPECIFICATION Spec

INVARIANT CallStringsIntact
