CONSTANTS
  Int64Bits = 4
  Int32Bits = 3
  DoubleBits = 2
  FloatLimit = 8
  StringSlots = 3
  ArgLists <- MCPushArgLists
  ResultLists <- MCNoResults
  MaxNest = 1
  MaxAcquired = 2

SPECIFICATION Spec

INVARIANT ArgumentsPushedAsSpecified
