CONSTANTS
  NoBuf = NoBuf  fr1 = fr1  fr2 = fr2
  NoBuffer <- NoBuf
  Int32Bits = 4
  GuestCalls <- MCGuestCalls

SPECIFICATION Spec

INVARIANT WalkErrorsSilent
