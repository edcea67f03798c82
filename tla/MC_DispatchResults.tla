------------------------- MODULE MC_DispatchResults -------------------------
(* Model-checking instance of DispatchResults: guest functions that throw,  *)
(* return numbers at and around the (scaled) int32 range, fractions,        *)
(* strings, buffer views and stack-trace blobs of every msgpack shape.      *)
EXTENDS DispatchResults

CONSTANTS NoBuf, fr1, fr2

Num(h) == [type |-> "number", h |-> h]
View(b) == [type |-> "view", bytes |-> b]
Blob(shape, frames) == [shape |-> shape, frames |-> frames]

MCValues ==
  {Num(14), Num(-2), Num(15), Num(16), Num(-18),
   [type |-> "string"], [type |-> "undefined"],
   View(Blob("bytes", <<>>)),
   View(Blob("array", <<fr1, fr2>>)), View(Blob("array", <<>>)),
   View(Blob("map", <<>>)), View(Blob("truncated", <<>>)), View(Blob("empty", <<>>))}

MCGuestCalls ==
  {[throws |-> FALSE, value |-> v] : v \in MCValues} \cup
  {[throws |-> TRUE, value |-> [type |-> "undefined"]]}
=============================================================================
