--------------------------- MODULE MC_NativeCall ---------------------------
(* Inputs for checking NativeCall: script values chosen to reach every     *)
(* branch of PushArgument and the numeric edges of the scaled widths, and  *)
(* native result lists covering the one, two and three result folds.      *)
EXTENDS NativeCall

\* with Int64Bits = 4 the int64 range is -8 .. 7; numbers carry twice their value
MCNumbers == {Number(Fin(h)) : h \in {-18, -16, -1, 0, 3, 14, 16}} \cup {Number(NaN), Number(PosInf)}

Str == [type |-> "string", s |-> "s1"]

MCValues ==
  MCNumbers
  \cup {[type |-> "boolean", b |-> b, boxed |-> x] : b \in BOOLEAN, x \in BOOLEAN}
  \cup {Str, Null, Undefined, [type |-> "external", p |-> "p1"],
        [type |-> "view", buf |-> "b1"], [type |-> "symbol"],
        [type |-> "object", data |-> Number(Fin(16))],
        [type |-> "object", data |-> Number(Fin(-1))],
        [type |-> "object", data |-> Number(Fin(-7))],
        [type |-> "object", data |-> Number(NaN)],
        [type |-> "object", data |-> Undefined]}
  \cup {[type |-> "array", elems |-> e] :
          e \in {<<Number(Fin(3))>>, <<Number(Fin(3)), Number(Fin(-1))>>,
                 <<Number(Fin(3)), Number(Fin(18)), Number(Fin(0))>>,
                 <<Number(Fin(0)), Number(Fin(0)), Number(Fin(0)), Number(Fin(0))>>,
                 <<Number(Fin(0)), Number(Fin(0)), Number(Fin(0)), Number(Fin(0)), Number(Fin(0))>>,
                 <<Number(Fin(3)), Str>>}}

MCArgLists ==
  {<<>>} \cup {<<a>> : a \in MCValues} \cup {<<Str, a>> : a \in MCValues}
  \cup {<<a, Str>> : a \in {[type |-> "symbol"], [type |-> "object", data |-> Undefined]}}

MCResults ==
  {[k |-> "bool", v |-> TRUE], [k |-> "int64", v |-> 7],
   [k |-> "vector", v |-> <<Fin(2), Fin(4), Fin(6)>>], [k |-> "cstr", v |-> "nullptr"]}

MCResultLists == UNION {[1 .. n -> MCResults] : n \in 0 .. 3}

\* the arena question needs only strings, nested deeper
MCStringArgLists == {<<>>, <<Str>>, <<Str, Str>>}
MCNoResults == {<<>>}

\* pointer fields made from an integral, a fractional and a negative number
MCPointerArgLists ==
  {<<GetPointerField(f, x)>> : f \in {"int", "float"}, x \in {Fin(6), Fin(-1), Fin(16)}}

\* every argument kind of the marshal run, and the pointer fields
MCPushArgLists == MCArgLists \cup MCPointerArgLists

====
