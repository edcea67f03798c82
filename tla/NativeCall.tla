----------------------------- MODULE NativeCall -----------------------------
(***************************************************************************)
(* A native call from script: V8_InvokeNative marshals every argument with *)
(* V8ScriptNativeContext::PushArgument, invokes the native, and folds the  *)
(* native's results through ProcessResult into one return value.  Strings  *)
(* are copied into the runtime's ring of m_stringValues by                 *)
(* AssignStringValue; the ring is shared by the native calls of one        *)
(* runtime, including calls made reentrantly while a native is running.   *)
(*                                                                         *)
(* Script values are records tagged with their V8 type.  A double is a    *)
(* record: a finite one carries twice its value (h), so that halves exist. *)
(* Integer widths are scaled down to Int64Bits and Int32Bits.              *)
(***************************************************************************)
EXTENDS Integers, Sequences, SequencesExt, FiniteSets

CONSTANTS
  Int64Bits,     \* width standing for int64_t
  Int32Bits,     \* width standing for int32_t (ToInt32 of __data)
  DoubleBits,    \* significand bits of the double an int64 result becomes
  FloatLimit,    \* largest magnitude a float holds before it becomes Inf
  StringSlots,   \* _countof(m_stringValues)
  ArgLists,      \* argument lists scripts pass to invokeNative
  ResultLists,   \* result lists natives report
  MaxNest,       \* bound on reentrant native calls
  MaxAcquired    \* bound on strings acquired by the arena (history counter)

VARIABLES
  calls,       \* stack of running natives: the argument slots each was given
  arena,       \* m_stringValues: slot -> generation of the string it owns
  cursor,      \* m_curStringValue
  acquired,    \* strings acquired so far (generation of the latest)
  lastArgs,    \* arguments of the latest invokeNative
  lastPushed,  \* per argument: the slots PushArgument pushed, or Thrown
  lastResults, \* results the latest returning native reported
  lastReturn   \* the value V8_InvokeNative returned for them

vars == <<calls, arena, cursor, acquired, lastArgs, lastPushed, lastResults, lastReturn>>

Slots == 0 .. StringSlots - 1
Int64Min == -(2 ^ (Int64Bits - 1))
Int64Max == 2 ^ (Int64Bits - 1) - 1

Fin(h) == [cls |-> "fin", h |-> h]
NaN == [cls |-> "nan", h |-> 0]
PosInf == [cls |-> "+inf", h |-> 0]
NegInf == [cls |-> "-inf", h |-> 0]

Number(d) == [type |-> "number", v |-> d]
Undefined == [type |-> "undefined"]
Null == [type |-> "null"]
IsNumber(v) == v.type = "number"

-----------------------------------------------------------------------------
(* Conversions *)

\* truncation toward zero of the number h/2
TruncHalf(h) == IF h >= 0 THEN h \div 2 ELSE -((-h) \div 2)

\* static_cast<int64_t>(double): out of range, NaN and Inf give the x86
\* "integer indefinite" INT64_MIN (cvttsd2si), the code the build emits
CastInt64(x) ==
  IF x.cls = "fin" /\ TruncHalf(x.h) \in Int64Min .. Int64Max THEN TruncHalf(x.h)
  ELSE Int64Min

\* fault variant: comparing against the truncated value instead of the double
IntEqualsDoubleTruncated(i, x) == x.cls = "fin" /\ i = TruncHalf(x.h)

\* intValue == value: the int64 converted back to double, compared exactly
IntEqualsDouble(i, x) == x.cls = "fin" /\ 2 * i = x.h

\* Value::Int32Value: ECMAScript ToInt32, truncation then wrap modulo 2^32
ToInt32(x) ==
  IF x.cls # "fin" THEN 0
  ELSE LET n == TruncHalf(x.h) % (2 ^ Int32Bits)
       IN IF n >= 2 ^ (Int32Bits - 1) THEN n - 2 ^ Int32Bits ELSE n

\* static_cast<float>(double): magnitudes beyond the float range become Inf
ToFloat(x) ==
  CASE x.cls = "fin" /\ x.h > 2 * FloatLimit  -> PosInf
    [] x.cls = "fin" /\ x.h < -2 * FloatLimit -> NegInf
    [] OTHER                                  -> x

\* IEEE comparison of floats: NaN is equal to nothing, itself included
FloatEq(a, b) == a = b /\ a.cls # "nan"

\* (double) of an int64: round to nearest with DoubleBits significant bits
IntToDouble(i) ==
  LET mag == IF i < 0 THEN -i ELSE i
      e   == CHOOSE k \in 0 .. Int64Bits :
               mag < 2 ^ (DoubleBits + k) /\ \A j \in 0 .. k - 1 : mag >= 2 ^ (DoubleBits + j)
      u   == 2 ^ e
      lo  == (mag \div u) * u
      r   == IF mag - lo > u \div 2 \/ (mag - lo = u \div 2 /\ (mag \div u) % 2 = 1 /\ e > 0)
             THEN lo + u ELSE lo
  IN IF i < 0 THEN -r ELSE r

\* Value::BooleanValue is ToBoolean: every object, a boxed false included, is true
ToBoolean(v) == IF v.boxed THEN TRUE ELSE v.b

\* Value::IntegerValue, V8's NumberToInt64: NaN is 0, the rest truncated and
\* saturated at the int64 bounds
IntegerValue(x) ==
  CASE x.cls = "nan"  -> 0
    [] x.cls = "+inf" -> Int64Max
    [] x.cls = "-inf" -> Int64Min
    [] OTHER          -> LET n == TruncHalf(x.h) IN
                         IF n > Int64Max THEN Int64Max ELSE IF n < Int64Min THEN Int64Min ELSE n

\* V8_GetPointerField<PointerValueInteger / PointerValueFloat> for a number
\* x: an External pointing at a slot the native writes its output through,
\* holding an initial value. The float branch computes fvalue and then
\* stores *reinterpret_cast<uint32_t*>(&value), the bits of the value it
\* just set to 0. (from records x for the properties.)
GetPointerField(field, x) ==
  [type |-> "external", from |-> x,
   p |-> IF field = "int" THEN [field |-> "int", init |-> [k |-> "int", v |-> IntegerValue(x)]]
         ELSE [field |-> "float", init |-> [k |-> "float", d |-> Fin(0)]]]

-----------------------------------------------------------------------------
(* AssignStringValue and PushArgument *)

IntSlot(i) == [t |-> "int", v |-> i]

\* what an argument leaves when ScriptError throws while marshalling it
Thrown == <<[t |-> "error"]>>

\* st is the marshalling state: pushed per argument, the ring and its cursor
Pushed(st, out) == [st EXCEPT !.pushed = Append(@, out)]

\* fault variants: a cursor that is not wrapped, and one wrapped one slot early
AssignStringValueNoWrap(st) ==
  [st EXCEPT !.arena[st.cursor] = st.acquired + 1,
             !.acquired = @ + 1,
             !.cursor = @ + 1]

AssignStringValue(st) ==
  [st EXCEPT !.arena[st.cursor] = st.acquired + 1,
             !.acquired = @ + 1,
             !.cursor = (@ + 1) % StringSlots]

\* getNumber of the vector branch: a non-number element reads as NAN
GetNumber(e) == IF IsNumber(e) THEN ToFloat(e.v) ELSE NaN

\* V8ScriptNativeContext::PushArgument; ScriptError throws, ending the loop
PushArgument(arg, st) ==
  CASE arg.type = "number" ->
         LET i == CastInt64(arg.v) IN
         Pushed(st, <<IF IntEqualsDouble(i, arg.v) THEN IntSlot(i)
                      ELSE [t |-> "double", d |-> arg.v]>>)
    [] arg.type = "boolean" -> Pushed(st, <<[t |-> "bool", v |-> ToBoolean(arg)]>>)
    [] arg.type = "string" ->
         LET st2 == AssignStringValue(st) IN
         Pushed(st2, <<[t |-> "str", slot |-> st.cursor, gen |-> st2.acquired]>>)
    [] arg.type \in {"null", "undefined"} -> Pushed(st, <<IntSlot(0)>>)
    [] arg.type = "external" -> Pushed(st, <<[t |-> "ptr", v |-> arg.p]>>)
    [] arg.type = "array" ->
         LET xs == [k \in DOMAIN arg.elems |-> GetNumber(arg.elems[k])] IN
         IF Len(xs) < 2 \/ Len(xs) > 4 \/ \E k \in DOMAIN xs : FloatEq(xs[k], NaN)
         THEN Pushed(st, Thrown)
         ELSE Pushed(st, [k \in DOMAIN xs |-> [t |-> "float", d |-> xs[k]]])
    [] arg.type = "view" -> Pushed(st, <<[t |-> "buf", v |-> arg.buf]>>)
    [] arg.type = "object" ->
         IF IsNumber(arg.data) THEN Pushed(st, <<IntSlot(ToInt32(arg.data.v))>>)
         ELSE Pushed(st, Thrown)
    [] OTHER -> Pushed(st, Thrown)

Failed(st) == \E k \in DOMAIN st.pushed : st.pushed[k] = Thrown

\* the for loop of V8_InvokeNative over args[baseArgs..]
PushArguments(args, st) ==
  FoldLeft(LAMBDA s, a : IF Failed(s) THEN s ELSE PushArgument(a, s), st, args)

-----------------------------------------------------------------------------
(* ProcessResult and the result fold of V8_InvokeNative *)

\* V8ScriptNativeContext::ProcessResult, by the static kind of the result
ProcessResult(r) ==
  CASE r.k = "bool"   -> [type |-> "boolean", b |-> r.v, boxed |-> FALSE]
    [] r.k = "int32"  -> Number(Fin(2 * r.v))
    [] r.k = "int64"  -> Number(Fin(2 * IntToDouble(r.v)))
    [] r.k = "float"  -> Number(r.v)
    [] r.k = "vector" -> [type |-> "array", elems |-> [k \in 1 .. 3 |-> Number(r.v[k])]]
    [] r.k = "cstr"   -> IF r.v = "nullptr" THEN Null ELSE [type |-> "string", s |-> r.v]
    [] r.k = "scrstr" -> [type |-> "string", s |-> r.v]
    [] r.k = "object" -> IF r.v = "malformed" THEN Null ELSE r.v

\* Array::Set at 0-based index n; the holes it opens read as undefined
ArraySet(a, n, val) ==
  LET len == IF Len(a.elems) > n + 1 THEN Len(a.elems) ELSE n + 1 IN
  [a EXCEPT !.elems = [k \in 1 .. len |->
                        IF k = n + 1 THEN val ELSE IF k <= Len(@) THEN @[k] ELSE Undefined]]

\* fault variant: every further result wraps the value built so far again
FoldResultRewraps(s, val) ==
  [rv |-> IF s.n = 0 THEN val
          ELSE ArraySet([type |-> "array", elems |-> <<s.rv>>], s.n, val),
   n  |-> s.n + 1]

\* one call of the ProcessResults lambda: s is <<returnValue, numResults>>
FoldResult(s, val) ==
  [rv |-> IF s.n = 0 THEN val
          ELSE ArraySet(IF s.n = 1 THEN [type |-> "array", elems |-> <<s.rv>>] ELSE s.rv,
                        s.n, val),
   n  |-> s.n + 1]

ProcessResults(results) ==
  FoldLeft(FoldResult, [rv |-> Undefined, n |-> 0],
           [k \in DOMAIN results |-> ProcessResult(results[k])]).rv

-----------------------------------------------------------------------------
(* Actions *)

StringCount(args) == Len(SelectSeq(args, LAMBDA a : a.type = "string"))

\* V8_InvokeNativeString / V8_InvokeNativeHash calling V8_InvokeNative: the
\* arguments are marshalled and, unless a ScriptError was thrown (V8_TryCatch
\* turns it into a script exception), the native starts running.  Strings
\* assigned before the error stay in the ring.
InvokeNative(args) ==
  /\ Len(calls) < MaxNest
  /\ acquired + StringCount(args) <= MaxAcquired
  /\ LET st == PushArguments(args, [pushed |-> <<>>, arena |-> arena,
                                    cursor |-> cursor, acquired |-> acquired])
     IN /\ arena' = st.arena
        /\ cursor' = st.cursor
        /\ acquired' = st.acquired
        /\ lastArgs' = args
        /\ lastPushed' = st.pushed
        /\ calls' = IF Failed(st) THEN calls ELSE Append(calls, FlattenSeq(st.pushed))
  /\ UNCHANGED <<lastResults, lastReturn>>

\* context.Invoke() returns and ProcessResults folds what the native reported
NativeReturn(results) ==
  /\ calls # <<>>
  /\ calls' = SubSeq(calls, 1, Len(calls) - 1)
  /\ lastResults' = results
  /\ lastReturn' = ProcessResults(results)
  /\ UNCHANGED <<arena, cursor, acquired, lastArgs, lastPushed>>

Init ==
  /\ calls = <<>>
  /\ arena = [s \in Slots |-> 0]
  /\ cursor = 0
  /\ acquired = 0
  /\ lastArgs = <<>>
  /\ lastPushed = <<>>
  /\ lastResults = <<>>
  /\ lastReturn = Undefined

Next ==
  \/ \E args \in ArgLists : InvokeNative(args)
  \/ \E results \in ResultLists : NativeReturn(results)

Spec == Init /\ [][Next]_vars

-----------------------------------------------------------------------------
(* Properties *)

TypeOK ==
  /\ arena \in [Slots -> 0 .. MaxAcquired]
  /\ cursor \in Slots
  /\ acquired \in 0 .. MaxAcquired
  /\ Len(calls) <= MaxNest
  /\ Len(lastPushed) <= Len(lastArgs)

\* Spec section 8: a number exactly representable as int64 reaches the native
\* as that int64, any other number (fractions, out-of-range values, NaN,
\* infinities) as the same double.  PushArgument decides this with
\* static_cast<int64_t> and intValue == value.
SpecNumberSlots(d) ==
  IF d.cls = "fin" /\ d.h % 2 = 0 /\ d.h \div 2 \in Int64Min .. Int64Max
  THEN <<IntSlot(d.h \div 2)>> ELSE <<[t |-> "double", d |-> d]>>

NumbersPreserved ==
  \A k \in DOMAIN lastPushed :
    IsNumber(lastArgs[k]) => lastPushed[k] = SpecNumberSlots(lastArgs[k].v)

\* Spec section 4.3: zero native results give undefined, one gives itself,
\* several give an array of them in emission order.  V8_InvokeNative builds
\* the array only when the second result arrives, moving the first into it.
SpecReturn(results) ==
  LET vals == [k \in DOMAIN results |-> ProcessResult(results[k])] IN
  CASE Len(vals) = 0 -> Undefined
    [] Len(vals) = 1 -> vals[1]
    [] OTHER         -> [type |-> "array", elems |-> vals]

ResultsFoldAsDocumented == lastReturn = SpecReturn(lastResults)

\* Spec section 3: a string slot's content is valid for the lifetime of the
\* native call that produced it.
CallStringsIntact ==
  \A c \in DOMAIN calls : \A k \in DOMAIN calls[c] :
    calls[c][k].t = "str" => arena[calls[c][k].slot] = calls[c][k].gen

\* Spec sections 4.3 and 8: a vector array with a non-numeric element is a
\* hard error ("invalid vector array value").
VectorElementsChecked ==
  \A k \in DOMAIN lastPushed :
    (/\ lastArgs[k].type = "array"
     /\ \E i \in DOMAIN lastArgs[k].elems : ~IsNumber(lastArgs[k].elems[i]))
      => lastPushed[k] = Thrown

\* Spec section 4.3: a boolean is pushed as that native boolean; PushArgument
\* takes boxed Boolean objects down the same branch.
BooleansPreserved ==
  \A k \in DOMAIN lastPushed :
    lastArgs[k].type = "boolean" => lastPushed[k] = <<[t |-> "bool", v |-> lastArgs[k].b]>>


\* Spec section 4.3: a pointer obtained from V8_GetPointerField is pushed as
\* a typed pointer argument, and the native finds in it the number the script
\* passed: as an int64 for an integer field, as the float's bits for a float
\* field.
PointerFieldsInitialised ==
  \A k \in DOMAIN lastPushed :
    "from" \in DOMAIN lastArgs[k] =>
      LET x == lastArgs[k].from
          f == lastArgs[k].p.field
      IN lastPushed[k] = <<[t |-> "ptr", v |-> [field |-> f, init |->
             IF f = "int" THEN [k |-> "int", v |-> IntegerValue(x)]
             ELSE [k |-> "float", d |-> ToFloat(x)]]]>>

\* Spec section 4.3, the classification cascade as the native sees it: a
\* boolean (boxed or not) arrives as that boolean, a vector array with a
\* non-numeric element is rejected, and a pointer field made by
\* V8_GetPointerField holds the number the script passed.
ArgumentsPushedAsSpecified ==
  VectorElementsChecked /\ BooleansPreserved /\ PointerFieldsInitialised

====
