--------------------------- MODULE DispatchResults ---------------------------
(***************************************************************************)
(* What the host gets back from the dispatch surface of one runtime: the   *)
(* dispatch methods (Tick .. WalkStack) call the routine closures built by *)
(* the Citizen.set* functions, which call the registered guest function    *)
(* inside a TryCatch, report a caught exception with ScriptTrace and turn  *)
(* the guest's return value into the host's result. WalkStack then        *)
(* decodes the stack-trace routine's msgpack blob and hands each frame to  *)
(* the visitor.                                                            *)
(*                                                                         *)
(* A guest call is a record [throws, value]: whether the function threw,   *)
(* and what it returned. A number is [type |-> "number", h |-> h], h being *)
(* twice its value; a buffer view carries its bytes, described by their  *)
(* msgpack shape.                                                          *)
(***************************************************************************)
EXTENDS Integers, Sequences

CONSTANTS
  Int32Bits,    \* width of int32_t, scaled
  GuestCalls,   \* what a registered guest function may do when called
  NoBuffer      \* a null IScriptBuffer / char* result

Kinds == {"tick", "event", "callRef", "dupRef", "delRef", "stackTrace"}

VARIABLES
  registered,   \* registered[k]: the runtime's routine of kind k is set
  last          \* what the latest dispatch did, as the host and the trace sink see it

vars == <<registered, last>>

Int32Min == -(2 ^ (Int32Bits - 1))
Int32Max == 2 ^ (Int32Bits - 1) - 1

NoDispatch == [op |-> "none", set |-> FALSE, call |-> [throws |-> FALSE, value |-> [type |-> "undefined"]],
               reported |-> FALSE, refIdx |-> -1, buffer |-> NoBuffer, frames |-> <<>>, escaped |-> FALSE]

-----------------------------------------------------------------------------
(* The routine closures *)

\* Value::IsInt32: an integral number in the int32 range
IsInt32(v) == v.type = "number" /\ v.h % 2 = 0 /\ v.h \div 2 \in Int32Min .. Int32Max

\* every closure: TryCatch eh; function->Call(...); eh.HasCaught() (the tick
\* and rejection closures test value.IsEmpty()) leads to ScriptTrace
Reported(g) == g.throws

\* V8_SetDuplicateRefFunction: the Int32 the function returned, else -1
DupRefRoutine(g) == IF ~g.throws /\ IsInt32(g.value) THEN g.value.h \div 2 ELSE -1

\* V8_SetCallRefFunction: a copy of the returned view's bytes, else a null rv
CallRefRoutine(g) ==
  IF ~g.throws /\ g.value.type = "view" THEN g.value.bytes ELSE NoBuffer

\* V8_SetStackTraceRoutine: *blob points at a copy of the returned view in
\* the static retvalArray; on an exception or any other value it stays null
StackTraceRoutine(g) ==
  IF ~g.throws /\ g.value.type = "view" THEN g.value.bytes ELSE NoBuffer

\* msgpack::unpack(out, outLen).get().as<std::vector<msgpack::object>>():
\* an empty or truncated blob throws insufficient_bytes, one that is not an
\* array throws type_error; nothing in WalkStack catches either
Unpack(blob) ==
  IF blob.shape = "array" THEN [ok |-> TRUE, frames |-> blob.frames]
  ELSE [ok |-> FALSE, frames |-> <<>>]

-----------------------------------------------------------------------------
(* The dispatch methods: each does nothing when its routine is unset *)

Dispatched(k, g, refIdx, buffer, frames, escaped) ==
  /\ last' = [op |-> k, set |-> registered[k], call |-> g,
              reported |-> registered[k] /\ Reported(g),
              refIdx |-> refIdx, buffer |-> buffer, frames |-> frames, escaped |-> escaped]
  /\ UNCHANGED registered

\* Tick, TriggerEvent, RemoveRef: the routine's errors are reported only
NotifyOnly(k, g) ==
  /\ k \in {"tick", "event", "delRef"}
  /\ Dispatched(k, g, -1, NoBuffer, <<>>, FALSE)

\* CallRef: *retval = nullptr, then rv.CopyTo(retval) when the routine is set
CallRef(g) ==
  Dispatched("callRef", g, -1, IF registered["callRef"] THEN CallRefRoutine(g) ELSE NoBuffer,
             <<>>, FALSE)

\* DuplicateRef: *outRefIdx = -1, then the routine's result when it is set
DuplicateRef(g) ==
  Dispatched("dupRef", g, IF registered["dupRef"] THEN DupRefRoutine(g) ELSE -1,
             NoBuffer, <<>>, FALSE)

\* WalkStack: when out was set, unpack it and submit every frame in order
WalkStack(g) ==
  LET out == IF registered["stackTrace"] THEN StackTraceRoutine(g) ELSE NoBuffer
      up  == Unpack(out)
  IN IF out = NoBuffer THEN Dispatched("stackTrace", g, -1, NoBuffer, <<>>, FALSE)
     ELSE Dispatched("stackTrace", g, -1, NoBuffer, up.frames, ~up.ok)

-----------------------------------------------------------------------------

\* any set of routines may have been registered by the platform scripts
Init ==
  /\ registered \in [Kinds -> BOOLEAN]
  /\ last = NoDispatch

Next ==
  \E g \in GuestCalls :
    \/ \E k \in Kinds : NotifyOnly(k, g)
    \/ CallRef(g) \/ DuplicateRef(g) \/ WalkStack(g)

Spec == Init /\ [][Next]_vars

-----------------------------------------------------------------------------
(* Properties *)

TypeOK ==
  /\ registered \in [Kinds -> BOOLEAN]
  /\ last.op \in Kinds \cup {"none"}
  /\ last.call \in GuestCalls \cup {NoDispatch.call}
  /\ last.refIdx \in Int32Min .. Int32Max
  /\ last.reported \in BOOLEAN /\ last.escaped \in BOOLEAN

\* Spec section 4.4: WalkStack decodes the frame list element by element and
\* a decoding error aborts the walk silently; spec section 7: nothing a
\* routine returns makes a dispatch raise an error into the host.
WalkErrorsSilent == ~last.escaped

=============================================================================
