--------------------------- MODULE V8Environment ---------------------------
(***************************************************************************)
(* The environment-entry discipline of V8ScriptRuntime.cpp: the engine-    *)
(* wide v8::Locker, the per-thread stack of V8PushEnvironment scopes, the  *)
(* thread-local current runtime g_currentV8Runtime, the per-runtime        *)
(* microtask queues checkpointed when a scope is left, the host-driven     *)
(* dispatch surface that enters those scopes, and the registry of function *)
(* references whose weak callbacks defer their release to the tick hook.   *)
(*                                                                         *)
(* A thread's frames are the scopes and calls it is nested in, innermost   *)
(* last:                                                                   *)
(*   "hook"   the Locker the OnTick hook holds between INT32_MIN/INT32_MAX *)
(*   "push"   a V8PushEnvironment<Locker, Isolate::Scope>                  *)
(*   "fake"   a V8PushEnvironment<FakeScope, FakeScope> (Tick, locked)     *)
(*   "bare"   script run by EmitWarning without any scope                  *)
(*   "native" script calling into the host (a native or a reference)       *)
(*   "lite", "liteNR", "noop"  the V8LitePushEnvironment,                  *)
(*            V8LiteNoRuntimePushEnvironment and V8NoopPushEnvironment     *)
(*            node's scope handler keeps on g_envStack (V8_NODE builds)    *)
(* Script of the frame's runtime runs while a push, fake or bare frame is  *)
(* innermost; the host runs while a native or hook frame is innermost.     *)
(***************************************************************************)
EXTENDS Naturals, Sequences, FiniteSets

CONSTANTS
  Threads,      \* threads that may enter the isolate
  MainThread,   \* the thread running ResourceManager::OnTick
  Runtimes,     \* V8ScriptRuntime instances
  Refs,         \* RefAndPersistent entries made by makeFunctionReference
  Registered,   \* Registered[r]: the routines r's platform scripts set in Create
  NoThread, NoRuntime, NoRef,
  MaxDepth,     \* bound on the frames a thread is nested in
  MaxTasks,     \* bound on the pending microtasks of one runtime
  Server,       \* IS_FXSERVER build: Tick may run outside the tick hook
  WarnAnywhere, \* the host may call EmitWarning outside the runtime's own script
  NodeBuild     \* V8_NODE with UseNode(): node's scope handler is installed

RoutineKinds == {"tick", "event", "callRef", "dupRef", "delRef", "stackTrace"}

ASSUME MainThread \in Threads
ASSUME MaxDepth \in Nat \ {0} /\ MaxTasks \in Nat
ASSUME Server \in BOOLEAN /\ WarnAnywhere \in BOOLEAN /\ NodeBuild \in BOOLEAN
ASSUME Registered \in [Runtimes -> SUBSET RoutineKinds]

VARIABLES
  lockOwner,  \* thread holding the isolate's v8::Locker, or NoThread
  frames,     \* frames[t]: the scopes and calls thread t is nested in
  cur,        \* cur[t]: g_currentV8Runtime of thread t
  tasks,      \* tasks[r]: microtasks pending in r's m_taskQueue
  inGc,       \* g_isV8InGc
  refState,   \* refState[f]: "unmade", "reachable", "unreachable", "discarded", "freed"
  refOwner,   \* refOwner[f]: the runtime that made f
  refHandle,  \* refHandle[f]: f's weak Persistent handle is set
  queue,      \* g_cleanUpFuncRefs
  drained     \* the drain handler has run in the current tick window

vars == <<lockOwner, frames, cur, tasks, inGc,
          refState, refOwner, refHandle, queue, drained>>
refVars == <<refState, refOwner, refHandle, queue>>

NodeKinds == {"lite", "liteNR", "noop"}
FrameKinds == {"hook", "push", "fake", "bare", "native"} \cup NodeKinds
ScriptKinds == {"push", "fake", "bare"} \cup NodeKinds
RefStates == {"unmade", "reachable", "unreachable", "discarded", "freed"}

Frame(k, r, l, top, f) == [kind |-> k, rt |-> r, last |-> l, topLevel |-> top, ref |-> f]
HookFrame == Frame("hook", NoRuntime, NoRuntime, TRUE, NoRef)

-----------------------------------------------------------------------------
(* Helper state formulae *)

Top(t) == frames[t][Len(frames[t])]
Pop(s) == SubSeq(s, 1, Len(s) - 1)
\* the kind of t's innermost frame, "none" outside the engine
TopKind(t) == IF frames[t] = <<>> THEN "none" ELSE Top(t).kind
RunsScript(t) == TopKind(t) \in ScriptKinds
HostRuns(t) == TopKind(t) \in {"none", "native", "hook"}
Room(t) == Len(frames[t]) < MaxDepth
\* v8::Locker::IsLocked(isolate): locked by the calling thread
IsLocked(t) == lockOwner = t
\* thread t is inside a GC pass (prologue run, epilogue not yet)
Busy(t) == inGc > 0 /\ lockOwner = t
Free(t) == HostRuns(t) /\ Room(t) /\ ~Busy(t)
\* the runtime whose script is innermost on t's stack, or NoRuntime
NearestScript(t) ==
  LET I == {i \in DOMAIN frames[t] : frames[t][i].kind \in ScriptKinds}
  IN IF I = {} THEN NoRuntime ELSE frames[t][CHOOSE i \in I : \A j \in I : j <= i].rt
\* the runtime of t's innermost scope that set g_currentV8Runtime, or NoRuntime
InnermostScope(t) ==
  LET I == {i \in DOMAIN frames[t] : frames[t][i].kind \in {"push", "fake", "lite"}}
  IN IF I = {} THEN NoRuntime ELSE frames[t][CHOOSE i \in I : \A j \in I : j <= i].rt
Pinned(f) == \E t \in Threads : \E i \in DOMAIN frames[t] : frames[t][i].ref = f
InQueue(f) == \E i \in DOMAIN queue : queue[i] = f

-----------------------------------------------------------------------------
(* Entering and leaving V8PushEnvironment *)

\* Fault variant: every Locker taken as if it were the outermost one.
PushScopeAlwaysTopLevel(t, r) ==
  /\ lockOwner \in {NoThread, t}
  /\ frames' = [frames EXCEPT ![t] = Append(@, Frame("push", r, cur[t], TRUE, NoRef))]
  /\ lockOwner' = t
  /\ cur' = [cur EXCEPT ![t] = r]

\* The constructor: Locker (blocks unless this thread holds it; only the
\* top-level Locker unlocks), context scope, then save g_currentV8Runtime
\* and install r.
PushScope(t, r) ==
  /\ lockOwner \in {NoThread, t}
  /\ frames' = [frames EXCEPT ![t] = Append(@, Frame("push", r, cur[t], ~IsLocked(t), NoRef))]
  /\ lockOwner' = t
  /\ cur' = [cur EXCEPT ![t] = r]

\* V8PushEnvironment<FakeScope, FakeScope>: the same without the Locker.
FakePushScope(t, r) ==
  /\ frames' = [frames EXCEPT ![t] = Append(@, Frame("fake", r, cur[t], FALSE, NoRef))]
  /\ cur' = [cur EXCEPT ![t] = r]
  /\ UNCHANGED lockOwner

\* Fault variant: a checkpoint that runs a single job.
RunOneMicrotask(r) ==
  tasks' = IF inGc = 0 THEN [tasks EXCEPT ![r] = @ - 1] ELSE tasks

\* V8ScriptRuntime::RunMicrotasks: one checkpoint, skipped inside a GC.
RunMicrotasks(r) ==
  tasks' = IF inGc = 0 THEN [tasks EXCEPT ![r] = 0] ELSE tasks

\* Fault variant: the destructor clears g_currentV8Runtime instead of
\* restoring the saved value.
PopScopeClearsCurrent(t) ==
  LET fr == Top(t) IN
  /\ RunsScript(t) /\ fr.kind \in {"push", "fake"} /\ ~Busy(t)
  /\ RunMicrotasks(fr.rt)
  /\ cur' = [cur EXCEPT ![t] = NoRuntime]
  /\ lockOwner' = IF fr.topLevel THEN NoThread ELSE lockOwner
  /\ frames' = [frames EXCEPT ![t] = Pop(@)]
  /\ UNCHANGED <<inGc, refVars, drained>>

\* Fault variant: the FakeScope variant of Tick fakes the microtask scope too.
PopScopeFakeNoCheckpoint(t) ==
  LET fr == Top(t) IN
  /\ RunsScript(t) /\ fr.kind \in {"push", "fake"} /\ ~Busy(t)
  /\ IF fr.kind = "fake" THEN UNCHANGED tasks ELSE RunMicrotasks(fr.rt)
  /\ cur' = [cur EXCEPT ![t] = fr.last]
  /\ lockOwner' = IF fr.topLevel THEN NoThread ELSE lockOwner
  /\ frames' = [frames EXCEPT ![t] = Pop(@)]
  /\ UNCHANGED <<inGc, refVars, drained>>

\* The destructor, members in reverse order: m_microtaskScope runs the
\* checkpoint, m_scoped restores the saved runtime, the Locker unlocks if
\* it was the top-level one.
PopScope(t) ==
  LET fr == Top(t) IN
  /\ RunsScript(t) /\ fr.kind \in {"push", "fake"} /\ ~Busy(t)
  /\ RunMicrotasks(fr.rt)
  /\ cur' = [cur EXCEPT ![t] = fr.last]
  /\ lockOwner' = IF fr.topLevel THEN NoThread ELSE lockOwner
  /\ frames' = [frames EXCEPT ![t] = Pop(@)]
  /\ UNCHANGED <<inGc, refVars, drained>>


-----------------------------------------------------------------------------
(* The dispatch surface: host calls on a runtime *)

\* V8ScriptRuntime::Tick. The OnTick hook already holds the Locker, so the
\* client build always takes the FakeScope variant; the server build takes
\* the Locker when this thread does not hold it.
Tick(t, r) ==
  /\ "tick" \in Registered[r]
  /\ Free(t) /\ t = MainThread
  /\ frames[t] = <<HookFrame>> \/ (Server /\ frames[t] = <<>>)
  /\ IF Server /\ ~IsLocked(t) THEN PushScope(t, r) ELSE FakePushScope(t, r)
  /\ UNCHANGED <<tasks, inGc, refVars, drained>>

\* TriggerEvent, CallRef, DuplicateRef, RemoveRef and WalkStack: when the
\* routine is set, enter a V8PushEnvironment and call it.
EnterRoutine(t, r, k) ==
  /\ k \in Registered[r]
  /\ Free(t)
  /\ PushScope(t, r)
  /\ UNCHANGED <<tasks, inGc, refVars, drained>>

TriggerEvent(t, r) == EnterRoutine(t, r, "event")
CallRef(t, r) == EnterRoutine(t, r, "callRef")
DuplicateRef(t, r) == EnterRoutine(t, r, "dupRef")
RemoveRef(t, r) == EnterRoutine(t, r, "delRef")
WalkStack(t, r) == EnterRoutine(t, r, "stackTrace")

\* RunFileInternal (LoadFile, LoadSystemFile): enter a V8PushEnvironment,
\* then either run the compiled script or return early on a load or
\* compile failure, leaving the scope at once.
LoadFile(t, r) ==
  /\ Free(t)
  /\ \/ /\ PushScope(t, r)
        /\ UNCHANGED tasks
     \/ /\ lockOwner \in {NoThread, t}
        /\ RunMicrotasks(r)
        /\ UNCHANGED <<frames, cur, lockOwner>>
  /\ UNCHANGED <<inGc, refVars, drained>>

\* EmitWarning: looks up console.warn and calls it with no Locker, no
\* context scope and no change of g_currentV8Runtime. m_context.Get needs an
\* entered isolate and a HandleScope, so the caller is a native called from
\* script; with WarnAnywhere that script may belong to another runtime.
EmitWarning(t, r) ==
  /\ Free(t)
  /\ TopKind(t) = "native"
  /\ WarnAnywhere \/ NearestScript(t) = r
  /\ frames' = [frames EXCEPT ![t] = Append(@, Frame("bare", r, cur[t], FALSE, NoRef))]
  /\ UNCHANGED <<lockOwner, cur, tasks, inGc, refVars, drained>>

\* console.warn returns.
ReturnWarning(t) ==
  /\ TopKind(t) = "bare" /\ ~Busy(t)
  /\ frames' = [frames EXCEPT ![t] = Pop(@)]
  /\ UNCHANGED <<lockOwner, cur, tasks, inGc, refVars, drained>>

-----------------------------------------------------------------------------
(* What the runtime's script does while it runs *)

\* script of a runtime runs (a node callback of an environment whose
\* runtime is gone runs no script of any runtime)
ScriptStep(t) == RunsScript(t) /\ ~Busy(t) /\ Top(t).rt \in Runtimes
Self(t) == Top(t).rt

\* a promise settles: a job is queued on the runtime's microtask queue
EnqueueMicrotask(t) ==
  /\ ScriptStep(t)
  /\ tasks[Self(t)] < MaxTasks
  /\ tasks' = [tasks EXCEPT ![Self(t)] = @ + 1]
  /\ UNCHANGED <<lockOwner, frames, cur, inGc, refVars, drained>>

\* V8_InvokeNative: the host runs the native until it returns.
CallNative(t) ==
  /\ ScriptStep(t) /\ Room(t)
  /\ frames' = [frames EXCEPT ![t] = Append(@, Frame("native", Self(t), cur[t], FALSE, NoRef))]
  /\ UNCHANGED <<lockOwner, cur, tasks, inGc, refVars, drained>>

ReturnNative(t) ==
  /\ TopKind(t) = "native" /\ ~Busy(t)
  /\ frames' = [frames EXCEPT ![t] = Pop(@)]
  /\ UNCHANGED <<lockOwner, cur, tasks, inGc, refVars, drained>>

\* read()/readbuffer() (ReadFileData): a V8PushEnvironment of the caller's
\* runtime nested inside its running script, left as soon as the file is
\* read.
ReadFileData(t) ==
  /\ ScriptStep(t)
  /\ lockOwner \in {NoThread, t}
  /\ RunMicrotasks(Self(t))
  /\ UNCHANGED <<lockOwner, frames, cur, inGc, refVars, drained>>

-----------------------------------------------------------------------------
(* node's scope handler (V8_NODE builds with UseNode())                    *)
(* node enters and leaves the engine around every callback it makes into   *)
(* JS of an environment; the handler pushes an entry on the thread-local   *)
(* g_envStack and the leave callback destroys the top one.                 *)

\* Fault variant: the Lite environment's Locker taken as the outermost one.
LitePushTopLevel(t, r) ==
  /\ lockOwner \in {NoThread, t}
  /\ frames' = [frames EXCEPT ![t] = Append(@, Frame("lite", r, cur[t], TRUE, NoRef))]
  /\ lockOwner' = t
  /\ cur' = [cur EXCEPT ![t] = r]

\* V8LitePushEnvironment: Locker, isolate scope and fx::PushEnvironment,
\* then save g_currentV8Runtime and install r; no context scope.
LitePush(t, r) ==
  /\ lockOwner \in {NoThread, t}
  /\ frames' = [frames EXCEPT ![t] = Append(@, Frame("lite", r, cur[t], ~IsLocked(t), NoRef))]
  /\ lockOwner' = t
  /\ cur' = [cur EXCEPT ![t] = r]

\* V8LiteNoRuntimePushEnvironment: the Locker and the isolate scope only;
\* g_currentV8Runtime keeps whatever the thread had.
LiteNoRuntimePush(t, e) ==
  /\ lockOwner \in {NoThread, t}
  /\ frames' = [frames EXCEPT ![t] = Append(@, Frame("liteNR", e, cur[t], ~IsLocked(t), NoRef))]
  /\ lockOwner' = t
  /\ UNCHANGED cur

\* V8NoopPushEnvironment: nothing at all.
NoopPush(t, r) ==
  /\ frames' = [frames EXCEPT ![t] = Append(@, Frame("noop", r, cur[t], FALSE, NoRef))]
  /\ UNCHANGED <<lockOwner, cur>>

\* The enter callback for environment env, whose runtime is e
\* (GetEnvRuntime; NoRuntime once Destroy erased it from g_envRuntimes, which
\* leaves FreeEnvironment's callbacks inside Destroy's own scope):
\*   e already current             -> noop, so no checkpoint runs on leave
\*   Locker held by this thread    -> Lite if fx TryPush succeeds, else LiteNoRuntime
\*   otherwise                     -> Lite, blocking on the Locker
NodeScopeEnter(t, e) ==
  /\ NodeBuild /\ Free(t)
  /\ \/ /\ e = NoRuntime /\ IsLocked(t) /\ InnermostScope(t) # NoRuntime
        /\ LiteNoRuntimePush(t, e)
     \/ /\ e # NoRuntime /\ cur[t] = e
        /\ NoopPush(t, e)
     \/ /\ e # NoRuntime /\ cur[t] # e /\ IsLocked(t)
        /\ LitePush(t, e) \/ LiteNoRuntimePush(t, e)
     \/ /\ e # NoRuntime /\ cur[t] # e /\ ~IsLocked(t)
        /\ LitePush(t, e)
  /\ UNCHANGED <<tasks, inGc, refVars, drained>>

\* Fault variant: the Lite environment's leave does not restore the saved runtime.
NodeScopeExitKeepsCurrent(t) ==
  LET fr == Top(t) IN
  /\ TopKind(t) \in NodeKinds /\ ~Busy(t)
  /\ \/ fr.kind = "lite" /\ RunMicrotasks(fr.rt)
     \/ fr.kind \in {"liteNR", "noop"} /\ UNCHANGED tasks
  /\ lockOwner' = IF fr.topLevel THEN NoThread ELSE lockOwner
  /\ frames' = [frames EXCEPT ![t] = Pop(@)]
  /\ UNCHANGED <<cur, inGc, refVars, drained>>

\* The leave callback: g_envStack.pop() destroys the top entry. A Lite
\* environment's members go in reverse order like V8PushEnvironment's
\* (checkpoint, restore the saved runtime, unlock if outermost); the
\* LiteNoRuntime one only unlocks; the noop one does nothing.
NodeScopeExit(t) ==
  LET fr == Top(t) IN
  /\ TopKind(t) \in NodeKinds /\ ~Busy(t)
  /\ \/ /\ fr.kind = "lite"
        /\ RunMicrotasks(fr.rt)
        /\ cur' = [cur EXCEPT ![t] = fr.last]
     \/ /\ fr.kind \in {"liteNR", "noop"}
        /\ UNCHANGED <<tasks, cur>>
  /\ lockOwner' = IF fr.topLevel THEN NoThread ELSE lockOwner
  /\ frames' = [frames EXCEPT ![t] = Pop(@)]
  /\ UNCHANGED <<inGc, refVars, drained>>

-----------------------------------------------------------------------------
(* Function references and the garbage collector *)

\* V8_MakeFunctionReference: a new RefAndPersistent; the wrapper function
\* gets a weak handle, or, when Function::New fails, the entry is deleted.
MakeFunctionReference(t, f) ==
  /\ ScriptStep(t)
  /\ refState[f] = "unmade"
  /\ \/ /\ refState' = [refState EXCEPT ![f] = "reachable"]
        /\ refHandle' = [refHandle EXCEPT ![f] = TRUE]
     \/ /\ refState' = [refState EXCEPT ![f] = "discarded"]
        /\ UNCHANGED refHandle
  /\ refOwner' = [refOwner EXCEPT ![f] = Self(t)]
  /\ UNCHANGED <<lockOwner, frames, cur, tasks, inGc, queue, drained>>

\* The owning script lets go of the last reference to the wrapper.
DropReference(t, f) ==
  /\ ScriptStep(t)
  /\ refOwner[f] = Self(t) /\ refState[f] = "reachable"
  /\ refState' = [refState EXCEPT ![f] = "unreachable"]
  /\ UNCHANGED <<lockOwner, frames, cur, tasks, inGc,
                 refOwner, refHandle, queue, drained>>

\* V8_InvokeFunctionReference: script calls the wrapper, which forwards
\* the payload to IScriptHost::InvokeFunctionReference; the wrapper is on
\* the stack until the host returns.
InvokeFunctionReference(t, f) ==
  /\ ScriptStep(t) /\ Room(t)
  /\ refOwner[f] = Self(t) /\ refState[f] = "reachable"
  /\ frames' = [frames EXCEPT ![t] = Append(@, Frame("native", Self(t), cur[t], FALSE, f))]
  /\ UNCHANGED <<lockOwner, cur, tasks, inGc, refVars, drained>>

\* The GC prologue callback: g_isV8InGc++. A GC runs on the thread holding
\* the Locker, at an allocation in script or in the host.
GcPrologue(t) ==
  /\ IsLocked(t) /\ inGc = 0
  /\ inGc' = inGc + 1
  /\ UNCHANGED <<lockOwner, frames, cur, tasks, refVars, drained>>

\* Fault variant: the weak callback deletes the entry at once.
FnRefWeakCallbackDeletes(t, f) ==
  /\ Busy(t)
  /\ refHandle[f] /\ refState[f] = "unreachable" /\ ~Pinned(f)
  /\ refHandle' = [refHandle EXCEPT ![f] = FALSE]
  /\ refState' = [refState EXCEPT ![f] = "freed"]
  /\ UNCHANGED <<lockOwner, frames, cur, tasks, inGc, refOwner, queue, drained>>

\* FnRefWeakCallback for a wrapper that is unreachable and not on a stack:
\* reset the handle and defer the release to the tick.
FnRefWeakCallback(t, f) ==
  /\ Busy(t)
  /\ refHandle[f] /\ refState[f] = "unreachable" /\ ~Pinned(f)
  /\ refHandle' = [refHandle EXCEPT ![f] = FALSE]
  /\ queue' = Append(queue, f)
  /\ UNCHANGED <<lockOwner, frames, cur, tasks, inGc, refState, refOwner, drained>>

\* The GC epilogue callback: g_isV8InGc--.
GcEpilogue(t) ==
  /\ Busy(t)
  /\ inGc' = inGc - 1
  /\ UNCHANGED <<lockOwner, frames, cur, tasks, refVars, drained>>

-----------------------------------------------------------------------------
(* The ResourceManager::OnTick handlers installed by initFunction *)

\* priority INT32_MIN: take the Locker and enter the isolate
TickHookEnter(t) ==
  /\ t = MainThread /\ frames[t] = <<>> /\ lockOwner = NoThread
  /\ frames' = [frames EXCEPT ![t] = <<HookFrame>>]
  /\ lockOwner' = t
  /\ drained' = FALSE
  /\ UNCHANGED <<cur, tasks, inGc, refVars>>

DrainCleanUpQueue(t) ==
  /\ frames[t] = <<HookFrame>> /\ ~drained /\ ~Busy(t)
  /\ refState' = [f \in Refs |-> IF InQueue(f) THEN "freed" ELSE refState[f]]
  /\ queue' = <<>>
  /\ drained' = TRUE
  /\ UNCHANGED <<lockOwner, frames, cur, tasks, inGc, refOwner, refHandle>>

\* priority INT32_MAX: leave the isolate and destroy the Locker
TickHookExit(t) ==
  /\ frames[t] = <<HookFrame>> /\ drained /\ ~Busy(t)
  /\ frames' = [frames EXCEPT ![t] = <<>>]
  /\ lockOwner' = NoThread
  /\ UNCHANGED <<cur, tasks, inGc, refVars, drained>>

-----------------------------------------------------------------------------
(* The specification *)

Init ==
  /\ lockOwner = NoThread
  /\ frames = [t \in Threads |-> <<>>]
  /\ cur = [t \in Threads |-> NoRuntime]
  /\ tasks = [r \in Runtimes |-> 0]
  /\ inGc = 0
  /\ refState = [f \in Refs |-> "unmade"]
  /\ refOwner = [f \in Refs |-> NoRuntime]
  /\ refHandle = [f \in Refs |-> FALSE]
  /\ queue = <<>>
  /\ drained = TRUE

HostStep(t) ==
  \/ \E r \in Runtimes :
       \/ Tick(t, r) \/ TriggerEvent(t, r) \/ CallRef(t, r) \/ DuplicateRef(t, r)
       \/ RemoveRef(t, r) \/ WalkStack(t, r) \/ LoadFile(t, r) \/ EmitWarning(t, r)
  \/ \E e \in Runtimes \cup {NoRuntime} : NodeScopeEnter(t, e)
  \/ ReturnNative(t) \/ ReturnWarning(t)
  \/ TickHookEnter(t) \/ DrainCleanUpQueue(t) \/ TickHookExit(t)

ScriptAction(t) ==
  \/ PopScope(t) \/ NodeScopeExit(t)
  \/ EnqueueMicrotask(t) \/ CallNative(t) \/ ReadFileData(t)
  \/ \E f \in Refs : MakeFunctionReference(t, f) \/ DropReference(t, f)
                     \/ InvokeFunctionReference(t, f)

GcStep(t) ==
  \/ GcPrologue(t) \/ GcEpilogue(t) \/ \E f \in Refs : FnRefWeakCallback(t, f)

Next == \E t \in Threads : HostStep(t) \/ ScriptAction(t) \/ GcStep(t)

Spec == Init /\ [][Next]_vars

\* Every script invocation, native call and GC pass runs to completion
\* (the bridge never suspends, section 5 of the spec), and the host's main
\* loop keeps running ResourceManager::OnTick, whose handlers run in order,
\* and ticks every resource once per frame (Tick of each runtime).
Fairness ==
  /\ \A t \in Threads :
        /\ SF_vars(PopScope(t)) /\ SF_vars(NodeScopeExit(t)) /\ SF_vars(ReturnNative(t))
        /\ SF_vars(ReturnWarning(t)) /\ WF_vars(GcEpilogue(t))
  /\ SF_vars(TickHookEnter(MainThread))
  /\ SF_vars(DrainCleanUpQueue(MainThread))
  /\ SF_vars(TickHookExit(MainThread))
  /\ \A r \in Runtimes : SF_vars(Tick(MainThread, r))

FairSpec == Spec /\ Fairness

-----------------------------------------------------------------------------
(* The registry as the two-phase reclamation of RefReclamation: an entry  *)
(* that is unreachable and queued is "pending", one unreachable and not    *)
(* yet queued is "dead"; an entry is in use while a wrapper frame pins it. *)

AbsRefState(f) ==
  CASE refState[f] = "reachable"                   -> "live"
    [] refState[f] = "unreachable" /\ InQueue(f)   -> "pending"
    [] refState[f] = "unreachable" /\ ~InQueue(f)  -> "dead"
    [] OTHER                                       -> refState[f]

Reclamation == INSTANCE RefReclamation
                 WITH state <- [f \in Refs |-> AbsRefState(f)],
                      inUse <- {f \in Refs : Pinned(f)}

-----------------------------------------------------------------------------
(* Properties *)

TypeOK ==
  /\ lockOwner \in Threads \cup {NoThread}
  /\ \A t \in Threads : frames[t] \in Seq([kind : FrameKinds,
                                           rt : Runtimes \cup {NoRuntime},
                                           last : Runtimes \cup {NoRuntime},
                                           topLevel : BOOLEAN,
                                           ref : Refs \cup {NoRef}])
  /\ cur \in [Threads -> Runtimes \cup {NoRuntime}]
  /\ tasks \in [Runtimes -> 0..MaxTasks]
  /\ inGc \in 0..1
  /\ refState \in [Refs -> RefStates]
  /\ refOwner \in [Refs -> Runtimes \cup {NoRuntime}]
  /\ refHandle \in [Refs -> BOOLEAN]
  /\ queue \in Seq(Refs)
  /\ drained \in BOOLEAN

\* Every thread that is inside the engine (in any scope, script or call
\* made from script) holds the isolate's Locker: the reentrant Locker of
\* V8PushEnvironment must unlock only when its outermost instance is
\* destroyed, and no entry path may run script without it.
EngineExclusive ==
  \A t \in Threads : frames[t] # <<>> => lockOwner = t

\* g_currentV8Runtime of every thread is the runtime of its innermost
\* V8PushEnvironment (none outside all of them), and running script always
\* sees its own runtime as current, which GetCurrent() users such as
\* invokeNativeByHash and ScriptTrace rely on.
ScriptSeesOwnRuntime ==
  \A t \in Threads :
    /\ cur[t] = InnermostScope(t)
    /\ RunsScript(t) => cur[t] = Top(t).rt

\* Spec section 4.1: every scope exit restores the previous current runtime,
\* so however V8PushEnvironment, node's Lite, LiteNoRuntime and noop
\* environments and native calls nest and unwind on a thread,
\* g_currentV8Runtime is the runtime of the innermost entry that installed
\* one, and NoRuntime once the thread has left them all.
CurrentRuntimeRestored == \A t \in Threads : cur[t] = InnermostScope(t)

\* An entry is deleted only after the weak callback queued it, and only at a
\* safe point: outside any GC pass and with no thread inside a scope, in
\* script or in a call made from script.
FreedOnlyAtSafePoint ==
  [][\A f \in Refs :
       (refState'[f] = "freed" /\ refState[f] # "freed") =>
         /\ InQueue(f) /\ inGc = 0
         /\ \A t \in Threads : \A i \in DOMAIN frames[t] : frames[t][i].kind = "hook"]_vars

\* A script may call natives without bound, so the liveness property below
\* assumes what the host relies on: every thread keeps coming back out of
\* script code.
ScriptsReturn == \A t \in Threads : []<>(TopKind(t) \in {"none", "hook"})

\* Spec section 5: a promise reaction queued by a runtime's script is run by
\* a later checkpoint of that runtime, also when it was queued inside a node
\* callback whose LiteNoRuntime or noop environment runs none on leave and
\* whose enclosing scopes belong to another runtime: the runtime's next Tick
\* scope exit runs it. (Assumes ScriptsReturn, as above.)
MicrotasksEventuallyRun ==
  ScriptsReturn => \A r \in Runtimes : tasks[r] > 0 ~> tasks[r] = 0

MicrotasksOnlyAtOutermostExit ==
  [][\A r \in Runtimes :
       tasks'[r] < tasks[r] =>
         \A t \in Threads : \A i \in DOMAIN frames'[t] :
           frames'[t][i].kind \in ScriptKinds => frames'[t][i].rt # r]_vars

=============================================================================
