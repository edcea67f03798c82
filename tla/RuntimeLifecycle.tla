-------------------------- MODULE RuntimeLifecycle --------------------------
(***************************************************************************)
(* One V8ScriptRuntime from Create to Destroy: Create makes the context    *)
(* and loads the natives file and the platform scripts in order, each      *)
(* through RunFileInternal, whose scope exit runs the microtask            *)
(* checkpoint; scripts register the routines with the Citizen.set*         *)
(* functions, where the first registration of each kind wins; the host    *)
(* dispatches routines; the isolate's promise reject callback runs the     *)
(* unhandled-rejection routine of the promise's creation context; Destroy  *)
(* clears routines and resets the context.                                 *)
(***************************************************************************)
EXTENDS Integers, Sequences, SequencesExt

CONSTANTS
  Callables,   \* guest functions a script may register
  Unset,       \* an empty std::function
  NumScripts,  \* the natives file and the platform scripts Create loads
  MaxTasks,    \* bound on pending microtasks
  NodeBuild    \* V8_NODE with UseNode(): Destroy pushes a V8PushEnvironment

ASSUME NumScripts \in Nat \ {0} /\ MaxTasks \in Nat /\ NodeBuild \in BOOLEAN

VARIABLES
  phase,          \* "new", "loading", "ready", "failed", "destroyed"
  loaded,         \* system scripts loaded so far
  running,        \* a script of this runtime is on the stack
  routines,       \* the seven routine members
  tasks,          \* m_taskQueue: pending reactions, each registering a routine
  context,        \* m_context is set
  sharedPromise,  \* a pending promise of this context is held elsewhere
  lastRun,        \* the latest routine invocation and whether a context existed
  load            \* the latest RunFileInternal: its file, stage and result

vars == <<phase, loaded, running, routines, tasks, context, sharedPromise, lastRun, load>>

\* m_tickRoutine .. m_unhandledPromiseRejectionRoutine
Kinds == {"tick", "event", "callRef", "dupRef", "delRef", "stackTrace", "rejection"}

\* the routines the host calls through the dispatch surface
DispatchKinds == Kinds \ {"rejection"}

NoRun == [k |-> "none", c |-> Unset, ctx |-> TRUE]

\* the step of the load function that fails, "none" when the script compiles:
\* OpenSystemFile / OpenHostFile, fxIStream::GetLength, fxIStream::Read,
\* Script::Compile
FailPoints == {"open", "length", "read", "compile", "none"}

NoLoad == [src |-> "none", stage |-> "idle", failAt |-> "none", threw |-> FALSE,
           hr |-> "none", traced |-> FALSE]

-----------------------------------------------------------------------------

\* SetTickRoutine .. SetUnhandledPromiseRejectionRoutine: if (!m_x) m_x = routine
SetRoutine(rs, k, c) == IF rs[k] = Unset THEN [rs EXCEPT ![k] = c] ELSE rs

\* fault variant: the reactions run but stay queued
RunMicrotasksKeepsQueue ==
  /\ routines' = FoldLeft(LAMBDA rs, t : SetRoutine(rs, t.k, t.c), routines, tasks)
  /\ UNCHANGED tasks

\* RunMicrotasks: PerformCheckpoint runs every pending reaction in order
RunMicrotasks ==
  /\ routines' = FoldLeft(LAMBDA rs, t : SetRoutine(rs, t.k, t.c), routines, tasks)
  /\ tasks' = <<>>

\* Destroy: the five routine members it assigns an empty function
Cleared == {"event", "tick", "callRef", "delRef", "dupRef"}

-----------------------------------------------------------------------------
(* Create *)

\* Create up to the first LoadSystemFile: context, microtask queue, globals
CreateBegin ==
  /\ phase = "new"
  /\ phase' = "loading"
  /\ context' = TRUE
  /\ UNCHANGED <<loaded, running, routines, tasks, sharedPromise, lastRun, load>>

\* fault variant: the load function goes on to compile when Read failed
RunFileLoadIgnoringRead(src, failAt) ==
  /\ ~running
  /\ IF failAt \in {"none", "read"}
     THEN /\ running' = TRUE
          /\ load' = [NoLoad EXCEPT !.src = src, !.stage = "running", !.failAt = failAt]
          /\ UNCHANGED <<routines, tasks>>
     ELSE /\ load' = [NoLoad EXCEPT !.src = src, !.stage = "done", !.failAt = failAt,
                       !.hr = IF failAt = "compile" THEN "invalidArg" ELSE "hostError",
                       !.traced = (failAt = "compile")]
          /\ RunMicrotasks
          /\ UNCHANGED running

\* RunFileInternal up to script->Run: push the V8PushEnvironment and call the
\* load function (LoadSystemFileInternal or LoadHostFileInternal, then
\* LoadFileInternal). The first of open, GetLength and Read to fail returns
\* its hr untraced; a compile error is traced and gives FX_E_INVALIDARG.
\* On failure RunFileInternal returns and the scope exit runs the checkpoint.
RunFileLoad(src, failAt) ==
  /\ ~running
  /\ IF failAt = "none"
     THEN /\ running' = TRUE
          /\ load' = [NoLoad EXCEPT !.src = src, !.stage = "running"]
          /\ UNCHANGED <<routines, tasks>>
     ELSE /\ load' = [NoLoad EXCEPT !.src = src, !.stage = "done", !.failAt = failAt,
                       !.hr = IF failAt = "compile" THEN "invalidArg" ELSE "hostError",
                       !.traced = (failAt = "compile")]
          /\ RunMicrotasks
          /\ UNCHANGED running

\* RunFileInternal from script->Run on: an exception is traced and gives
\* FX_E_INVALIDARG, a completed run FX_S_OK; the scope exit runs the checkpoint
ScriptReturn(threw) ==
  /\ running /\ load.stage = "running"
  /\ running' = FALSE
  /\ load' = [load EXCEPT !.stage = "done", !.threw = threw,
                           !.hr = IF threw THEN "invalidArg" ELSE "ok", !.traced = threw]
  /\ RunMicrotasks

\* Create: LoadSystemFile of the natives file, then of each platform script
SystemScriptLoad(failAt) ==
  /\ phase = "loading"
  /\ RunFileLoad("system", failAt)
  /\ phase' = IF failAt = "none" THEN "loading" ELSE "failed"
  /\ UNCHANGED <<loaded, context, sharedPromise, lastRun>>

\* fault variant: Create stops one script too late
SystemScriptLoadedOffByOne ==
  /\ phase = "loading" /\ load.src = "system"
  /\ ScriptReturn(FALSE)
  /\ loaded' = loaded + 1
  /\ phase' = IF loaded = NumScripts THEN "ready" ELSE "loading"
  /\ UNCHANGED <<context, sharedPromise, lastRun>>

\* LoadSystemFile returns FX_S_OK: Create goes on to the next script or returns
SystemScriptLoaded ==
  /\ phase = "loading" /\ load.src = "system"
  /\ ScriptReturn(FALSE)
  /\ loaded' = loaded + 1
  /\ phase' = IF loaded + 1 = NumScripts THEN "ready" ELSE "loading"
  /\ UNCHANGED <<context, sharedPromise, lastRun>>

\* the system script threw: Create returns hr, leaving what earlier scripts set
SystemScriptFailed ==
  /\ phase = "loading" /\ load.src = "system"
  /\ ScriptReturn(TRUE)
  /\ phase' = "failed"
  /\ UNCHANGED <<loaded, context, sharedPromise, lastRun>>

-----------------------------------------------------------------------------
(* What a running script of this runtime may do *)

\* V8_SetTickFunction .. V8_SetUnhandledPromiseRejectionRoutine
ScriptSetRoutine(k, c) ==
  /\ running
  /\ routines' = SetRoutine(routines, k, c)
  /\ UNCHANGED <<phase, loaded, running, tasks, context, sharedPromise, lastRun, load>>

\* a promise reaction that will register a routine when it runs
ScriptQueueTask(k, c) ==
  /\ running /\ Len(tasks) < MaxTasks
  /\ tasks' = Append(tasks, [k |-> k, c |-> c])
  /\ UNCHANGED <<phase, loaded, running, routines, context, sharedPromise, lastRun, load>>

\* a pending promise created in this context is handed to another resource
ScriptSharePromise ==
  /\ running /\ ~sharedPromise
  /\ sharedPromise' = TRUE
  /\ UNCHANGED <<phase, loaded, running, routines, tasks, context, lastRun, load>>

\* read / readbuffer: ReadFileData pushes a V8PushEnvironment for this
\* runtime, opens the file (a failure is thrown into the script) and reads
\* it; the scope's exit runs the checkpoint in the middle of the script
ScriptRead ==
  /\ running
  /\ RunMicrotasks
  /\ UNCHANGED <<phase, loaded, running, context, sharedPromise, lastRun, load>>

-----------------------------------------------------------------------------
(* The host and the engine *)

\* Tick, TriggerEvent, CallRef, DuplicateRef, RemoveRef, WalkStack: if the
\* routine is set, enter the scope and call it
Dispatch(k) ==
  /\ phase = "ready" /\ ~running
  /\ routines[k] # Unset
  /\ running' = TRUE
  /\ lastRun' = [k |-> k, c |-> routines[k], ctx |-> context]
  /\ UNCHANGED <<phase, loaded, routines, tasks, context, sharedPromise, load>>

\* LoadFile: RunFileInternal of a resource script through LoadHostFileInternal
LoadFile(failAt) ==
  /\ phase = "ready"
  /\ RunFileLoad("host", failAt)
  /\ UNCHANGED <<phase, loaded, context, sharedPromise, lastRun>>

\* the resource script's Run returns or throws
HostScriptReturned(threw) ==
  /\ phase = "ready" /\ load.src = "host"
  /\ ScriptReturn(threw)
  /\ UNCHANGED <<phase, loaded, context, sharedPromise, lastRun>>

\* the routine returns; the V8PushEnvironment exit runs the checkpoint
DispatchReturn ==
  /\ phase = "ready" /\ running /\ load.stage # "running"
  /\ running' = FALSE
  /\ RunMicrotasks
  /\ UNCHANGED <<phase, loaded, context, sharedPromise, lastRun, load>>

\* SetPromiseRejectCallback (builds without node): a promise of this context
\* rejects with no handler, wherever it is held; the runtime is found through
\* the context's embedder data and HandlePromiseRejection calls the routine
PromiseRejected ==
  /\ ~NodeBuild /\ sharedPromise
  /\ routines["rejection"] # Unset
  /\ sharedPromise' = FALSE
  /\ lastRun' = [k |-> "rejection", c |-> routines["rejection"], ctx |-> context]
  /\ UNCHANGED <<phase, loaded, running, routines, tasks, context, load>>

\* Destroy: clear five routines, enter the environment (a V8PushEnvironment
\* in the node build, whose exit runs the checkpoint), reset the context
Destroy ==
  /\ phase \in {"ready", "failed"} /\ ~running
  /\ phase' = "destroyed"
  /\ context' = FALSE
  /\ LET rs == [k \in Kinds |-> IF k \in Cleared THEN Unset ELSE routines[k]] IN
     IF NodeBuild
     THEN /\ routines' = FoldLeft(LAMBDA r, t : SetRoutine(r, t.k, t.c), rs, tasks)
          /\ tasks' = <<>>
     ELSE /\ routines' = rs
          /\ UNCHANGED tasks
  /\ UNCHANGED <<loaded, running, sharedPromise, lastRun, load>>

-----------------------------------------------------------------------------

Init ==
  /\ phase = "new"
  /\ loaded = 0
  /\ running = FALSE
  /\ routines = [k \in Kinds |-> Unset]
  /\ tasks = <<>>
  /\ context = FALSE
  /\ sharedPromise = FALSE
  /\ lastRun = NoRun
  /\ load = NoLoad

Next ==
  \/ CreateBegin \/ SystemScriptLoaded \/ SystemScriptFailed
  \/ \E f \in FailPoints : SystemScriptLoad(f) \/ LoadFile(f)
  \/ \E threw \in BOOLEAN : HostScriptReturned(threw)
  \/ \E k \in Kinds, c \in Callables : ScriptSetRoutine(k, c) \/ ScriptQueueTask(k, c)
  \/ ScriptSharePromise \/ ScriptRead
  \/ \E k \in DispatchKinds : Dispatch(k)
  \/ DispatchReturn \/ PromiseRejected \/ Destroy

Spec == Init /\ [][Next]_vars

-----------------------------------------------------------------------------
(* Properties *)

TypeOK ==
  /\ phase \in {"new", "loading", "ready", "failed", "destroyed"}
  /\ loaded \in 0 .. NumScripts
  /\ running \in BOOLEAN /\ context \in BOOLEAN /\ sharedPromise \in BOOLEAN
  /\ routines \in [Kinds -> Callables \cup {Unset}]
  /\ tasks \in Seq([k : Kinds, c : Callables]) /\ Len(tasks) <= MaxTasks
  /\ load.stage \in {"idle", "running", "done"} /\ load.failAt \in FailPoints
  /\ load.hr \in {"none", "ok", "hostError", "invalidArg"}

\* Spec section 5: the checkpoint at every V8PushEnvironment exit means no
\* promise reaction of this runtime is left pending when control is back
\* with the host between Create, dispatches and Destroy.
ReactionsSettledAtHostBoundary ==
  ~running /\ phase \in {"ready", "failed"} => tasks = <<>>

\* Spec section 7 (a) and (c): LoadSystemFile and LoadFile return FX_S_OK
\* exactly when the file was opened, read and compiled and its script ran
\* to completion; a host failure comes back as the host's hr, untraced,
\* and a script-level error (compile or run) is sent to the trace sink and
\* returned as a failure; Create fails exactly when the system load that
\* ended it did not return FX_S_OK.
LoadResultsAsDocumented ==
  /\ load.stage = "done" =>
       /\ (load.hr = "ok") <=> (load.failAt = "none" /\ ~load.threw)
       /\ load.traced <=> (load.hr = "invalidArg")
  /\ phase = "failed" => load.src = "system" /\ load.stage = "done" /\ load.hr # "ok"
  /\ phase = "ready" => loaded = NumScripts

\* Spec sections 3 and 4.4: Destroy clears the routine callbacks and nothing
\* runs a routine of a destroyed runtime, so every routine invocation has
\* the runtime's context to call into.
NoRoutineRunsAfterDestroy == lastRun.ctx

====
