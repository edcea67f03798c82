--------------------------- MODULE RefReclamation ---------------------------
(***************************************************************************)
(* What the function reference registry promises, without threads, scopes *)
(* or queues: strict two-phase reclamation. A reference is made (or         *)
(* discarded when its wrapper cannot be allocated), invoked while it is    *)
(* live, dropped by its script, detected as unreachable only while no      *)
(* invocation uses it, and freed only after it was detected, by a release  *)
(* that frees every detected reference at once.                            *)
(***************************************************************************)
CONSTANT Refs

VARIABLES
  state,  \* state[f]: "unmade", "live", "dead", "pending", "freed", "discarded"
  inUse   \* references an invocation in progress is using

States == {"unmade", "live", "dead", "pending", "freed", "discarded"}

\* V8_MakeFunctionReference: the wrapper is created, or the entry discarded
Make(f) ==
  /\ state[f] = "unmade"
  /\ \E s \in {"live", "discarded"} : state' = [state EXCEPT ![f] = s]
  /\ UNCHANGED inUse

\* the script lets go of the wrapper
Drop(f) ==
  /\ state[f] = "live"
  /\ state' = [state EXCEPT ![f] = "dead"]
  /\ UNCHANGED inUse

\* V8_InvokeFunctionReference starts an invocation of a live wrapper
Use(f) ==
  /\ state[f] = "live"
  /\ inUse' = inUse \cup {f}
  /\ UNCHANGED state

\* the last invocation using f returns
Unuse(f) ==
  /\ f \in inUse
  /\ inUse' = inUse \ {f}
  /\ UNCHANGED state

\* phase 1, FnRefWeakCallback: detection of an unreachable, unused wrapper
Detect(f) ==
  /\ state[f] = "dead" /\ f \notin inUse
  /\ state' = [state EXCEPT ![f] = "pending"]
  /\ UNCHANGED inUse

\* phase 2, the tick's drain: every detected reference is freed
Release ==
  /\ state' = [f \in Refs |-> IF state[f] = "pending" THEN "freed" ELSE state[f]]
  /\ UNCHANGED inUse

Init ==
  /\ state = [f \in Refs |-> "unmade"]
  /\ inUse = {}

Next ==
  \/ \E f \in Refs : Make(f) \/ Drop(f) \/ Use(f) \/ Unuse(f) \/ Detect(f)
  \/ Release

Spec == Init /\ [][Next]_<<state, inUse>>

\* A reference is never detected or freed while an invocation uses it.
NeverReleasedInUse == \A f \in inUse : state[f] \in {"live", "dead"}

=============================================================================
