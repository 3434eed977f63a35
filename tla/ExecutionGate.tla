---------------------------- MODULE ExecutionGate ----------------------------
(***************************************************************************)
(* What job approval promises, without its tables and handlers: a run is   *)
(* either cleared when it is asked for or held until somebody clears it,   *)
(* and only a cleared run is ever executed.                                *)
(***************************************************************************)
CONSTANT Runs

VARIABLES
  held,     \* runs waiting for an approval
  cleared,  \* runs that may execute
  acting    \* runs an executor is working on

gate == <<held, cleared, acting>>

Init ==
  /\ held = {}
  /\ cleared = {}
  /\ acting = {}

Hold(r) ==
  /\ r \notin held \cup cleared
  /\ held' = held \cup {r}
  /\ UNCHANGED <<cleared, acting>>

Admit(r) ==
  /\ r \notin held \cup cleared
  /\ cleared' = cleared \cup {r}
  /\ UNCHANGED <<held, acting>>

Approve(r) ==
  /\ r \in held
  /\ held' = held \ {r}
  /\ cleared' = cleared \cup {r}
  /\ UNCHANGED acting

Act(r) ==
  /\ r \in cleared
  /\ acting' = acting \cup {r}
  /\ UNCHANGED <<held, cleared>>

\* Runs stop executing: one by one, or all at once when a process dies.
Stop ==
  /\ acting' \in SUBSET acting
  /\ UNCHANGED <<held, cleared>>

Next ==
  \/ \E r \in Runs : Hold(r) \/ Admit(r) \/ Approve(r) \/ Act(r)
  \/ Stop

Spec == Init /\ [][Next]_gate
=============================================================================
