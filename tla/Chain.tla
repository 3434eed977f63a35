-------------------------------- MODULE Chain --------------------------------
(* automation-service, plugins/executors/chain.py: one run of a template that *)
(* is a list of other templates.  Its steps are awaited one after another,    *)
(* each as a run of its own, while templates and hosts are edited and runs    *)
(* cancelled.  runner.execute may try the whole chain again.                  *)
EXTENDS Naturals

CONSTANTS
    Steps,      \* number of chain_steps
    Attempts,   \* retry_count + 1 of the chain's template
    MaxEdits    \* bound: what users do meanwhile, edits (of step templates and of the
                \* production tag) and cancels

Step == 1..Steps
Live == {"pending", "running"}
Ended == {"success", "failed", "error"}

VARIABLES
    keep,      \* continue_on_failure of each step
    runs,      \* whether a step can be run: there, enabled, not a chain, an executor for it
    prod,      \* whether it targets a production host
    edits,
    at,        \* "gate", "steps", where the step is, "waiting" (for the next attempt) or "over"
    attempt, i, ok,
    row,       \* the status in za_job_runs of the chain's own run
    child,     \* and of the run of each step in this attempt
    cancel,    \* runs a cancel has read as live and not yet written; 0 is the chain's own
    left,      \* runs of earlier attempts that were still live when those ended
    touched,   \* history: a step has run on a production host
    late       \* history: steps cancelled after the chain had read their success

vars == <<keep, runs, prod, edits, at, attempt, i, ok, row, child, cancel, left, touched, late>>
given == <<keep, runs, prod, edits>>

TypeOK ==
    /\ keep \in [Step -> BOOLEAN] /\ runs \in [Step -> BOOLEAN] /\ prod \in [Step -> BOOLEAN]
    /\ edits \in 0..MaxEdits
    /\ at \in {"gate", "steps", "child", "work", "read", "waiting", "over"}
    /\ attempt \in 1..Attempts /\ i \in 1..(Steps + 1) /\ ok \in BOOLEAN
    /\ row \in {"running", "cancelled"} \union Ended
    /\ child \in [Step -> {"none", "refused", "cancelled"} \union Live \union Ended]
    /\ cancel \subseteq 0..Steps /\ left \subseteq Step /\ touched \in BOOLEAN
    /\ late \subseteq Step

NoChildren == [s \in Step |-> "none"]

Init ==
    /\ keep \in [Step -> BOOLEAN] /\ runs \in [Step -> BOOLEAN] /\ prod \in [Step -> BOOLEAN]
    /\ edits = 0 /\ at = "gate" /\ attempt = 1 /\ i = 1 /\ ok = TRUE
    /\ row = "running" /\ child = NoChildren /\ cancel = {} /\ left = {}
    /\ touched = FALSE /\ late = {}

Stranded(c) == {s \in Step : c[s] \in Live \union {"cancelled"}}

\* runner.execute has the outcome of an attempt: it writes it or tries again, and
\* it does neither when the line that says so is not published, or the row is not
\* written.
Conclude(result) ==
    \/ IF result = "success" \/ attempt = Attempts
       THEN at' = "over" /\ row' = result
       ELSE at' = "waiting" /\ UNCHANGED row
    \/ at' = "over" /\ UNCHANGED row

\* The runs of the attempts before it are not looked at any more.
Retry ==
    /\ at = "waiting"
    /\ attempt' = attempt + 1 /\ at' = "gate" /\ i' = 1 /\ ok' = TRUE
    /\ left' = left \union Stranded(child) /\ child' = NoChildren
    /\ cancel' = cancel \intersect {0} /\ late' = {}
    /\ UNCHANGED <<given, row, touched>>

-----------------------------------------------------------------------------
\* any_production_hosts over the hosts of all the steps, which also says so
\* when inventory-service does not answer.
Gate(answered) ==
    /\ at = "gate"
    /\ IF ~answered \/ \E s \in Step : prod[s]
       THEN Conclude("failed")
       ELSE at' = "steps" /\ UNCHANGED row
    /\ UNCHANGED <<given, attempt, i, ok, child, cancel, left, touched, late>>

\* Bug: the steps after one that failed are run, whatever it says.
GoOnAnyway(s, good) == i' = s + 1

\* The next step, or none after one that failed without continue_on_failure.
GoOn(s, good) == i' = IF good \/ keep[s] THEN s + 1 ELSE Steps + 1

\* Not found, disabled, a chain itself, or of no executor.
RefuseStep ==
    /\ at = "steps" /\ i \in Step /\ ~runs[i]
    /\ ok' = FALSE /\ child' = [child EXCEPT ![i] = "refused"]
    /\ GoOn(i, FALSE)
    /\ UNCHANGED <<given, at, attempt, row, cancel, left, touched, late>>

\* The row of the step is there before its runner is awaited.
StartStep ==
    /\ at = "steps" /\ i \in Step /\ runs[i]
    /\ at' = "child" /\ child' = [child EXCEPT ![i] = "pending"]
    /\ UNCHANGED <<given, attempt, i, ok, row, cancel, left, touched, late>>

\* Whatever its row says by now.
RunStep ==
    /\ at = "child"
    /\ at' = "work" /\ child' = [child EXCEPT ![i] = "running"]
    /\ touched' = (touched \/ prod[i])
    /\ UNCHANGED <<given, attempt, i, ok, row, cancel, left, late>>

\* Its end is written over what the row says; with its executor disabled it
\* fails before it has begun.
EndStep(result) ==
    /\ at = "work" \/ (at = "child" /\ result = "failed")
    /\ result \in Ended
    /\ at' = "read" /\ child' = [child EXCEPT ![i] = result]
    /\ UNCHANGED <<given, attempt, i, ok, row, cancel, left, touched, late>>

\* The chain reads the row of the step back.
ReadBack ==
    LET good == child[i] = "success"
    IN /\ at = "read" /\ at' = "steps"
       /\ ok' = (ok /\ good)
       /\ GoOn(i, good)
       /\ UNCHANGED <<given, attempt, row, child, cancel, left, touched, late>>

Finish ==
    /\ at = "steps" /\ i = Steps + 1
    /\ Conclude(IF ok THEN "success" ELSE "failed")
    /\ UNCHANGED <<given, attempt, i, ok, child, cancel, left, touched, late>>

\* The chain is cancelled by its timeout, and with it the runner of its step,
\* which writes no end; or a line cannot be published, in either of them.
TimeOut ==
    /\ at \in {"gate", "steps", "child", "work", "read"}
    /\ Conclude("error")
    /\ UNCHANGED <<given, attempt, i, ok, child, cancel, left, touched, late>>

-----------------------------------------------------------------------------
Edit(s) ==
    /\ edits < MaxEdits /\ edits' = edits + 1
    /\ \/ runs' = [runs EXCEPT ![s] = ~@] /\ UNCHANGED prod
       \/ prod' = [prod EXCEPT ![s] = ~@] /\ UNCHANGED runs
    /\ UNCHANGED <<keep, at, attempt, i, ok, row, child, cancel, left, touched, late>>

\* cancel_run reads the row of a run and writes it later, over whatever it has
\* become; nobody tells the task.
ReadForCancel(s) ==
    /\ s \notin cancel /\ (IF s = 0 THEN row ELSE child[s]) \in Live
    /\ cancel' = cancel \union {s}
    /\ edits < MaxEdits /\ edits' = edits + 1
    /\ UNCHANGED <<keep, runs, prod, at, attempt, i, ok, row, child, left, touched, late>>

CancelChain ==
    /\ 0 \in cancel /\ cancel' = cancel \ {0}
    /\ row' = "cancelled"
    /\ UNCHANGED <<given, at, attempt, i, ok, child, left, touched, late>>

CancelStep(s) ==
    /\ s \in cancel /\ cancel' = cancel \ {s}
    /\ child' = [child EXCEPT ![s] = "cancelled"]
    /\ late' = IF child[s] = "success" /\ ~(at = "read" /\ i = s) THEN late \union {s} ELSE late
    /\ UNCHANGED <<given, at, attempt, i, ok, row, left, touched>>

Next ==
    \/ Gate(TRUE) \/ Gate(FALSE) \/ RefuseStep \/ StartStep \/ RunStep
    \/ \E result \in Ended : EndStep(result)
    \/ ReadBack \/ Finish \/ TimeOut \/ Retry \/ CancelChain
    \/ \E s \in 0..Steps : ReadForCancel(s)
    \/ \E s \in Step : Edit(s) \/ CancelStep(s)

Spec == Init /\ [][Next]_vars

-----------------------------------------------------------------------------
\* chain.py:153-159: a step runs only when each one before it has succeeded or
\* says continue_on_failure, and a chain that succeeded has run every step of
\* its last attempt to success, whatever was edited or cancelled meanwhile.  Only
\* the row of a step can say "cancelled" by then, when its cancel was written
\* after the chain had read that it succeeded.
StepsAreEarned ==
    /\ \A s \in Step : child[s] # "none" =>
        \A t \in 1..(s - 1) : \/ child[t] = "success" \/ t \in late
                              \/ keep[t] /\ child[t] \notin Live \union {"none"}
    /\ row = "success" => \A s \in Step : child[s] = "success" \/ s \in late

\* chain.py:41, "refuse the WHOLE chain up front if ANY step targets a
\* production host, rather than silently running some/all steps unapproved".
ProductionIsRefused == ~touched

\* chain.py:144: a step's run has its own lifecycle; none is live once the chain is over.
StepsEndWithChain == at = "over" => left = {} /\ Stranded(child) = {}

\* A chain that was cancelled starts no other step.
CancelledStartsNothing == [][row = "cancelled" => ~StartStep]_vars
=============================================================================
