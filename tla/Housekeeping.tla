---------------------------- MODULE Housekeeping -----------------------------
(* The maintenance jobs of automation-service (housekeeping.py and its admin  *)
(* API) and what one of them exists for: the rotation policies of             *)
(* inventory-service (api/rotation.py), whose due dates nothing but the sweep *)
(* "password_rotation_due_check" looks at.                                    *)
(*                                                                            *)
(* The loop reads all jobs at once and then works through them one after the  *)
(* other, each for as long as it takes; an administrator may edit or trigger  *)
(* a job meanwhile.  The sweep is a call to another service with a timeout:   *)
(* the loop may go on while the sweep it started is still at work.            *)
EXTENDS Naturals

CONSTANTS
    Job,        \* the maintenance jobs
    Rotation,   \* the job that sweeps the rotation policies
    Sweep,      \* the calls of rotate-due that may be at work at once
    MaxEdits,   \* bound: edits of jobs and policies
    MaxFaults,  \* bound: ticks that fail on the database, restarts
    None

VARIABLES
    row,      \* za_housekeeping_jobs
    seen,     \* the jobs the tick will come to, and what for
    current,  \* the job the loop is at work on
    asked,    \* history: the last manual trigger: not yet served, or lost in a run's shadow
    policy,   \* the rotation policy of one credential
    sweep,    \* the calls of rotate-due
    tried,    \* history: what came of the rotation since it became due
    edits, faults

vars == <<row, seen, current, asked, policy, sweep, tried, edits, faults>>

JobRow == [enabled : BOOLEAN, next : {"none", "later", "due"}, manual : BOOLEAN]

Policy == [mode : {"off", "auto", "manual"}, due : BOOLEAN]

TypeOK ==
    /\ row \in [Job -> JobRow]
    /\ DOMAIN seen \subseteq Job /\ \A j \in DOMAIN seen : seen[j] \in {"first", "run"}
    /\ current \in Job \cup {None}
    /\ asked \in [Job -> {"no", "waiting", "crossed"}]
    /\ policy \in Policy
    /\ sweep \in [Sweep -> {"off", "called", "read", "accepted"}]
    /\ tried \in {"no", "refused", "once", "again"}
    /\ edits \in 0..MaxEdits /\ faults \in 0..MaxFaults

Init ==
    /\ row = [j \in Job |-> [enabled |-> TRUE, next |-> "none", manual |-> FALSE]]
    /\ seen = <<>> /\ current = None
    /\ asked = [j \in Job |-> "no"]
    /\ policy = [mode |-> "auto", due |-> FALSE]
    /\ sweep = [s \in Sweep |-> "off"]
    /\ tried = "no"
    /\ edits = 0 /\ faults = 0

Left(j) == [i \in DOMAIN seen \ {j} |-> seen[i]]

-----------------------------------------------------------------------------
\* The clock reaches a job's next run.
ComesDue(j) ==
    /\ row[j].next = "later"
    /\ row' = [row EXCEPT ![j].next = "due"]
    /\ UNCHANGED <<seen, current, asked, policy, sweep, tried, edits, faults>>

\* update_job: switch it, or give it another cron expression.
UpdateJob(j, enabled, reschedule) ==
    /\ edits < MaxEdits /\ edits' = edits + 1
    /\ row' = [row EXCEPT ![j].enabled = enabled,
                          ![j].next = IF reschedule THEN "none" ELSE @]
    /\ UNCHANGED <<seen, current, asked, policy, sweep, tried, faults>>

\* trigger_job.
TriggerJob(j) ==
    /\ row' = [row EXCEPT ![j].manual = TRUE]
    /\ asked' = [asked EXCEPT ![j] = IF current = j THEN "crossed" ELSE "waiting"]
    /\ UNCHANGED <<seen, current, policy, sweep, tried, edits, faults>>

\* Bug: a manual trigger does not make a job due.
DueByClock(r) == r.next = "due"

\* Bug: only a manual trigger makes a job due.
DueByTrigger(r) == r.manual

Due(r) == r.next = "due" \/ r.manual
FirstSight(r) == r.next = "none" /\ ~r.manual

\* _tick reads the enabled jobs; what it does with each is settled by what it
\* has read.
Tick ==
    /\ seen = <<>> /\ current = None
    /\ seen' = [j \in {i \in Job : row[i].enabled /\ (Due(row[i]) \/ FirstSight(row[i]))} |->
                  IF FirstSight(row[j]) THEN "first" ELSE "run"]
    /\ seen' # <<>>
    /\ UNCHANGED <<row, current, asked, policy, sweep, tried, edits, faults>>

\* _set_next_run, on the row as it is by now.
Schedule(j) ==
    /\ current = None
    /\ j \in DOMAIN seen /\ seen[j] = "first"
    /\ row' = [row EXCEPT ![j].next = "later"]
    /\ seen' = Left(j)
    /\ UNCHANGED <<current, asked, policy, sweep, tried, edits, faults>>

\* run_job_now: the sweep is one call to inventory-service, the others are
\* calls or deletes whose effect is not looked at here.
RunJob(j) ==
    /\ current = None
    /\ j \in DOMAIN seen /\ seen[j] = "run"
    /\ current' = j
    /\ asked' = [asked EXCEPT ![j] = "no"]
    /\ IF j = Rotation
       THEN \E s \in Sweep : sweep[s] = "off" /\ sweep' = [sweep EXCEPT ![s] = "called"]
       ELSE UNCHANGED sweep
    /\ UNCHANGED <<row, seen, policy, tried, edits, faults>>

\* _record_result, when the job answered or timed out.
RecordResult ==
    /\ current # None
    /\ row' = [row EXCEPT ![current].manual = FALSE, ![current].next = "later"]
    /\ seen' = Left(current)
    /\ current' = None
    /\ UNCHANGED <<asked, policy, sweep, tried, edits, faults>>

\* An exception outside a job ends the tick; a restart of the service too.
TickFails ==
    /\ faults < MaxFaults /\ faults' = faults + 1
    /\ seen # <<>> \/ current # None
    /\ seen' = <<>> /\ current' = None
    /\ UNCHANGED <<row, asked, policy, sweep, tried, edits>>

-----------------------------------------------------------------------------
\* put_rotation_policy; the next date counts from the last rotation, which may
\* be long ago.
PutPolicy(mode, due) ==
    /\ edits < MaxEdits /\ edits' = edits + 1
    /\ policy' = [mode |-> mode, due |-> due]
    /\ tried' = "no"
    /\ UNCHANGED <<row, seen, current, asked, sweep, faults>>

RotationComesDue ==
    /\ ~policy.due
    /\ policy' = [policy EXCEPT !.due = TRUE]
    /\ tried' = "no"
    /\ UNCHANGED <<row, seen, current, asked, sweep, edits, faults>>

\* rotate_due_credentials reads the policies that are due; a manual one is
\* only notified, and stays due.
SweepReads(s) ==
    /\ sweep[s] = "called"
    /\ sweep' = [sweep EXCEPT ![s] =
                   IF policy.mode = "auto" /\ policy.due THEN "read" ELSE "off"]
    /\ UNCHANGED <<row, seen, current, asked, policy, tried, edits, faults>>

\* _dispatch_rotation, for the sweep: accepted or refused by automation.
SweepPosts(s) ==
    /\ sweep[s] = "read"
    /\ \/ /\ sweep' = [sweep EXCEPT ![s] = "accepted"]
          /\ tried' = IF tried \in {"once", "again"} THEN "again" ELSE "once"
       \/ /\ sweep' = [sweep EXCEPT ![s] = "off"]
          /\ tried' = IF tried = "no" THEN "refused" ELSE tried
    /\ UNCHANGED <<row, seen, current, asked, policy, edits, faults>>

\* Once it was accepted, the due date advances.
SweepAdvances(s) ==
    /\ sweep[s] = "accepted"
    /\ sweep' = [sweep EXCEPT ![s] = "off"]
    /\ policy' = [policy EXCEPT !.due = FALSE]
    /\ UNCHANGED <<row, seen, current, asked, tried, edits, faults>>

\* inventory-service restarts and forgets its calls.
SweepDies(s) ==
    /\ faults < MaxFaults /\ faults' = faults + 1
    /\ sweep[s] # "off"
    /\ sweep' = [sweep EXCEPT ![s] = "off"]
    /\ UNCHANGED <<row, seen, current, asked, policy, tried, edits>>

Next ==
    \/ \E j \in Job : \/ ComesDue(j) \/ TriggerJob(j) \/ Schedule(j) \/ RunJob(j)
                      \/ \E enabled, reschedule \in BOOLEAN : UpdateJob(j, enabled, reschedule)
    \/ Tick \/ RecordResult \/ TickFails \/ RotationComesDue
    \/ \E mode \in {"off", "auto", "manual"}, due \in BOOLEAN : PutPolicy(mode, due)
    \/ \E s \in Sweep : SweepReads(s) \/ SweepPosts(s) \/ SweepAdvances(s) \/ SweepDies(s)

Spec == Init /\ [][Next]_vars

\* The loop never stops (an exception is caught and the loop sleeps on), jobs
\* and calls have timeouts, and the clock goes on.
Fairness ==
    /\ WF_vars(Tick) /\ WF_vars(RecordResult)
    /\ \A j \in Job : WF_vars(ComesDue(j)) /\ WF_vars(Schedule(j) \/ RunJob(j))
    /\ \A s \in Sweep : WF_vars(SweepReads(s) \/ SweepPosts(s) \/ SweepAdvances(s))

FairSpec == Spec /\ Fairness

-----------------------------------------------------------------------------
\* A manual trigger is served (housekeeping.py:180-231): a job triggered while
\* no run of it is under way is run, whatever the tick had read before, unless
\* somebody disables it.  (One triggered during its own run is forgotten when
\* _record_result clears the flag.)
TriggerIsServed ==
    \A j \in Job : asked[j] = "waiting" ~> (asked[j] # "waiting" \/ ~row[j].enabled)

\* A due rotation is tried (rotation.py:206-234): however the loop, the edits
\* and the faults fall, automation is asked to rotate a credential whose
\* automatic policy is due, as long as the policy and the job stay enabled.
RotationDue == policy.mode = "auto" /\ policy.due /\ row[Rotation].enabled
DueRotationIsTried == RotationDue ~> (tried # "no" \/ ~RotationDue)

\* One rotation per due date.
RotatedOnce == tried # "again"
=============================================================================
