------------------------------- MODULE JobRun -------------------------------
(***************************************************************************)
(* The life of a job run in automation-service: the ways a za_job_runs row *)
(* is created (run, cron tick, Zabbix or rotation call, re-run, step of a  *)
(* chain) or decided on (approve, reject, cancel), and the runner task     *)
(* that executes it.                                                       *)
(*                                                                         *)
(* A handler is one request, or one schedule of one scheduler tick.  Every *)
(* handler reads and checks, then AWAITS the database, then commits: the   *)
(* two halves are separate steps here, so that other handlers run between  *)
(* them.  A handler that dispatches goes on as the asyncio task it created *)
(* (runner.execute), under the same name.  A step of a chain is a handler  *)
(* too, the chain's own run being one of another template.                 *)
(***************************************************************************)
EXTENDS Naturals, FiniteSets

CONSTANTS
  Runs,        \* ids (uuid4) the rows may get
  Templates,   \* job templates
  Handlers,    \* requests and scheduler iterations; each is used once
  RetryCount,  \* retry_count of every template
  MaxFaults,   \* bound: how often the process, or a request or task in it, dies
  MaxEdits,    \* bound: template edits, deletions and host re-taggings
  NoRun, NoTemplate

ASSUME ConstantsAssumption ==
  /\ RetryCount \in Nat
  /\ MaxFaults \in Nat
  /\ MaxEdits \in Nat
  /\ NoRun \notin Runs
  /\ NoTemplate \notin Templates

VARIABLES
  tmpl,     \* template rows, with the production tag of the hosts they target
  due,      \* templates whose schedule has next_run_at <= now
  row,      \* za_job_runs
  hd,       \* handlers and the runner tasks they became
  faults, edits,
  hist      \* history of each run, read by the properties only

tmplVars == <<tmpl, edits>>
vars == <<tmpl, due, row, hd, faults, edits, hist>>

-----------------------------------------------------------------------------
(* Types *)

Absent   == {"absent", "purged"}       \* not inserted yet; deleted
Live     == {"pending", "running", "pending_approval"}
Finished == {"success", "failed", "error", "cancelled"}
Statuses == Absent \cup Live \cup Finished \cup {"rejected"}

Creating == {"manual", "schedule", "webhook", "rerun", "chain"}
Guarded  == {"manual", "schedule"}     \* the paths that call live_run_id
Deciding == {"approve", "reject", "cancel"}
Kinds    == Creating \cup Deciding \cup {"none"}

Tasked  == {"queued", "attempt", "settle"}  \* create_task happened, still running
Ends    == {"done", "undispatched", "lost"}
Results == {"success", "failed", "error"}

Template == [state: {"enabled", "disabled", "deleted"}, requires: BOOLEAN,
             production: BOOLEAN, executor: BOOLEAN]
Row      == [status: Statuses, template: Templates \cup {NoTemplate},
             trigger: Kinds]
Handler  == [pc: {"idle", "checked"} \cup Tasked \cup Ends, kind: Kinds,
             run: Runs \cup {NoRun}, template: Templates \cup {NoTemplate},
             held: BOOLEAN, executor: BOOLEAN, left: Nat,
             result: Results \cup {"none"}]
History  == [production: BOOLEAN, held: BOOLEAN, approved: BOOLEAN,
             overtaken: BOOLEAN, revived: BOOLEAN]

NoRow     == [status |-> "absent", template |-> NoTemplate, trigger |-> "none"]
Idle      == [pc |-> "idle", kind |-> "none", run |-> NoRun,
              template |-> NoTemplate, held |-> FALSE, executor |-> FALSE,
              left |-> 0, result |-> "none"]
NoHistory == [production |-> FALSE, held |-> FALSE, approved |-> FALSE,
              overtaken |-> FALSE, revived |-> FALSE]

Init ==
  /\ tmpl \in [Templates -> {c \in Template : c.state = "enabled"}]
  /\ due = {}
  /\ row = [r \in Runs |-> NoRow]
  /\ hd = [h \in Handlers |-> Idle]
  /\ faults = 0
  /\ edits = 0
  /\ hist = [r \in Runs |-> NoHistory]

-----------------------------------------------------------------------------
(* What the handlers read *)

Exists(r) == row[r].status \notin Absent

\* Bug: a run awaiting approval is not counted as live.
LiveRunsWithoutHeld(t) ==
  {r \in Runs : row[r].template = t /\ row[r].status \in {"pending", "running"}}

\* _concurrency.live_run_id: the rows of a template that still own its hosts.
LiveRuns(t) == {r \in Runs : row[r].template = t /\ row[r].status \in Live}

\* Bug: the gate fails open when inventory-service cannot be asked.
GateFailsOpen(t) == {tmpl[t].production, FALSE}

\* What _production_gate.any_production_hosts may answer: the tag, or TRUE
\* when inventory-service cannot be asked.
GateAnswers(t) == {tmpl[t].production, TRUE}

InFlight(h) == hd[h].pc \in {"checked"} \cup Tasked

\* A fresh uuid4: no row has it and no handler holds it.
Fresh(r) ==
  /\ row[r].status = "absent"
  /\ \A h \in Handlers : InFlight(h) => hd[h].run # r

Executing(h) == hd[h].pc = "attempt"

\* A handler that is over: "done", a task that died ("lost"), or
\* "undispatched", refused for want of an executor after its commit.
Over(h, pc) == [Idle EXCEPT !.pc = pc, !.run = hd[h].run]
\* The end of a handler whose commit leaves its run pending.
Dispatch(h) == IF hd[h].executor THEN [hd[h] EXCEPT !.pc = "queued"]
                                 ELSE Over(h, "undispatched")

-----------------------------------------------------------------------------
(* Creating a run *)

Attempts(kind) ==
  IF kind \in {"manual", "rerun", "chain", "approve"} THEN RetryCount + 1 ELSE 1

\* Handler h got past its checks: it holds what it read, and is about to
\* await its commit.  (A chain looks for the executor of a step at the step.)
Accept(h, kind, r, t, held) ==
  /\ hd' = [hd EXCEPT ![h] =
       [pc |-> "checked", kind |-> kind, run |-> r, template |-> t,
        held |-> held, executor |-> kind = "chain" \/ tmpl[t].executor,
        left |-> Attempts(kind), result |-> "none"]]
  /\ hist' = [hist EXCEPT ![r] =
       [NoHistory EXCEPT !.production = tmpl[t].production]]
  /\ UNCHANGED <<tmpl, due, row, faults, edits>>

RunTemplate(h, r, t) ==
  /\ hd[h].pc = "idle" /\ Fresh(r)
  /\ tmpl[t].state = "enabled"
  /\ LiveRuns(t) = {}
  /\ \E answer \in GateAnswers(t) :
       Accept(h, "manual", r, t, tmpl[t].requires \/ answer)

\* One scheduler_loop per process: its iterations follow each other.
ScheduleTick(h, r, t) ==
  /\ hd[h].pc = "idle" /\ Fresh(r)
  /\ ~ \E k \in Handlers : hd[k].kind = "schedule" /\ hd[k].pc = "checked"
  /\ t \in due
  /\ tmpl[t].state = "enabled"
  /\ LiveRuns(t) = {}
  /\ \E answer \in GateAnswers(t) : Accept(h, "schedule", r, t, answer)

\* The overrun: no row, and the cron cursor advances.
ScheduleSkip(t) ==
  /\ ~ \E k \in Handlers : hd[k].kind = "schedule" /\ hd[k].pc = "checked"
  /\ t \in due
  /\ tmpl[t].state = "enabled"
  /\ LiveRuns(t) # {}
  /\ due' = due \ {t}
  /\ UNCHANGED <<tmpl, row, hd, faults, edits, hist>>

CreateRunInternal(h, r, t) ==
  /\ hd[h].pc = "idle" /\ Fresh(r)
  /\ tmpl[t].state # "deleted"
  /\ \E answer \in GateAnswers(t) : Accept(h, "webhook", r, t, answer)

Rerun(h, r, orig) ==
  /\ hd[h].pc = "idle" /\ Fresh(r)
  /\ Exists(orig)
  /\ tmpl[row[orig].template].state = "enabled"
  /\ Accept(h, "rerun", r, row[orig].template, FALSE)

\* A chain begins whose steps include t: it asks for production hosts once, of
\* all its steps, and is refused when there are any.
ChainCheck(h, r, t) ==
  /\ hd[h].pc = "idle" /\ Fresh(r)
  /\ tmpl[t].state # "deleted" /\ ~tmpl[t].production
  /\ Accept(h, "chain", r, t, FALSE)

\* The template of h is still there, for the foreign key of its run; a chain
\* reads it again when it gets to the step.
Insertable(h) ==
  LET now == tmpl[hd[h].template] IN
  /\ now.state # "deleted"
  /\ hd[h].kind = "chain" => now.state = "enabled" /\ now.executor

\* History: r is the run of another handler that has checked h's template
\* and has not inserted yet.
Overtaken(h, r) ==
  \E k \in Handlers \ {h} :
    /\ hd[k].pc = "checked" /\ hd[k].kind \in Creating
    /\ hd[k].run = r /\ hd[k].template = hd[h].template

\* Bug: the early return for a held run is missing.
InsertDispatchesHeld(h) ==
  LET r == hd[h].run IN
  /\ hd[h].pc = "checked" /\ hd[h].kind \in Creating /\ Insertable(h)
  /\ row' = [row EXCEPT ![r] =
       [status |-> IF hd[h].held THEN "pending_approval" ELSE "pending",
        template |-> hd[h].template, trigger |-> hd[h].kind]]
  /\ hd' = [hd EXCEPT ![h] = Dispatch(h)]
  /\ hist' = [hist EXCEPT ![r].held = hd[h].held]
  /\ UNCHANGED <<tmpl, due, faults, edits>>

\* The commit of a new row.  A held run stops here; one without an executor
\* is refused (or only logged) AFTER its row was committed as pending.
Insert(h) ==
  LET r == hd[h].run IN
  /\ hd[h].pc = "checked" /\ hd[h].kind \in Creating /\ Insertable(h)
  /\ row' = [row EXCEPT ![r] =
       [status |-> IF hd[h].held THEN "pending_approval" ELSE "pending",
        template |-> hd[h].template, trigger |-> hd[h].kind]]
  /\ hd' = [hd EXCEPT ![h] = IF hd[h].held THEN Over(h, "done") ELSE Dispatch(h)]
  /\ due' = IF hd[h].kind = "schedule" THEN due \ {hd[h].template} ELSE due
  /\ hist' = [q \in Runs |->
       [hist[q] EXCEPT !.held = IF q = r THEN hd[h].held ELSE @,
                       !.overtaken = @ \/ Overtaken(h, q)]]
  /\ UNCHANGED <<tmpl, faults, edits>>

\* The insert fails, or the chain skips the step.
Abandon(h) ==
  /\ hd[h].pc = "checked" /\ hd[h].kind \in Creating /\ ~Insertable(h)
  /\ hd' = [hd EXCEPT ![h] = Over(h, "done")]
  /\ UNCHANGED <<tmpl, due, row, faults, edits, hist>>

-----------------------------------------------------------------------------
(* Deciding on a run: approve_run, reject_run, cancel_run *)

Read(h, kind, r) ==
  /\ hd[h].pc = "idle"
  /\ hd' = [hd EXCEPT ![h] =
       [pc |-> "checked", kind |-> kind, run |-> r, template |-> row[r].template,
        held |-> FALSE,
        executor |-> kind = "approve" /\ tmpl[row[r].template].executor,
        left |-> Attempts(kind), result |-> "none"]]
  /\ UNCHANGED <<tmpl, due, row, faults, edits, hist>>

\* The UPDATE names the row by its id alone, whatever its status has become.
Write(r, status) ==
  /\ row' = [row EXCEPT ![r].status = status]
  /\ hist' = [hist EXCEPT ![r].revived =
       @ \/ (row[r].status \notin Live /\ status \in Live)]

ReadForApproval(h, r) ==
  /\ row[r].status = "pending_approval"
  /\ tmpl[row[r].template].state # "deleted"
  /\ Read(h, "approve", r)

\* Bug: the approval is recorded and nothing is dispatched.
CommitApprovalOnly(h) ==
  /\ hd[h].pc = "checked" /\ hd[h].kind = "approve"
  /\ Exists(hd[h].run)
  /\ Write(hd[h].run, "pending")
  /\ hd' = [hd EXCEPT ![h] = Over(h, "done")]
  /\ UNCHANGED <<tmpl, due, faults, edits>>

\* A row deleted meanwhile makes the flush fail: nothing is dispatched.
CommitApproval(h) ==
  LET r == hd[h].run IN
  /\ hd[h].pc = "checked" /\ hd[h].kind = "approve"
  /\ IF Exists(r)
     THEN /\ row' = [row EXCEPT ![r].status = "pending"]
          /\ hist' = [hist EXCEPT ![r] =
               [hist[r] EXCEPT !.approved = TRUE,
                               !.revived = hist[r].revived \/ row[r].status \notin Live]]
          /\ hd' = [hd EXCEPT ![h] = Dispatch(h)]
     ELSE /\ hd' = [hd EXCEPT ![h] = Over(h, "done")]
          /\ UNCHANGED <<row, hist>>
  /\ UNCHANGED <<tmpl, due, faults, edits>>

ReadForRejection(h, r) ==
  /\ row[r].status = "pending_approval"
  /\ Read(h, "reject", r)

\* Bug: the statuses of failed runs are missing from the check.
ReadForCancelLate(h, r) ==
  /\ Exists(r)
  /\ row[r].status \notin {"success", "cancelled"}
  /\ Read(h, "cancel", r)

\* cancel_run refuses the finished statuses but not "rejected".
ReadForCancel(h, r) ==
  /\ Exists(r)
  /\ row[r].status \notin Finished
  /\ Read(h, "cancel", r)

CommitDecision(h) ==
  LET r == hd[h].run IN
  /\ hd[h].pc = "checked" /\ hd[h].kind \in {"reject", "cancel"}
  /\ IF Exists(r)
     THEN Write(r, IF hd[h].kind = "reject" THEN "rejected" ELSE "cancelled")
     ELSE UNCHANGED <<row, hist>>
  /\ hd' = [hd EXCEPT ![h] = Over(h, "done")]
  /\ UNCHANGED <<tmpl, due, faults, edits>>

-----------------------------------------------------------------------------
(* runner.execute *)

\* The executor is switched off in the integration settings (as far as the
\* cached answer of integration_state says).
Refuse(h) ==
  /\ hd[h].pc = "queued"
  /\ IF Exists(hd[h].run) THEN Write(hd[h].run, "failed") ELSE UNCHANGED <<row, hist>>
  /\ hd' = [hd EXCEPT ![h] = Over(h, "done")]
  /\ UNCHANGED <<tmpl, due, faults, edits>>

\* status = "running", whatever it was; a row that is gone ends the task.
Start(h) ==
  /\ hd[h].pc = "queued"
  /\ IF Exists(hd[h].run)
     THEN /\ Write(hd[h].run, "running")
          /\ hd' = [hd EXCEPT ![h].pc = "attempt"]
     ELSE /\ hd' = [hd EXCEPT ![h] = Over(h, "done")]
          /\ UNCHANGED <<row, hist>>
  /\ UNCHANGED <<tmpl, due, faults, edits>>

\* The last attempt ends, with a result, on its timeout or by an exception:
\* it succeeded, or none is left.
LastAttempt(h, result) ==
  /\ Executing(h)
  /\ result = "success" \/ hd[h].left = 1
  /\ hd' = [hd EXCEPT ![h] = [@ EXCEPT !.pc = "settle", !.result = result]]
  /\ UNCHANGED <<tmpl, due, row, faults, edits, hist>>

\* Bug: the attempts are counted by the wrong test.
RetryOffByTwo(h) ==
  /\ Executing(h)
  /\ hd' = [hd EXCEPT ![h].left = @ - 1]
  /\ UNCHANGED <<tmpl, due, row, faults, edits, hist>>

\* Bug: the count of attempts starts again with every retry.
RetryResets(h) ==
  /\ Executing(h)
  /\ hd' = [hd EXCEPT ![h].left = IF @ > 1 THEN @ - 1 ELSE RetryCount + 1]
  /\ UNCHANGED <<tmpl, due, row, faults, edits, hist>>

\* Any other is followed, after retry_delay_seconds, by the next.
Retry(h) ==
  /\ Executing(h)
  /\ hd[h].left > 1
  /\ hd' = [hd EXCEPT ![h].left = @ - 1]
  /\ UNCHANGED <<tmpl, due, row, faults, edits, hist>>

\* Bug: an errored run is not written back.
FinishSkipsErrors(h) ==
  /\ hd[h].pc = "settle"
  /\ IF Exists(hd[h].run) /\ hd[h].result # "error"
     THEN Write(hd[h].run, hd[h].result) ELSE UNCHANGED <<row, hist>>
  /\ hd' = [hd EXCEPT ![h] = Over(h, "done")]
  /\ UNCHANGED <<tmpl, due, faults, edits>>

Finish(h) ==
  /\ hd[h].pc = "settle"
  /\ IF Exists(hd[h].run)
     THEN Write(hd[h].run, hd[h].result) ELSE UNCHANGED <<row, hist>>
  /\ hd' = [hd EXCEPT ![h] = Over(h, "done")]
  /\ UNCHANGED <<tmpl, due, faults, edits>>

-----------------------------------------------------------------------------
(* Around the runs *)

\* update_template: enabled, requires_approval, action_type.
UpdateTemplate(t, c) ==
  /\ edits < MaxEdits
  /\ tmpl[t].state # "deleted" /\ c.state # "deleted"
  /\ c.production = tmpl[t].production /\ c # tmpl[t]
  /\ tmpl' = [tmpl EXCEPT ![t] = c]
  /\ edits' = edits + 1
  /\ UNCHANGED <<due, row, hd, faults, hist>>

\* inventory-service: a target host is tagged is_production, or no longer.
TagHosts(t) ==
  /\ edits < MaxEdits
  /\ tmpl' = [tmpl EXCEPT ![t].production = ~@]
  /\ edits' = edits + 1
  /\ UNCHANGED <<due, row, hd, faults, hist>>

\* The foreign keys take its schedules and its runs with it, live or not.
DeleteTemplate(t) ==
  /\ edits < MaxEdits
  /\ tmpl[t].state # "deleted"
  /\ tmpl' = [tmpl EXCEPT ![t].state = "deleted"]
  /\ due' = due \ {t}
  /\ row' = [r \in Runs |->
       IF Exists(r) /\ row[r].template = t
       THEN [row[r] EXCEPT !.status = "purged"] ELSE row[r]]
  /\ edits' = edits + 1
  /\ UNCHANGED <<hd, faults, hist>>

CronFires(t) ==
  /\ tmpl[t].state # "deleted"
  /\ due' = due \cup {t}
  /\ UNCHANGED <<tmpl, row, hd, faults, edits, hist>>

\* The chain that awaits step h runs into its own timeout: the step's task is
\* cancelled, and CancelledError passes by all that would write its run.
CancelStep(h) ==
  /\ hd[h].kind = "chain" /\ hd[h].pc \in Tasked
  /\ hd' = [hd EXCEPT ![h] = Over(h, "lost")]
  /\ UNCHANGED <<tmpl, due, row, faults, edits, hist>>

\* The process dies: requests and tasks are lost, and nothing picks the rows
\* up at the next start.
Crash ==
  /\ faults < MaxFaults
  /\ hd' = [h \in Handlers |->
       IF ~InFlight(h) THEN hd[h]
       ELSE Over(h, IF hd[h].pc \in Tasked THEN "lost" ELSE "done")]
  /\ faults' = faults + 1
  /\ UNCHANGED <<tmpl, due, row, edits, hist>>

\* One request or task dies alone: the database or Redis raises where nothing
\* catches it (in publish_line between two attempts, for one).
Fail(h) ==
  /\ faults < MaxFaults
  /\ InFlight(h)
  /\ hd' = [hd EXCEPT ![h] = Over(h, IF @.pc \in Tasked THEN "lost" ELSE "done")]
  /\ faults' = faults + 1
  /\ UNCHANGED <<tmpl, due, row, edits, hist>>

-----------------------------------------------------------------------------
(* The specification *)

Request(h) ==
  \/ \E r \in Runs, t \in Templates :
       \/ RunTemplate(h, r, t)
       \/ ScheduleTick(h, r, t)
       \/ CreateRunInternal(h, r, t)
       \/ ChainCheck(h, r, t)
  \/ \E r, orig \in Runs : Rerun(h, r, orig)
  \/ \E r \in Runs :
       \/ ReadForApproval(h, r)
       \/ ReadForRejection(h, r)
       \/ ReadForCancel(h, r)

Commit(h) == Insert(h) \/ Abandon(h) \/ CommitApproval(h) \/ CommitDecision(h)

Task(h) ==
  \/ Refuse(h)
  \/ Start(h)
  \/ \E result \in Results : LastAttempt(h, result)
  \/ Retry(h)
  \/ Finish(h)

Environment ==
  \/ \E t \in Templates :
       \/ \E c \in Template : UpdateTemplate(t, c)
       \/ TagHosts(t)
       \/ DeleteTemplate(t)
       \/ CronFires(t)
       \/ ScheduleSkip(t)
  \/ \E h \in Handlers : CancelStep(h) \/ Fail(h)
  \/ Crash

Next ==
  \/ \E h \in Handlers : Request(h) \/ Commit(h) \/ Task(h)
  \/ Environment

Spec == Init /\ [][Next]_vars

\* The event loop runs every handler and task it holds; wait_for bounds each
\* attempt.  Nothing obliges a user, a cron or an edit to happen.
Fairness == \A h \in Handlers : WF_vars(Commit(h)) /\ WF_vars(Task(h))

FairSpec == Spec /\ Fairness
-----------------------------------------------------------------------------
(* Properties *)

TypeOK ==
  /\ tmpl \in [Templates -> Template]
  /\ due \subseteq Templates
  /\ row \in [Runs -> Row]
  /\ hd \in [Handlers -> Handler]
  /\ faults \in 0..MaxFaults
  /\ edits \in 0..MaxEdits
  /\ hist \in [Runs -> History]

\* A run whose targets were tagged production when it was asked for executes
\* only after an approval, however it was triggered, whatever was edited,
\* cancelled or restarted since.  A re-run is the exception: rerun never asks.
ProductionWaits ==
  \A h \in Handlers :
    Executing(h) /\ hist[hd[h].run].production /\ row[hd[h].run].trigger # "rerun"
      => hist[hd[h].run].approved

\* A run that reads pending or running blocks its template (live_run_id), so
\* somebody must be about to change it: a runner task, or else the run is
\* stranded in one of the two ways the code has, an action without an
\* executor (refused after the commit) or a task that died before its end
\* (with the process, by an exception, or with the chain it was a step of).
Owned(r) ==
  \E h \in Handlers : hd[h].run = r /\ hd[h].pc \in Tasked
Stranded(r) ==
  \E h \in Handlers : hd[h].run = r /\ hd[h].pc \in {"lost", "undispatched"}
LiveRunsHaveOwners ==
  \A r \in Runs : row[r].status \in {"pending", "running"} => Owned(r) \/ Stranded(r)

\* Two runs of one template are live together only through one of the known
\* holes of live_run_id: a path that never asks it, another insert between
\* the question and the commit, or a status written over a final one.
OverlapExplained ==
  \A q, r \in Runs :
    (q # r /\ row[q].status \in Live /\ r \in LiveRuns(row[q].template)) =>
      \E x \in {q, r} : \/ row[x].trigger \notin Guarded
                        \/ hist[x].overtaken
                        \/ hist[x].revived

\* Once a run is finished and no handler or task is still at work on it, no
\* later approval, rejection, cancellation, tick or task changes it again.
Settled(r) ==
  /\ row[r].status \in Finished
  /\ \A h \in Handlers : InFlight(h) => hd[h].run # r
SettledStaysSettled ==
  [][\A r \in Runs : Settled(r) =>
       \/ Settled(r)' /\ row'[r] = row[r]
       \/ row'[r].status = "purged"]_vars

\* Approval as ExecutionGate promises it: a run inserted as pending_approval
\* is held, an approval clears it, and the runner executes cleared runs only,
\* double approvals, rejections, cancellations, edits and deaths included.
Inserted == {r \in Runs : row[r].status # "absent"}
HeldRuns == {r \in Inserted : hist[r].held /\ ~hist[r].approved}
Executors == {h \in Handlers : Executing(h)}
Gate == INSTANCE ExecutionGate WITH
          held    <- HeldRuns,
          cleared <- Inserted \ HeldRuns,
          acting  <- {hd[h].run : h \in Executors}
GateSpec == Gate!Spec

\* Every task the event loop holds ends, retries included, or dies.
TasksEnd ==
  \A h \in Handlers : hd[h].pc \in Tasked ~> hd[h].pc \in Ends

\* A live run does not stay live for ever, however its handlers interleave:
\* it ends, is deleted or waits for an approval, unless it is stranded.
LiveRunsEnd ==
  \A r \in Runs :
    row[r].status \in {"pending", "running"}
      ~> (row[r].status \notin {"pending", "running"} \/ Stranded(r))

-----------------------------------------------------------------------------
(* What the repository says of the runs, and the code does not do *)

\* _concurrency.py: no template executes concurrently with itself on the
\* paths that ask live_run_id.
GuardedRunsAlone ==
  \A g, h \in Handlers :
    (g # h /\ Executing(g) /\ Executing(h)
       /\ row[hd[g].run].trigger \in Guarded /\ row[hd[h].run].trigger \in Guarded)
      => row[hd[g].run].template # row[hd[h].run].template
=============================================================================
