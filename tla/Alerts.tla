-------------------------------- MODULE Alerts --------------------------------
(* automation-service: the scheduler's search for runs that have gone quiet   *)
(* (scheduler.py, _alert_stalled_runs), the notifications it and the runner   *)
(* create (runner.py), and the inboxes they are read from                     *)
(* (api/notifications.py).                                                    *)
(*                                                                            *)
(* A tick reads its rows once; each notification is committed by itself, in a *)
(* session of its own, and the markers of all of them at the end.             *)
EXTENDS Naturals, FiniteSets

CONSTANTS
    User,
    Run,
    Everyone,    \* the addressee of a broadcast (user_id NULL)
    Limit,       \* rows a tick reads (50)
    MaxTold,     \* bound: up to where notices of one run are counted
    MaxFaults    \* bound: failures of Redis

VARIABLES
    run,      \* za_job_runs
    tick,     \* what the tick has read, what it has told and is still to tell
    inbox,    \* za_notifications: those not read and not dismissed
    faults,
    told      \* history: how often each run was told of

vars == <<run, tick, inbox, faults, told>>

\* started and ran count hours: since started_at, and since the run executes;
\* of a run that has ended they matter to nobody.
Runs == [status : {"none", "held", "running", "ended"},
         started : 0..2, ran : 0..2, marked : BOOLEAN, reason : BOOLEAN, refused : BOOLEAN]
NoRun == [status |-> "none", started |-> 0, ran |-> 0, marked |-> FALSE,
          reason |-> FALSE, refused |-> FALSE]

Sorts == {"waiting", "stuck", "done"}
Notices == [about : Run, sort : Sorts, to : User \cup {Everyone}]

Quiet == [busy |-> FALSE, rows |-> <<>>, done |-> {}]

TypeOK ==
    /\ run \in [Run -> Runs]
    /\ tick.busy \in BOOLEAN /\ DOMAIN tick.rows \subseteq Run /\ tick.done \subseteq Run
    /\ inbox \subseteq Notices
    /\ faults \in 0..MaxFaults
    /\ told \in [Run -> 0..MaxTold]

Init ==
    /\ run = [r \in Run |-> NoRun]
    /\ tick = Quiet
    /\ inbox = {}
    /\ faults = 0
    /\ told = [r \in Run |-> 0]

-----------------------------------------------------------------------------
(* Runs                                                                        *)

\* A trigger, a schedule or a webhook: production waits for an approval.
Start(r) ==
    /\ run[r].status = "none"
    /\ \E s \in {"held", "running"} : run' = [run EXCEPT ![r].status = s]
    /\ UNCHANGED <<tick, inbox, faults, told>>

\* rerun: the stored params are replayed, and the marker is one of them.
Replayed(r) == run[r].marked

Rerun(r, s) ==
    /\ run[r].status = "ended" /\ run[s].status = "none"
    /\ run' = [run EXCEPT ![s] = [NoRun EXCEPT !.status = "running", !.marked = Replayed(r),
                                               !.reason = run[r].reason]]
    /\ UNCHANGED <<tick, inbox, faults, told>>

\* approve leaves started_at at the time of the request.
Approve(r) ==
    /\ run[r].status = "held"
    /\ run' = [run EXCEPT ![r].status = "running"]
    /\ UNCHANGED <<tick, inbox, faults, told>>

Over(r) == [run[r] EXCEPT !.status = "ended", !.started = 0, !.ran = 0]

Reject(r) ==
    /\ run[r].status = "held"
    /\ run' = [run EXCEPT ![r] = [Over(r) EXCEPT !.reason = TRUE, !.refused = TRUE]]
    /\ UNCHANGED <<tick, inbox, faults, told>>

\* The run reports, and its owner is told (_notify_completion).
Finish(r) ==
    /\ run[r].status = "running"
    /\ run' = [run EXCEPT ![r] = Over(r)]
    /\ \E u \in User : inbox' = inbox \cup {[about |-> r, sort |-> "done", to |-> u]}
    /\ UNCHANGED <<tick, faults, told>>

HourPasses(r) ==
    /\ run[r].status \in {"held", "running"} /\ run[r].started < 2
    /\ run' = [run EXCEPT ![r].started = @ + 1,
                          ![r].ran = IF run[r].status = "running" THEN @ + 1 ELSE @]
    /\ UNCHANGED <<tick, inbox, faults, told>>

-----------------------------------------------------------------------------
(* The scheduler                                                               *)

\* An approval is stale after an hour, a run stuck after its ceiling.
Stalled(r) == \/ run[r].status = "held" /\ run[r].started >= 1
              \/ run[r].status = "running" /\ run[r].started = 2

\* At most Limit of the rows, in no particular order.
TickReads ==
    /\ ~tick.busy
    /\ \E rows \in SUBSET {r \in Run : Stalled(r)} :
          /\ rows # {}
          /\ Cardinality(rows) = Limit \/ rows = {r \in Run : Stalled(r)}
          /\ Cardinality(rows) <= Limit
          /\ tick' = [busy |-> TRUE, rows |-> [r \in rows |-> run[r]], done |-> {}]
    /\ UNCHANGED <<run, inbox, faults, told>>

ToTell == {r \in DOMAIN tick.rows \ tick.done : ~tick.rows[r].marked}

Notify(r) ==
    LET sort == IF tick.rows[r].status = "held" THEN "waiting" ELSE "stuck"
    IN /\ told' = [told EXCEPT ![r] = IF @ < MaxTold THEN @ + 1 ELSE @]
       /\ inbox' = inbox \cup {[about |-> r, sort |-> sort, to |-> Everyone]}

\* create_notification: the row is committed, then Redis is told.
TickTells(r) ==
    /\ tick.busy /\ r \in ToTell
    /\ Notify(r)
    /\ tick' = [tick EXCEPT !.done = @ \cup {r}]
    /\ UNCHANGED <<run, faults>>

\* The params of the row, as they were read, with the marker.
Marked(rows) == [r \in Run |-> IF r \in rows
                               THEN [run[r] EXCEPT !.marked = TRUE,
                                                   !.reason = tick.rows[r].reason]
                               ELSE run[r]]

TickCommits ==
    /\ tick.busy /\ ToTell = {}
    /\ run' = Marked(tick.done)
    /\ tick' = Quiet
    /\ UNCHANGED <<inbox, faults, told>>

\* Bug: the marker is committed first, and Redis or the database fails then.
TickFailsMarked(r) ==
    /\ tick.busy /\ r \in ToTell
    /\ faults < MaxFaults /\ faults' = faults + 1
    /\ run' = Marked(tick.done \cup {r})
    /\ tick' = Quiet
    /\ UNCHANGED <<inbox, told>>

\* Redis does not answer: the notice is there, its marker is not.  The markers
\* of the rows before it go with the next commit of the tick, if a schedule is
\* due, or with the session.
TickFails(r) ==
    /\ tick.busy /\ r \in ToTell
    /\ faults < MaxFaults /\ faults' = faults + 1
    /\ Notify(r)
    /\ run' \in {run, Marked(tick.done)}
    /\ tick' = Quiet

-----------------------------------------------------------------------------
(* Inboxes                                                                     *)

\* list_notifications, _own_notification: one's own, and the broadcasts.
Listed(u) == {n \in inbox : n.to \in {u, Everyone}}

\* mark_read and dismiss.
Handle(u, n) ==
    /\ n \in Listed(u)
    /\ inbox' = inbox \ {n}
    /\ UNCHANGED <<run, tick, faults, told>>

HandleAll(u) ==
    /\ Listed(u) # {}
    /\ inbox' = inbox \ Listed(u)
    /\ UNCHANGED <<run, tick, faults, told>>

-----------------------------------------------------------------------------
Scheduler == \/ TickReads \/ TickCommits
             \/ \E r \in Run : TickTells(r) \/ TickFails(r)

Next ==
    \/ \E r \in Run : Start(r) \/ Approve(r) \/ Reject(r) \/ Finish(r) \/ HourPasses(r)
    \/ \E r, s \in Run : Rerun(r, s)
    \/ Scheduler
    \/ \E u \in User : HandleAll(u) \/ \E n \in inbox : Handle(u, n)

\* The scheduler's loop never ends (scheduler.py:106): it ticks every minute.
Fairness == WF_vars(Scheduler)

Spec == Init /\ [][Next]_vars
FairSpec == Spec /\ Fairness

-----------------------------------------------------------------------------
\* A run that stays stalled is told of, or is one already marked (scheduler.py,
\* _alert_stalled_runs), whatever tick Redis fails in, and whatever approvals
\* and answers come between the read and the commit; with no more rows than a
\* tick reads.
StallIsTold ==
    \A r \in Run : Stalled(r) /\ ~run[r].marked ~> told[r] > 0 \/ ~Stalled(r)

\* scheduler.py:66: a run is notified once, so that it does not alert again on
\* every tick.
ToldOnce == \A r \in Run : told[r] <= 1

\* scheduler.py:98: a run said to have outlived its timeout has run that long.
StuckIsLong ==
    [][\A r \in Run : (told'[r] # told[r] /\ tick.rows[r].status = "running")
                         => tick.rows[r].ran = 2]_vars

\* scheduler.py:63: a run that never finishes is what one is told of: no run
\* of its own is marked before anyone was.
MarkedIsTold == \A r \in Run : run[r].marked => told[r] > 0

\* api/job_runs.py:216: the reason of a rejection is kept with the run.
ReasonIsKept == \A r \in Run : run[r].refused => run[r].reason

\* api/notifications.py:3: a caller manages only their own notifications: what
\* one user has not read does not leave the list by another's hand.
OwnNoticesOnly ==
    [][\A u, v \in User :
          u # v /\ (HandleAll(u) \/ \E n \in inbox : Handle(u, n)) => Listed(v)' = Listed(v)]_vars
=============================================================================
