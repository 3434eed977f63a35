------------------------------- MODULE Webhook -------------------------------
(* zabbix-integration-service: a Zabbix problem, sent by an action            *)
(* (/webhook/zabbix), run on demand (/webhook/zabbix/execute) or from the     *)
(* console (/triggers/manual), starts the playbook bound to it in             *)
(* automation-service, and the outcome is posted back onto the problem.       *)
(*                                                                            *)
(* One trigger binding, whose scope is the affected host.  Calls are handled  *)
(* at once, each await being a step; what follows the answer to Zabbix is an  *)
(* asyncio task of the process, lost with it.                                 *)
EXTENDS Naturals, FiniteSets, Sequences

CONSTANTS
    Event,       \* Zabbix problems
    Version,     \* bodies a problem is sent with: a re-send is the same, an update another
    Call,        \* calls handled at a time
    MaxRuns,     \* bound: runs
    MaxFaults,   \* bound: failures of the services called, and restarts
    None         \* the body of a call from the console

Body == Event \X Version

VARIABLES
    enabled,    \* the binding
    replay,     \* zbx:replay:<signature> in Redis: bodies admitted in the window
    dedup,      \* zbx:dedup:<event> in Redis
    debounce,   \* zbx:exec:<event> in Redis
    call,
    run,        \* the runs automation-service has made
    faults

vars == <<enabled, replay, dedup, debounce, call, run, faults>>

Paths == {"auto", "execute", "console"}
At == {"idle", "admitted", "checked", "marked", "lookup", "dispatch", "follow"}
Idle == [at |-> "idle", path |-> "auto", event |-> None, body |-> None, host |-> FALSE, run |-> 0]

\* on: whether it runs on the affected host or on the hosts of the template;
\* old: the window of its body has passed; posted: the status it was in when
\* what it wrote was posted on the problem.
States == {"held", "running", "done", "rejected"}
Runs == [event : Event, body : Body \cup {None}, state : States, on : {"affected", "template"},
         old : BOOLEAN, posted : States \cup {"no"}]

TypeOK ==
    /\ enabled \in BOOLEAN
    /\ replay \subseteq Body /\ dedup \subseteq Event /\ debounce \subseteq Event
    /\ call \in [Call -> [at : At, path : Paths, event : Event \cup {None}, body : Body \cup {None},
                          host : BOOLEAN, run : 0..MaxRuns]]
    /\ DOMAIN run \in {1..n : n \in 0..MaxRuns} /\ \A r \in DOMAIN run : run[r] \in Runs
    /\ faults \in 0..MaxFaults

Init ==
    /\ enabled = TRUE
    /\ replay = {} /\ dedup = {} /\ debounce = {}
    /\ call = [c \in Call |-> Idle]
    /\ run = <<>>
    /\ faults = 0

Goto(c, at) == call' = [call EXCEPT ![c].at = at]
Leave(c) == call' = [call EXCEPT ![c] = Idle]
Fault == faults < MaxFaults /\ faults' = faults + 1

-----------------------------------------------------------------------------
(* Admission                                                                   *)

\* Bug: the key is looked up and set in two steps, as that of dedup is.
AdmittedUnlessRun(b) == \A r \in DOMAIN run : run[r].body # b \/ run[r].old

\* _authenticate: SET NX, a body is admitted once in its window.
Admitted(b) == b \notin replay

Deliver(c, b, path) ==
    /\ call[c].at = "idle"
    /\ Admitted(b)
    /\ replay' = replay \cup {b}
    /\ call' = [call EXCEPT ![c] = [Idle EXCEPT !.at = "admitted", !.path = path,
                                                !.event = b[1], !.body = b]]
    /\ UNCHANGED <<enabled, dedup, debounce, run, faults>>

\* zabbix_webhook: EXISTS ...
DedupAsk(c) ==
    /\ call[c].at = "admitted" /\ call[c].path = "auto"
    /\ IF call[c].event \in dedup THEN Leave(c) ELSE Goto(c, "checked")
    /\ UNCHANGED <<enabled, replay, dedup, debounce, run, faults>>

\* ... and SETEX.
DedupMark(c) ==
    /\ call[c].at = "checked"
    /\ dedup' = dedup \cup {call[c].event}
    /\ Goto(c, "marked")
    /\ UNCHANGED <<enabled, replay, debounce, run, faults>>

\* zabbix_execute: SET NX.
Debounce(c) ==
    /\ call[c].at = "admitted" /\ call[c].path = "execute"
    /\ IF call[c].event \in debounce THEN Leave(c) ELSE Goto(c, "marked")
    /\ debounce' = debounce \cup {call[c].event}
    /\ UNCHANGED <<enabled, replay, dedup, run, faults>>

\* _load_enabled_bindings, _match_bindings; manual_trigger.
Match(c) ==
    /\ call[c].at = "marked"
    /\ IF enabled THEN Goto(c, "lookup") ELSE Leave(c)
    /\ UNCHANGED <<enabled, replay, dedup, debounce, run, faults>>

\* The database does not answer: the call is refused, its keys stay.
MatchFails(c) ==
    /\ call[c].at = "marked"
    /\ Fault
    /\ Leave(c)
    /\ UNCHANGED <<enabled, replay, dedup, debounce, run>>

\* manual_trigger: the operator has picked the host.
Console(c, e) ==
    /\ call[c].at = "idle" /\ enabled
    /\ call' = [call EXCEPT ![c] = [Idle EXCEPT !.at = "dispatch", !.path = "console",
                                                !.event = e, !.host = TRUE]]
    /\ UNCHANGED <<enabled, replay, dedup, debounce, run, faults>>

-----------------------------------------------------------------------------
(* The run                                                                     *)

\* _resolve_affected_host_ids.
Lookup(c) ==
    /\ call[c].at = "lookup"
    /\ call' = [call EXCEPT ![c].at = "dispatch", ![c].host = TRUE]
    /\ UNCHANGED <<enabled, replay, dedup, debounce, run, faults>>

\* No such host, or inventory-service does not answer: no hosts.
LookupFails(c) ==
    /\ call[c].at = "lookup"
    /\ Fault
    /\ Goto(c, "dispatch")
    /\ UNCHANGED <<enabled, replay, dedup, debounce, run>>

\* create_run_internal: no hosts are those of the template.
NewRun(c, state) ==
    /\ Len(run) < MaxRuns
    /\ run' = Append(run, [event |-> call[c].event, body |-> call[c].body, state |-> state,
                           on |-> IF call[c].host THEN "affected" ELSE "template",
                           old |-> FALSE, posted |-> "no"])

Dispatch(c) ==
    /\ call[c].at = "dispatch"
    /\ \E s \in {"held", "running"} : NewRun(c, s)
    /\ call' = [call EXCEPT ![c].at = "follow", ![c].run = Len(run) + 1]
    /\ UNCHANGED <<enabled, replay, dedup, debounce, faults>>

\* The request to automation-service does not get through, or its answer.
DispatchFails(c) ==
    /\ call[c].at = "dispatch"
    /\ Fault
    /\ Leave(c)
    /\ UNCHANGED run \/ NewRun(c, "running")
    /\ UNCHANGED <<enabled, replay, dedup, debounce>>

\* approve_run: the hosts of a run from here are not kept with it.
Approve(r) ==
    /\ run[r].state = "held"
    /\ run' = [run EXCEPT ![r].state = "running", ![r].on = "template"]
    /\ UNCHANGED <<enabled, replay, dedup, debounce, call, faults>>

Reject(r) ==
    /\ run[r].state = "held"
    /\ run' = [run EXCEPT ![r].state = "rejected"]
    /\ UNCHANGED <<enabled, replay, dedup, debounce, call, faults>>

RunEnds(r) ==
    /\ run[r].state = "running"
    /\ run' = [run EXCEPT ![r].state = "done"]
    /\ UNCHANGED <<enabled, replay, dedup, debounce, call, faults>>

-----------------------------------------------------------------------------
(* The answer                                                                  *)

\* _post_result_to_zabbix polls until the run has ended, and no longer than a
\* run may take: what it has read last is what it posts.
Post(c) ==
    /\ call[c].at = "follow"
    /\ run' = [run EXCEPT ![call[c].run].posted = run[call[c].run].state]
    /\ Leave(c)
    /\ UNCHANGED <<enabled, replay, dedup, debounce, faults>>

\* Zabbix does not take it, or is not configured.
PostFails(c) ==
    /\ call[c].at = "follow"
    /\ Fault
    /\ Leave(c)
    /\ UNCHANGED <<enabled, replay, dedup, debounce, run>>

-----------------------------------------------------------------------------
Restart ==
    /\ Fault
    /\ call' = [c \in Call |-> Idle]
    /\ UNCHANGED <<enabled, replay, dedup, debounce, run>>

\* update_binding.
Switch ==
    /\ enabled' = ~enabled
    /\ UNCHANGED <<replay, dedup, debounce, call, run, faults>>

\* The keys live five minutes, and no call takes as long to dispatch.
ReplayExpires(b) ==
    /\ b \in replay
    /\ \A c \in Call : call[c].body = b => call[c].at = "follow"
    /\ replay' = replay \ {b}
    /\ run' = [r \in DOMAIN run |-> [run[r] EXCEPT !.old = @ \/ run[r].body = b]]
    /\ UNCHANGED <<enabled, dedup, debounce, call, faults>>

KeyExpires(e) ==
    /\ \/ e \in dedup /\ dedup' = dedup \ {e} /\ UNCHANGED debounce
       \/ e \in debounce /\ debounce' = debounce \ {e} /\ UNCHANGED dedup
    /\ UNCHANGED <<enabled, replay, call, run, faults>>

Next ==
    \/ \E c \in Call : \/ DedupAsk(c) \/ DedupMark(c) \/ Debounce(c)
                       \/ Match(c) \/ Lookup(c) \/ Dispatch(c) \/ Post(c)
                       \/ MatchFails(c) \/ LookupFails(c) \/ DispatchFails(c) \/ PostFails(c)
                       \/ \E b \in Body : Deliver(c, b, "auto") \/ Deliver(c, b, "execute")
                       \/ \E e \in Event : Console(c, e)
    \/ \E r \in DOMAIN run : Approve(r) \/ Reject(r) \/ RunEnds(r)
    \/ Restart \/ Switch
    \/ \E b \in Body : ReplayExpires(b)
    \/ \E e \in Event : KeyExpires(e)

Spec == Init /\ [][Next]_vars

-----------------------------------------------------------------------------
\* A signed body starts one run at most in its window (webhook.py,
\* _authenticate): however many deliveries of it arrive at once, on either
\* path, the one that sets the key is the one that goes on.
BodyRunsOnce ==
    \A b \in Body : Cardinality({r \in DOMAIN run : run[r].body = b /\ ~run[r].old}) <= 1

\* webhook.py:206: a problem Zabbix re-sends, updated, is dropped: the call
\* that marks a problem is the first with it.
ProblemIsMarkedOnce ==
    [][\A c \in Call : call[c].at = "checked" /\ call'[c].at = "marked"
                          => call[c].event \notin dedup]_vars

\* webhook.py:10: the playbook is run for the affected host.
RunsOnAffectedHost ==
    \A r \in DOMAIN run : run[r].state \in {"running", "done"} => run[r].on = "affected"

\* webhook.py:348: the result is posted when the run has finished.
PostedIsComplete == \A r \in DOMAIN run : run[r].posted \in {"no", "done"}
=============================================================================
