----------------------------- MODULE PlaybookJob -----------------------------
(* jumpserver-legacy, playbook-studio: one job, the task that runs it (over   *)
(* automation-bridge, or by itself when that does not take it), its cancel,   *)
(* and the WebSockets that follow its output by Redis.  Lines are stored when *)
(* the job ends; until then they are only published.                          *)
EXTENDS Naturals, Sequences

CONSTANTS
    Stream,     \* WebSockets that follow the job
    MaxLines,   \* bound: lines of output
    MaxLost     \* bound: publications that Redis does not take

VARIABLES
    row,       \* the job's status; "absent" until its request commits
    cancel,    \* whether a cancel has read the row and not yet written it
    stored,    \* its output_lines
    task,      \* where run_job_async is
    out,       \* the lines the process has written
    result,    \* what the task has made of it
    process,   \* whether ansible-playbook runs
    bridge,    \* the bridge's own job: "none", "pending" in its Redis, or "dead"
    ended,     \* history: how the end was published
    lost,
    stream     \* what each WebSocket is doing, its queue, and what it has sent on

vars == <<row, cancel, stored, task, out, result, process, bridge, ended, lost, stream>>

Ends == {"success", "failed", "cancelled"}
Statuses == {"pending", "running"} \union Ends
Line == 1..MaxLines
Told == {"none", "done", "error"}
Idle == [at |-> "off", queue |-> <<>>, sent |-> {}, twice |-> FALSE, told |-> "none",
         missed |-> FALSE]

TypeOK ==
    /\ row \in Statuses \union {"absent"}
    /\ cancel \in BOOLEAN /\ stored \subseteq Line /\ out \in 0..MaxLines /\ lost \in 0..MaxLost
    /\ task \in {"none", "created", "bridge", "polling", "direct", "process", "finish", "publish", "over"}
    /\ result \in {"none", "done", "error"} \X {"none", "success", "failed"}
    /\ process \in BOOLEAN /\ bridge \in {"none", "pending", "dead"} /\ ended \in Told
    /\ \A s \in Stream :
        /\ stream[s].at \in {"off", "subscribed", "flushed", "live", "over"} /\ stream[s].told \in Told
        /\ stream[s].sent \subseteq Line /\ {stream[s].twice, stream[s].missed} \subseteq BOOLEAN

Init ==
    /\ row = "absent" /\ cancel = FALSE /\ stored = {} /\ task = "none" /\ out = 0
    /\ result = <<"none", "none">> /\ process = FALSE /\ bridge = "none"
    /\ ended = "none" /\ lost = 0 /\ stream = [s \in Stream |-> Idle]

job == <<row, cancel, stored>>
run == <<task, out, result, process, bridge>>
said == <<ended, lost, stream>>

-----------------------------------------------------------------------------
(* The requests, api/jobs.py. *)
\* execute_job creates the task in front of the commit of its row.
Execute ==
    /\ task = "none" /\ task' = "created"
    /\ UNCHANGED <<job, out, result, process, bridge, said>>

Commit ==
    /\ row = "absent" /\ task # "none"
    /\ row' = "pending"
    /\ UNCHANGED <<cancel, stored, run, said>>

\* cancel_job reads the row, and writes it when its request is done;
\* cancel_job_async does nothing.
ReadForCancel ==
    /\ row \in {"pending", "running"} /\ ~cancel
    /\ cancel' = TRUE
    /\ UNCHANGED <<row, stored, run, said>>

Cancel ==
    /\ cancel /\ cancel' = FALSE /\ row' = "cancelled"
    /\ UNCHANGED <<stored, run, said>>

-----------------------------------------------------------------------------
(* services/execution.py. *)
Goto(at) == task' = at /\ UNCHANGED <<out, result, process, bridge>>
Starts == row' = (IF row = "absent" THEN row ELSE "running")

\* _run_via_automation_bridge: nothing to do for a job that is not there.
ViaBridge ==
    /\ task = "created" /\ Starts
    /\ Goto(IF row = "absent" THEN "over" ELSE "bridge")
    /\ UNCHANGED <<cancel, stored, said>>

\* It does not answer, or takes no more jobs.
Refused ==
    /\ task = "bridge" /\ Goto("direct")
    /\ UNCHANGED <<job, said>>

\* run_ansible_inline answers with the id of a job that is pending.
Accepted ==
    /\ task = "bridge" /\ task' = "polling" /\ bridge' = "pending"
    /\ UNCHANGED <<job, out, result, process, said>>

\* _execute_job sets a field of the key it has stored a string under: an error
\* of Redis, in front of the run.
BridgeExecutes ==
    /\ bridge = "pending" /\ bridge' = "dead"
    /\ UNCHANGED <<job, task, out, result, process, said>>

\* _poll_automation_bridge reads "pending", or nothing, until its deadline.
PollEnds ==
    /\ task = "polling" /\ Goto("over")
    /\ UNCHANGED <<job, said>>

\* run_job_direct.
Direct ==
    /\ task = "direct" /\ Starts
    /\ task' = "process" /\ process' = TRUE
    /\ UNCHANGED <<cancel, stored, out, result, bridge, said>>

\* Bug: a stream subscribes when the stored state has been sent.
HearersFlushed == {s \in Stream : stream[s].at = "live"}

\* A stream subscribes before it reads the stored state.
Hearers == {s \in Stream : stream[s].at \in {"subscribed", "flushed", "live"}}

Publish(kind, n) ==
    \/ stream' = [s \in Stream |->
            IF s \in Hearers
            THEN [stream[s] EXCEPT !.queue = Append(@, <<kind, n>>)] ELSE stream[s]]
       /\ UNCHANGED lost
    \/ lost < MaxLost /\ lost' = lost + 1 /\ UNCHANGED stream

\* _stream_subprocess.
Write ==
    /\ task = "process" /\ out < MaxLines
    /\ out' = out + 1 /\ Publish("line", out + 1)
    /\ UNCHANGED <<job, task, result, process, bridge, ended>>

\* The result is read from the last lines.
ProcessEnds(status) ==
    /\ task = "process"
    /\ task' = "finish" /\ process' = FALSE /\ result' = <<"done", status>>
    /\ UNCHANGED <<job, out, bridge, said>>

\* There is no playbook, no program, or no end within the hour: the process is
\* left to itself, its lines are forgotten.
Breaks ==
    /\ task = "process"
    /\ task' = "finish" /\ out' = 0 /\ result' = <<"error", "failed">>
    /\ process' \in BOOLEAN
    /\ UNCHANGED <<job, bridge, said>>

\* _finish_job.
Finish ==
    /\ task = "finish"
    /\ row' = (IF row = "absent" THEN row ELSE result[2])
    /\ stored' = 1..out
    /\ Goto("publish")
    /\ UNCHANGED <<cancel, said>>

PublishEnd ==
    /\ task = "publish" /\ Publish(result[1], 0)
    /\ ended' = (IF lost' = lost THEN result[1] ELSE ended)
    /\ Goto("over")
    /\ UNCHANGED job

-----------------------------------------------------------------------------
(* ws/stream.py. *)
Subscribe(s) ==
    /\ stream[s].at = "off"
    /\ stream' = [stream EXCEPT ![s].at = "subscribed"]
    /\ UNCHANGED <<job, run, ended, lost>>

\* _flush_existing_output: the lines stored, and the end if there is one.
Flush(s) ==
    /\ stream[s].at = "subscribed"
    /\ stream' = [stream EXCEPT ![s] =
            [stream[s] EXCEPT !.at = "flushed", !.sent = stream[s].sent \union stored,
                              !.told = IF row \in Ends THEN "done" ELSE stream[s].told]]
    /\ UNCHANGED <<job, run, ended, lost>>

\* It swallows every exception: of the database, or of the socket between two
\* lines.  The stream goes on as if it had been told.  History: missed, who has
\* subscribed after the end was published and failed to read it.
FlushFails(s) ==
    /\ stream[s].at = "subscribed"
    /\ \E n \in 0..MaxLines :
         stream' = [stream EXCEPT ![s] =
            [stream[s] EXCEPT !.at = "flushed",
                              !.sent = stream[s].sent \union {i \in stored : i <= n},
                              !.missed = (ended # "none" /\ stream[s].queue = <<>>)]]
    /\ UNCHANGED <<job, run, ended, lost>>

Listen(s) ==
    /\ stream[s].at = "flushed"
    /\ stream' = [stream EXCEPT ![s].at = "live"]
    /\ UNCHANGED <<job, run, ended, lost>>

\* The stream ends with the message that says done.
Forward(s) ==
    LET x == stream[s]
        kind == Head(x.queue)[1]
        n == Head(x.queue)[2]
    IN /\ x.at = "live" /\ x.queue # <<>>
       /\ stream' = [stream EXCEPT ![s] =
            [x EXCEPT !.queue = IF kind = "done" THEN <<>> ELSE Tail(x.queue),
                      !.at = IF kind = "done" THEN "over" ELSE "live",
                      !.sent = IF kind = "line" THEN x.sent \union {n} ELSE x.sent,
                      !.twice = x.twice \/ (kind = "line" /\ n \in x.sent),
                      !.told = IF kind = "line" THEN x.told ELSE kind]]
       /\ UNCHANGED <<job, run, ended, lost>>

Next ==
    \/ Execute \/ Commit \/ ReadForCancel \/ Cancel
    \/ ViaBridge \/ Refused \/ Accepted \/ BridgeExecutes \/ PollEnds
    \/ Direct \/ Write \/ ProcessEnds("success") \/ ProcessEnds("failed") \/ Breaks
    \/ Finish \/ PublishEnd
    \/ \E s \in Stream : Subscribe(s) \/ Flush(s) \/ FlushFails(s) \/ Listen(s) \/ Forward(s)

Spec == Init /\ [][Next]_vars

\* The event loop runs every task, and a process ends.
Fairness == WF_vars(Commit \/ ViaBridge \/ Refused \/ PollEnds \/ Direct
                    \/ ProcessEnds("success") \/ Breaks \/ Finish \/ PublishEnd)
FairSpec == Spec /\ Fairness

-----------------------------------------------------------------------------
\* stream.py:66-70: once the end of the job is published, a WebSocket that has
\* sent on all it was sent has told its user, whenever it joined, unless it
\* joined after that and could not read the stored state: then nobody tells it.
EndIsHeard ==
    ended # "none" => \A s \in Stream :
        stream[s].at = "live" /\ stream[s].queue = <<>> =>
            stream[s].told # "none" \/ stream[s].missed

\* jobs.py:70, "Use /ws/jobs/{id}/stream for live output": who has heard the
\* end has seen every line.
AllIsSeen ==
    ended = "done" => \A s \in Stream : stream[s].told = "done" => stream[s].sent = 1..out

\* stream.py:69: what was stored is sent, and then what is published: nothing twice.
LinesOnce == \A s \in Stream : ~stream[s].twice

\* jobs.py:129: a job that is cancelled is not running any more, and stays so.
CancelledStays == [][row = "cancelled" => row' = row]_vars

\* An end, once written, is not written over.
EndedStays == [][(row \in Ends) => row' = row]_vars

\* execution.py:29: the bridge or the fallback brings every job to an end.
JobEnds == (row = "pending") ~> (row \in Ends)

\* A job that is over leaves no playbook running.
OverIsStopped == task = "over" => ~process
=============================================================================
