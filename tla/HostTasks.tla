------------------------------ MODULE HostTasks ------------------------------
(* automation-service, plugins/executors: bash_script, ansible_playbook and   *)
(* the two salt_ssh executors, as runner.execute runs them: attempts of one   *)
(* run over the hosts it names.  bash starts a coroutine per host; ansible    *)
(* and salt look the hosts up and start one process over those they found.    *)
(* What an attempt has started may outlive it.                                *)
EXTENDS Naturals, FiniteSets

CONSTANTS
    Host,         \* request.target_host_ids
    Behind,       \* those of them whose zone has a gateway
    Attempts,     \* retry_count + 1
    MaxParallel   \* the template's max_parallel, of bash_script

VARIABLES
    kind,      \* the executor
    dry,       \* _dry_run
    attempt,   \* of runner.execute
    at,        \* where the attempt is; "over" when the run has ended
    status,    \* what the last attempt came to
    task,      \* per attempt, what was done about each host
    agent,     \* the attempts whose ssh-agent runs
    changed,   \* history: hosts something was run on
    strayed,   \* history: hosts behind a gateway that were reached without it
    deserted   \* history: attempts that stopped to read what their playbook writes

vars == <<kind, dry, attempt, at, status, task, agent, changed, strayed, deserted>>

Kinds == {"bash", "ansible", "salt"}
Attempt == 1..Attempts

TypeOK ==
    /\ kind \in Kinds /\ dry \in BOOLEAN /\ attempt \in Attempt
    /\ at \in {"resolving", "starting", "running", "waiting", "over"}
    /\ status \in {"running", "success", "failed", "error"}
    /\ task \in [Attempt -> [Host -> {"todo", "look", "ready", "skip", "work", "ok", "bad", "cut"}]]
    /\ agent \subseteq Attempt
    /\ changed \subseteq Host /\ strayed \subseteq Host /\ deserted \subseteq Attempt

First == IF kind = "bash" THEN "running" ELSE "resolving"

Init ==
    /\ kind \in Kinds /\ dry \in BOOLEAN /\ attempt = 1 /\ at = First
    /\ status = "running"
    /\ task = [a \in Attempt |-> [h \in Host |-> "todo"]]
    /\ agent = {} /\ changed = {} /\ strayed = {} /\ deserted = {}

In(a, what) == {h \in Host : task[a][h] \in what}
Becomes(a, h, what) == task' = [task EXCEPT ![a][h] = what]
Cut(a, which) ==
    task' = [task EXCEPT ![a] = [h \in Host |-> IF @[h] \in which THEN "cut" ELSE @[h]]]

\* runner.execute: the end of an attempt ends the run, or is tried again; it also
\* ends when the line that says so is not published, with its row as it is.
Conclude(result) ==
    /\ status' = result
    /\ at' \in IF result = "success" \/ attempt = Attempts THEN {"over"} ELSE {"waiting", "over"}
    /\ UNCHANGED <<kind, dry, attempt>>

Retry ==
    /\ at = "waiting"
    /\ attempt' = attempt + 1 /\ at' = First /\ status' = "running"
    /\ UNCHANGED <<kind, dry, task, agent, changed, strayed, deserted>>

-----------------------------------------------------------------------------
(* bash_script: asyncio.gather over the hosts, a semaphore around each. *)
Kept == UNCHANGED <<kind, dry, attempt, at, status, agent, strayed, deserted>>

BashBegins(a, h) ==
    /\ kind = "bash" /\ a <= attempt /\ task[a][h] = "todo"
    /\ Cardinality(In(a, {"look", "work"})) < MaxParallel
    /\ Becomes(a, h, "look")
    /\ Kept /\ UNCHANGED changed

\* The host or its credential is not there, or it has no password for sudo.
BashRefuses(a, h) ==
    /\ kind = "bash" /\ task[a][h] = "look"
    /\ Becomes(a, h, "bad")
    /\ Kept /\ UNCHANGED changed

\* A dry run says what it would run.
BashRuns(a, h) ==
    /\ kind = "bash" /\ task[a][h] = "look"
    /\ Becomes(a, h, IF dry THEN "ok" ELSE "work")
    /\ changed' = IF dry THEN changed ELSE changed \union {h}
    /\ strayed' = IF dry THEN strayed ELSE strayed \union ({h} \intersect Behind)
    /\ UNCHANGED <<kind, dry, attempt, at, status, agent, deserted>>

\* What runs on a host ends there, well or not.
HostEnds(a, h, result) ==
    /\ task[a][h] = "work" /\ result \in {"ok", "bad"}
    /\ Becomes(a, h, result)
    /\ Kept /\ UNCHANGED changed

\* A request or the connection fails: gather passes the exception on, and the
\* coroutines of the other hosts go on.
BashRaises(a, h) ==
    /\ kind = "bash" /\ task[a][h] \in {"look", "work"}
    /\ Becomes(a, h, "cut")
    /\ IF a = attempt /\ at = "running"
       THEN Conclude("error")
       ELSE UNCHANGED <<kind, dry, attempt, at, status>>
    /\ UNCHANGED <<agent, changed, strayed, deserted>>

BashDone ==
    /\ kind = "bash" /\ at = "running"
    /\ In(attempt, {"ok", "bad"}) = Host
    /\ Conclude(IF In(attempt, {"ok"}) = Host THEN "success" ELSE "failed")
    /\ UNCHANGED <<task, agent, changed, strayed, deserted>>

-----------------------------------------------------------------------------
(* ansible_playbook, salt_ssh_command and salt_ssh_state. *)
\* A host that cannot be looked up, that has no credential or no password for
\* sudo is passed over; salt also passes over one with a gateway it has no key for.
Skip(h) ==
    /\ at = "resolving" /\ task[attempt][h] = "todo"
    /\ Becomes(attempt, h, "skip")
    /\ Kept /\ UNCHANGED changed

\* Salt jumps over the gateways of the zone, none when they could not be read;
\* ansible connects directly.
Resolve(h, jumps) ==
    /\ at = "resolving" /\ task[attempt][h] = "todo"
    /\ jumps => kind = "salt" /\ h \in Behind
    /\ Becomes(attempt, h, "ready")
    /\ strayed' = IF h \in Behind /\ ~jumps THEN strayed \union {h} ELSE strayed
    /\ UNCHANGED <<kind, dry, attempt, at, status, agent, changed, deserted>>

\* Inventory does not answer, or has no host for the run.
Unresolved ==
    /\ at = "resolving"
    /\ \/ Conclude("error")
       \/ In(attempt, {"skip"}) = Host /\ Conclude("failed")
    /\ UNCHANGED <<task, agent, changed, strayed, deserted>>

\* An agent that did not start in time is stopped; ansible starts none without a key.
StartAgent(started) == agent' = IF started THEN agent \union {attempt} ELSE agent

\* The directory of the attempt is there, and the files in it are being written.
Prepare(started) ==
    /\ at = "resolving" /\ In(attempt, {"todo"}) = {} /\ In(attempt, {"ready"}) # {}
    /\ at' = "starting"
    /\ StartAgent(started)
    /\ UNCHANGED <<kind, dry, attempt, status, task, changed, strayed, deserted>>

\* The agent of salt ends with everything in its try; ansible's try begins when
\* the process runs.
AgentAfter(running) ==
    IF running \/ kind = "salt" THEN agent \ {attempt} ELSE agent

\* ansible-vault cannot encrypt, a file cannot be written, the program is missing.
PrepareFails ==
    /\ at = "starting"
    /\ agent' = AgentAfter(FALSE)
    /\ Conclude("error")
    /\ UNCHANGED <<task, changed, strayed, deserted>>

\* The hosts ansible and salt are given.
Inventory == In(attempt, {"ready"})
Roster == In(attempt, {"ready"})

Launch(hosts) ==
    /\ at = "starting"
    /\ at' = "running"
    /\ task' = [task EXCEPT ![attempt] = [h \in Host |-> IF h \in hosts THEN "work" ELSE @[h]]]
    /\ UNCHANGED <<kind, dry, attempt, status, agent, strayed, deserted>>

\* A dry run is one with --check.
LaunchPlaybook ==
    /\ kind = "ansible" /\ Launch(Inventory)
    /\ changed' = IF dry THEN changed ELSE changed \union Inventory

LaunchSalt ==
    /\ kind = "salt" /\ Launch(Roster)
    /\ changed' = changed \union Roster

\* It succeeds when it did on every host it ran on (its exit code; summarize), if
\* its output can be published.
Exit ==
    /\ kind # "bash" /\ at = "running" /\ In(attempt, {"work"}) = {}
    /\ agent' = AgentAfter(TRUE)
    /\ \/ Conclude(IF In(attempt, {"bad"}) = {} THEN "success" ELSE "failed")
       \/ Conclude("error")
    /\ UNCHANGED <<task, changed, strayed, deserted>>

\* A line of the playbook is too long, is no text, or is not published: the agent
\* is stopped and the attempt is over, and the process is left to itself.
Desert ==
    /\ kind = "ansible" /\ at = "running"
    /\ agent' = AgentAfter(TRUE)
    /\ Conclude("error")
    /\ deserted' = deserted \union {attempt}
    /\ UNCHANGED <<task, changed, strayed>>

-----------------------------------------------------------------------------
\* Bug: what ansible-playbook has forked goes on.
ReachedAgent == IF kind = "bash" THEN {"todo", "look", "work"} ELSE {}

\* What a timeout stops.  bash: the coroutines.  ansible: the process group.
\* salt: only the coroutine that waits for salt-ssh.
Reached == IF kind = "salt" THEN {} ELSE {"todo", "look", "work"}

TimeOut ==
    /\ at \in {"resolving", "starting", "running"}
    /\ Cut(attempt, Reached)
    /\ agent' = AgentAfter(at = "running")
    /\ Conclude("error")
    /\ UNCHANGED <<changed, strayed, deserted>>

Next ==
    \/ \E a \in Attempt, h \in Host :
        \/ BashBegins(a, h) \/ BashRefuses(a, h) \/ BashRuns(a, h) \/ BashRaises(a, h)
        \/ HostEnds(a, h, "ok") \/ HostEnds(a, h, "bad")
    \/ \E h \in Host : Skip(h) \/ Resolve(h, TRUE) \/ Resolve(h, FALSE)
    \/ Prepare(TRUE) \/ Prepare(FALSE)
    \/ BashDone \/ Unresolved \/ PrepareFails \/ LaunchPlaybook \/ LaunchSalt
    \/ Exit \/ Desert \/ TimeOut \/ Retry

Spec == Init /\ [][Next]_vars

-----------------------------------------------------------------------------
\* ansible_playbook.py:419: when an attempt is tried again or the run has ended,
\* no playbook of it still works on a host, unless the attempt ended because it
\* could not read or publish what the playbook writes.
PlaybookEndsWithAttempt ==
    kind = "ansible" => \A a \in Attempt :
        a < attempt \/ at \in {"waiting", "over"} => In(a, {"work"}) = {} \/ a \in deserted

\* The same of every executor (bash_script.py:104, "keeps running unmonitored
\* after the job is already marked error").
NothingOutlivesAttempt ==
    \A a \in Attempt :
        a < attempt \/ at \in {"waiting", "over"} => In(a, {"look", "work"}) = {}

\* ansible_playbook.py:131: an agent with the private keys of an attempt is
\* "killed alongside the playbook run".
AgentEndsWithAttempt ==
    \A a \in agent : a = attempt /\ at \in {"starting", "running"}

\* _dry_run: no host is changed by it.
DryRunChangesNothing == dry => changed = {}

\* salt_ssh.py:154: a run that succeeds has run on every host it names.
SuccessIsEverywhere == status = "success" => In(attempt, {"ok"}) = Host

\* salt_ssh.py:57: a host that has to be reached through a gateway is not
\* connected to directly.
GatewayIsKept == kind = "salt" => strayed = {}
=============================================================================
