--------------------------- MODULE TerminalSession ---------------------------
(***************************************************************************)
(* The SSH sessions of terminal-service: rows of za_ssh_sessions, the      *)
(* WebSocket handlers that open a shell on them, the three in-process      *)
(* registries a handler publishes itself in, and the requests and loops    *)
(* that end a session from outside.                                        *)
(*                                                                         *)
(* All coroutines of one process.  A step runs from one await to the next; *)
(* an UPDATE is emitted only for a status that differs from the one the    *)
(* coroutine loaded, and it names the row by its id alone.                 *)
(***************************************************************************)
EXTENDS Naturals, FiniteSets

CONSTANTS
  Sessions,    \* ids, numbered in the order of started_at
  Sockets,     \* connections to /ws/ssh/{id}, each used once
  Requests,    \* HTTP requests and frames of supervisors, each used once
  MaxFaults,   \* bound: restarts, failed commits, malformed sizes
  Nobody

ASSUME SessionAssumption ==
  /\ Sessions \subseteq Nat
  /\ Nobody \notin Sockets
  /\ MaxFaults \in Nat

VARIABLES
  row,      \* za_ssh_sessions.status
  ws,       \* handle_terminal, one per socket
  sftp,     \* sftp_registry._connections: whose connection file transfers use
  control,  \* supervision._controls: whose shell a supervisor gets
  events,   \* main._terminate_events: whose event a terminate sets
  req,      \* the requests
  faults

vars == <<row, ws, sftp, control, events, req, faults>>

-----------------------------------------------------------------------------
(* States *)

Live     == {"pending", "active"}
Statuses == Live \cup {"absent", "closed", "terminated", "error"}

\* The stages of a handler.  It holds a shell from "published" to "serving".
\* An exception ends it outside its try block ("stuck", "malformed") or at its
\* last commit ("unsaved").
Stages == {"idle", "connecting", "published", "activated", "serving", "closing",
           "storing", "ended", "stuck", "malformed", "unsaved", "lost"}
Shell  == {"published", "activated", "serving"}
Over   == {"ended", "stuck", "malformed", "unsaved", "lost"}

Handler ==
  [pc : Stages, session : Sessions \cup {0},
   loaded : Statuses,     \* status as of the last flush
   status : Statuses,     \* sess.status, in memory
   signalled : BOOLEAN,   \* its terminate_event is set
   missed : BOOLEAN]      \* history: a terminate looked for its event too early

Request ==
  [pc : {"idle", "read", "half", "done", "lost"},
   kind : {"none", "create", "reuse", "terminate", "deprovision", "supervise"},
   about : SUBSET Sessions,          \* the sessions it signals
   writes : SUBSET Sessions,         \* the rows it updates
   event : Sockets \cup {Nobody}]    \* the event it got hold of

Existing == {s \in Sessions : row[s] # "absent"}
Latest   == {s \in Existing : \A t \in Existing : t <= s}
Unused   == {s \in Sessions \ Existing : \A t \in Sessions \ Existing : s <= t}

Init ==
  /\ row = [s \in Sessions |-> "absent"]
  /\ ws = [k \in Sockets |-> [pc |-> "idle", session |-> 0, loaded |-> "absent",
                              status |-> "absent", signalled |-> FALSE, missed |-> FALSE]]
  /\ sftp = [s \in Sessions |-> Nobody]
  /\ control = [s \in Sessions |-> Nobody]
  /\ events = [s \in Sessions |-> Nobody]
  /\ req = [q \in Requests |-> [pc |-> "idle", kind |-> "none", about |-> {},
                                writes |-> {}, event |-> Nobody]]
  /\ faults = 0

At(k, pc) == ws[k].pc = pc
Of(k)     == ws[k].session

\* A handler that is over: what it knew goes with it.
Gone(k, pc) == [pc |-> pc, session |-> ws[k].session, loaded |-> "absent",
                status |-> "absent", signalled |-> FALSE, missed |-> FALSE]

\* The flush of k: what it says of the status, if it changed it.
Flush(k) ==
  row' = [row EXCEPT ![Of(k)] = IF ws[k].status = ws[k].loaded THEN @ ELSE ws[k].status]

-----------------------------------------------------------------------------
(* create_session *)

Ask(q, kind, about, writes, event) ==
  /\ req[q].pc = "idle"
  /\ req' = [req EXCEPT ![q] = [pc |-> "read", kind |-> kind, about |-> about,
                                writes |-> writes, event |-> event]]

Create(s) ==
  /\ s \in Unused
  /\ row' = [row EXCEPT ![s] = "pending"]
  /\ UNCHANGED <<ws, sftp, control, events, req, faults>>

\* Bug: any session that is over is led back to.
KioskCheckReusesAny(q) ==
  /\ \A s \in Latest : row[s] \notin Live
  /\ \/ Ask(q, "create", {}, {}, Nobody)
     \/ \E s \in Latest : Ask(q, "reuse", {}, {s}, Nobody)
  /\ UNCHANGED <<row, ws, sftp, control, events, faults>>

\* A kiosk login on its one host: refused while the latest session there is
\* live, and led back to that session for two minutes after it closed.
KioskCheck(q) ==
  /\ \A s \in Latest : row[s] \notin Live
  /\ \/ Ask(q, "create", {}, {}, Nobody)
     \/ \E s \in Latest : row[s] = "closed" /\ Ask(q, "reuse", {}, {s}, Nobody)
  /\ UNCHANGED <<row, ws, sftp, control, events, faults>>

KioskCommit(q) ==
  /\ req[q].pc = "read" /\ req[q].kind \in {"create", "reuse"}
  /\ req[q].kind = "create" => Unused # {}
  /\ LET rows == IF req[q].kind = "create" THEN Unused ELSE req[q].writes
     IN  row' = [s \in Sessions |-> IF s \in rows THEN "pending" ELSE row[s]]
  /\ req' = [req EXCEPT ![q].pc = "done"]
  /\ UNCHANGED <<ws, sftp, control, events, faults>>

-----------------------------------------------------------------------------
(* handle_terminal *)

\* History: s is being deprovisioned, and its events were set already.
TooLate(s) ==
  \E q \in Requests : /\ req[q].kind = "deprovision" /\ req[q].pc = "half"
                      /\ s \in req[q].about

Open(k, s) ==
  /\ At(k, "idle")
  /\ row[s] \in Live
  /\ ws' = [ws EXCEPT ![k] = [pc |-> "connecting", session |-> s, loaded |-> row[s],
                              status |-> row[s], signalled |-> FALSE, missed |-> TooLate(s)]]
  /\ UNCHANGED <<row, sftp, control, events, req, faults>>

\* No host, no credential, no gateway or no client any more: return.
GiveUp(k) ==
  /\ At(k, "connecting")
  /\ ws' = [ws EXCEPT ![k] = Gone(k, "ended")]
  /\ UNCHANGED <<row, sftp, control, events, req, faults>>

\* The SSH server refuses.
Refused(k) ==
  /\ At(k, "connecting")
  /\ row' = [row EXCEPT ![Of(k)] = "error"]
  /\ ws' = [ws EXCEPT ![k] = Gone(k, "ended")]
  /\ UNCHANGED <<sftp, control, events, req, faults>>

\* Connected: the connection and the controls are published, for whatever
\* handler published before.
Publish(k) ==
  /\ At(k, "connecting")
  /\ sftp' = [sftp EXCEPT ![Of(k)] = k]
  /\ control' = [control EXCEPT ![Of(k)] = k]
  /\ ws' = [ws EXCEPT ![k] = [@ EXCEPT !.pc = "published", !.status = "active"]]
  /\ UNCHANGED <<row, events, req, faults>>

\* The commit raises before the try block: nothing is taken back.
SetupFails(k) ==
  /\ faults < MaxFaults
  /\ At(k, "published")
  /\ ws' = [ws EXCEPT ![k] = Gone(k, "stuck")]
  /\ faults' = faults + 1
  /\ UNCHANGED <<row, sftp, control, events, req>>

Activate(k) ==
  /\ At(k, "published")
  /\ Flush(k)
  /\ ws' = [ws EXCEPT ![k] = [@ EXCEPT !.pc = "activated", !.loaded = "active"]]
  /\ UNCHANGED <<sftp, control, events, req, faults>>

Listen(k) ==
  /\ At(k, "activated")
  /\ events' = [events EXCEPT ![Of(k)] = k]
  /\ ws' = [ws EXCEPT ![k].pc = "serving"]
  /\ UNCHANGED <<row, sftp, control, req, faults>>

\* int(cols) or int(rows) of the query raises, after the event was registered
\* and before the try block: the row stays active, and nothing is taken back.
MalformedSize(k) ==
  /\ faults < MaxFaults
  /\ At(k, "activated")
  /\ events' = [events EXCEPT ![Of(k)] = k]
  /\ ws' = [ws EXCEPT ![k] = Gone(k, "malformed")]
  /\ faults' = faults + 1
  /\ UNCHANGED <<row, sftp, control, req>>

\* Bug: the teardown forgets the registries.
LeavePublished(k, status) ==
  /\ At(k, "serving")
  /\ ws' = [ws EXCEPT ![k] = [@ EXCEPT !.pc = "closing", !.status = status]]
  /\ UNCHANGED <<row, sftp, control, events, req, faults>>

\* The loop ends (client, remote shell, idle limit, terminate_event) or the
\* shell never started ("error"); the finally block takes the session out of
\* the registries, whoever is in them, and closes the connection.
Leave(k, status) ==
  /\ At(k, "serving")
  /\ sftp' = [sftp EXCEPT ![Of(k)] = Nobody]
  /\ control' = [control EXCEPT ![Of(k)] = Nobody]
  /\ ws' = [ws EXCEPT ![k] = [@ EXCEPT !.pc = "closing", !.status = status]]
  /\ UNCHANGED <<row, events, req, faults>>

\* Bug: what was terminated is left to whoever did it.
ConcludeClosedOnly(k) ==
  /\ At(k, "closing") /\ ~ws[k].signalled
  /\ events' = [events EXCEPT ![Of(k)] = Nobody]
  /\ ws' = [ws EXCEPT ![k] = [@ EXCEPT !.pc = "storing", !.status = "closed"]]
  /\ UNCHANGED <<row, sftp, control, req, faults>>

\* After the close frame.
Conclude(k) ==
  /\ At(k, "closing")
  /\ events' = [events EXCEPT ![Of(k)] = Nobody]
  /\ ws' = [ws EXCEPT ![k] =
       [@ EXCEPT !.pc = "storing",
                 !.status = IF ws[k].status = "error" THEN "error"
                            ELSE IF ws[k].signalled THEN "terminated" ELSE "closed"]]
  /\ UNCHANGED <<row, sftp, control, req, faults>>

\* Bug: a session that was signalled is taken for written already.
SaveUnlessSignalled(k) ==
  /\ At(k, "storing")
  /\ IF ws[k].signalled THEN UNCHANGED row ELSE Flush(k)
  /\ ws' = [ws EXCEPT ![k] = Gone(k, "ended")]
  /\ UNCHANGED <<sftp, control, events, req, faults>>

Save(k) ==
  /\ At(k, "storing")
  /\ Flush(k)
  /\ ws' = [ws EXCEPT ![k] = Gone(k, "ended")]
  /\ UNCHANGED <<sftp, control, events, req, faults>>

\* The commit of the teardown raises: the handler is over, the row as it was.
SaveFails(k) ==
  /\ faults < MaxFaults
  /\ At(k, "storing")
  /\ ws' = [ws EXCEPT ![k] = Gone(k, "unsaved")]
  /\ faults' = faults + 1
  /\ UNCHANGED <<row, sftp, control, events, req>>

-----------------------------------------------------------------------------
(* Ending a session from outside *)

\* The handlers of these sessions that have not registered their event yet.
Deaf(sessions) ==
  {k \in Sockets : Of(k) \in sessions /\ ws[k].pc \in {"connecting", "published", "activated"}}

\* DELETE /ssh/sessions/{id}: commit, then set the event that is registered.
\* deprovision: every live session of the user; the events first.
ReadToTerminate(q, s) ==
  /\ s \in Existing
  /\ Ask(q, "terminate", {s}, IF row[s] = "terminated" THEN {} ELSE {s}, Nobody)
  /\ UNCHANGED <<row, ws, sftp, control, events, faults>>

ReadToDeprovision(q) ==
  LET live == {s \in Sessions : row[s] \in Live}
  IN  /\ live # {}
      /\ Ask(q, "deprovision", live, live, Nobody)
      /\ UNCHANGED <<row, ws, sftp, control, events, faults>>

WriteTerminated(q) ==
  /\ \/ req[q].kind = "terminate" /\ req[q].pc = "read"
     \/ req[q].kind = "deprovision" /\ req[q].pc = "half"
  /\ row' = [s \in Sessions |-> IF s \in req[q].writes THEN "terminated" ELSE row[s]]
  /\ req' = [req EXCEPT ![q].pc = IF @ = "read" THEN "half" ELSE "done"]
  /\ UNCHANGED <<ws, sftp, control, events, faults>>

\* Bug: the event is looked for and not set.
SignalNobody(q) ==
  /\ \/ req[q].kind = "terminate" /\ req[q].pc = "half"
     \/ req[q].kind = "deprovision" /\ req[q].pc = "read"
  /\ req' = [req EXCEPT ![q].pc = IF @ = "read" THEN "half" ELSE "done"]
  /\ UNCHANGED <<row, ws, sftp, control, events, faults>>

SetEvents(q) ==
  /\ \/ req[q].kind = "terminate" /\ req[q].pc = "half"
     \/ req[q].kind = "deprovision" /\ req[q].pc = "read"
  /\ LET heard == {events[s] : s \in req[q].about}
         deaf  == Deaf(req[q].about)
     IN  ws' = [k \in Sockets |-> [ws[k] EXCEPT !.signalled = @ \/ k \in heard,
                                                !.missed = @ \/ k \in deaf]]
  /\ req' = [req EXCEPT ![q].pc = IF @ = "read" THEN "half" ELSE "done"]
  /\ UNCHANGED <<row, sftp, control, events, faults>>

\* A supervisor's "terminate" frame: the event is fetched, its entry in the
\* audit log awaited, and then the event set; the row is left to the handler.
Supervise(q, s) ==
  /\ events[s] # Nobody
  /\ Ask(q, "supervise", {}, {}, events[s])
  /\ UNCHANGED <<row, ws, sftp, control, events, faults>>

SuperviseSets(q, recorded) ==
  /\ req[q].kind = "supervise" /\ req[q].pc = "read"
  /\ ws' = IF recorded THEN [ws EXCEPT ![req[q].event].signalled = TRUE] ELSE ws
  /\ req' = [req EXCEPT ![q].pc = "done"]
  /\ UNCHANGED <<row, sftp, control, events, faults>>

\* Bug: the status is missing from the WHERE clause.
ReapLive(old) ==
  /\ old # {} /\ \A s \in old : row[s] \in Live
  /\ row' = [s \in Sessions |-> IF s \in old THEN "closed" ELSE row[s]]
  /\ UNCHANGED <<ws, sftp, control, events, req, faults>>

\* Bug: what somebody tried to connect to is not reaped.
ReapUntouched(old) ==
  /\ old # {} /\ \A s \in old : row[s] = "pending" /\ \A k \in Sockets : Of(k) # s
  /\ row' = [s \in Sessions |-> IF s \in old THEN "closed" ELSE row[s]]
  /\ UNCHANGED <<ws, sftp, control, events, req, faults>>

\* _reap_pending_loop: rows that stayed pending for pending_reap_seconds.
Reap(old) ==
  /\ old # {} /\ \A s \in old : row[s] = "pending"
  /\ row' = [s \in Sessions |-> IF s \in old THEN "closed" ELSE row[s]]
  /\ UNCHANGED <<ws, sftp, control, events, req, faults>>

\* The process restarts: no row is changed then, or afterwards.
Restart ==
  /\ faults < MaxFaults
  /\ ws' = [k \in Sockets |->
       IF ws[k].pc \in {"idle", "ended"} THEN ws[k] ELSE Gone(k, "lost")]
  /\ sftp' = [s \in Sessions |-> Nobody]
  /\ control' = [s \in Sessions |-> Nobody]
  /\ events' = [s \in Sessions |-> Nobody]
  /\ req' = [q \in Requests |->
       IF req[q].pc \in {"idle", "done"} THEN req[q] ELSE [req[q] EXCEPT !.pc = "lost"]]
  /\ faults' = faults + 1
  /\ UNCHANGED row

-----------------------------------------------------------------------------
(* The specification *)

Serve(k) ==
  \/ Activate(k) \/ Listen(k) \/ Conclude(k) \/ Save(k)
  \/ ws[k].signalled /\ Leave(k, ws[k].status)

Next ==
  \/ \E s \in Sessions : Create(s)
  \/ \E k \in Sockets :
       \/ \E s \in Sessions : Open(k, s)
       \/ GiveUp(k) \/ Refused(k) \/ Publish(k) \/ SetupFails(k)
       \/ \E status \in {"active", "error"} : Leave(k, status)
       \/ Activate(k) \/ Listen(k) \/ MalformedSize(k)
       \/ Conclude(k) \/ Save(k) \/ SaveFails(k)
  \/ \E q \in Requests :
       \/ KioskCheck(q) \/ KioskCommit(q)
       \/ \E s \in Sessions : ReadToTerminate(q, s) \/ Supervise(q, s)
       \/ ReadToDeprovision(q) \/ WriteTerminated(q) \/ SetEvents(q)
       \/ \E recorded \in BOOLEAN : SuperviseSets(q, recorded)
  \/ \E old \in SUBSET Sessions : Reap(old)
  \/ Restart

Spec == Init /\ [][Next]_vars

\* The event loop runs a handler whose await is over, and the loop of a
\* handler looks at its terminate_event; the reaper runs every minute.
Fairness ==
  /\ \A k \in Sockets : WF_vars(Serve(k))
  /\ \A s \in Sessions : WF_vars(row[s] = "pending" /\ \E old \in SUBSET Sessions : s \in old /\ Reap(old))

FairSpec == Spec /\ Fairness

-----------------------------------------------------------------------------
(* Properties *)

TypeOK ==
  /\ row \in [Sessions -> Statuses]
  /\ ws \in [Sockets -> Handler]
  /\ sftp \in [Sessions -> Sockets \cup {Nobody}]
  /\ control \in [Sessions -> Sockets \cup {Nobody}]
  /\ events \in [Sessions -> Sockets \cup {Nobody}]
  /\ req \in [Requests -> Request]
  /\ faults \in 0..MaxFaults

\* Somebody else has been at session s: another socket than k.
Shared(k) == \E j \in Sockets \ {k} : Of(j) = Of(k) /\ ~At(j, "idle")

\* A file transfer or a supervisor never gets the connection of a handler that
\* is past its loop, and no later handler of the session hides that: the
\* teardown of one socket, though it may unregister another, leaves no
\* closed connection behind.
PublishedIsOpen ==
  \A s \in Sessions : \A k \in {sftp[s], control[s]} \ {Nobody} :
    Of(k) = s /\ ws[k].pc \in Shell \cup {"stuck", "malformed"}

\* A row reads active only while a handler is there that will write it again,
\* or after one of the three ends that write nothing: a restart, a commit of the
\* teardown that failed, a terminal size that is no number.  No interleaving of
\* two sockets, terminates, the reaper and kiosk reconnects leaves a session
\* active for ever by itself.
ActiveHasHandler ==
  \A s \in Sessions : row[s] = "active" =>
    \E k \in Sockets :
      /\ Of(k) = s
      /\ \/ ws[k].pc \in {"activated", "serving", "closing", "storing"}
         \/ ws[k].pc \in {"lost", "unsaved", "malformed"}

\* A shell is listed as active, unless somebody terminates its session or a
\* second socket of the session ended first.
ShellIsListed ==
  \A k \in Sockets : At(k, "serving") /\ row[Of(k)] # "active" =>
    \/ Shared(k)
    \/ \E q \in Requests : Of(k) \in req[q].writes /\ req[q].pc \in {"half", "done", "lost"}

\* The row of a session, its handlers and the registries agree.
Consistent == TypeOK /\ ActiveHasHandler /\ ShellIsListed

\* The handler of a terminated session knows, or is about to be told, except
\* in the two holes of terminate_events: it was not registered yet, or a
\* second socket of the session replaced or removed its entry.
TerminatedIsSignalled ==
  \A k \in Sockets : At(k, "serving") /\ row[Of(k)] = "terminated" =>
    \/ ws[k].signalled \/ ws[k].missed \/ Shared(k)
    \/ \E q \in Requests : /\ Of(k) \in req[q].about /\ req[q].kind = "terminate"
                           /\ req[q].pc = "half"

\* Once a session was terminated, or failed, and nobody is at work on it,
\* nothing but another terminate of it ever gets to work on it again: no connect,
\* kiosk reconnect or reaper.
Ended(s) ==
  /\ row[s] \in {"terminated", "error"}
  /\ \A k \in Sockets : Of(k) = s => ws[k].pc \in Over
  /\ \A q \in Requests : req[q].pc \in {"read", "half"} => s \notin req[q].about \cup req[q].writes
EndedStaysEnded ==
  [][\A s \in Sessions : Ended(s) =>
       \/ Ended(s)' /\ row'[s] = row[s]
       \/ \E q \in Requests : /\ req'[q].kind = "terminate" /\ req'[q].pc = "read"
                              /\ s \in req'[q].about]_vars

\* A handler whose event is set ends, whatever it was doing, if an exception
\* has not ended it before.
SignalledEnds == \A k \in Sockets : ws[k].signalled ~> ws[k].pc \in Over

\* No session stays pending: it is connected to, terminated or reaped.
PendingEnds == \A s \in Sessions : row[s] = "pending" ~> row[s] # "pending"

-----------------------------------------------------------------------------
(* What the repository says of the sessions, and the code does not do *)

\* terminate_sessions_by_user kills every active or pending session
\* immediately, and terminate_session signals the WebSocket handler: after
\* either has answered, no shell of the session goes on untold.
TerminateReachesShell ==
  \A q \in Requests, k \in Sockets :
    (/\ req[q].kind \in {"terminate", "deprovision"} /\ req[q].pc = "done"
     /\ Of(k) \in req[q].about /\ At(k, "serving"))
      => ws[k].signalled
=============================================================================
