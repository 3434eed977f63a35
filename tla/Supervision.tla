----------------------------- MODULE Supervision -----------------------------
(***************************************************************************)
(* Who drives a live shell of terminal-service: the operator, through the  *)
(* command filters, and the supervisors that join the session, take it     *)
(* over and release it (handle_spectate, supervision.py).                  *)
(*                                                                         *)
(* One session.  Its record of control belongs to the handler (here: the   *)
(* shell) that registered last.  Coroutines of one process: a step runs    *)
(* from one await to the next.  A frame that is refused or dropped changes *)
(* nothing and is no step; neither is a supervisor's input, which goes     *)
(* straight to the shell (MayType says when).                              *)
(***************************************************************************)
CONSTANTS
  Shells,    \* handlers of the operator's sockets, each used once
  Watchers,  \* sockets of /ws/ssh/{id}/spectate, each used once
  Admins,    \* users with role admin or superadmin
  Nobody

ASSUME SupervisionAssumption == Nobody \notin Shells \cup Admins

VARIABLES
  shell,       \* the operators' handlers
  current,     \* supervision._controls: the shell whose record is published
  controller,  \* controller_id in the published record
  subs,        \* spectators[session_id]: who is sent a copy of the output
  wt,          \* handle_spectate, one per socket
  told         \* history: the operator was told of who controls the shell

vars == <<shell, current, controller, subs, wt, told>>

-----------------------------------------------------------------------------
(* States *)

\* A handler reads frames, or waits in a confirm dialogue: the operator is
\* asked, or has sent "allow" and the frame is in the buffer of the socket.
\* (To send "deny" is to send nothing.)
Open == {"reading", "asking", "allowed"}

\* A socket that is "dropped" has nothing but the disconnect left to receive;
\* in "leaving" its handler tells the operator that control is released.
Connected == {"joining", "watching", "dropped", "taking", "releasing", "terminating"}
Watcher ==
  [pc : Connected \cup {"idle", "leaving", "gone"}, admin : Admins \cup {Nobody},
   record : Shells \cup {Nobody}]  \* ctl, as a takeover fetched it

Init ==
  /\ shell = [o \in Shells |-> "idle"]
  /\ current = Nobody
  /\ controller = Nobody
  /\ subs = {}
  /\ wt = [w \in Watchers |-> [pc |-> "idle", admin |-> Nobody, record |-> Nobody]]
  /\ told = FALSE

At(w, pc)  == wt[w].pc = pc
Goto(w, pc) ==
  wt' = [wt EXCEPT ![w] =
    [pc |-> pc, record |-> Nobody,
     admin |-> IF pc \in Connected THEN wt[w].admin ELSE Nobody]]

\* The published record, if any, names the user of w.
Holds(w) == controller = wt[w].admin

-----------------------------------------------------------------------------
(* The operator: handle_terminal *)

\* A record nobody controls is published, or none; the old one is forgotten.
Publish(o) ==
  /\ current' = o
  /\ controller' = Nobody
  /\ told' = FALSE

Register(o) ==
  /\ shell[o] = "idle"
  /\ shell' = [shell EXCEPT ![o] = "reading"]
  /\ Publish(o)
  /\ UNCHANGED <<subs, wt>>

\* A command matches a filter with action "confirm": the loop that reads the
\* socket sends confirm_required and awaits the answer.
MatchConfirm(o) ==
  /\ shell[o] = "reading"
  /\ shell' = [shell EXCEPT ![o] = "asking"]
  /\ UNCHANGED <<current, controller, subs, wt, told>>

SendConfirm(o) ==
  /\ shell[o] = "asking"
  /\ shell' = [shell EXCEPT ![o] = "allowed"]
  /\ UNCHANGED <<current, controller, subs, wt, told>>

\* No frame is read while the loop waits: 30 s later the command is denied,
\* and an answer is read when nothing waits for it any more.
ConfirmTimeout(o) ==
  /\ shell[o] \in {"asking", "allowed"}
  /\ shell' = [shell EXCEPT ![o] = "reading"]
  /\ UNCHANGED <<current, controller, subs, wt, told>>

\* The loop ends, whoever registered last is unregistered.
Teardown(o) ==
  /\ shell[o] = "reading"
  /\ shell' = [shell EXCEPT ![o] = "closed"]
  /\ Publish(Nobody)
  /\ UNCHANGED <<subs, wt>>

-----------------------------------------------------------------------------
(* A supervisor: handle_spectate *)

\* The session reads active (its row may outlive its shell): the socket is
\* subscribed, and its entry in the audit log awaited.
Join(w, a) ==
  /\ At(w, "idle")
  /\ wt' = [wt EXCEPT ![w] = [@ EXCEPT !.pc = "joining", !.admin = a]]
  /\ subs' = subs \cup {w}
  /\ UNCHANGED <<shell, current, controller, told>>

Joined(w) ==
  /\ At(w, "joining")
  /\ Goto(w, "watching")
  /\ UNCHANGED <<shell, current, controller, subs, told>>

\* Bug: the socket is closed and stays subscribed.
RefusedStays(w) ==
  /\ At(w, "joining")
  /\ Goto(w, "gone")
  /\ UNCHANGED <<shell, current, controller, subs, told>>

\* The entry could not be recorded.
Refused(w) ==
  /\ At(w, "joining")
  /\ Goto(w, "gone")
  /\ subs' = subs \ {w}
  /\ UNCHANGED <<shell, current, controller, told>>

\* Bug: nobody asks whether the session is taken.
TakeoverAnyway(w) ==
  /\ At(w, "watching") /\ current # Nobody
  /\ controller' = wt[w].admin
  /\ told' = FALSE
  /\ wt' = [wt EXCEPT ![w] = [@ EXCEPT !.pc = "taking", !.record = current]]
  /\ UNCHANGED <<shell, current, subs>>

\* Bug: the entry and the notice are not awaited.
TakeoverAtOnce(w) ==
  /\ At(w, "watching") /\ current # Nobody
  /\ controller \in {Nobody, wt[w].admin}
  /\ controller' = wt[w].admin
  /\ UNCHANGED <<shell, current, subs, wt, told>>

\* Control is taken first, and the entry awaited then.
Takeover(w) ==
  /\ At(w, "watching") /\ current # Nobody
  /\ controller \in {Nobody, wt[w].admin}
  /\ controller' = wt[w].admin
  /\ told' = (told /\ controller # Nobody)
  /\ wt' = [wt EXCEPT ![w] = [@ EXCEPT !.pc = "taking", !.record = current]]
  /\ UNCHANGED <<shell, current, subs>>

\* The entry is written, and the operator told, in the shell whose record was
\* fetched.
TakeoverRecorded(w) ==
  /\ At(w, "taking")
  /\ told' = (told \/ wt[w].record = current)
  /\ Goto(w, "watching")
  /\ UNCHANGED <<shell, current, controller, subs>>

\* release_if_controller: the record that is published now.
Release(w) ==
  /\ At(w, "watching") /\ Holds(w)
  /\ controller' = Nobody
  /\ Goto(w, "releasing")
  /\ UNCHANGED <<shell, current, subs, told>>

\* A "terminate" frame awaits its entry in the log; what it does to the
\* session is in TerminalSession.
Terminate(w) ==
  /\ At(w, "watching")
  /\ Goto(w, "terminating")
  /\ UNCHANGED <<shell, current, controller, subs, told>>

\* The entry (and the notice) of a release or a terminate is written.
Resume(w) ==
  /\ wt[w].pc \in {"releasing", "terminating"}
  /\ Goto(w, "watching")
  /\ UNCHANGED <<shell, current, controller, subs, told>>

\* The client is gone (it may have left while its handler awaited something,
\* which sees it only now).
Drop(w) ==
  /\ At(w, "watching")
  /\ Goto(w, "dropped")
  /\ UNCHANGED <<shell, current, controller, subs, told>>

\* Bug: the session stays seized.
LeaveSeized(w) ==
  /\ wt[w].pc \in {"dropped", "taking", "terminating"}
  /\ Goto(w, "gone")
  /\ subs' = subs \ {w}
  /\ UNCHANGED <<shell, current, controller, told>>

\* The disconnect is received, or a critical entry could not be written
\* (AuditWriteError leaves the loop): the finally block.
Leave(w) ==
  /\ wt[w].pc \in {"dropped", "taking", "terminating"}
  /\ IF Holds(w)
     THEN /\ controller' = Nobody
          /\ Goto(w, "leaving")
          /\ UNCHANGED subs
     ELSE /\ Goto(w, "gone")
          /\ subs' = subs \ {w}
          /\ UNCHANGED controller
  /\ UNCHANGED <<shell, current, told>>

Gone(w) ==
  /\ At(w, "leaving")
  /\ Goto(w, "gone")
  /\ subs' = subs \ {w}
  /\ UNCHANGED <<shell, current, controller, told>>

-----------------------------------------------------------------------------
(* The specification *)

\* What the handler of w does when what it awaits is there.
Proceed(w) ==
  \/ Joined(w) \/ Refused(w)
  \/ TakeoverRecorded(w) \/ Resume(w)
  \/ Leave(w) \/ Gone(w)

Next ==
  \/ \E o \in Shells :
       \/ Register(o) \/ Teardown(o)
       \/ MatchConfirm(o) \/ SendConfirm(o) \/ ConfirmTimeout(o)
  \/ \E w \in Watchers :
       \/ \E a \in Admins : Join(w, a)
       \/ Takeover(w) \/ Release(w) \/ Terminate(w) \/ Drop(w)
       \/ Proceed(w)

Spec == Init /\ [][Next]_vars

\* The event loop runs a handler whose await is over; an audit entry is
\* answered, or given up after 3 s.  Nobody has to send a frame.
FairSpec == Spec /\ \A w \in Watchers : WF_vars(Proceed(w))

-----------------------------------------------------------------------------
(* Properties *)

TypeOK ==
  /\ shell \in [Shells -> Open \cup {"idle", "closed"}]
  /\ current \in Shells \cup {Nobody}
  /\ controller \in Admins \cup {Nobody}
  /\ subs \subseteq Watchers
  /\ wt \in [Watchers -> Watcher]
  /\ told \in BOOLEAN

\* Whoever controls the shell that is published is connected: however sockets
\* drop, audit entries fail and shells of the session replace each other, no
\* session stays seized by a supervisor who is not there.
ControllerPresent ==
  controller # Nobody =>
    \E w \in Watchers : wt[w].admin = controller /\ wt[w].pc \in Connected

\* A supervisor's next frame would be written to the shell.
MayType(w) == At(w, "watching") /\ Holds(w)

\* A supervisor types only into a shell whose operator was told, after the
\* takeover was recorded.  The hole: a second socket of the same supervisor
\* types while the first still awaits its entry.
InputIsAnnounced ==
  \A w \in Watchers : MayType(w) =>
    \/ told
    \/ \E v \in Watchers \ {w} : wt[v].admin = wt[w].admin

\* Control passes from one supervisor to another only when the first gave it
\* up or left: nobody takes over from a supervisor, or releases another's
\* control.
ControlIsGivenUp ==
  [][controller # Nobody /\ controller' # controller /\ current' = current =>
       /\ controller' = Nobody
       /\ \E w \in Watchers : wt[w].admin = controller /\ wt'[w].pc # wt[w].pc]_vars

\* Output is copied only to sockets whose session.join is recorded (past
\* "joining"), or still awaited: one that was refused and one that is gone get
\* nothing more.
SubscribersAreConnected ==
  \A w \in subs : wt[w].pc \in Connected \cup {"leaving"}

\* Whoever is noted as controlling or as subscribed is there.
Consistent == TypeOK /\ ControllerPresent /\ SubscribersAreConnected

\* When the last socket of the supervisor in control is dropped, the session
\* gets its control back, though the handlers notice it late.
Abandoned(a) ==
  /\ controller = a
  /\ \A w \in Watchers : wt[w].admin = a /\ wt[w].pc \in Connected => At(w, "dropped")
DroppedControlIsReleased ==
  \A a \in Admins : Abandoned(a) ~> controller # a

-----------------------------------------------------------------------------
(* What the repository says, and the code does not do *)

\* The protocol of ws/terminal.py: the command is let through when the answer
\* to confirm_required is yes, and denied when none comes in 30 s.
ConfirmHonoured ==
  [][\A o \in Shells : shell[o] = "allowed" => ~ConfirmTimeout(o)]_vars
=============================================================================
