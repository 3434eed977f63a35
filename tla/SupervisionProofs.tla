-------------------------- MODULE SupervisionProofs --------------------------
(***************************************************************************)
(* Proofs about Supervision, for any number of handlers, supervisors and   *)
(* sockets: control is always somebody's who is there and who was          *)
(* announced, and it is only ever given up.                                *)
(***************************************************************************)
EXTENDS Supervision, TLAPS

(* The inductive invariant. *)

\* The stages in which a socket may have control.
Past == Connected \ {"joining"}

\* A connected socket is a supervisor's.
Named == \A w \in Watchers : wt[w].pc \in Connected => wt[w].admin \in Admins

\* Whoever controls the shell has a socket that was let in, and none of the
\* ways out of that leaves the control behind.
ControllerIn ==
  controller # Nobody => \E w \in Watchers : wt[w].admin = controller /\ wt[w].pc \in Past

\* Until the operator is told, the takeover that will tell is still at work, on
\* the record that is published.
ToldOrTaking ==
  controller # Nobody /\ ~told =>
    \E w \in Watchers : /\ wt[w].admin = controller /\ wt[w].pc = "taking"
                        /\ wt[w].record = current

\* The published record is that of a handler in its loop; without one there is
\* no control.
RecordIsOpen ==
  /\ current # Nobody => shell[current] \in Open
  /\ current = Nobody => controller = Nobody

IInv ==
  /\ TypeOK
  /\ Named
  /\ ControllerIn
  /\ ToldOrTaking
  /\ RecordIsOpen
  /\ SubscribersAreConnected

-----------------------------------------------------------------------------
(* The steps. *)

\* What Goto makes of the sockets.
LEMMA GotoMoves ==
  ASSUME TypeOK, NEW w \in Watchers, NEW pc \in Connected \cup {"idle", "leaving", "gone"},
         Goto(w, pc)
  PROVE  /\ wt' \in [Watchers -> Watcher]
         /\ wt'[w].pc = pc /\ wt'[w].record = Nobody
         /\ wt'[w].admin = IF pc \in Connected THEN wt[w].admin ELSE Nobody
         /\ \A v \in Watchers : v # w => wt'[v] = wt[v]
<1> DEFINE new == [pc |-> pc, record |-> Nobody,
                   admin |-> IF pc \in Connected THEN wt[w].admin ELSE Nobody]
<1>1. wt' = [wt EXCEPT ![w] = new]
  BY DEF Goto
<1>2. wt[w] \in Watcher /\ wt \in [Watchers -> Watcher]
  BY DEF TypeOK
<1>3. new \in Watcher
  BY <1>2 DEF Watcher
<1>4. wt'[w] = new
  BY <1>1, <1>2
<1> QED  BY <1>1, <1>2, <1>3, <1>4

\* Nobody is in, and nothing is published.
LEMMA InitSound == Init => IInv
<1> SUFFICES ASSUME Init PROVE IInv
  OBVIOUS
<1>1. TypeOK
  BY DEF Init, TypeOK, Watcher
<1>2. Named
  BY DEF Init, Named, Connected
<1>3. ControllerIn /\ ToldOrTaking /\ RecordIsOpen /\ SubscribersAreConnected
  BY DEF Init, ControllerIn, ToldOrTaking, RecordIsOpen, SubscribersAreConnected
<1> QED  BY <1>1, <1>2, <1>3 DEF IInv

\* The operator's handlers change who is published, and take control away with it.
LEMMA OperatorKeeps ==
  ASSUME IInv, NEW o \in Shells,
         Register(o) \/ Teardown(o) \/ MatchConfirm(o) \/ SendConfirm(o) \/ ConfirmTimeout(o)
  PROVE  IInv'
<1>0. o # Nobody
  BY SupervisionAssumption
<1>1. UNCHANGED <<subs, wt>>
  BY DEF Register, Teardown, MatchConfirm, SendConfirm, ConfirmTimeout
<1>2. CASE Register(o) \/ Teardown(o)
  <2>1. /\ controller' = Nobody /\ told' = FALSE
        /\ \/ current' = o /\ shell' = [shell EXCEPT ![o] = "reading"]
           \/ current' = Nobody /\ shell' = [shell EXCEPT ![o] = "closed"]
    BY <1>2 DEF Register, Teardown, Publish
  <2>2. TypeOK' /\ RecordIsOpen'
    BY <1>0, <1>1, <2>1 DEF IInv, TypeOK, RecordIsOpen, Open
  <2> QED  BY <1>1, <2>1, <2>2 DEF IInv, Named, ControllerIn, ToldOrTaking, SubscribersAreConnected
<1>3. CASE MatchConfirm(o) \/ SendConfirm(o) \/ ConfirmTimeout(o)
  <2>1. /\ UNCHANGED <<current, controller, told>>
        /\ \E s \in Open : shell' = [shell EXCEPT ![o] = s]
    BY <1>3 DEF MatchConfirm, SendConfirm, ConfirmTimeout, Open
  <2>2. TypeOK' /\ RecordIsOpen'
    BY <1>1, <2>1 DEF IInv, TypeOK, RecordIsOpen
  <2> QED  BY <1>1, <2>1, <2>2 DEF IInv, Named, ControllerIn, ToldOrTaking, SubscribersAreConnected
<1> QED  BY <1>2, <1>3

\* A socket is let in, or not.
LEMMA JoinKeeps ==
  ASSUME IInv, NEW w \in Watchers, NEW a \in Admins, Join(w, a)
  PROVE  IInv'
<1> DEFINE new == [wt[w] EXCEPT !.pc = "joining", !.admin = a]
<1>1. wt[w] \in Watcher /\ wt[w].pc = "idle"
  BY DEF IInv, TypeOK, Join, At
<1>2. new \in Watcher /\ new.pc = "joining" /\ new.admin = a
  BY <1>1 DEF Watcher, Connected
<1>3. wt' = [wt EXCEPT ![w] = new] /\ subs' = subs \cup {w}
      /\ UNCHANGED <<shell, current, controller, told>>
  BY DEF Join
<1> HIDE DEF new
<1>4. wt'[w] = new /\ \A v \in Watchers : v # w => wt'[v] = wt[v]
  BY <1>3 DEF IInv, TypeOK
<1>5. TypeOK'
  BY <1>2, <1>3 DEF IInv, TypeOK
<1>6. Named' /\ SubscribersAreConnected'
  BY <1>2, <1>3, <1>4 DEF IInv, Named, SubscribersAreConnected, Connected
<1>7. ControllerIn' /\ ToldOrTaking' /\ RecordIsOpen'
  BY <1>1, <1>3, <1>4 DEF IInv, ControllerIn, ToldOrTaking, RecordIsOpen, Past, Connected
<1> QED  BY <1>5, <1>6, <1>7 DEF IInv

\* Control is taken: by whoever had it, or from nobody.
LEMMA TakeoverKeeps ==
  ASSUME IInv, NEW w \in Watchers, Takeover(w)
  PROVE  IInv'
<1> DEFINE new == [wt[w] EXCEPT !.pc = "taking", !.record = current]
<1>1. wt[w] \in Watcher /\ wt[w].pc = "watching" /\ wt[w].admin \in Admins
  BY DEF IInv, TypeOK, Takeover, At, Named, Connected
<1>2. current \in Shells
  BY DEF IInv, TypeOK, Takeover
<1>3. new \in Watcher /\ new.pc = "taking" /\ new.admin = wt[w].admin /\ new.record = current
  BY <1>1, <1>2 DEF Watcher, Connected
<1>4. /\ wt' = [wt EXCEPT ![w] = new] /\ controller' = wt[w].admin
      /\ told' = (told /\ controller # Nobody) /\ controller \in {Nobody, wt[w].admin}
      /\ current # Nobody /\ UNCHANGED <<shell, current, subs>>
  BY DEF Takeover
<1> HIDE DEF new
<1>5. wt'[w] = new /\ \A v \in Watchers : v # w => wt'[v] = wt[v]
  BY <1>4 DEF IInv, TypeOK
<1>6. TypeOK'
  BY <1>1, <1>3, <1>4 DEF IInv, TypeOK
<1>7. Named' /\ SubscribersAreConnected'
  BY <1>1, <1>3, <1>4, <1>5 DEF IInv, Named, SubscribersAreConnected, Connected
<1>8. ControllerIn' /\ ToldOrTaking' /\ RecordIsOpen'
  BY <1>3, <1>4, <1>5 DEF IInv, ControllerIn, ToldOrTaking, RecordIsOpen, Past, Connected
<1> QED  BY <1>6, <1>7, <1>8 DEF IInv

\* The sockets that stay in keep what they have, and the operator is told only
\* by the takeover of the published record.
LEMMA StayKeeps ==
  ASSUME IInv, NEW w \in Watchers,
         Joined(w) \/ TakeoverRecorded(w) \/ Release(w) \/ Terminate(w) \/ Resume(w) \/ Drop(w)
  PROVE  IInv'
<1>1. PICK pc \in {"watching", "releasing", "terminating", "dropped"} : Goto(w, pc)
  BY DEF Joined, TakeoverRecorded, Release, Terminate, Resume, Drop
<1>2. /\ wt' \in [Watchers -> Watcher] /\ wt'[w].pc = pc /\ wt'[w].admin = wt[w].admin
      /\ \A v \in Watchers : v # w => wt'[v] = wt[v]
      /\ pc \in Past
  BY <1>1, GotoMoves DEF IInv, Connected, Past
<1>3. wt[w].pc \in Connected /\ UNCHANGED <<shell, current, subs>>
  BY DEF Joined, TakeoverRecorded, Release, Terminate, Resume, Drop, At, Connected
<1>4. /\ controller' \in {controller, Nobody} /\ told' \in BOOLEAN
      /\ ~told' => ~told /\ ~(wt[w].pc = "taking" /\ wt[w].record = current)
  <2>1. CASE TakeoverRecorded(w)
    BY <2>1 DEF TakeoverRecorded
  <2>2. CASE Joined(w) \/ Release(w) \/ Terminate(w) \/ Resume(w) \/ Drop(w)
    BY <2>2 DEF Joined, Release, Terminate, Resume, Drop, At, IInv, TypeOK
  <2> QED  BY <2>1, <2>2
<1>5. TypeOK'
  BY <1>2, <1>3, <1>4 DEF IInv, TypeOK
<1>6. Named' /\ SubscribersAreConnected' /\ RecordIsOpen'
  <2>1. Named'
    BY <1>2, <1>3 DEF IInv, Named
  <2>2. SubscribersAreConnected'
    BY <1>2, <1>3 DEF IInv, TypeOK, SubscribersAreConnected, Past
  <2>3. RecordIsOpen'
    BY <1>3, <1>4 DEF IInv, RecordIsOpen
  <2> QED  BY <2>1, <2>2, <2>3
<1>7. ControllerIn'
  BY <1>2, <1>4 DEF IInv, ControllerIn
<1>8. ToldOrTaking'
  <2>1. CASE told'
    BY <2>1 DEF ToldOrTaking
  <2>2. CASE ~told'
    BY <1>2, <1>3, <1>4, <2>2 DEF IInv, ToldOrTaking
  <2> QED  BY <2>1, <2>2
<1> QED  BY <1>5, <1>6, <1>7, <1>8 DEF IInv

\* Whoever goes gives up the control that is theirs.
LEMMA GoKeeps ==
  ASSUME IInv, NEW w \in Watchers, Refused(w) \/ Leave(w) \/ Gone(w)
  PROVE  IInv'
<1>1. PICK pc \in {"leaving", "gone"} :
        /\ Goto(w, pc)
        /\ subs' = IF pc = "gone" THEN subs \ {w} ELSE subs
        /\ controller' \in {controller, Nobody}
        /\ wt[w].pc = "joining" \/ wt[w].admin # controller \/ controller' = Nobody
           \/ wt[w].pc = "leaving"
        /\ UNCHANGED <<shell, current, told>>
  BY DEF Refused, Leave, Gone, At, Holds
<1>2. /\ wt' \in [Watchers -> Watcher] /\ wt'[w].pc = pc
      /\ \A v \in Watchers : v # w => wt'[v] = wt[v]
      /\ pc \notin Connected
  BY <1>1, GotoMoves DEF IInv, Connected
<1>3. TypeOK'
  BY <1>1, <1>2 DEF IInv, TypeOK
<1>4. Named' /\ SubscribersAreConnected' /\ RecordIsOpen'
  <2>1. Named'
    BY <1>2 DEF IInv, Named
  <2>2. SubscribersAreConnected'
    BY <1>1, <1>2 DEF IInv, TypeOK, SubscribersAreConnected
  <2>3. RecordIsOpen'
    BY <1>1 DEF IInv, RecordIsOpen
  <2> QED  BY <2>1, <2>2, <2>3
<1>5. ControllerIn' /\ ToldOrTaking'
  BY <1>1, <1>2 DEF IInv, ControllerIn, ToldOrTaking, Past, Connected
<1> QED  BY <1>3, <1>4, <1>5 DEF IInv

LEMMA StepKeeps == IInv /\ [Next]_vars => IInv'
<1> SUFFICES ASSUME IInv, [Next]_vars PROVE IInv'
  OBVIOUS
<1>1. CASE UNCHANGED vars
  BY <1>1 DEF vars, IInv, TypeOK, Named, ControllerIn, ToldOrTaking, RecordIsOpen,
              SubscribersAreConnected
<1>2. CASE Next
  BY <1>2, OperatorKeeps, JoinKeeps, TakeoverKeeps, StayKeeps, GoKeeps DEF Next, Proceed
<1> QED  BY <1>1, <1>2

-----------------------------------------------------------------------------
(* The theorems. *)

LEMMA Invariance == Spec => []IInv
BY InitSound, StepKeeps, PTL DEF Spec

\* Whoever is noted as controlling (supervision.py) or as subscribed
\* (spectators) is connected, however sockets drop, audit entries fail and
\* shells replace each other.
THEOREM NotedAreThere == Spec => []Consistent
<1>1. IInv => Consistent
  BY DEF IInv, Consistent, ControllerIn, ControllerPresent, Past
<1> QED  BY <1>1, Invariance, PTL

\* A supervisor whose input would reach the shell was announced to its
\* operator, or has another socket that is about to announce them
\* (handle_spectate takes control before it awaits the entry).
THEOREM InputAnnounced == Spec => []InputIsAnnounced
<1>1. IInv => InputIsAnnounced
  <2> SUFFICES ASSUME IInv, NEW w \in Watchers, MayType(w), ~told
               PROVE  \E v \in Watchers \ {w} : wt[v].admin = wt[w].admin
    BY DEF InputIsAnnounced
  <2>1. wt[w].pc = "watching" /\ controller = wt[w].admin /\ wt[w].admin \in Admins
    BY DEF IInv, MayType, At, Holds, Named, Connected
  <2>2. controller # Nobody
    BY <2>1, SupervisionAssumption
  <2> QED  BY <2>1, <2>2 DEF IInv, ToldOrTaking
<1> QED  BY <1>1, Invariance, PTL

\* As long as one shell is published, control leaves a supervisor only by a
\* step of a socket of theirs, and to nobody (takeover refuses, and
\* release_if_controller compares the user).
THEOREM ControlGivenUp == Spec => ControlIsGivenUp
<1> DEFINE GivenUp ==
      controller # Nobody /\ controller' # controller /\ current' = current =>
        /\ controller' = Nobody
        /\ \E w \in Watchers : wt[w].admin = controller /\ wt'[w].pc # wt[w].pc
<1>1. ASSUME IInv, Next PROVE GivenUp
  <2> SUFFICES ASSUME controller # Nobody, controller' # controller, current' = current
               PROVE  /\ controller' = Nobody
                      /\ \E w \in Watchers : wt[w].admin = controller /\ wt'[w].pc # wt[w].pc
    OBVIOUS
  <2>1. ASSUME NEW o \in Shells, Register(o) \/ Teardown(o) PROVE FALSE
    <3>1. o # Nobody /\ current # Nobody /\ shell[current] \in Open
      BY <1>1, SupervisionAssumption DEF IInv, RecordIsOpen
    <3> QED  BY <2>1, <3>1 DEF Register, Teardown, Publish, Open
  <2>2. ASSUME NEW w \in Watchers, Takeover(w) PROVE FALSE
    BY <2>2 DEF Takeover
  <2>3. PICK w \in Watchers : Release(w) \/ Leave(w)
    BY <1>1, <2>1, <2>2 DEF Next, Proceed, MatchConfirm, SendConfirm, ConfirmTimeout, Join,
       Joined, Refused, TakeoverRecorded, Resume, Terminate, Drop, Gone
  <2>4. /\ controller' = Nobody /\ wt[w].admin = controller
        /\ \E pc \in {"releasing", "leaving"} : wt[w].pc # pc /\ Goto(w, pc)
    BY <2>3 DEF Release, Leave, Holds, At
  <2>5. wt'[w].pc # wt[w].pc
    BY <1>1, <2>4, GotoMoves DEF IInv, Connected
  <2> QED  BY <2>4, <2>5
<1>2. IInv /\ [Next]_vars => [GivenUp]_vars
  BY <1>1
<1> QED  BY <1>2, Invariance, PTL DEF Spec, ControlIsGivenUp
=============================================================================
