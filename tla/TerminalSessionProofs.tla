------------------------ MODULE TerminalSessionProofs ------------------------
(***************************************************************************)
(* Proofs about TerminalSession, for any number of sessions, sockets,      *)
(* requests and faults: the rows, the handlers and the registries agree,   *)
(* whatever two sockets, the terminates, the reaper, the kiosk check and   *)
(* restarts do to one session at once.                                     *)
(***************************************************************************)
EXTENDS TerminalSession, TLAPS

(* The inductive invariant. *)

\* A handler at work has a session, and its coroutine knows of the row what
\* its stage says.
Staged(k) ==
  /\ ~At(k, "idle") => Of(k) \in Sessions /\ row[Of(k)] # "absent"
  /\ At(k, "connecting") => ws[k].loaded \in Live /\ ws[k].status = ws[k].loaded
  /\ At(k, "published")  => ws[k].loaded \in Live /\ ws[k].status = "active"
  /\ ws[k].pc \in {"activated", "serving", "closing", "storing"} => ws[k].loaded = "active"
  /\ ws[k].pc \in {"activated", "serving"} => ws[k].status = "active"
  /\ At(k, "closing") => ws[k].status \in {"active", "error"}
  /\ At(k, "storing") => ws[k].status \in {"closed", "terminated", "error"}

\* Some request wrote, or was about to write, the row of s.
Written(s) ==
  \E q \in Requests : s \in req[q].writes /\ req[q].pc \in {"half", "done", "lost"}

\* A handler that found its row active was not the first of its session; one
\* that made it so is alone with it until somebody else writes it.
Listed(k) ==
  /\ ws[k].pc \in {"connecting", "published"} /\ ws[k].loaded = "active" => Shared(k)
  /\ ws[k].pc \in {"activated", "serving"} /\ row[Of(k)] # "active" =>
       Shared(k) \/ Written(Of(k))

\* terminate_events has the handler of a lone socket.
Heard(k) == At(k, "serving") => events[Of(k)] = k \/ Shared(k)

\* The handler knows, or somebody looked for it in vain.
Excused(k) == ws[k].signalled \/ ws[k].missed \/ Shared(k)

\* A terminate of s has written the row and not yet set the event.
Coming(s) ==
  \E q \in Requests : s \in req[q].about /\ req[q].kind = "terminate" /\ req[q].pc = "half"

\* From its first flush on, a handler whose row was terminated is excused, or
\* is going to be; a deprovision sets the events before it writes.
ToldOfEnd(k) ==
  /\ ws[k].pc \in {"activated", "serving"} /\ row[Of(k)] = "terminated" =>
       Excused(k) \/ Coming(Of(k))
  /\ ws[k].pc \in Shell \cup {"connecting"} /\ TooLate(Of(k)) => Excused(k)

\* What a request that ends sessions writes is what it signals.
Aimed ==
  \A q \in Requests : req[q].kind \in {"terminate", "deprovision"} =>
    req[q].writes \subseteq req[q].about

Sound(k) == Staged(k) /\ Listed(k) /\ Heard(k) /\ ToldOfEnd(k)

IInv ==
  /\ TypeOK
  /\ \A k \in Sockets : Sound(k)
  /\ Aimed
  /\ PublishedIsOpen
  /\ ActiveHasHandler

-----------------------------------------------------------------------------
(* What does not change. *)

\* Socket k is now handler h, which is of the session k was of, if it had one.
Becomes(k, h) ==
  /\ h \in Handler /\ h.pc # "idle"
  /\ ws' = [ws EXCEPT ![k] = h]
  /\ ~At(k, "idle") => h.session = Of(k)

\* A step writes the row of session t alone, and its entries in the registries.
OnlyAbout(t) ==
  /\ row' \in [Sessions -> Statuses]
  /\ sftp' \in [Sessions -> Sockets \cup {Nobody}]
  /\ control' \in [Sessions -> Sockets \cup {Nobody}]
  /\ events' \in [Sessions -> Sockets \cup {Nobody}]
  /\ \A s \in Sessions : s # t =>
       /\ row'[s] = row[s] /\ events'[s] = events[s]
       /\ sftp'[s] = sftp[s] /\ control'[s] = control[s]
  /\ row[t] # "absent" => row'[t] # "absent"

\* The stages of the handlers that will write an active row again, or left it.
Writers == {"activated", "serving", "closing", "storing", "lost", "unsaved", "malformed"}

\* The move of one socket concerns no socket of another session; those of its
\* own are not alone.
LEMMA OthersSound ==
  ASSUME IInv, NEW k \in Sockets, NEW h, Becomes(k, h), UNCHANGED req,
         OnlyAbout(h.session), NEW j \in Sockets, j # k
  PROVE  Sound(j)'
<1>1. ws'[j] = ws[j] /\ ws'[k] = h /\ ws[k] \in Handler
  BY DEF Becomes, IInv, TypeOK
<1>2. Sound(j)
  BY DEF IInv
<1>3. CASE At(j, "idle")
  BY <1>1, <1>3 DEF Sound, Staged, Listed, Heard, ToldOfEnd, At, Shell
<1>4. CASE ~At(j, "idle") /\ Of(j) = h.session
  <2>1. Shared(j)'
    BY <1>1, <1>4 DEF Shared, Becomes, Of, At
  <2>2. Staged(j)'
    BY <1>1, <1>2, <1>4 DEF Sound, Staged, At, Of, OnlyAbout
  <2> QED  BY <2>1, <2>2 DEF Sound, Listed, Heard, ToldOfEnd, Excused
<1>5. CASE ~At(j, "idle") /\ Of(j) # h.session
  <2>1. Of(j) \in Sessions
    BY <1>2, <1>5 DEF Sound, Staged
  <2>2. row'[Of(j)] = row[Of(j)] /\ events'[Of(j)] = events[Of(j)] /\ Of(j)' = Of(j)
    BY <1>1, <1>5, <2>1 DEF Of, OnlyAbout
  <2>3. Shared(j) => Shared(j)'
    <3> SUFFICES ASSUME NEW i \in Sockets \ {j}, Of(i) = Of(j), ~At(i, "idle")
                 PROVE  Of(i)' = Of(j)' /\ ~At(i, "idle")'
      BY DEF Shared
    <3>1. CASE i = k
      BY <1>1, <1>5, <3>1 DEF Becomes, Of, At
    <3>2. CASE i # k
      BY <1>1, <3>2 DEF Becomes, IInv, TypeOK, Of, At
    <3> QED  BY <3>1, <3>2
  <2>4. Staged(j)'
    BY <1>1, <1>2, <2>2 DEF Sound, Staged, At, Of
  <2>5. Listed(j)'
    BY <1>1, <1>2, <2>2, <2>3 DEF Sound, Listed, Written
  <2>6. Heard(j)'
    BY <1>1, <1>2, <2>2, <2>3 DEF Sound, Heard, At
  <2>7. ToldOfEnd(j)'
    BY <1>1, <1>2, <2>2, <2>3 DEF Sound, ToldOfEnd, Excused, Coming, TooLate
  <2> QED  BY <2>4, <2>5, <2>6, <2>7 DEF Sound
<1> QED  BY <1>3, <1>4, <1>5

\* The other sockets of k's session are who they were.
LEMMA StillShared ==
  ASSUME TypeOK, NEW k \in Sockets, ~At(k, "idle"), NEW h, Becomes(k, h)
  PROVE  Shared(k)' <=> Shared(k)
<1>1. Of(k)' = Of(k)
  BY DEF Becomes, Of, TypeOK
<1>2. \A j \in Sockets \ {k} : ws'[j] = ws[j]
  BY DEF Becomes, TypeOK
<1> QED  BY <1>1, <1>2 DEF Shared, At, Of

\* What is left to show of a handler's step: that it is sound itself, that what
\* is published of its session is still open, and that it does not leave an
\* active row alone.
LEMMA OneMoves ==
  ASSUME IInv, NEW k \in Sockets, NEW h, Becomes(k, h), UNCHANGED req, faults' \in 0..MaxFaults,
         h.session \in Sessions, OnlyAbout(h.session), Sound(k)',
         \A i \in {sftp'[h.session], control'[h.session]} \ {Nobody} :
           \/ i = k /\ h.pc \in Shell \cup {"stuck", "malformed"}
           \/ i # k /\ i \in {sftp[h.session], control[h.session]},
         row'[h.session] = "active" =>
           h.pc \in Writers \/ (row[h.session] = "active" /\ ws[k].pc \notin Writers)
  PROVE  IInv'
<1>1. ws' = [ws EXCEPT ![k] = h] /\ h \in Handler /\ ws[k] \in Handler /\ ws'[k] = h
      /\ \A j \in Sockets : j # k => ws'[j] = ws[j]
  BY DEF Becomes, IInv, TypeOK
<1>2. TypeOK'
  BY <1>1 DEF IInv, TypeOK, OnlyAbout
<1>3. \A j \in Sockets : Sound(j)'
  BY OthersSound
<1>4. Aimed'
  BY DEF IInv, Aimed
<1>5. PublishedIsOpen'
  <2> SUFFICES ASSUME NEW s \in Sessions, NEW i \in {sftp'[s], control'[s]} \ {Nobody}
               PROVE  Of(i)' = s /\ ws'[i].pc \in Shell \cup {"stuck", "malformed"}
    BY DEF PublishedIsOpen
  <2>1. CASE s = h.session /\ i = k
    BY <1>1, <2>1 DEF Of
  <2>2. CASE s # h.session \/ i # k
    <3>1. i \in {sftp[s], control[s]} \ {Nobody} /\ i \in Sockets
      BY <2>2 DEF IInv, TypeOK, OnlyAbout
    <3>2. Of(i) = s /\ ws[i].pc \in Shell \cup {"stuck", "malformed"}
      BY <3>1 DEF IInv, PublishedIsOpen
    <3>3. i # k
      BY <2>2, <3>2 DEF Becomes, At, Shell
    <3> QED  BY <1>1, <3>1, <3>2, <3>3 DEF Of
  <2> QED  BY <2>1, <2>2
<1>6. ActiveHasHandler'
  <2> SUFFICES ASSUME NEW s \in Sessions, row'[s] = "active"
               PROVE  \E i \in Sockets : Of(i)' = s /\ ws'[i].pc \in Writers
    BY DEF ActiveHasHandler, Writers
  <2>1. CASE s = h.session /\ h.pc \in Writers
    BY <1>1, <2>1 DEF Of
  <2>2. CASE s # h.session \/ h.pc \notin Writers
    <3>1. PICK i \in Sockets : Of(i) = s /\ ws[i].pc \in Writers
      BY <2>2 DEF IInv, ActiveHasHandler, Writers, OnlyAbout
    <3>2. i # k
      BY <2>2, <3>1 DEF Becomes, At, Writers
    <3> QED  BY <1>1, <3>1, <3>2 DEF Of
  <2> QED  BY <2>1, <2>2
<1> QED  BY <1>2, <1>3, <1>4, <1>5, <1>6 DEF IInv

-----------------------------------------------------------------------------
(* The steps of a handler. *)

\* No rows, no handlers.
LEMMA InitSound == Init => IInv
<1> SUFFICES ASSUME Init PROVE IInv
  OBVIOUS
<1>1. TypeOK
  BY SessionAssumption DEF Init, TypeOK, Statuses, Live, Handler, Stages, Request
<1>2. \A k \in Sockets : Sound(k)
  BY DEF Init, Sound, Staged, Listed, Heard, ToldOfEnd, At, Shell
<1>3. Aimed /\ PublishedIsOpen /\ ActiveHasHandler
  BY DEF Init, Aimed, PublishedIsOpen, ActiveHasHandler
<1> QED  BY <1>1, <1>2, <1>3 DEF IInv

\* A handler that finds its row active is not alone; one that comes between
\* the two halves of a deprovision is one that was missed.
LEMMA OpenKeeps ==
  ASSUME IInv, NEW k \in Sockets, NEW s \in Sessions, Open(k, s)
  PROVE  IInv'
<1> DEFINE h == [pc |-> "connecting", session |-> s, loaded |-> row[s],
                 status |-> row[s], signalled |-> FALSE, missed |-> TooLate(s)]
<1>0. TooLate(s) \in BOOLEAN
  BY DEF TooLate
<1>1. ws' = [ws EXCEPT ![k] = h] /\ row[s] \in Live /\ At(k, "idle")
      /\ UNCHANGED <<row, sftp, control, events, req, faults>>
  BY DEF Open
<1>2. h \in Handler /\ h.pc = "connecting" /\ h.session = s
      /\ h.loaded = row[s] /\ h.status = row[s] /\ h.missed = TooLate(s)
  BY <1>0, <1>1 DEF Handler, Stages, Statuses, Live
<1> HIDE DEF h
<1>3. TypeOK /\ ws'[k] = h /\ (\A j \in Sockets : j # k => ws'[j] = ws[j]) /\ ws[k].pc = "idle"
  BY <1>1 DEF IInv, TypeOK, At
<1>4. Becomes(k, h) /\ OnlyAbout(s)
  BY <1>1, <1>2 DEF Becomes, OnlyAbout, IInv, TypeOK
<1>5. row[s] = "active" => Shared(k)'
  <2> SUFFICES ASSUME row[s] = "active" PROVE Shared(k)'
    OBVIOUS
  <2>1. PICK i \in Sockets : Of(i) = s /\ ws[i].pc \in Writers
    BY DEF IInv, ActiveHasHandler, Writers
  <2> QED  BY <1>2, <1>3, <2>1 DEF Shared, Of, At, Writers
<1>6. Sound(k)'
  <2>1. Staged(k)'
    BY <1>1, <1>2, <1>3 DEF Staged, At, Of, Live
  <2>2. Listed(k)' /\ Heard(k)'
    BY <1>1, <1>2, <1>3, <1>5 DEF Listed, Heard, At, Of
  <2>3. ToldOfEnd(k)'
    BY <1>1, <1>2, <1>3 DEF ToldOfEnd, Excused, TooLate, At, Of, Shell
  <2> QED  BY <2>1, <2>2, <2>3 DEF Sound
<1>7. \A i \in {sftp[s], control[s]} \ {Nobody} : i # k
  BY <1>3 DEF IInv, PublishedIsOpen, Shell
<1> QED  BY <1>1, <1>2, <1>3, <1>4, <1>6, <1>7, OneMoves DEF Writers, TypeOK

\* A handler that is over is one, of the session it was of.
LEMMA GoneIs ==
  ASSUME TypeOK, NEW k \in Sockets, NEW pc \in Over
  PROVE  Gone(k, pc) \in Handler /\ Gone(k, pc).pc = pc /\ Gone(k, pc).session = Of(k)
<1>1. ws[k] \in Handler
  BY DEF TypeOK
<1> QED  BY <1>1 DEF Gone, Handler, Stages, Over, Statuses, Live, Of

\* No host, no credential, or a refusal: the handler is gone.
LEMMA FailKeeps ==
  ASSUME IInv, NEW k \in Sockets, GiveUp(k) \/ Refused(k)
  PROVE  IInv'
<1> DEFINE h == Gone(k, "ended")
<1>1. TypeOK /\ ws[k] \in Handler /\ ws[k].pc = "connecting" /\ Sound(k)
  BY DEF IInv, TypeOK, GiveUp, Refused, At
<1>2. ws' = [ws EXCEPT ![k] = h] /\ UNCHANGED <<sftp, control, events, req, faults>>
      /\ (row' = row \/ row' = [row EXCEPT ![Of(k)] = "error"])
  BY DEF GiveUp, Refused
<1>3. h \in Handler /\ h.pc = "ended" /\ h.session = Of(k)
  BY <1>1, GoneIs DEF Over
<1> HIDE DEF h
<1>4. ws'[k] = h /\ Of(k) \in Sessions /\ row[Of(k)] # "absent"
  BY <1>1, <1>2 DEF TypeOK, Sound, Staged, At
<1>5. Becomes(k, h) /\ OnlyAbout(Of(k))
  BY <1>1, <1>2, <1>3, <1>4 DEF Becomes, OnlyAbout, TypeOK, Statuses
<1>6. Sound(k)'
  BY <1>2, <1>3, <1>4, <1>5
  DEF Sound, Staged, Listed, Heard, ToldOfEnd, At, Of, Shell, OnlyAbout
<1>7. \A i \in {sftp[Of(k)], control[Of(k)]} \ {Nobody} : i # k
  BY <1>1, <1>4 DEF IInv, PublishedIsOpen, Shell
<1>8. row'[Of(k)] = "active" => row[Of(k)] = "active"
  BY <1>1, <1>2, <1>4 DEF TypeOK
<1> QED  BY <1>1, <1>2, <1>3, <1>4, <1>5, <1>6, <1>7, <1>8, OneMoves DEF Writers, TypeOK

\* The handler publishes itself, for whoever was published.
LEMMA PublishKeeps ==
  ASSUME IInv, NEW k \in Sockets, Publish(k)
  PROVE  IInv'
<1> DEFINE h == [ws[k] EXCEPT !.pc = "published", !.status = "active"]
<1>1. TypeOK /\ ws[k] \in Handler /\ ws[k].pc = "connecting" /\ Sound(k)
  BY DEF IInv, TypeOK, Publish, At
<1>2. /\ ws' = [ws EXCEPT ![k] = h] /\ UNCHANGED <<row, events, req, faults>>
      /\ sftp' = [sftp EXCEPT ![Of(k)] = k] /\ control' = [control EXCEPT ![Of(k)] = k]
  BY DEF Publish
<1>3. h \in Handler /\ h.pc = "published" /\ h.session = Of(k)
      /\ h.status = "active" /\ h.loaded = ws[k].loaded
      /\ h.signalled = ws[k].signalled /\ h.missed = ws[k].missed
  BY <1>1 DEF Handler, Stages, Statuses, Live, Of
<1> HIDE DEF h
<1>4. ws'[k] = h /\ Of(k) \in Sessions /\ row[Of(k)] # "absent"
  BY <1>1, <1>2 DEF TypeOK, Sound, Staged, At
<1>5. Becomes(k, h) /\ OnlyAbout(Of(k)) /\ sftp'[Of(k)] = k /\ control'[Of(k)] = k
  BY <1>1, <1>2, <1>3, <1>4 DEF Becomes, OnlyAbout, TypeOK
<1>6. Shared(k)' <=> Shared(k)
  BY <1>1, <1>5, StillShared DEF At
<1>7. Sound(k)'
  <2>1. Staged(k)'
    BY <1>1, <1>2, <1>3, <1>4 DEF Sound, Staged, At, Of
  <2>2. Listed(k)' /\ Heard(k)'
    BY <1>1, <1>3, <1>4, <1>6 DEF Sound, Listed, Heard, At
  <2>3. ToldOfEnd(k)'
    BY <1>1, <1>2, <1>3, <1>4, <1>6 DEF Sound, ToldOfEnd, Excused, TooLate, At, Of, Shell
  <2> QED  BY <2>1, <2>2, <2>3 DEF Sound
<1> QED  BY <1>1, <1>2, <1>3, <1>4, <1>5, <1>7, OneMoves DEF Writers, Shell, TypeOK

\* The first flush: a row it finds active is another handler's, and any other
\* it makes active itself.
LEMMA ActivateKeeps ==
  ASSUME IInv, NEW k \in Sockets, Activate(k)
  PROVE  IInv'
<1> DEFINE h == [ws[k] EXCEPT !.pc = "activated", !.loaded = "active"]
<1>1. TypeOK /\ ws[k] \in Handler /\ ws[k].pc = "published" /\ Sound(k)
  BY DEF IInv, TypeOK, Activate, At
<1>2. ws' = [ws EXCEPT ![k] = h] /\ UNCHANGED <<sftp, control, events, req, faults>>
  BY DEF Activate
<1>3. h \in Handler /\ h.pc = "activated" /\ h.session = Of(k)
      /\ h.status = ws[k].status /\ h.loaded = "active"
      /\ h.signalled = ws[k].signalled /\ h.missed = ws[k].missed
  BY <1>1 DEF Handler, Stages, Statuses, Live, Of
<1> HIDE DEF h
<1>4. ws'[k] = h /\ Of(k) \in Sessions /\ row[Of(k)] # "absent" /\ ws[k].status = "active"
  BY <1>1, <1>2 DEF TypeOK, Sound, Staged, At
<1>5. row' = IF ws[k].loaded = "active" THEN row ELSE [row EXCEPT ![Of(k)] = "active"]
  BY <1>1, <1>4 DEF Activate, Flush, TypeOK
<1>6. Becomes(k, h) /\ OnlyAbout(Of(k))
  BY <1>1, <1>2, <1>3, <1>4, <1>5 DEF Becomes, OnlyAbout, TypeOK, Statuses, Live
<1>7. row'[Of(k)] # "active" => Shared(k)'
  <2>1. Shared(k)' <=> Shared(k)
    BY <1>1, <1>6, StillShared DEF At
  <2> QED  BY <1>1, <1>4, <1>5, <2>1 DEF Sound, Listed, TypeOK
<1>8. Shared(k) => Shared(k)'
  BY <1>1, <1>6, StillShared DEF At
<1>9. Sound(k)'
  <2>1. Staged(k)'
    BY <1>1, <1>3, <1>4, <1>6 DEF Sound, Staged, At, Of, OnlyAbout
  <2>2. Listed(k)' /\ Heard(k)'
    BY <1>3, <1>4, <1>7 DEF Listed, Heard, At, Of
  <2>3. ToldOfEnd(k)'
    BY <1>1, <1>2, <1>3, <1>4, <1>7, <1>8 DEF Sound, ToldOfEnd, Excused, TooLate, At, Of, Shell
  <2> QED  BY <2>1, <2>2, <2>3 DEF Sound
<1> QED  BY <1>1, <1>2, <1>3, <1>4, <1>6, <1>9, OneMoves DEF Writers, Shell, TypeOK


\* The commit of the setup fails, and nothing is taken back.
LEMMA SetupFailsKeeps ==
  ASSUME IInv, NEW k \in Sockets, SetupFails(k)
  PROVE  IInv'
<1>1. TypeOK /\ ws[k] \in Handler /\ ws[k].pc = "published" /\ Sound(k)
  BY DEF IInv, TypeOK, SetupFails, At
<1>2. PICK h : h = Gone(k, "stuck")
  OBVIOUS
<1>3. ws' = [ws EXCEPT ![k] = h] /\ UNCHANGED <<row, sftp, control, events, req>>
      /\ faults' \in 0..MaxFaults
  BY <1>1, <1>2, SessionAssumption DEF SetupFails, TypeOK
<1>4. h \in Handler /\ h.pc = "stuck" /\ h.session = Of(k)
  BY <1>1, <1>2, GoneIs DEF Over
<1>5. ws'[k] = h /\ Of(k) \in Sessions /\ row[Of(k)] # "absent"
  BY <1>1, <1>3 DEF TypeOK, Sound, Staged, At
<1>6. Becomes(k, h) /\ OnlyAbout(Of(k))
  BY <1>1, <1>3, <1>4 DEF Becomes, OnlyAbout, TypeOK
<1>7. Sound(k)'
  BY <1>3, <1>4, <1>5 DEF Sound, Staged, Listed, Heard, ToldOfEnd, At, Of, Shell
<1> QED  BY <1>1, <1>3, <1>4, <1>5, <1>6, <1>7, OneMoves DEF Writers, Shell, TypeOK

\* The event is registered, for whichever was.
LEMMA ListenKeeps ==
  ASSUME IInv, NEW k \in Sockets, Listen(k)
  PROVE  IInv'
<1>1. TypeOK /\ ws[k] \in Handler /\ ws[k].pc = "activated" /\ Sound(k)
  BY DEF IInv, TypeOK, Listen, At
<1>2. PICK h : h = [ws[k] EXCEPT !.pc = "serving"]
  OBVIOUS
<1>3. ws' = [ws EXCEPT ![k] = h] /\ events' = [events EXCEPT ![Of(k)] = k]
      /\ UNCHANGED <<row, sftp, control, req, faults>>
  BY <1>2 DEF Listen
<1>4. h \in Handler /\ h.pc = "serving" /\ h.session = Of(k)
      /\ h.status = ws[k].status /\ h.loaded = ws[k].loaded
      /\ h.signalled = ws[k].signalled /\ h.missed = ws[k].missed
  BY <1>1, <1>2 DEF Handler, Stages, Of
<1>5. ws'[k] = h /\ Of(k) \in Sessions /\ row[Of(k)] # "absent"
  BY <1>1, <1>3 DEF TypeOK, Sound, Staged, At
<1>6. Becomes(k, h) /\ OnlyAbout(Of(k)) /\ events'[Of(k)] = k
  BY <1>1, <1>3, <1>4, <1>5 DEF Becomes, OnlyAbout, TypeOK
<1>7. Shared(k)' <=> Shared(k)
  BY <1>1, <1>6, StillShared DEF At
<1>8. Sound(k)'
  <2>1. Staged(k)'
    BY <1>1, <1>3, <1>4, <1>5 DEF Sound, Staged, At, Of
  <2>2. Listed(k)' /\ Heard(k)'
    BY <1>1, <1>3, <1>4, <1>5, <1>6, <1>7 DEF Sound, Listed, Heard, Written, At, Of
  <2>3. ToldOfEnd(k)'
    BY <1>1, <1>3, <1>4, <1>5, <1>7
    DEF Sound, ToldOfEnd, Excused, Coming, TooLate, At, Of, Shell
  <2> QED  BY <2>1, <2>2, <2>3 DEF Sound
<1> QED  BY <1>1, <1>3, <1>4, <1>5, <1>6, <1>8, OneMoves DEF Writers, Shell, TypeOK

\* So is that of a handler which goes no further.
LEMMA MalformedSizeKeeps ==
  ASSUME IInv, NEW k \in Sockets, MalformedSize(k)
  PROVE  IInv'
<1>1. TypeOK /\ ws[k] \in Handler /\ ws[k].pc = "activated" /\ Sound(k)
  BY DEF IInv, TypeOK, MalformedSize, At
<1>2. PICK h : h = Gone(k, "malformed")
  OBVIOUS
<1>3. ws' = [ws EXCEPT ![k] = h] /\ events' = [events EXCEPT ![Of(k)] = k]
      /\ UNCHANGED <<row, sftp, control, req>> /\ faults' \in 0..MaxFaults
  BY <1>1, <1>2, SessionAssumption DEF MalformedSize, TypeOK
<1>4. h \in Handler /\ h.pc = "malformed" /\ h.session = Of(k)
  BY <1>1, <1>2, GoneIs DEF Over
<1>5. ws'[k] = h /\ Of(k) \in Sessions /\ row[Of(k)] # "absent"
  BY <1>1, <1>3 DEF TypeOK, Sound, Staged, At
<1>6. Becomes(k, h) /\ OnlyAbout(Of(k))
  BY <1>1, <1>3, <1>4, <1>5 DEF Becomes, OnlyAbout, TypeOK
<1>7. Sound(k)'
  BY <1>3, <1>4, <1>5 DEF Sound, Staged, Listed, Heard, ToldOfEnd, At, Of, Shell
<1> QED  BY <1>1, <1>3, <1>4, <1>5, <1>6, <1>7, OneMoves DEF Writers, Shell, TypeOK

\* The end of the loop takes the session out of two registries, whoever is there.
LEMMA LeaveKeeps ==
  ASSUME IInv, NEW k \in Sockets, NEW status \in {"active", "error"}, Leave(k, status)
  PROVE  IInv'
<1>1. TypeOK /\ ws[k] \in Handler /\ ws[k].pc = "serving" /\ Sound(k)
  BY DEF IInv, TypeOK, Leave, At
<1>2. PICK h : h = [ws[k] EXCEPT !.pc = "closing", !.status = status]
  OBVIOUS
<1>3. /\ ws' = [ws EXCEPT ![k] = h] /\ UNCHANGED <<row, events, req, faults>>
      /\ sftp' = [sftp EXCEPT ![Of(k)] = Nobody] /\ control' = [control EXCEPT ![Of(k)] = Nobody]
  BY <1>2 DEF Leave
<1>4. h \in Handler /\ h.pc = "closing" /\ h.session = Of(k)
      /\ h.status = status /\ h.loaded = ws[k].loaded
  BY <1>1, <1>2 DEF Handler, Stages, Statuses, Live, Of
<1>5. ws'[k] = h /\ Of(k) \in Sessions /\ row[Of(k)] # "absent"
  BY <1>1, <1>3 DEF TypeOK, Sound, Staged, At
<1>6. Becomes(k, h) /\ OnlyAbout(Of(k)) /\ sftp'[Of(k)] = Nobody /\ control'[Of(k)] = Nobody
  BY <1>1, <1>3, <1>4, <1>5 DEF Becomes, OnlyAbout, TypeOK
<1>7. Sound(k)'
  BY <1>1, <1>3, <1>4, <1>5 DEF Sound, Staged, Listed, Heard, ToldOfEnd, At, Of, Shell
<1> QED  BY <1>1, <1>3, <1>4, <1>5, <1>6, <1>7, OneMoves DEF Writers, Shell, TypeOK

\* After the close frame its event is taken out, or another's: then it was not
\* the only one.
LEMMA ConcludeKeeps ==
  ASSUME IInv, NEW k \in Sockets, Conclude(k)
  PROVE  IInv'
<1>1. TypeOK /\ ws[k] \in Handler /\ ws[k].pc = "closing" /\ Sound(k)
  BY DEF IInv, TypeOK, Conclude, At
<1>2. PICK status \in {"error", "terminated", "closed"} :
        /\ ws' = [ws EXCEPT ![k] = [@ EXCEPT !.pc = "storing", !.status = status]]
        /\ events' = [events EXCEPT ![Of(k)] = Nobody]
        /\ UNCHANGED <<row, sftp, control, req, faults>>
  BY DEF Conclude
<1>3. PICK h : h = [ws[k] EXCEPT !.pc = "storing", !.status = status]
  OBVIOUS
<1>4. h \in Handler /\ h.pc = "storing" /\ h.session = Of(k)
      /\ h.status = status /\ h.loaded = ws[k].loaded
  BY <1>1, <1>3 DEF Handler, Stages, Statuses, Live, Of
<1>5. ws' = [ws EXCEPT ![k] = h] /\ ws'[k] = h /\ Of(k) \in Sessions /\ row[Of(k)] # "absent"
  BY <1>1, <1>2, <1>3 DEF TypeOK, Sound, Staged, At
<1>6. Becomes(k, h) /\ OnlyAbout(Of(k))
  BY <1>1, <1>2, <1>4, <1>5 DEF Becomes, OnlyAbout, TypeOK
<1>7. Sound(k)'
  BY <1>1, <1>2, <1>4, <1>5 DEF Sound, Staged, Listed, Heard, ToldOfEnd, At, Of, Shell
<1>8. \A i \in {sftp[Of(k)], control[Of(k)]} \ {Nobody} : i # k
  BY <1>1, <1>5 DEF IInv, PublishedIsOpen, Shell
<1> QED  BY <1>1, <1>2, <1>4, <1>5, <1>6, <1>7, <1>8, OneMoves DEF Writers, Shell, TypeOK

\* The last flush never leaves the row active.
LEMMA SaveKeeps ==
  ASSUME IInv, NEW k \in Sockets, Save(k)
  PROVE  IInv'
<1>1. TypeOK /\ ws[k] \in Handler /\ ws[k].pc = "storing" /\ Sound(k)
  BY DEF IInv, TypeOK, Save, At
<1>2. PICK h : h = Gone(k, "ended")
  OBVIOUS
<1>3. ws' = [ws EXCEPT ![k] = h] /\ UNCHANGED <<sftp, control, events, req, faults>>
  BY <1>2 DEF Save
<1>4. h \in Handler /\ h.pc = "ended" /\ h.session = Of(k)
  BY <1>1, <1>2, GoneIs DEF Over
<1>5. ws'[k] = h /\ Of(k) \in Sessions /\ row[Of(k)] # "absent"
      /\ ws[k].loaded = "active" /\ ws[k].status \in {"closed", "terminated", "error"}
  BY <1>1, <1>3 DEF TypeOK, Sound, Staged, At
<1>6. row' = [row EXCEPT ![Of(k)] = ws[k].status]
  BY <1>1, <1>5 DEF Save, Flush, TypeOK
<1>7. row'[Of(k)] = ws[k].status
  BY <1>1, <1>5, <1>6 DEF TypeOK
<1>8. Becomes(k, h) /\ OnlyAbout(Of(k))
  BY <1>1, <1>3, <1>4, <1>5, <1>6 DEF Becomes, OnlyAbout, TypeOK, Handler
<1>9. Sound(k)'
  BY <1>4, <1>5, <1>7 DEF Sound, Staged, Listed, Heard, ToldOfEnd, At, Of, Shell
<1>10. \A i \in {sftp[Of(k)], control[Of(k)]} \ {Nobody} : i # k
  BY <1>1, <1>5 DEF IInv, PublishedIsOpen, Shell
<1> QED  BY <1>1, <1>3, <1>4, <1>5, <1>7, <1>8, <1>9, <1>10, OneMoves DEF Writers, Shell, TypeOK

\* A flush that fails writes no row.
LEMMA SaveFailsKeeps ==
  ASSUME IInv, NEW k \in Sockets, SaveFails(k)
  PROVE  IInv'
<1>1. TypeOK /\ ws[k] \in Handler /\ ws[k].pc = "storing" /\ Sound(k)
  BY DEF IInv, TypeOK, SaveFails, At
<1>2. PICK h : h = Gone(k, "unsaved")
  OBVIOUS
<1>3. ws' = [ws EXCEPT ![k] = h] /\ UNCHANGED <<row, sftp, control, events, req>>
      /\ faults' \in 0..MaxFaults
  BY <1>1, <1>2, SessionAssumption DEF SaveFails, TypeOK
<1>4. h \in Handler /\ h.pc = "unsaved" /\ h.session = Of(k)
  BY <1>1, <1>2, GoneIs DEF Over
<1>5. ws'[k] = h /\ Of(k) \in Sessions /\ row[Of(k)] # "absent"
  BY <1>1, <1>3 DEF TypeOK, Sound, Staged, At
<1>6. Becomes(k, h) /\ OnlyAbout(Of(k))
  BY <1>1, <1>3, <1>4 DEF Becomes, OnlyAbout, TypeOK
<1>7. Sound(k)'
  BY <1>3, <1>4, <1>5 DEF Sound, Staged, Listed, Heard, ToldOfEnd, At, Of, Shell
<1>8. \A i \in {sftp[Of(k)], control[Of(k)]} \ {Nobody} : i # k
  BY <1>1, <1>5 DEF IInv, PublishedIsOpen, Shell
<1> QED  BY <1>1, <1>3, <1>4, <1>5, <1>6, <1>7, <1>8, OneMoves DEF Writers, Shell, TypeOK

-----------------------------------------------------------------------------
(* The steps from outside. *)

\* The stages of a request that has written, or was lost.
Answered == {"half", "done", "lost"}

\* Request q is now r, which forgets no row that q wrote.
Goes(q, r) ==
  /\ r \in Request
  /\ req' = [req EXCEPT ![q] = r]
  /\ req[q].pc \in Answered => r.pc \in Answered /\ r.writes = req[q].writes

LEMMA WrittenStays ==
  ASSUME TypeOK, NEW q \in Requests, NEW r, Goes(q, r), NEW s, Written(s)
  PROVE  Written(s)'
<1>1. PICK p \in Requests : s \in req[p].writes /\ req[p].pc \in Answered
  BY DEF Written, Answered
<1>2. req'[p].pc \in Answered /\ req'[p].writes = req[p].writes
  BY <1>1 DEF Goes, TypeOK
<1> QED  BY <1>1, <1>2 DEF Written, Answered

\* What is left to show of a step that moves no handler: it makes no row active,
\* and whoever ends a row has written it and tells the handler.
LEMMA RowsMove ==
  ASSUME IInv, UNCHANGED <<ws, sftp, control, events, faults>>,
         row' \in [Sessions -> Statuses], req' \in [Requests -> Request], Aimed',
         \A s \in Sessions : /\ row'[s] = "active" => row[s] = "active"
                             /\ row[s] # "absent" => row'[s] # "absent"
                             /\ row[s] = "active" => row'[s] = "active" \/ Written(s)'
                             /\ Written(s) => Written(s)',
         \A k \in Sockets : ToldOfEnd(k)'
  PROVE  IInv'
<1>1. TypeOK' /\ PublishedIsOpen'
  BY DEF IInv, TypeOK, PublishedIsOpen, Of
<1>2. ActiveHasHandler'
  BY DEF IInv, ActiveHasHandler, Of
<1>3. ASSUME NEW k \in Sockets PROVE Sound(k)'
  <2>1. Sound(k) /\ Of(k)' = Of(k) /\ (Shared(k)' <=> Shared(k))
    BY DEF IInv, Of, Shared, At
  <2>2. ~At(k, "idle") => Of(k) \in Sessions /\ row[Of(k)] # "absent"
    BY <2>1 DEF Sound, Staged
  <2>3. Staged(k)'
    BY <2>1, <2>2 DEF Sound, Staged, At
  <2>4. Listed(k)'
    BY <2>1, <2>2 DEF Sound, Listed, At
  <2>5. Heard(k)'
    BY <2>1 DEF Sound, Heard, At
  <2> QED  BY <2>3, <2>4, <2>5 DEF Sound
<1> QED  BY <1>1, <1>2, <1>3 DEF IInv

\* A new session is nobody's yet.
LEMMA CreateKeeps ==
  ASSUME IInv, NEW s \in Sessions, Create(s)
  PROVE  IInv'
<1>1. TypeOK /\ row[s] = "absent"
  BY DEF IInv, Create, Unused, Existing
<1>2. row' = [row EXCEPT ![s] = "pending"] /\ UNCHANGED <<ws, sftp, control, events, req, faults>>
  BY DEF Create
<1>3. row' \in [Sessions -> Statuses]
  BY <1>1, <1>2 DEF TypeOK, Statuses, Live
<1>4. \A t \in Sessions : row'[t] = IF t = s THEN "pending" ELSE row[t]
  BY <1>1, <1>2 DEF TypeOK
<1>5. Aimed' /\ \A t : Written(t)' <=> Written(t)
  BY <1>2 DEF IInv, Aimed, Written
<1>6. ASSUME NEW k \in Sockets PROVE ToldOfEnd(k)'
  <2>1. Sound(k) /\ Of(k)' = Of(k) /\ ws'[k] = ws[k]
        /\ (Excused(k)' <=> Excused(k)) /\ (Coming(Of(k))' <=> Coming(Of(k)))
        /\ (TooLate(Of(k))' <=> TooLate(Of(k)))
    BY <1>2 DEF IInv, Of, Excused, Shared, At, Coming, TooLate
  <2>2. ~At(k, "idle") => Of(k) \in Sessions
    BY <2>1 DEF Sound, Staged
  <2> QED  BY <1>4, <2>1, <2>2 DEF Sound, ToldOfEnd, At
<1> QED  BY <1>1, <1>2, <1>3, <1>4, <1>5, <1>6, RowsMove DEF TypeOK

\* The reaper writes what is pending: no shell's row.
LEMMA ReapKeeps ==
  ASSUME IInv, NEW old \in SUBSET Sessions, Reap(old)
  PROVE  IInv'
<1>1. TypeOK /\ \A s \in old : row[s] = "pending"
  BY DEF IInv, Reap
<1>2. row' = [s \in Sessions |-> IF s \in old THEN "closed" ELSE row[s]]
      /\ UNCHANGED <<ws, sftp, control, events, req, faults>>
  BY DEF Reap
<1>3. row' \in [Sessions -> Statuses]
  BY <1>1, <1>2 DEF TypeOK, Statuses
<1>4. Aimed' /\ \A t : Written(t)' <=> Written(t)
  BY <1>2 DEF IInv, Aimed, Written
<1>5. ASSUME NEW k \in Sockets PROVE ToldOfEnd(k)'
  <2>1. Sound(k) /\ Of(k)' = Of(k) /\ ws'[k] = ws[k]
        /\ (Excused(k)' <=> Excused(k)) /\ (Coming(Of(k))' <=> Coming(Of(k)))
        /\ (TooLate(Of(k))' <=> TooLate(Of(k)))
    BY <1>2 DEF IInv, Of, Excused, Shared, At, Coming, TooLate
  <2>2. ~At(k, "idle") => Of(k) \in Sessions
    BY <2>1 DEF Sound, Staged
  <2> QED  BY <1>2, <2>1, <2>2 DEF Sound, ToldOfEnd, At
<1> QED  BY <1>1, <1>2, <1>3, <1>4, <1>5, RowsMove DEF TypeOK

\* A request that has only read has done nothing yet.
LEMMA AskKeeps ==
  ASSUME IInv, NEW q \in Requests, UNCHANGED <<row, ws, sftp, control, events, faults>>,
         NEW kind \in {"none", "create", "reuse", "terminate", "deprovision", "supervise"},
         NEW about \in SUBSET Sessions, NEW writes \in SUBSET Sessions,
         NEW event \in Sockets \cup {Nobody},
         kind \in {"terminate", "deprovision"} => writes \subseteq about,
         Ask(q, kind, about, writes, event)
  PROVE  IInv'
<1>1. PICK r : r = [pc |-> "read", kind |-> kind, about |-> about,
                    writes |-> writes, event |-> event]
  OBVIOUS
<1>2. TypeOK /\ req[q].pc = "idle" /\ req' = [req EXCEPT ![q] = r] /\ r \in Request
      /\ r.pc = "read" /\ r.kind = kind /\ r.about = about /\ r.writes = writes
  BY <1>1 DEF Ask, IInv, Request
<1>3. req' \in [Requests -> Request] /\ Goes(q, r)
  BY <1>2 DEF TypeOK, Goes, Answered
<1>4. req'[q] = r /\ \A p \in Requests : p # q => req'[p] = req[p]
  BY <1>2 DEF TypeOK
<1>5. Aimed'
  BY <1>2, <1>4 DEF IInv, Aimed
<1>6. \A s : Written(s) => Written(s)'
  BY <1>2, <1>3, WrittenStays
<1>7. ASSUME NEW k \in Sockets PROVE ToldOfEnd(k)'
  <2>1. Sound(k) /\ Of(k)' = Of(k) /\ ws'[k] = ws[k] /\ (Excused(k)' <=> Excused(k))
    BY DEF IInv, Of, Excused, Shared, At
  <2>2. Coming(Of(k)) => Coming(Of(k))'
    BY <1>2, <1>4, <2>1 DEF Coming
  <2>3. TooLate(Of(k))' => TooLate(Of(k))
    BY <1>2, <1>4, <2>1 DEF TooLate
  <2> QED  BY <2>1, <2>2, <2>3 DEF Sound, ToldOfEnd
<1> QED  BY <1>2, <1>3, <1>5, <1>6, <1>7, RowsMove DEF TypeOK

\* The requests that read.
LEMMA ReadKeeps ==
  ASSUME IInv, NEW q \in Requests,
         \/ KioskCheck(q) \/ ReadToDeprovision(q)
         \/ \E s \in Sessions : ReadToTerminate(q, s) \/ Supervise(q, s)
  PROVE  IInv'
<1>0. TypeOK
  BY DEF IInv
<1>1. CASE KioskCheck(q)
  <2>1. UNCHANGED <<row, ws, sftp, control, events, faults>>
        /\ \/ Ask(q, "create", {}, {}, Nobody)
           \/ \E s \in Sessions : Ask(q, "reuse", {}, {s}, Nobody)
    BY <1>1 DEF KioskCheck, Latest, Existing
  <2> QED  BY <2>1, AskKeeps
<1>2. CASE ReadToDeprovision(q)
  <2>1. PICK live \in SUBSET Sessions : Ask(q, "deprovision", live, live, Nobody)
    BY <1>2 DEF ReadToDeprovision
  <2>2. UNCHANGED <<row, ws, sftp, control, events, faults>>
    BY <1>2 DEF ReadToDeprovision
  <2> QED  BY <2>1, <2>2, AskKeeps
<1>3. CASE \E s \in Sessions : ReadToTerminate(q, s)
  <2>1. PICK s \in Sessions : ReadToTerminate(q, s)
    BY <1>3
  <2>2. PICK writes \in {{}, {s}} : Ask(q, "terminate", {s}, writes, Nobody)
    BY <2>1 DEF ReadToTerminate
  <2>3. UNCHANGED <<row, ws, sftp, control, events, faults>>
    BY <2>1 DEF ReadToTerminate
  <2> QED  BY <2>2, <2>3, AskKeeps
<1>4. CASE \E s \in Sessions : Supervise(q, s)
  <2>1. PICK s \in Sessions : Supervise(q, s)
    BY <1>4
  <2>2. events[s] \in Sockets \cup {Nobody} /\ Ask(q, "supervise", {}, {}, events[s])
        /\ UNCHANGED <<row, ws, sftp, control, events, faults>>
    BY <1>0, <2>1 DEF Supervise, TypeOK
  <2> QED  BY <2>2, AskKeeps
<1> QED  BY <1>1, <1>2, <1>3, <1>4

\* The commit of the kiosk check makes a session pending, whatever became of it
\* since; a row it takes from a shell, it has written.
LEMMA KioskCommitKeeps ==
  ASSUME IInv, NEW q \in Requests, KioskCommit(q)
  PROVE  IInv'
<1>1. PICK r : r = [req[q] EXCEPT !.pc = "done"]
  OBVIOUS
<1>2. PICK rows \in SUBSET Sessions :
        /\ row' = [s \in Sessions |-> IF s \in rows THEN "pending" ELSE row[s]]
        /\ rows = IF req[q].kind = "create" THEN Unused ELSE req[q].writes
  BY DEF KioskCommit, IInv, TypeOK, Request, Unused
<1>3. TypeOK /\ req[q] \in Request /\ req' = [req EXCEPT ![q] = r]
      /\ req[q].pc = "read" /\ req[q].kind \in {"create", "reuse"}
      /\ UNCHANGED <<ws, sftp, control, events, faults>>
  BY <1>1 DEF KioskCommit, IInv, TypeOK
<1>4. r \in Request /\ r.pc = "done" /\ r.kind = req[q].kind /\ r.writes = req[q].writes
  BY <1>1, <1>3 DEF Request
<1>5. req' \in [Requests -> Request] /\ Goes(q, r)
  BY <1>3, <1>4 DEF TypeOK, Goes, Answered
<1>6. req'[q] = r /\ \A p \in Requests : p # q => req'[p] = req[p]
  BY <1>3 DEF TypeOK
<1>7. Aimed'
  BY <1>3, <1>4, <1>6 DEF IInv, Aimed
<1>8. \A s : Written(s) => Written(s)'
  BY <1>3, <1>5, WrittenStays
<1>9. row' \in [Sessions -> Statuses]
      /\ \A s \in Sessions : row'[s] = "active" => row[s] = "active"
  BY <1>2, <1>3 DEF TypeOK, Statuses, Live
<1>10. \A s \in Sessions : row[s] # "absent" => row'[s] = row[s] \/ Written(s)'
  <2> SUFFICES ASSUME NEW s \in Sessions, row[s] # "absent", s \in rows
               PROVE  Written(s)'
    BY <1>2
  <2>1. s \in r.writes
    BY <1>2, <1>4 DEF Unused, Existing
  <2> QED  BY <1>4, <1>6, <2>1 DEF Written
<1>11. ASSUME NEW k \in Sockets PROVE ToldOfEnd(k)'
  <2>1. Sound(k) /\ Of(k)' = Of(k) /\ ws'[k] = ws[k] /\ (Excused(k)' <=> Excused(k))
    BY <1>3 DEF IInv, Of, Excused, Shared, At
  <2>2. Coming(Of(k)) => Coming(Of(k))'
    BY <1>3, <1>6, <2>1 DEF Coming
  <2>3. TooLate(Of(k))' => TooLate(Of(k))
    BY <1>3, <1>4, <1>6, <2>1 DEF TooLate
  <2>4. ~At(k, "idle") => Of(k) \in Sessions
    BY <2>1 DEF Sound, Staged
  <2>5. Of(k) \in Sessions /\ row'[Of(k)] = "terminated" => row[Of(k)] = "terminated"
    BY <1>2
  <2> QED  BY <2>1, <2>2, <2>3, <2>4, <2>5 DEF Sound, ToldOfEnd, At
<1>12. \A s \in Sessions : row[s] # "absent" => row'[s] # "absent"
  BY <1>2
<1> QED  BY <1>3, <1>5, <1>7, <1>8, <1>9, <1>10, <1>11, <1>12, RowsMove

\* A terminate that wrote has the event yet to set; a deprovision has set it.
LEMMA WriteTerminatedKeeps ==
  ASSUME IInv, NEW q \in Requests, WriteTerminated(q)
  PROVE  IInv'
<1>1. PICK r : r = [req[q] EXCEPT !.pc = IF @ = "read" THEN "half" ELSE "done"]
  OBVIOUS
<1>2. row' = [s \in Sessions |-> IF s \in req[q].writes THEN "terminated" ELSE row[s]]
  BY DEF WriteTerminated
<1>3. TypeOK /\ req[q] \in Request /\ req' = [req EXCEPT ![q] = r]
      /\ req[q].writes \subseteq req[q].about
      /\ UNCHANGED <<ws, sftp, control, events, faults>>
  BY <1>1 DEF WriteTerminated, IInv, TypeOK, Aimed
<1>4. /\ r \in Request /\ r.kind = req[q].kind
      /\ r.about = req[q].about /\ r.writes = req[q].writes
      /\ \/ req[q].kind = "terminate" /\ req[q].pc = "read" /\ r.pc = "half"
         \/ req[q].kind = "deprovision" /\ req[q].pc = "half" /\ r.pc = "done"
  BY <1>1, <1>3 DEF Request, WriteTerminated
<1>5. req' \in [Requests -> Request] /\ Goes(q, r)
  BY <1>3, <1>4 DEF TypeOK, Goes, Answered
<1>6. req'[q] = r /\ \A p \in Requests : p # q => req'[p] = req[p]
  BY <1>3 DEF TypeOK
<1>7. Aimed'
  BY <1>3, <1>4, <1>6 DEF IInv, Aimed
<1>8. \A s : Written(s) => Written(s)'
  BY <1>3, <1>5, WrittenStays
<1>9. row' \in [Sessions -> Statuses]
      /\ \A s \in Sessions : row'[s] = "active" => row[s] = "active"
  BY <1>2, <1>3 DEF TypeOK, Statuses, Live
<1>10. \A s \in Sessions : row'[s] = row[s] \/ Written(s)'
  BY <1>2, <1>4, <1>6 DEF Written
<1>11. ASSUME NEW k \in Sockets PROVE ToldOfEnd(k)'
  <2>1. Sound(k) /\ Of(k)' = Of(k) /\ ws'[k] = ws[k] /\ (Excused(k)' <=> Excused(k))
    BY <1>3 DEF IInv, Of, Excused, Shared, At
  <2>2. Coming(Of(k)) => Coming(Of(k))'
    BY <1>4, <1>6, <2>1 DEF Coming
  <2>3. TooLate(Of(k))' => TooLate(Of(k))
    BY <1>4, <1>6, <2>1 DEF TooLate
  <2>4. ~At(k, "idle") => Of(k) \in Sessions
    BY <2>1 DEF Sound, Staged
  <2>5. CASE Of(k) \in req[q].writes
    <3>1. CASE r.pc = "half"
      <4>1. Coming(Of(k))'
        BY <1>3, <1>4, <1>6, <2>1, <2>5, <3>1 DEF Coming
      <4> QED  BY <2>1, <2>3, <4>1 DEF Sound, ToldOfEnd
    <3>2. CASE r.pc = "done"
      <4>1. TooLate(Of(k))
        BY <1>3, <1>4, <2>5, <3>2 DEF TooLate
      <4> QED  BY <2>1, <4>1 DEF Sound, ToldOfEnd, Shell
    <3> QED  BY <1>4, <3>1, <3>2
  <2>6. CASE Of(k) \notin req[q].writes
    BY <1>2, <2>1, <2>2, <2>3, <2>4, <2>6 DEF Sound, ToldOfEnd, At
  <2> QED  BY <2>5, <2>6
<1>12. \A s \in Sessions : row[s] # "absent" => row'[s] # "absent"
  BY <1>2
<1> QED  BY <1>3, <1>5, <1>7, <1>8, <1>9, <1>10, <1>11, <1>12, RowsMove

\* A step that sets events changes no handler but for what it is told.
LEMMA TellingKeeps ==
  ASSUME IInv, UNCHANGED <<row, sftp, control, events>>,
         TypeOK', Aimed',
         \A k \in Sockets : /\ ws'[k].pc = ws[k].pc /\ Of(k)' = Of(k)
                            /\ ws'[k].loaded = ws[k].loaded /\ ws'[k].status = ws[k].status,
         \A s \in Sessions : Written(s) => Written(s)',
         \A k \in Sockets : ToldOfEnd(k)'
  PROVE  IInv'
<1>1. PublishedIsOpen'
  BY DEF IInv, TypeOK, PublishedIsOpen
<1>2. ActiveHasHandler'
  BY DEF IInv, ActiveHasHandler
<1>3. ASSUME NEW k \in Sockets PROVE Sound(k)'
  <2>1. Sound(k) /\ (Shared(k)' <=> Shared(k))
    BY DEF IInv, Shared, At
  <2>2. Staged(k)' /\ (~At(k, "idle") => Of(k) \in Sessions)
    BY <2>1 DEF Sound, Staged, At
  <2>3. Listed(k)'
    <3>1. Written(Of(k)) /\ Of(k) \in Sessions => Written(Of(k))'
      <4> SUFFICES ASSUME Written(Of(k)), Of(k) \in Sessions PROVE Written(Of(k))'
        OBVIOUS
      <4>1. PICK s \in Sessions : s = Of(k)
        OBVIOUS
      <4> QED  BY <4>1 DEF Written
    <3> QED  BY <2>1, <2>2, <3>1 DEF Sound, Listed, At
  <2>4. Heard(k)'
    BY <2>1 DEF Sound, Heard, At
  <2> QED  BY <2>2, <2>3, <2>4 DEF Sound
<1> QED  BY <1>1, <1>2, <1>3 DEF IInv

\* The handler in terminate_events hears it, whoever is not there yet has missed
\* it, and a lone one in its loop is there.
LEMMA SetEventsKeeps ==
  ASSUME IInv, NEW q \in Requests, SetEvents(q)
  PROVE  IInv'
<1>1. PICK r : r = [req[q] EXCEPT !.pc = IF @ = "read" THEN "half" ELSE "done"]
  OBVIOUS
<1> DEFINE heard == {events[s] : s \in req[q].about}
           deaf == Deaf(req[q].about)
<1>2. TypeOK /\ req[q] \in Request /\ req' = [req EXCEPT ![q] = r]
      /\ ws' = [k \in Sockets |-> [ws[k] EXCEPT !.signalled = @ \/ k \in heard,
                                                !.missed = @ \/ k \in deaf]]
      /\ UNCHANGED <<row, sftp, control, events, faults>>
  BY <1>1 DEF SetEvents, IInv, TypeOK
<1>3. /\ r \in Request /\ r.kind = req[q].kind
      /\ r.about = req[q].about /\ r.writes = req[q].writes
      /\ \/ req[q].kind = "terminate" /\ req[q].pc = "half" /\ r.pc = "done"
         \/ req[q].kind = "deprovision" /\ req[q].pc = "read" /\ r.pc = "half"
  BY <1>1, <1>2 DEF Request, SetEvents
<1>4. Goes(q, r) /\ req'[q] = r /\ \A p \in Requests : p # q => req'[p] = req[p]
  BY <1>2, <1>3 DEF TypeOK, Goes, Answered
<1>5. ASSUME NEW k \in Sockets
      PROVE  /\ ws'[k] \in Handler /\ ws'[k].pc = ws[k].pc /\ Of(k)' = Of(k)
             /\ ws'[k].loaded = ws[k].loaded /\ ws'[k].status = ws[k].status
             /\ ws[k].signalled \/ k \in heard => ws'[k].signalled
             /\ ws[k].missed \/ k \in deaf => ws'[k].missed
  <2>1. ws[k] \in Handler
    BY <1>2 DEF TypeOK
  <2>2. PICK a \in BOOLEAN : a <=> (ws[k].signalled \/ k \in heard)
    OBVIOUS
  <2>3. PICK b \in BOOLEAN : b <=> (ws[k].missed \/ k \in deaf)
    OBVIOUS
  <2>4. ws'[k] = [ws[k] EXCEPT !.signalled = a, !.missed = b]
    <3>1. ws'[k] = [ws[k] EXCEPT !.signalled = @ \/ k \in heard, !.missed = @ \/ k \in deaf]
      BY <1>2
    <3>2. (ws[k].signalled \/ k \in heard) = a /\ (ws[k].missed \/ k \in deaf) = b
      BY <2>2, <2>3
    <3> QED  BY <3>1, <3>2, Zenon
  <2> QED  BY <2>1, <2>2, <2>3, <2>4 DEF Handler, Of
<1>6. TypeOK'
  <2>1. ws' \in [Sockets -> Handler]
    BY <1>2, <1>5
  <2> QED  BY <1>2, <1>3, <2>1 DEF TypeOK
<1>7. Aimed'
  BY <1>2, <1>3, <1>4 DEF IInv, Aimed
<1>8. \A s \in Sessions : Written(s) => Written(s)'
  BY <1>2, <1>4, WrittenStays
<1>9. ASSUME NEW k \in Sockets PROVE ToldOfEnd(k)'
  <2>1. Sound(k) /\ (Shared(k)' <=> Shared(k))
    BY <1>5 DEF IInv, Shared, At
  <2>2. Excused(k) => Excused(k)'
    BY <1>5, <2>1 DEF Excused
  <2>3. CASE Of(k) \in req[q].about /\ ws[k].pc \in Shell \cup {"connecting"}
    <3>1. CASE At(k, "serving")
      <4>1. k \in heard \/ Shared(k)
        BY <2>1, <2>3, <3>1 DEF Sound, Heard
      <4> QED  BY <1>5, <2>1, <4>1 DEF ToldOfEnd, Excused
    <3>2. CASE ~At(k, "serving")
      <4>1. k \in deaf
        BY <2>3, <3>2 DEF Deaf, At, Shell
      <4> QED  BY <1>5, <4>1 DEF ToldOfEnd, Excused
    <3> QED  BY <3>1, <3>2
  <2>4. CASE Of(k) \notin req[q].about
    <3>1. Of(k)' = Of(k) /\ Of(k) \notin r.about
      BY <1>3, <1>5, <2>4
    <3>2. Coming(Of(k)) => Coming(Of(k))'
      BY <1>4, <2>4, <3>1 DEF Coming
    <3>3. TooLate(Of(k))' => TooLate(Of(k))
      BY <1>4, <3>1 DEF TooLate
    <3> QED  BY <1>2, <1>5, <2>1, <2>2, <3>2, <3>3 DEF Sound, ToldOfEnd
  <2>5. CASE ws[k].pc \notin Shell \cup {"connecting"}
    BY <1>5, <2>5 DEF ToldOfEnd, Shell
  <2> QED  BY <2>3, <2>4, <2>5
<1> QED  BY <1>2, <1>5, <1>6, <1>7, <1>8, <1>9, TellingKeeps

\* A supervisor's frame sets the event it got hold of, whoever's that is now.
LEMMA SuperviseSetsKeeps ==
  ASSUME IInv, NEW q \in Requests, NEW recorded \in BOOLEAN, SuperviseSets(q, recorded)
  PROVE  IInv'
<1>1. PICK r : r = [req[q] EXCEPT !.pc = "done"]
  OBVIOUS
<1>2. TypeOK /\ req[q] \in Request /\ req' = [req EXCEPT ![q] = r]
      /\ req[q].kind = "supervise" /\ req[q].pc = "read"
      /\ (ws' = ws \/ ws' = [ws EXCEPT ![req[q].event].signalled = TRUE])
      /\ UNCHANGED <<row, sftp, control, events, faults>>
  BY <1>1 DEF SuperviseSets, IInv, TypeOK
<1>3. r \in Request /\ r.kind = "supervise"
  BY <1>1, <1>2 DEF Request
<1>4. Goes(q, r) /\ req'[q] = r /\ \A p \in Requests : p # q => req'[p] = req[p]
  BY <1>2, <1>3 DEF TypeOK, Goes, Answered
<1>5. ASSUME NEW k \in Sockets
      PROVE  /\ ws'[k] \in Handler /\ ws'[k].pc = ws[k].pc /\ Of(k)' = Of(k)
             /\ ws'[k].loaded = ws[k].loaded /\ ws'[k].status = ws[k].status
             /\ ws[k].signalled => ws'[k].signalled
             /\ ws[k].missed => ws'[k].missed
  <2>1. ws[k] \in Handler
    BY <1>2 DEF TypeOK
  <2>2. ws'[k] = ws[k] \/ ws'[k] = [ws[k] EXCEPT !.signalled = TRUE]
    BY <1>2 DEF TypeOK
  <2> QED  BY <2>1, <2>2 DEF Handler, Of
<1>6. TypeOK'
  <2>1. ws' \in [Sockets -> Handler]
    BY <1>2, <1>5 DEF TypeOK
  <2> QED  BY <1>2, <1>3, <2>1 DEF TypeOK
<1>7. Aimed'
  BY <1>2, <1>3, <1>4 DEF IInv, Aimed
<1>8. \A s \in Sessions : Written(s) => Written(s)'
  BY <1>2, <1>4, WrittenStays
<1>9. ASSUME NEW k \in Sockets PROVE ToldOfEnd(k)'
  <2>1. Sound(k) /\ (Shared(k)' <=> Shared(k))
    BY <1>5 DEF IInv, Shared, At
  <2>2. Excused(k) => Excused(k)'
    BY <1>5, <2>1 DEF Excused
  <2>3. (Coming(Of(k)) => Coming(Of(k))') /\ (TooLate(Of(k))' => TooLate(Of(k)))
    BY <1>2, <1>3, <1>4, <1>5 DEF Coming, TooLate
  <2> QED  BY <1>2, <1>5, <2>1, <2>2, <2>3 DEF Sound, ToldOfEnd
<1> QED  BY <1>2, <1>5, <1>6, <1>7, <1>8, <1>9, TellingKeeps

\* After a restart no handler is at work and no request; no row is written.
LEMMA RestartKeeps ==
  ASSUME IInv, Restart
  PROVE  IInv'
<1>1. TypeOK /\ faults' \in 0..MaxFaults /\ UNCHANGED row
  BY SessionAssumption DEF IInv, TypeOK, Restart
<1>2. ASSUME NEW k \in Sockets
      PROVE  /\ ws'[k] \in Handler /\ Of(k)' = Of(k) /\ ws'[k].pc \in {"idle", "ended", "lost"}
             /\ ws[k].pc \in Writers => ws'[k].pc = "lost"
             /\ ws[k].pc = "idle" => ws'[k].pc = "idle"
  <2>1. ws[k] \in Handler /\ ws'[k] = IF ws[k].pc \in {"idle", "ended"} THEN ws[k]
                                     ELSE Gone(k, "lost")
    BY <1>1 DEF Restart, TypeOK
  <2>2. Gone(k, "lost") \in Handler /\ Gone(k, "lost").pc = "lost" /\ Gone(k, "lost").session = Of(k)
    BY <1>1, GoneIs DEF Over
  <2> QED  BY <2>1, <2>2 DEF Handler, Of, Writers
<1>3. ASSUME NEW q \in Requests
      PROVE  /\ req'[q] \in Request /\ req'[q].kind = req[q].kind
             /\ req'[q].about = req[q].about /\ req'[q].writes = req[q].writes
  BY <1>1 DEF Restart, TypeOK, Request
<1>4. TypeOK'
  <2>1. ws' \in [Sockets -> Handler] /\ req' \in [Requests -> Request]
    BY <1>2, <1>3 DEF Restart
  <2> QED  BY <1>1, <2>1 DEF Restart, TypeOK
<1>5. Aimed'
  BY <1>3 DEF IInv, Aimed
<1>6. PublishedIsOpen'
  BY DEF Restart, PublishedIsOpen
<1>7. ActiveHasHandler'
  BY <1>1, <1>2 DEF IInv, ActiveHasHandler, Writers
<1>8. ASSUME NEW k \in Sockets PROVE Sound(k)'
  <2>1. Staged(k)'
    BY <1>1, <1>2 DEF IInv, Sound, Staged, At
  <2> QED  BY <1>2, <2>1 DEF Sound, Listed, Heard, ToldOfEnd, At, Shell
<1> QED  BY <1>4, <1>5, <1>6, <1>7, <1>8 DEF IInv

-----------------------------------------------------------------------------
(* The theorems. *)

LEMMA StepKeeps == IInv /\ [Next]_vars => IInv'
<1> SUFFICES ASSUME IInv, [Next]_vars PROVE IInv'
  OBVIOUS
<1>1. CASE \E s \in Sessions : Create(s)
  BY <1>1, CreateKeeps
<1>2. ASSUME NEW k \in Sockets,
             \/ \E s \in Sessions : Open(k, s)
             \/ GiveUp(k) \/ Refused(k) \/ Publish(k) \/ SetupFails(k)
             \/ \E status \in {"active", "error"} : Leave(k, status)
             \/ Activate(k) \/ Listen(k) \/ MalformedSize(k)
             \/ Conclude(k) \/ Save(k) \/ SaveFails(k)
      PROVE  IInv'
  BY <1>2, OpenKeeps, FailKeeps, PublishKeeps, SetupFailsKeeps, LeaveKeeps, ActivateKeeps,
     ListenKeeps, MalformedSizeKeeps, ConcludeKeeps, SaveKeeps, SaveFailsKeeps
<1>3. ASSUME NEW q \in Requests,
             \/ KioskCheck(q) \/ KioskCommit(q)
             \/ \E s \in Sessions : ReadToTerminate(q, s) \/ Supervise(q, s)
             \/ ReadToDeprovision(q) \/ WriteTerminated(q) \/ SetEvents(q)
             \/ \E recorded \in BOOLEAN : SuperviseSets(q, recorded)
      PROVE  IInv'
  BY <1>3, ReadKeeps, KioskCommitKeeps, WriteTerminatedKeeps, SetEventsKeeps, SuperviseSetsKeeps
<1>4. CASE \E old \in SUBSET Sessions : Reap(old)
  BY <1>4, ReapKeeps
<1>5. CASE Restart
  BY <1>5, RestartKeeps
<1>6. CASE UNCHANGED vars
  <2>1. UNCHANGED <<row, ws, sftp, control, events, req, faults>>
    BY <1>6 DEF vars
  <2>2. TypeOK' /\ Aimed' /\ PublishedIsOpen' /\ ActiveHasHandler'
    BY <2>1 DEF IInv, TypeOK, Aimed, PublishedIsOpen, ActiveHasHandler, Of
  <2>3. ASSUME NEW k \in Sockets PROVE Sound(k)'
    BY <2>1 DEF IInv, Sound, Staged, Listed, Heard, ToldOfEnd, Excused, Shared, Written,
                Coming, TooLate, At, Of
  <2> QED  BY <2>2, <2>3 DEF IInv
<1> QED  BY <1>1, <1>2, <1>3, <1>4, <1>5, <1>6 DEF Next

LEMMA Invariance == Spec => []IInv
<1> QED  BY InitSound, StepKeeps, PTL DEF Spec

\* A row reads active only while a handler is there that writes it again, or
\* after a restart, a failed commit of the teardown or a malformed terminal size
\* that ended its handler, and a shell's row reads anything else only when
\* somebody else was at work on the session: whatever handle_terminal, create_session, terminate_session,
\* terminate_sessions_by_user and the reaper do to one row at once.
THEOREM RowsAgree == Spec => []Consistent
<1>1. IInv => ShellIsListed
  <2> SUFFICES ASSUME IInv, NEW k \in Sockets, At(k, "serving"), row[Of(k)] # "active"
               PROVE  Shared(k) \/ Written(Of(k))
    BY DEF ShellIsListed, Written
  <2> QED  BY DEF IInv, Sound, Listed, At
<1>2. IInv => Consistent
  BY <1>1 DEF IInv, Consistent
<1> QED  BY <1>2, Invariance, PTL

\* What the SFTP service and the supervisors find in the registries of a session
\* is the connection of a handler of that session that has not closed it,
\* though every teardown removes whoever is registered.
THEOREM RegistriesHoldOpenShells == Spec => []PublishedIsOpen
<1>1. IInv => PublishedIsOpen
  BY DEF IInv
<1> QED  BY <1>1, Invariance, PTL

\* A shell whose row somebody terminated was signalled, is about to be by the
\* terminate_session that wrote it, or is in one of the two holes of
\* _terminate_events: not registered in time, or not the only socket.
THEOREM TerminatedIsTold == Spec => []TerminatedIsSignalled
<1>1. IInv => TerminatedIsSignalled
  <2> SUFFICES ASSUME IInv, NEW k \in Sockets, At(k, "serving"), row[Of(k)] = "terminated"
               PROVE  Excused(k) \/ Coming(Of(k))
    BY DEF TerminatedIsSignalled, Excused, Coming
  <2> QED  BY DEF IInv, Sound, ToldOfEnd, At
<1> QED  BY <1>1, Invariance, PTL

\* No step of anybody gets to work on a session that is over.
LEMMA StepLeavesEnded ==
  ASSUME TypeOK, Next, NEW s \in Sessions, Ended(s)
  PROVE  \/ Ended(s)' /\ row'[s] = row[s]
         \/ \E q \in Requests : /\ req'[q].kind = "terminate" /\ req'[q].pc = "read"
                                /\ s \in req'[q].about
<1> DEFINE Quiet(k) == Of(k) = s => ws[k].pc \in Over
           Past(q)  == req[q].pc \in {"read", "half"} => s \notin req[q].about \cup req[q].writes
<1>0. /\ row[s] \in {"terminated", "error"}
      /\ \A k \in Sockets : Quiet(k)
      /\ \A q \in Requests : Past(q)
  BY DEF Ended
<1>a. ASSUME row'[s] = row[s], \A k \in Sockets : Quiet(k)', \A q \in Requests : Past(q)'
      PROVE  Ended(s)' /\ row'[s] = row[s]
  BY <1>0, <1>a DEF Ended
<1>1. ASSUME UNCHANGED ws PROVE \A k \in Sockets : Quiet(k)'
  BY <1>0, <1>1 DEF Of
<1>2. ASSUME UNCHANGED req PROVE \A q \in Requests : Past(q)'
  BY <1>0, <1>2
<1>3. CASE \E t \in Sessions : Create(t)
  <2>1. row'[s] = row[s] /\ UNCHANGED <<ws, req>>
    BY <1>0, <1>3 DEF Create, Unused, Existing, TypeOK
  <2> QED  BY <1>a, <1>1, <1>2, <2>1
<1>4. CASE \E old \in SUBSET Sessions : Reap(old)
  <2>1. row'[s] = row[s] /\ UNCHANGED <<ws, req>>
    BY <1>0, <1>4 DEF Reap
  <2> QED  BY <1>a, <1>1, <1>2, <2>1
<1>5. ASSUME NEW k \in Sockets, NEW t \in Sessions, Open(k, t)
      PROVE  Ended(s)' /\ row'[s] = row[s]
  <2>1. t # s /\ UNCHANGED <<row, req>>
    BY <1>0, <1>5 DEF Open, Live
  <2>2. ws'[k].session = t /\ \A j \in Sockets : j # k => ws'[j] = ws[j]
    BY <1>5 DEF Open, TypeOK
  <2>3. \A j \in Sockets : Quiet(j)'
    BY <1>0, <2>1, <2>2 DEF Of
  <2> QED  BY <1>a, <1>2, <2>1, <2>3
<1>6. ASSUME NEW k \in Sockets,
             \/ GiveUp(k) \/ Refused(k) \/ Publish(k) \/ SetupFails(k)
             \/ \E status \in {"active", "error"} : Leave(k, status)
             \/ Activate(k) \/ Listen(k) \/ MalformedSize(k)
             \/ Conclude(k) \/ Save(k) \/ SaveFails(k)
      PROVE  Ended(s)' /\ row'[s] = row[s]
  <2>1. ws[k].pc \in {"connecting", "published", "activated", "serving", "closing", "storing"}
        /\ UNCHANGED req
    BY <1>6 DEF GiveUp, Refused, Publish, SetupFails, Leave, Activate, Listen, MalformedSize,
           Conclude, Save, SaveFails, At
  <2>2. Of(k) # s
    BY <1>0, <2>1 DEF Over
  <2>3. row' = row \/ \E v : row' = [row EXCEPT ![Of(k)] = v]
    BY <1>6 DEF GiveUp, Refused, Publish, SetupFails, Leave, Activate, Listen, MalformedSize,
           Conclude, Save, SaveFails, Flush
  <2>4. row'[s] = row[s]
    BY <2>2, <2>3 DEF TypeOK
  <2>5. ws'[k].session = ws[k].session /\ \A j \in Sockets : j # k => ws'[j] = ws[j]
    <3>1. CASE \/ GiveUp(k) \/ Refused(k) \/ SetupFails(k) \/ Listen(k)
               \/ MalformedSize(k) \/ Save(k) \/ SaveFails(k)
      BY <3>1 DEF GiveUp, Refused, SetupFails, Listen, MalformedSize, Save, SaveFails, Gone, TypeOK, Handler
    <3>2. CASE Publish(k) \/ Activate(k)
      <4>1. PICK f, g : \/ ws' = [ws EXCEPT ![k] = [@ EXCEPT !.pc = f, !.status = g]]
                        \/ ws' = [ws EXCEPT ![k] = [@ EXCEPT !.pc = f, !.loaded = g]]
        BY <3>2 DEF Publish, Activate
      <4> QED  BY <4>1 DEF TypeOK, Handler
    <3>3. CASE \E status \in {"active", "error"} : Leave(k, status)
      BY <3>3 DEF Leave, TypeOK, Handler
    <3>4. CASE Conclude(k)
      BY <3>4 DEF Conclude, TypeOK, Handler
    <3> QED  BY <1>6, <3>1, <3>2, <3>3, <3>4
  <2>6. \A j \in Sockets : Quiet(j)'
    BY <1>0, <2>2, <2>5 DEF Of
  <2> QED  BY <1>a, <1>2, <2>1, <2>4, <2>6
<1>7. ASSUME NEW q \in Requests, NEW kind, NEW about, NEW writes, NEW event,
             Ask(q, kind, about, writes, event), s \notin about \cup writes,
             UNCHANGED <<row, ws>>
      PROVE  Ended(s)' /\ row'[s] = row[s]
  <2>1. /\ \A p \in Requests : p # q => req'[p] = req[p]
        /\ req'[q].about = about /\ req'[q].writes = writes
    BY <1>7 DEF Ask, TypeOK
  <2>2. \A p \in Requests : Past(p)'
    BY <1>0, <1>7, <2>1
  <2> QED  BY <1>a, <1>1, <1>7, <2>2
<1>8. ASSUME NEW q \in Requests,
             \/ KioskCheck(q) \/ ReadToDeprovision(q)
             \/ \E t \in Sessions : Supervise(q, t)
      PROVE  Ended(s)' /\ row'[s] = row[s]
  <2>1. UNCHANGED <<row, ws>>
    BY <1>8 DEF KioskCheck, ReadToDeprovision, Supervise
  <2>2. CASE KioskCheck(q)
    <3>1. PICK kind, writes : Ask(q, kind, {}, writes, Nobody) /\ s \notin writes
      <4>1. CASE Ask(q, "create", {}, {}, Nobody)
        BY <4>1
      <4>2. CASE \E t \in Latest : row[t] = "closed" /\ Ask(q, "reuse", {}, {t}, Nobody)
        <5>1. PICK t \in Latest : row[t] = "closed" /\ Ask(q, "reuse", {}, {t}, Nobody)
          BY <4>2
        <5>2. s \notin {t}
          BY <1>0, <5>1
        <5> QED  BY <5>1, <5>2
      <4> QED  BY <2>2, <4>1, <4>2 DEF KioskCheck
    <3> QED  BY <1>7, <2>1, <3>1
  <2>3. CASE ReadToDeprovision(q)
    BY <1>0, <1>7, <2>1, <2>3 DEF ReadToDeprovision, Live
  <2>4. CASE \E t \in Sessions : Supervise(q, t)
    BY <1>7, <2>1, <2>4 DEF Supervise
  <2> QED  BY <1>8, <2>2, <2>3, <2>4
<1>9. ASSUME NEW q \in Requests, NEW t \in Sessions, ReadToTerminate(q, t)
      PROVE  \/ Ended(s)' /\ row'[s] = row[s]
             \/ \E p \in Requests : /\ req'[p].kind = "terminate" /\ req'[p].pc = "read"
                                    /\ s \in req'[p].about
  <2>1. PICK writes \in {{}, {t}} : Ask(q, "terminate", {t}, writes, Nobody)
    BY <1>9 DEF ReadToTerminate
  <2>2. UNCHANGED <<row, ws>>
    BY <1>9 DEF ReadToTerminate
  <2>3. CASE t = s
    <3>1. req'[q].kind = "terminate" /\ req'[q].pc = "read" /\ s \in req'[q].about
      BY <2>1, <2>3 DEF Ask, TypeOK
    <3> QED  BY <3>1
  <2>4. CASE t # s
    BY <1>7, <2>1, <2>2, <2>4
  <2> QED  BY <2>3, <2>4
<1>10. ASSUME NEW q \in Requests,
              \/ KioskCommit(q) \/ WriteTerminated(q) \/ SetEvents(q)
              \/ \E recorded \in BOOLEAN : SuperviseSets(q, recorded)
      PROVE  Ended(s)' /\ row'[s] = row[s]
  <2>1. req[q] \in Request /\ req[q].pc \in {"read", "half"}
    BY <1>10 DEF TypeOK, KioskCommit, WriteTerminated, SetEvents, SuperviseSets
  <2>2. s \notin req[q].about \cup req[q].writes
    BY <1>0, <2>1
  <2>3. row'[s] = row[s]
    BY <1>0, <1>10, <2>2
    DEF KioskCommit, WriteTerminated, SetEvents, SuperviseSets, Unused, Existing
  <2>4. \A p \in Requests : req'[p].about = req[p].about /\ req'[p].writes = req[p].writes
                            /\ (p # q => req'[p] = req[p])
    <3>1. PICK pc : req' = [req EXCEPT ![q].pc = pc]
      BY <1>10 DEF KioskCommit, WriteTerminated, SetEvents, SuperviseSets
    <3> QED  BY <3>1 DEF TypeOK, Request
  <2>5. \A p \in Requests : Past(p)'
    BY <1>0, <2>2, <2>4
  <2>6. \A k \in Sockets : ws'[k].pc = ws[k].pc /\ ws'[k].session = ws[k].session
    <3>1. CASE SetEvents(q)
      <4> SUFFICES ASSUME NEW k \in Sockets
                   PROVE  ws'[k].pc = ws[k].pc /\ ws'[k].session = ws[k].session
        OBVIOUS
      <4>1. PICK a, b : ws'[k] = [ws[k] EXCEPT !.signalled = a, !.missed = b]
        BY <3>1 DEF SetEvents
      <4> QED  BY <4>1 DEF TypeOK, Handler
    <3>2. CASE ~SetEvents(q)
      BY <1>10, <3>2 DEF KioskCommit, WriteTerminated, SuperviseSets, TypeOK, Handler
    <3> QED  BY <3>1, <3>2
  <2>7. \A k \in Sockets : Quiet(k)'
    BY <1>0, <2>6 DEF Of
  <2> QED  BY <1>a, <2>3, <2>5, <2>7
<1>11. CASE Restart
  <2>1. \A k \in Sockets : Quiet(k)'
    BY <1>0, <1>11 DEF Restart, Gone, TypeOK, Handler, Of, Over
  <2>2. \A q \in Requests : Past(q)'
    BY <1>0, <1>11 DEF Restart, TypeOK, Request
  <2>3. row'[s] = row[s]
    BY <1>11 DEF Restart
  <2> QED  BY <1>a, <2>1, <2>2, <2>3
<1> QED  BY <1>3, <1>4, <1>5, <1>6, <1>8, <1>9, <1>10, <1>11 DEF Next

\* A session that was terminated or failed, with nobody at work on it, stays as
\* it is until somebody terminates it again: ssh_terminal and create_session
\* never lead back to it, and the reaper leaves it.
THEOREM EndIsFinal == Spec => EndedStaysEnded
<1> DEFINE Excepted(s) == \E q \in Requests : /\ req'[q].kind = "terminate" /\ req'[q].pc = "read"
                                              /\ s \in req'[q].about
           Step == \A s \in Sessions : Ended(s) => \/ Ended(s)' /\ row'[s] = row[s]
                                                   \/ Excepted(s)
<1>1. IInv /\ [Next]_vars => [Step]_vars
  <2> SUFFICES ASSUME IInv, Next, NEW s \in Sessions, Ended(s)
               PROVE  (Ended(s)' /\ row'[s] = row[s]) \/ Excepted(s)
    OBVIOUS
  <2> QED  BY StepLeavesEnded DEF IInv
<1> QED  BY <1>1, Invariance, PTL DEF Spec, EndedStaysEnded
=============================================================================
