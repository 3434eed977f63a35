------------------------- MODULE AuthorizationProofs -------------------------
(***************************************************************************)
(* Proofs about Authorization, for any number of administrators, contents  *)
(* and requests: as long as no request overtakes another, what is in force *)
(* was approved by somebody else, as the approving handler found it, and   *)
(* what ended stays off.                                                   *)
(***************************************************************************)
EXTENDS Authorization, TLAPS

(* The inductive invariant. *)

\* A page is an administrator's; a request that is about to decide found the
\* grant pending, and its actor is an administrator and not the requester it found.
Judges(r) ==
  /\ r.pc = "page" => r.actor \in Admins
  /\ r.pc \in {"opened", "read"} /\ r.kind \in {"approve", "reject", "link"} =>
       /\ r.actor \in Admins
       /\ r.saw.status = "pending_approval"
       /\ r.saw.requested_by # r.actor

Judged == \A q \in Handlers : Judges(rq[q])

\* The requester of a grant is who wrote its content.
AuthorIsRequester ==
  Exists /\ ~hist.overtaken => row.requested_by = hist.author

\* What is pending did not end, for every edit starts it anew.
PendingIsOpen ==
  row.status = "pending_approval" /\ ~hist.overtaken => ~hist.ended

Sound == /\ AuthorIsRequester /\ PendingIsOpen
         /\ EnabledIsActive /\ AnotherApproved /\ ApprovedAsFound /\ EndedIsOff

IInv == TypeOK /\ Judged /\ Sound

(***************************************************************************)
(* Reading and writing                                                     *)
(***************************************************************************)

\* The columns of a row are typed, whichever the UPDATE sets.
LEMMA SaveTyped ==
  ASSUME NEW q \in Handlers, NEW new \in Row, row \in Row, Save(q, new)
  PROVE  row' \in Row
  BY DEF Save, Column, Row

\* An UPDATE that was not overtaken writes the row as intended.
LEMMA SaveExact ==
  ASSUME NEW q \in Handlers, NEW new \in Row, row \in Row, Save(q, new), ~Overtakes(q)
  PROVE  row' = new
  BY DEF Save, Column, Row, Overtakes

\* A request that is idle, or has committed, holds nothing of the row.
LEMMA IdleTyped ==
  ASSUME NEW pc \in {"idle", "page", "opened", "read", "written", "mailing", "done"}
  PROVE  /\ Idle \in Request
         /\ [Idle EXCEPT !.pc = pc] \in Request
         /\ [Idle EXCEPT !.pc = pc].kind = "none"
         /\ [Idle EXCEPT !.pc = pc].pc = pc
         /\ Idle.kind = "none" /\ Idle.pc = "idle"
         /\ NoRow \in Row
  BY DEF Idle, Request, NoRow, Row, Statuses, Ended, Kinds

\* What is left of the requests when one is over or has committed.
LEMMA GotoKeeps ==
  ASSUME NEW q \in Handlers, NEW pc \in {"written", "done"}, Goto(q, pc),
         rq \in [Handlers -> Request], Judged
  PROVE  rq' \in [Handlers -> Request] /\ Judged'
  <1>1. rq' = [rq EXCEPT ![q] = Idle] \/ rq' = [rq EXCEPT ![q] = [Idle EXCEPT !.pc = pc]]
    BY DEF Goto
  <1>2. rq' \in [Handlers -> Request]
    BY <1>1, IdleTyped
  <1>3. Judged'
    <2> SUFFICES ASSUME NEW p \in Handlers PROVE Judges(rq'[p])
      BY DEF Judged
    <2>1. CASE p = q
      BY <1>1, <2>1, IdleTyped DEF Judges
    <2>2. CASE p # q
      <3>1. rq'[p] = rq[p]
        BY <1>1, <2>2
      <3>2. QED BY <3>1 DEF Judged
    <2>3. QED BY <2>1, <2>2
  <1>4. QED BY <1>2, <1>3

\* A request that reads the row, for the kinds that check nothing of it and
\* for those that check it is not their own.
LEMMA ReadKeeps ==
  ASSUME NEW q \in Handlers, NEW r \in Request, rq' = [rq EXCEPT ![q] = r],
         Judges(r), UNCHANGED <<row, hist>>, IInv,
         links' \subseteq Link, lapsed' \subseteq Contents, listed' \in BOOLEAN
  PROVE  IInv'
  <1>1. TypeOK'
    BY DEF IInv, TypeOK
  <1>2. Judged'
    BY DEF IInv, TypeOK, Judged
  <1>3. Sound'
    BY DEF IInv, Sound, AuthorIsRequester, PendingIsOpen, EnabledIsActive,
           AnotherApproved, ApprovedAsFound, EndedIsOff, Exists
  <1>4. QED BY <1>1, <1>2, <1>3 DEF IInv

\* Nothing of the row changes: links, dates and campaigns are no business of it.
LEMMA AsideKeeps ==
  ASSUME UNCHANGED <<row, rq, hist>>, IInv,
         links' \subseteq Link, lapsed' \subseteq Contents, listed' \in BOOLEAN
  PROVE  IInv'
  <1>1. TypeOK' /\ Judged'
    BY DEF IInv, TypeOK, Judged
  <1>2. Sound'
    BY DEF IInv, Sound, AuthorIsRequester, PendingIsOpen, EnabledIsActive,
           AnotherApproved, ApprovedAsFound, EndedIsOff, Exists
  <1>3. QED BY <1>1, <1>2 DEF IInv

(***************************************************************************)
(* Writing a grant and deciding on it                                      *)
(***************************************************************************)

\* What an edit makes of a grant is a row with its editor as requester.
LEMMA RequestedTyped ==
  ASSUME NEW old, NEW a \in Admins \cup {Nobody}, NEW c \in Contents \cup {Nothing}
  PROVE  Requested(old, a, c) \in Row
  BY DEF Requested, Row, Statuses, Ended

\* A grant that was just written is in force only if its writer is exempt.
LEMMA WrittenIsSound ==
  ASSUME NEW a, NEW c, NEW old, NEW overtaken \in BOOLEAN,
         ~overtaken => row' = Requested(old, a, c), Written(a, c, overtaken)
  PROVE  Sound'
  <1> SUFFICES ASSUME ~overtaken PROVE Sound'
    BY DEF Written, Sound, AuthorIsRequester, PendingIsOpen, EnabledIsActive,
           AnotherApproved, ApprovedAsFound, EndedIsOff
  <1>1. CASE a \in Exempt
    BY <1>1 DEF Written, Requested, Sound, AuthorIsRequester, PendingIsOpen, EnabledIsActive,
           AnotherApproved, ApprovedAsFound, EndedIsOff
  <1>2. CASE a \notin Exempt
    BY <1>2 DEF Written, Requested, Sound, AuthorIsRequester, PendingIsOpen, EnabledIsActive,
           AnotherApproved, ApprovedAsFound, EndedIsOff
  <1>3. QED BY <1>1, <1>2

\* The history stays typed when a grant is written.
LEMMA WrittenTyped ==
  ASSUME NEW a \in Admins \cup {Nobody}, NEW c \in Contents \cup {Nothing},
         NEW overtaken \in BOOLEAN,
         Written(a, c, overtaken), hist \in History
  PROVE  hist' \in History
  BY DEF Written, History

\* A decision of either kind, in the console or by a link.
LEMMA DecidesKeeps ==
  ASSUME NEW q \in Handlers, NEW action \in {"none", "approve", "reject"},
         NEW way \in {"page", "link"},
         rq[q].pc = "read", rq[q].kind \in {"approve", "reject", "link"}, Exists, IInv,
         Decides(q, action, way), links' \subseteq Link, UNCHANGED <<lapsed, listed>>
  PROVE  IInv'
  <1> DEFINE saw == rq[q].saw
             new == Decided(saw, rq[q].actor, action)
  <1>1. rq[q] \in Request /\ saw \in Row /\ row \in Row /\ hist \in History
    BY DEF IInv, TypeOK, Request
  <1>2. /\ rq[q].actor \in Admins
        /\ saw.status = "pending_approval"
        /\ saw.requested_by # rq[q].actor
    BY DEF IInv, Judged, Judges
  <1>3. new \in Row
    BY <1>1, <1>2 DEF Decided, Row, Statuses, Ended
  <1>4. Save(q, new) /\ Goto(q, "done")
    BY DEF Decides
  <1>5. row' \in Row
    BY <1>1, <1>3, <1>4, SaveTyped
  <1>6. hist' = [hist EXCEPT !.overtaken = @ \/ Overtakes(q),
                             !.ended = @ \/ action = "reject",
                             !.shown = IF action = "approve" THEN rq[q].content ELSE @,
                             !.found = IF action = "approve" THEN saw.content ELSE @,
                             !.way = IF action = "approve" THEN way ELSE @]
    BY DEF Decides
  <1>7. hist' \in History
    <2>1. rq[q].content \in Contents \cup {Nothing} /\ saw.content \in Contents \cup {Nothing}
      BY <1>1 DEF Request, Row
    <2>2. PICK o \in BOOLEAN, e \in BOOLEAN, x \in Contents \cup {Nothing},
               y \in Contents \cup {Nothing}, w \in {"none", "exempt", "page", "link"} :
            hist' = [hist EXCEPT !.overtaken = o, !.ended = e, !.shown = x, !.found = y, !.way = w]
      <3> DEFINE x == IF action = "approve" THEN rq[q].content ELSE hist.shown
                 y == IF action = "approve" THEN saw.content ELSE hist.found
                 w == IF action = "approve" THEN way ELSE hist.way
                 o == hist.overtaken \/ Overtakes(q)
                 e == hist.ended \/ action = "reject"
      <3>1. x \in Contents \cup {Nothing} /\ y \in Contents \cup {Nothing}
            /\ w \in {"none", "exempt", "page", "link"}
        BY <1>1, <2>1 DEF History
      <3>2. o \in BOOLEAN /\ e \in BOOLEAN
        BY <1>1 DEF History, Overtakes
      <3>3. hist' = [hist EXCEPT !.overtaken = o, !.ended = e, !.shown = x, !.found = y, !.way = w]
        BY <1>6
      <3> HIDE DEF o, e, x, y, w
      <3>4. QED BY <3>1, <3>2, <3>3
    <2>3. QED BY <1>1, <2>2 DEF History
  <1>8. rq' \in [Handlers -> Request] /\ Judged'
    BY <1>4, GotoKeeps DEF IInv, TypeOK
  <1>9. TypeOK'
    BY <1>5, <1>7, <1>8 DEF IInv, TypeOK
  <1>10. Sound'
    <2> SUFFICES ASSUME ~hist'.overtaken PROVE Sound'
      BY DEF Sound, AuthorIsRequester, PendingIsOpen, EnabledIsActive,
             AnotherApproved, ApprovedAsFound, EndedIsOff
    <2>1. ~hist.overtaken /\ ~Overtakes(q)
      BY <1>1, <1>6 DEF History, Overtakes
    <2>2. row = saw /\ row' = new
      BY <2>1, <1>1, <1>3, <1>4, SaveExact DEF Overtakes
    <2>3. hist.author = saw.requested_by /\ ~hist.ended
      BY <2>1, <2>2, <1>2 DEF IInv, Sound, AuthorIsRequester, PendingIsOpen
    <2>4. CASE action = "approve"
      <3>1. /\ row'.status = "active" /\ row'.approved_by = rq[q].actor
            /\ row'.requested_by = saw.requested_by /\ row'.content = saw.content
        BY <2>2, <2>4, <1>1 DEF Decided, Row
      <3>2. /\ hist'.author = hist.author /\ ~hist'.ended
            /\ hist'.found = saw.content /\ hist'.way = way
        BY <2>3, <2>4, <1>1, <1>6 DEF History
      <3>3. QED
        BY <3>1, <3>2, <2>3, <2>4, <1>2, AuthorizationAssumption
        DEF Sound, AuthorIsRequester, PendingIsOpen, EnabledIsActive,
            AnotherApproved, ApprovedAsFound, EndedIsOff
    <2>5. CASE action # "approve"
      <3>1. /\ row'.status = "rejected" /\ ~row'.enabled
            /\ row'.requested_by = saw.requested_by
        BY <2>2, <2>5, <1>1 DEF Decided, Row
      <3>2. hist'.author = hist.author
        BY <1>1, <1>6 DEF History
      <3>3. QED
        BY <3>1, <3>2, <2>3
        DEF Sound, AuthorIsRequester, PendingIsOpen, EnabledIsActive,
            AnotherApproved, ApprovedAsFound, EndedIsOff
    <2>6. QED BY <2>4, <2>5
  <1>11. QED BY <1>8, <1>9, <1>10 DEF IInv

\* A review or the sweep turns the grant off, pending or in force.
LEMMA WithdrawnKeeps ==
  ASSUME NEW q \in Handlers, NEW status \in {"revoked", "expired"}, Exists, IInv,
         Withdrawn(q, status)
  PROVE  IInv'
  <1> DEFINE new == [rq[q].saw EXCEPT !.status = status, !.enabled = FALSE]
  <1>1. rq[q].saw \in Row /\ row \in Row /\ hist \in History
    BY DEF IInv, TypeOK, Request
  <1>2. new \in Row
    BY <1>1 DEF Row, Statuses, Ended
  <1>3. Save(q, new) /\ Goto(q, "done")
    BY DEF Withdrawn
  <1>4. hist' = [hist EXCEPT !.overtaken = @ \/ Overtakes(q), !.ended = TRUE]
    BY DEF Withdrawn
  <1>5. row' \in Row /\ hist' \in History
    BY <1>1, <1>2, <1>3, <1>4, SaveTyped DEF History, Overtakes
  <1>6. rq' \in [Handlers -> Request] /\ Judged'
    BY <1>3, GotoKeeps DEF IInv, TypeOK
  <1>7. TypeOK'
    BY <1>5, <1>6 DEF IInv, TypeOK, Withdrawn
  <1>8. Sound'
    <2> SUFFICES ASSUME ~hist'.overtaken PROVE Sound'
      BY DEF Sound, AuthorIsRequester, PendingIsOpen, EnabledIsActive,
             AnotherApproved, ApprovedAsFound, EndedIsOff
    <2>1. ~hist.overtaken /\ ~Overtakes(q) /\ hist'.author = hist.author
      BY <1>1, <1>4 DEF History, Overtakes
    <2>2. row = rq[q].saw /\ row' = new
      BY <2>1, <1>1, <1>2, <1>3, SaveExact DEF Overtakes
    <2>3. row'.status = status /\ ~row'.enabled /\ row'.requested_by = row.requested_by
      BY <2>2, <1>1 DEF Row
    <2>4. row'.requested_by = hist'.author
      BY <2>1, <2>3 DEF IInv, Sound, AuthorIsRequester
    <2>5. QED
      BY <2>3, <2>4
      DEF Sound, AuthorIsRequester, PendingIsOpen, EnabledIsActive,
          AnotherApproved, ApprovedAsFound, EndedIsOff
  <1>9. QED BY <1>6, <1>7, <1>8 DEF IInv

(***************************************************************************)
(* The invariant                                                           *)
(***************************************************************************)

\* Before the first request there is no grant.
LEMMA InitSound == Init => IInv
  <1> SUFFICES ASSUME Init PROVE IInv
    OBVIOUS
  <1>1. TypeOK
    BY IdleTyped DEF Init, TypeOK, History
  <1>2. Judged
    BY DEF Init, Judged, Judges, Idle
  <1>3. Sound
    BY DEF Init, NoRow, Sound, AuthorIsRequester, PendingIsOpen, EnabledIsActive,
           AnotherApproved, ApprovedAsFound, EndedIsOff, Exists
  <1>4. QED BY <1>1, <1>2, <1>3 DEF IInv

\* A new grant.
LEMMA CreateKeeps ==
  ASSUME NEW q \in Handlers, NEW a \in Admins, NEW c \in Contents, IInv, Create(q, a, c)
  PROVE  IInv'
  <1>1. row' = Requested(NoRow, a, c) /\ Written(a, c, FALSE) /\ Goto(q, "written")
    BY DEF Create
  <1>2. row' \in Row /\ hist' \in History
    BY <1>1, RequestedTyped, WrittenTyped DEF IInv, TypeOK
  <1>3. rq' \in [Handlers -> Request] /\ Judged'
    BY <1>1, GotoKeeps DEF IInv, TypeOK
  <1>4. Sound'
    BY <1>1, WrittenIsSound
  <1>5. QED BY <1>2, <1>3, <1>4 DEF IInv, TypeOK, Create

\* An edit: whatever the grant was, its approval is undone.
LEMMA UpdateKeeps ==
  ASSUME NEW q \in Handlers, IInv, CommitUpdate(q)
  PROVE  IInv'
  <1> DEFINE new == Requested(rq[q].saw, rq[q].actor, rq[q].content)
  <1>1. /\ rq[q].saw \in Row /\ row \in Row
        /\ rq[q].actor \in Admins \cup {Nobody}
        /\ rq[q].content \in Contents \cup {Nothing}
    BY DEF IInv, TypeOK, Request
  <1>2. new \in Row
    BY <1>1, RequestedTyped
  <1>3. /\ Save(q, new)
        /\ Written(rq[q].actor, rq[q].content, Overtakes(q))
        /\ Goto(q, "written")
    BY DEF CommitUpdate
  <1>4. Overtakes(q) \in BOOLEAN /\ (~Overtakes(q) => row' = new)
    BY <1>1, <1>2, <1>3, SaveExact DEF Overtakes
  <1>5. row' \in Row /\ hist' \in History
    BY <1>1, <1>2, <1>3, <1>4, SaveTyped, WrittenTyped DEF IInv, TypeOK
  <1>6. rq' \in [Handlers -> Request] /\ Judged'
    BY <1>3, GotoKeeps DEF IInv, TypeOK
  <1>7. Sound'
    BY <1>3, <1>4, WrittenIsSound
  <1>8. QED BY <1>5, <1>6, <1>7 DEF IInv, TypeOK, CommitUpdate

\* The types that every read needs.
LEMMA ReadTypes ==
  ASSUME IInv
  PROVE  /\ rq \in [Handlers -> Request] /\ row \in Row /\ links \subseteq Link
         /\ lapsed \subseteq Contents /\ listed \in BOOLEAN
         /\ Idle \in Request
  BY IdleTyped DEF IInv, TypeOK

\* A handler, or the sweep, reads the row.
LEMMA ReadAnyKeeps ==
  ASSUME NEW q \in Handlers, NEW kind \in Kinds \ {"link"}, NEW a \in Admins \cup {Nobody},
         kind \in {"approve", "reject"} => a \in Admins /\ MayDecide(a),
         IInv, Read(q, kind, a)
  PROVE  IInv'
  <1> DEFINE s == [Idle EXCEPT !.pc = "read", !.kind = kind, !.actor = a, !.saw = row]
  <1>1. row \in Row /\ Idle \in Request
    BY ReadTypes
  <1>2. s \in Request /\ s.kind = kind /\ s.actor = a /\ s.saw = row
    BY <1>1 DEF Idle, Request
  <1>3. Judges(s)
    BY <1>2 DEF Judges, MayDecide
  <1>4. rq' = [rq EXCEPT ![q] = s] /\ UNCHANGED <<row, links, lapsed, listed, hist>>
    BY DEF Read
  <1>5. QED BY <1>2, <1>3, <1>4, ReadKeeps, ReadTypes

\* An edit reads the row, knowing what it will write.
LEMMA ReadForUpdateKeeps ==
  ASSUME NEW q \in Handlers, NEW a \in Admins, NEW c \in Contents, IInv,
         ReadForUpdate(q, a, c)
  PROVE  IInv'
  <1> DEFINE s == [Idle EXCEPT !.pc = "read", !.kind = "update", !.actor = a,
                               !.saw = row, !.content = c]
  <1>1. row \in Row /\ Idle \in Request
    BY ReadTypes
  <1>2. s \in Request /\ Judges(s)
    BY <1>1 DEF Idle, Request, Kinds, Judges
  <1>3. rq' = [rq EXCEPT ![q] = s] /\ UNCHANGED <<row, links, lapsed, listed, hist>>
    BY DEF ReadForUpdate
  <1>4. QED BY <1>2, <1>3, ReadKeeps, ReadTypes

\* The page is opened, and later its button pressed.
LEMMA ApprovalKeeps ==
  ASSUME NEW q \in Handlers, IInv,
         \/ \E a \in Admins : ViewPage(q, a)
         \/ ReadForApproval(q)
  PROVE  IInv'
  <1>1. row \in Row /\ Idle \in Request /\ rq[q] \in Request
    BY ReadTypes
  <1>2. CASE \E a \in Admins : ViewPage(q, a)
    <2>1. PICK a \in Admins : ViewPage(q, a)
      BY <1>2
    <2> DEFINE s == [Idle EXCEPT !.pc = "page", !.kind = "approve", !.actor = a,
                                 !.content = row.content]
    <2>2. s \in Request /\ Judges(s)
      BY <1>1 DEF Idle, Request, Kinds, Row, Judges
    <2>3. rq' = [rq EXCEPT ![q] = s] /\ UNCHANGED <<row, links, lapsed, listed, hist>>
      BY <2>1 DEF ViewPage
    <2> QED  BY <2>2, <2>3, ReadKeeps, ReadTypes
  <1>3. CASE ReadForApproval(q)
    <2> DEFINE s == [rq[q] EXCEPT !.pc = "read", !.saw = row]
    <2>1. MayDecide(rq[q].actor) /\ rq[q].kind = "approve"
      BY <1>3 DEF ReadForApproval, At
    <2>2. s \in Request /\ s.kind = "approve" /\ s.actor = rq[q].actor /\ s.saw = row
      BY <1>1, <2>1 DEF Request
    <2>3. rq[q].actor \in Admins
      BY <1>1, <2>1, <1>3 DEF IInv, Judged, Judges, ReadForApproval, At
    <2>4. Judges(s)
      BY <2>1, <2>2, <2>3 DEF Judges, MayDecide
    <2>5. rq' = [rq EXCEPT ![q] = s] /\ UNCHANGED <<row, links, lapsed, listed, hist>>
      BY <1>3 DEF ReadForApproval
    <2> QED  BY <2>2, <2>4, <2>5, ReadKeeps, ReadTypes
  <1> QED  BY <1>2, <1>3

\* A link is opened, and its request looks for the others.
LEMMA LinkKeeps ==
  ASSUME NEW q \in Handlers, IInv, FindOthers(q) \/ \E k \in links : OpenLink(q, k)
  PROVE  IInv'
  <1>0. row \in Row /\ links \subseteq Link /\ rq[q] \in Request
    BY ReadTypes
  <1>1. ASSUME NEW k \in links, OpenLink(q, k) PROVE IInv'
    <2> DEFINE s == [pc |-> "opened", kind |-> "link", actor |-> k.to, saw |-> row,
                     content |-> k.content, action |-> k.action, others |-> {k}]
    <2>1. k.to \in Admins /\ k.content \in Contents /\ k.action \in {"approve", "reject"} /\ k \in Link
      BY <1>0, <1>1 DEF Link
    <2>2. s \in Request
      BY <1>0, <2>1 DEF Request, Kinds
    <2>3. Judges(s)
      BY <2>1, <1>1 DEF OpenLink, MayDecide, Judges
    <2>4. rq' = [rq EXCEPT ![q] = s] /\ UNCHANGED <<row, links, lapsed, listed, hist>>
      BY <1>1 DEF OpenLink
    <2>5. QED BY <2>2, <2>3, <2>4, ReadKeeps, ReadTypes
  <1>2. CASE FindOthers(q)
    <2> DEFINE s == [rq[q] EXCEPT !.pc = "read", !.others = @ \cup links]
    <2>1. s \in Request /\ s.kind = rq[q].kind /\ s.actor = rq[q].actor /\ s.saw = rq[q].saw
      BY <1>0 DEF Request
    <2>2. rq' = [rq EXCEPT ![q] = s] /\ UNCHANGED <<row, links, lapsed, listed, hist>>
      BY <1>2 DEF FindOthers
    <2>3. Judges(s)
      BY <1>2, <2>1 DEF IInv, Judged, Judges, FindOthers, At
    <2>4. QED BY <2>1, <2>2, <2>3, ReadKeeps, ReadTypes
  <1>3. QED BY <1>1, <1>2

\* After its commit a request reads again what it wrote and mails it.
LEMMA AfterwardsKeep ==
  ASSUME NEW q \in Handlers, IInv, Refresh(q) \/ Mail(q)
  PROVE  IInv'
  <1>0. /\ rq \in [Handlers -> Request] /\ row \in Row /\ links \subseteq Link
        /\ hist \in History /\ lapsed \subseteq Contents /\ listed \in BOOLEAN
        /\ rq[q] \in Request /\ Judged
    BY DEF IInv, TypeOK
  <1>1. UNCHANGED <<row, lapsed, listed, hist>> /\ links' \subseteq Link
    BY <1>0 DEF Refresh, Mail, Links
  <1>2. Sound'
    BY <1>1 DEF IInv, Sound, AuthorIsRequester, PendingIsOpen, EnabledIsActive,
                AnotherApproved, ApprovedAsFound, EndedIsOff, Exists
  <1>3. ASSUME rq' \in [Handlers -> Request], Judged' PROVE IInv'
    BY <1>0, <1>1, <1>2, <1>3 DEF IInv, TypeOK
  <1>4. CASE Goto(q, "done")
    BY <1>0, <1>3, <1>4, GotoKeeps
  <1>5. CASE Refresh(q) /\ row.status = "pending_approval"
    <2> DEFINE s == [rq[q] EXCEPT !.pc = "mailing", !.saw = row]
    <2>1. rq' = [rq EXCEPT ![q] = s] /\ UNCHANGED <<row, links, lapsed, listed, hist>>
      BY <1>5 DEF Refresh
    <2>2. s \in Request /\ Judges(s)
      BY <1>0 DEF Request, Judges
    <2>3. QED BY <1>0, <2>1, <2>2, ReadKeeps
  <1>6. QED BY <1>4, <1>5 DEF Refresh, Mail

\* The row is gone: a request that comes too late, or the deletion itself.
LEMMA GoneKeeps ==
  ASSUME NEW q \in Handlers, IInv, Delete(q) \/ NotFound(q)
  PROVE  IInv'
  <1>1. rq' \in [Handlers -> Request] /\ Judged'
    BY GotoKeeps DEF IInv, TypeOK, Delete, NotFound
  <1>2. UNCHANGED <<lapsed, listed, hist>> /\ links' \subseteq Link
    BY DEF IInv, TypeOK, Delete, NotFound
  <1>3. CASE Delete(q)
    <2>1. row' = [NoRow EXCEPT !.status = "deleted"]
      BY <1>3 DEF Delete
    <2>2. row' \in Row /\ row'.status = "deleted" /\ ~row'.enabled
      BY <2>1, IdleTyped DEF NoRow, Row, Statuses, Ended
    <2>3. QED
      BY <1>1, <1>2, <2>2
      DEF IInv, TypeOK, Sound, AuthorIsRequester, PendingIsOpen, EnabledIsActive,
          AnotherApproved, ApprovedAsFound, EndedIsOff, Exists
  <1>4. CASE NotFound(q)
    <2>1. row' = row
      BY <1>4 DEF NotFound
    <2>2. QED
      BY <1>1, <1>2, <2>1
      DEF IInv, TypeOK, Sound, AuthorIsRequester, PendingIsOpen, EnabledIsActive,
          AnotherApproved, ApprovedAsFound, EndedIsOff, Exists
  <1>5. QED BY <1>3, <1>4

\* Every step keeps the invariant.
LEMMA StepKeeps == IInv /\ [Next]_vars => IInv'
  <1> SUFFICES ASSUME IInv, [Next]_vars PROVE IInv'
    OBVIOUS
  <1> USE DEF Handlers
  <1>0. links \subseteq Link /\ lapsed \subseteq Contents /\ listed \in BOOLEAN
    BY DEF IInv, TypeOK
  <1>1. ASSUME NEW q \in Requests, Begin(q) PROVE IInv'
    <2>1. CASE \E a \in Admins : \E c \in Contents : Create(q, a, c)
      BY <2>1, CreateKeeps
    <2>2. CASE \E a \in Admins : \E c \in Contents : ReadForUpdate(q, a, c)
      BY <2>2, ReadForUpdateKeeps
    <2>3. ASSUME NEW a \in Admins,
                 ReadForRejection(q, a) \/ ReadForReview(q, a)
          PROVE  IInv'
      BY <2>3, ReadAnyKeeps DEF ReadForRejection, ReadForReview, Kinds
    <2>4. CASE \E k \in links : OpenLink(q, k)
      BY <2>4, LinkKeeps
    <2>5. CASE Delete(q)
      BY <2>5, GoneKeeps
    <2>6. CASE ReadForApproval(q) \/ \E a \in Admins : ViewPage(q, a)
      BY <2>6, ApprovalKeeps
    <2>7. QED BY <1>1, <2>1, <2>2, <2>3, <2>4, <2>5, <2>6 DEF Begin
  <1>2. ASSUME NEW q \in Handlers, Continue(q) PROVE IInv'
    <2>1. rq[q].content \in Contents \cup {Nothing} /\ rq[q].saw.content \in Contents \cup {Nothing}
          /\ rq[q].action \in {"none", "approve", "reject"}
      BY <1>2 DEF IInv, TypeOK, Request, Row
    <2>2. CASE CommitUpdate(q)
      BY <2>2, UpdateKeeps
    <2>3. CASE Refresh(q) \/ Mail(q)
      BY <2>3, AfterwardsKeep
    <2>4. CASE CommitApproval(q)
      BY <1>0, <2>1, <2>4, DecidesKeeps DEF CommitApproval, At
    <2>5. CASE CommitRejection(q)
      BY <1>0, <2>5, DecidesKeeps DEF CommitRejection, At
    <2>6. CASE FindOthers(q)
      BY <2>6, LinkKeeps
    <2>7. CASE CommitLink(q)
      BY <1>0, <2>1, <2>7, DecidesKeeps DEF CommitLink, At
    <2>8. CASE Revoke(q) \/ Sweep(q)
      BY <2>8, WithdrawnKeeps DEF Revoke, Sweep
    <2>9. CASE NotFound(q)
      BY <2>9, GoneKeeps
    <2>10. QED BY <1>2, <2>2, <2>3, <2>4, <2>5, <2>6, <2>7, <2>8, <2>9 DEF Continue
  <1>3. CASE ReadToSweep
    BY <1>3, ReadAnyKeeps DEF ReadToSweep, Kinds
  <1>4. CASE StartCampaign
    BY <1>0, <1>4, AsideKeeps DEF StartCampaign
  <1>5. CASE \E c \in Contents : TimePasses(c)
    BY <1>0, <1>5, AsideKeeps DEF TimePasses
  <1>6. CASE UNCHANGED vars
    BY <1>0, <1>6, AsideKeeps DEF vars
  <1>7. QED BY <1>1, <1>2, <1>3, <1>4, <1>5, <1>6 DEF Next

\* The invariant holds for ever.
LEMMA Invariance == Spec => []IInv
  BY InitSound, StepKeeps, PTL DEF Spec

(***************************************************************************)
(* Theorems                                                                *)
(***************************************************************************)

\* Every reachable state is well typed, for any number of administrators,
\* contents and requests.
THEOREM TypeCorrect == Spec => []TypeOK
  BY Invariance, PTL DEF IInv

\* The flag every resolver reads and the status people see agree, unless a
\* request was overtaken.
THEOREM FlagIsStatus == Spec => []EnabledIsActive
  BY Invariance, PTL DEF IInv, Sound

\* Four eyes: a grant in force was approved by somebody who did not write it,
\* an exempt role's own grants excepted.
THEOREM FourEyes == Spec => []AnotherApproved
  BY Invariance, PTL DEF IInv, Sound

\* What the handler of the approval found, in the console or behind a link, is
\* what is in force: an edit after it takes the approval away.
THEOREM ContentApproved == Spec => []ApprovedAsFound
  BY Invariance, PTL DEF IInv, Sound

\* What was rejected, revoked or expired is off until somebody edits it.
THEOREM EndedGivesNothing == Spec => []EndedIsOff
  BY Invariance, PTL DEF IInv, Sound
=============================================================================
