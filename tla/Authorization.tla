---------------------------- MODULE Authorization ----------------------------
(***************************************************************************)
(* One grant of access (a row of za_authorizations) in identity-service:   *)
(* an administrator asks for it or edits it, a second one approves or      *)
(* rejects it, in the console or by a link that was mailed; a review       *)
(* revokes it, the sweep expires it.  "enabled" is the one flag that every *)
(* resolver of access reads.                                               *)
(*                                                                         *)
(* Every request reads the row, checks it, awaits and commits: two steps   *)
(* here.  The UPDATE names the row by its id and sets the columns whose    *)
(* value differs from the one that was READ, and those alone.              *)
(***************************************************************************)
CONSTANTS
  Admins,    \* users who pass require_admin
  Exempt,    \* those in a role whose own requests need no approval
  Contents,  \* what a grant may say: who, where, how, until when
  Requests,  \* HTTP requests, each used once
  Sweeper,   \* the housekeeping job, which runs again and again
  Nobody, Nothing

ASSUME AuthorizationAssumption ==
  /\ Exempt \subseteq Admins
  /\ Nobody \notin Admins
  /\ Nothing \notin Contents
  /\ Sweeper \notin Requests

VARIABLES
  row,     \* the row of za_authorizations
  links,   \* za_authz_approval_tokens not used yet, with what the mail said
  rq,      \* the requests, and the sweep
  lapsed,  \* contents whose date_expired is past
  listed,  \* some access review has an item for the grant
  hist     \* history of what is in force, read by the properties only

vars == <<row, links, rq, lapsed, listed, hist>>

-----------------------------------------------------------------------------
(* States *)

Ended    == {"rejected", "revoked", "expired"}
Statuses == Ended \cup {"absent", "pending_approval", "active", "deleted"}
Kinds    == {"none", "update", "approve", "reject", "link",
             "revoke", "sweep"}
Handlers == Requests \cup {Sweeper}

Row == [status : Statuses, enabled : BOOLEAN, content : Contents \cup {Nothing},
        requested_by : Admins \cup {Nobody}, approved_by : Admins \cup {Nobody}]

\* For each approver two links, good for one use.
Link == [to : Admins, action : {"approve", "reject"}, content : Contents]

\* saw is the row as the handler read it, others the links it is to burn; content
\* is what an edit writes, and what the page or the mail said of a request.
Request == [pc : {"idle", "page", "opened", "read", "written", "mailing", "done"}, kind : Kinds,
            actor : Admins \cup {Nobody}, saw : Row,
            content : Contents \cup {Nothing},
            action : {"none", "approve", "reject"}, others : SUBSET Link]

\* author wrote the content; shown is what the approver had read of it, on the
\* page of the console or in the mail, and found what the approving handler read;
\* ended: it was rejected, revoked or expired since it was written; overtaken:
\* see Overtakes.
History == [author : Admins \cup {Nobody},
            shown : Contents \cup {Nothing}, found : Contents \cup {Nothing},
            way : {"none", "exempt", "page", "link"},
            ended : BOOLEAN, overtaken : BOOLEAN]

NoRow == [status |-> "absent", enabled |-> FALSE, content |-> Nothing,
          requested_by |-> Nobody, approved_by |-> Nobody]
Idle  == [pc |-> "idle", kind |-> "none", actor |-> Nobody, saw |-> NoRow,
          content |-> Nothing, action |-> "none", others |-> {}]

Init ==
  /\ row = NoRow
  /\ links = {}
  /\ rq = [q \in Handlers |-> Idle]
  /\ lapsed = {}
  /\ listed = FALSE
  /\ hist = [author |-> Nobody, shown |-> Nothing, found |-> Nothing, way |-> "none",
             ended |-> FALSE, overtaken |-> FALSE]

Exists == row.status \notin {"absent", "deleted"}

-----------------------------------------------------------------------------
(* Reading and writing *)

Read(q, kind, a) ==
  /\ rq[q].pc = "idle"
  /\ rq' = [rq EXCEPT ![q] = [Idle EXCEPT !.pc = "read", !.kind = kind, !.actor = a, !.saw = row]]
  /\ UNCHANGED <<row, links, lapsed, listed, hist>>

At(q, pc, kind) == rq[q].pc = pc /\ rq[q].kind = kind
Goto(q, pc) == rq' = [rq EXCEPT ![q] = IF q = Sweeper THEN Idle ELSE [Idle EXCEPT !.pc = pc]]

\* One column of an UPDATE: the new value, if it is not the one read.
Column(saw, new, now) == IF new = saw THEN now ELSE new

Save(q, new) ==
  LET saw == rq[q].saw
  IN  row' = [status       |-> Column(saw.status, new.status, row.status),
              enabled      |-> Column(saw.enabled, new.enabled, row.enabled),
              content      |-> Column(saw.content, new.content, row.content),
              requested_by |-> Column(saw.requested_by, new.requested_by, row.requested_by),
              approved_by  |-> Column(saw.approved_by, new.approved_by, row.approved_by)]

\* Somebody wrote the row between the read and the write of q.
Overtakes(q) == row # rq[q].saw

\* The row was deleted meanwhile: the UPDATE matches nothing, the request fails.
NotFound(q) ==
  /\ rq[q].pc \in {"opened", "read"}
  /\ ~Exists
  /\ Goto(q, "done")
  /\ UNCHANGED <<row, links, lapsed, listed, hist>>

-----------------------------------------------------------------------------
(* Asking for a grant: _apply_and_require_reapproval *)

\* Bug: an edit leaves the approval standing.
RequestedKeeping(old, a, c) ==
  [old EXCEPT !.content = c, !.requested_by = a,
              !.status = IF a \in Exempt THEN "active"
                         ELSE IF old = NoRow THEN "pending_approval" ELSE @,
              !.enabled = a \in Exempt \/ @,
              !.approved_by = IF a \in Exempt THEN a ELSE @]

Requested(old, a, c) ==
  IF a \in Exempt
    THEN [status |-> "active", enabled |-> TRUE, content |-> c,
          requested_by |-> a, approved_by |-> a]
    ELSE [status |-> "pending_approval", enabled |-> FALSE, content |-> c,
          requested_by |-> a, approved_by |-> Nobody]

Written(a, c, overtaken) ==
  hist' = [author |-> a, ended |-> FALSE, overtaken |-> overtaken,
           shown |-> IF a \in Exempt THEN c ELSE hist.shown,
           found |-> IF a \in Exempt THEN c ELSE hist.found,
           way |-> IF a \in Exempt THEN "exempt" ELSE hist.way]

Create(q, a, c) ==
  /\ rq[q].pc = "idle" /\ row.status = "absent"
  /\ row' = Requested(NoRow, a, c)
  /\ Written(a, c, FALSE)
  /\ Goto(q, "written")
  /\ UNCHANGED <<links, lapsed, listed>>

ReadForUpdate(q, a, c) ==
  /\ rq[q].pc = "idle" /\ Exists
  /\ rq' = [rq EXCEPT ![q] = [Idle EXCEPT !.pc = "read", !.kind = "update", !.actor = a,
                                          !.saw = row, !.content = c]]
  /\ UNCHANGED <<row, links, lapsed, listed, hist>>

CommitUpdate(q) ==
  /\ At(q, "read", "update") /\ Exists
  /\ Save(q, Requested(rq[q].saw, rq[q].actor, rq[q].content))
  /\ Written(rq[q].actor, rq[q].content, Overtakes(q))
  /\ Goto(q, "written")
  /\ UNCHANGED <<links, lapsed, listed>>

\* After its commit a request reads the row again, writes its audit entry and
\* mails what it then has in hand to everybody who could approve it.  Old links
\* stay as they are.
Refresh(q) ==
  /\ rq[q].pc = "written"
  /\ IF row.status = "pending_approval"
       THEN rq' = [rq EXCEPT ![q] = [@ EXCEPT !.pc = "mailing", !.saw = row]]
       ELSE Goto(q, "done")
  /\ UNCHANGED <<row, links, lapsed, listed, hist>>

Links(saw) ==
  {k \in Link : k.to # saw.requested_by /\ k.content = saw.content}

\* Mail is best effort.
Mail(q) ==
  /\ rq[q].pc = "mailing"
  /\ \/ Exists /\ links' = links \cup Links(rq[q].saw)
     \/ links' = links
  /\ Goto(q, "done")
  /\ UNCHANGED <<row, lapsed, listed, hist>>

-----------------------------------------------------------------------------
(* Deciding on it *)

\* Bug: the action of the link becomes the status.
DecidedByAction(old, a, action) ==
  [old EXCEPT !.status = action, !.enabled = action = "approve", !.approved_by = a]

Decided(old, a, action) ==
  IF action = "approve"
    THEN [old EXCEPT !.status = "active", !.enabled = TRUE, !.approved_by = a]
    ELSE [old EXCEPT !.status = "rejected", !.enabled = FALSE, !.approved_by = a]

Decides(q, action, way) ==
  /\ Save(q, Decided(rq[q].saw, rq[q].actor, action))
  /\ hist' = [hist EXCEPT !.overtaken = @ \/ Overtakes(q),
                          !.ended = @ \/ action = "reject",
                          !.shown = IF action = "approve" THEN rq[q].content ELSE @,
                          !.found = IF action = "approve" THEN rq[q].saw.content ELSE @,
                          !.way = IF action = "approve" THEN way ELSE @]
  /\ Goto(q, "done")

\* Bug: the requester is not asked after.
MayDecideAnyone(a) == row.status = "pending_approval"

\* Bug: a request may be decided again.
MayDecideAgain(a) == Exists /\ a # row.requested_by

\* The checks of approve and reject: never one's own request.
MayDecide(a) == row.status = "pending_approval" /\ a # row.requested_by

\* An administrator has the request on a page of the console.
ViewPage(q, a) ==
  /\ rq[q].pc = "idle" /\ MayDecide(a)
  /\ rq' = [rq EXCEPT ![q] = [Idle EXCEPT !.pc = "page", !.kind = "approve", !.actor = a,
                                          !.content = row.content]]
  /\ UNCHANGED <<row, links, lapsed, listed, hist>>

\* The button of the page sends the id, and nothing of what the page showed.
ReadForApproval(q) ==
  /\ At(q, "page", "approve") /\ MayDecide(rq[q].actor)
  /\ rq' = [rq EXCEPT ![q] = [@ EXCEPT !.pc = "read", !.saw = row]]
  /\ UNCHANGED <<row, links, lapsed, listed, hist>>

CommitApproval(q) ==
  /\ At(q, "read", "approve") /\ Exists
  /\ Decides(q, "approve", "page")
  /\ UNCHANGED <<links, lapsed, listed>>

ReadForRejection(q, a) == MayDecide(a) /\ Read(q, "reject", a)

CommitRejection(q) ==
  /\ At(q, "read", "reject") /\ Exists
  /\ Decides(q, "reject", "page")
  /\ UNCHANGED <<links, lapsed, listed>>

\* The confirm button on the page behind a link: the token is found unused,
\* and the request as it is NOW is checked.
OpenLink(q, k) ==
  /\ rq[q].pc = "idle" /\ k \in links
  /\ MayDecide(k.to)
  /\ rq' = [rq EXCEPT ![q] = [pc |-> "opened", kind |-> "link", actor |-> k.to, saw |-> row,
                              content |-> k.content, action |-> k.action, others |-> {k}]]
  /\ UNCHANGED <<row, links, lapsed, listed, hist>>

\* The other links of the grant, to be burnt with this one.
FindOthers(q) ==
  /\ At(q, "opened", "link")
  /\ rq' = [rq EXCEPT ![q].pc = "read", ![q].others = @ \cup links]
  /\ UNCHANGED <<row, links, lapsed, listed, hist>>

CommitLink(q) ==
  /\ At(q, "read", "link") /\ Exists
  /\ Decides(q, rq[q].action, "link")
  /\ links' = links \ rq[q].others
  /\ UNCHANGED <<lapsed, listed>>

-----------------------------------------------------------------------------
(* Ending it *)

Withdrawn(q, status) ==
  /\ Save(q, [rq[q].saw EXCEPT !.status = status, !.enabled = FALSE])
  /\ hist' = [hist EXCEPT !.overtaken = @ \/ Overtakes(q), !.ended = TRUE]
  /\ Goto(q, "done")
  /\ UNCHANGED <<links, lapsed, listed>>

\* A campaign lists the grants that are enabled.
StartCampaign ==
  /\ row.enabled /\ ~listed
  /\ listed' = TRUE
  /\ UNCHANGED <<row, links, rq, lapsed, hist>>

\* A decision may come long after, and again.  ("keep" leaves the grant alone.)
ReadForReview(q, a) == listed /\ Exists /\ Read(q, "revoke", a)
Revoke(q) == At(q, "read", "revoke") /\ Exists /\ Withdrawn(q, "revoked")

\* (Of a content that is not written yet, the date is past right after.)
TimePasses(c) ==
  /\ c = row.content /\ c \notin lapsed
  /\ lapsed' = lapsed \cup {c}
  /\ UNCHANGED <<row, links, rq, listed, hist>>

\* Bug: the sweep looks for what is called active.
ReadToSweepActive ==
  /\ row.status = "active" /\ row.content \in lapsed
  /\ Read(Sweeper, "sweep", Nobody)

ReadToSweep ==
  /\ Exists /\ row.enabled /\ row.content \in lapsed
  /\ Read(Sweeper, "sweep", Nobody)

\* Bug: the label changes, the flag does not.
SweepLabel(q) ==
  /\ At(q, "read", "sweep") /\ Exists
  /\ Save(q, [rq[q].saw EXCEPT !.status = "expired"])
  /\ hist' = [hist EXCEPT !.overtaken = @ \/ Overtakes(q), !.ended = TRUE]
  /\ Goto(q, "done")
  /\ UNCHANGED <<links, lapsed, listed>>

Sweep(q) == At(q, "read", "sweep") /\ Exists /\ Withdrawn(q, "expired")

\* The links go with the row.  (Nothing that was read is written, so one step.)
Delete(q) ==
  /\ rq[q].pc = "idle" /\ Exists
  /\ row' = [NoRow EXCEPT !.status = "deleted"]
  /\ links' = {}
  /\ Goto(q, "done")
  /\ UNCHANGED <<lapsed, listed, hist>>

-----------------------------------------------------------------------------
(* The specification *)

Begin(q) ==
  \/ \E a \in Admins :
       \/ \E c \in Contents : Create(q, a, c) \/ ReadForUpdate(q, a, c)
       \/ ViewPage(q, a) \/ ReadForRejection(q, a)
       \/ ReadForReview(q, a)
  \/ \E k \in links : OpenLink(q, k)
  \/ ReadForApproval(q)
  \/ Delete(q)

Continue(q) ==
  \/ CommitUpdate(q) \/ Refresh(q) \/ Mail(q)
  \/ CommitApproval(q) \/ CommitRejection(q) \/ FindOthers(q) \/ CommitLink(q)
  \/ Revoke(q) \/ Sweep(q) \/ NotFound(q)

Next ==
  \/ \E q \in Requests : Begin(q)
  \/ ReadToSweep
  \/ \E q \in Handlers : Continue(q)
  \/ StartCampaign
  \/ \E c \in Contents : TimePasses(c)

Spec == Init /\ [][Next]_vars

\* The event loop goes on with a request whose await is over; housekeeping
\* calls the sweep on its schedule.
FairSpec ==
  /\ Spec
  /\ \A q \in Handlers : WF_vars(Continue(q))
  /\ WF_vars(ReadToSweep)

-----------------------------------------------------------------------------
(* Properties *)

TypeOK ==
  /\ row \in Row
  /\ links \subseteq Link
  /\ rq \in [Handlers -> Request]
  /\ lapsed \subseteq Contents
  /\ listed \in BOOLEAN
  /\ hist \in History

\* The flag that gives access and the status that people read agree, unless a
\* request was overtaken between its read and its write.
EnabledIsActive == row.enabled /\ ~hist.overtaken => row.status = "active"

\* Whoever wrote what is in force did not approve it, exempt roles excepted:
\* by no order of edits, approvals in the console, links of any age, reviews
\* and sweeps, as long as none overtakes another.
AnotherApproved ==
  row.enabled /\ ~hist.overtaken /\ hist.way # "exempt" =>
    /\ row.approved_by # Nobody
    /\ row.approved_by # hist.author

\* What is in force is what the handler of its approval found in the row, in the
\* console or behind a link: every edit since then took the approval away.  (It is
\* not what the approver was shown: see ChangesAreSeen.)
ApprovedAsFound == row.enabled /\ ~hist.overtaken => row.content = hist.found

\* A grant that was rejected, revoked or expired gives no access until it is
\* edited: no link, campaign or second decision brings it back.
EndedIsOff == hist.ended /\ ~hist.overtaken => ~row.enabled

\* Once its date is past a grant does not stay enabled, even one whose status
\* and flag disagree.
LapsedIsDisabled ==
  row.enabled /\ row.content \in lapsed ~> ~row.enabled \/ row.content \notin lapsed

-----------------------------------------------------------------------------
(* What the repository says, and the code does not do *)

\* authorizations.py says of an edit that it re-opens approval, for otherwise a
\* grant could be widened with no second reviewer ever seeing the real change.
\* An edit while the approver has the page open is not seen, though no handler
\* overtakes another; nor is one between the mail and its link.
ChangesAreSeen ==
  row.enabled /\ ~hist.overtaken /\ hist.way = "page" => row.content = hist.shown
=============================================================================
