---------------------------- MODULE JobRunProofs ----------------------------
(***************************************************************************)
(* Proofs about JobRun, for any number of runs, templates, handlers,       *)
(* retries, faults and edits.                                              *)
(***************************************************************************)
EXTENDS JobRun, TLAPS

USE DEF Live, Finished, Absent, Statuses, Creating, Guarded, Deciding, Kinds,
        Tasked, Ends, Results

(* What a handler is at work on, and what its two halves pass each other. *)

\* A handler about to insert holds a run of its own, with no approval yet,
\* held if its targets were production (a re-run excepted).
Reserved ==
  \A h \in Handlers : hd[h].pc = "checked" /\ hd[h].kind \in Creating =>
    /\ hd[h].run \in Runs /\ hd[h].template \in Templates
    /\ row[hd[h].run].status = "absent"
    /\ \A k \in Handlers : k # h /\ InFlight(k) => hd[k].run # hd[h].run
    /\ ~hist[hd[h].run].approved
    /\ hd[h].kind # "rerun" /\ hist[hd[h].run].production => hd[h].held

\* Every other handler in flight works on a run that was inserted.
Attached ==
  \A h \in Handlers : InFlight(h) =>
    /\ hd[h].run \in Runs
    /\ hd[h].kind \in Creating \cup Deciding
    /\ hd[h].pc \in Tasked \/ hd[h].kind \in Deciding
         => row[hd[h].run].status # "absent"

\* A task belongs to a run that was cleared.
TasksCleared ==
  \A h \in Handlers : hd[h].pc \in Tasked =>
    (hist[hd[h].run].held => hist[hd[h].run].approved)

\* Production was held at the insert.
ProductionHeld ==
  \A r \in Runs :
    row[r].status # "absent" /\ row[r].trigger # "rerun" /\ hist[r].production
      => hist[r].held

\* A row that was inserted names a template.
RowsHaveTemplates ==
  \A r \in Runs : row[r].status # "absent" => row[r].template \in Templates

\* A task that writes its run back has a result to write.
ResultsKnown ==
  \A h \in Handlers : hd[h].pc = "settle" => hd[h].result \in Results

IInv ==
  /\ TypeOK
  /\ Reserved
  /\ Attached
  /\ TasksCleared
  /\ ProductionHeld
  /\ RowsHaveTemplates
  /\ ResultsKnown

(***************************************************************************)
(* Types                                                                   *)
(***************************************************************************)

\* The records the handlers are set to have the type of a handler.
LEMMA HandlerRecords ==
  ASSUME TypeOK, NEW h \in Handlers
  PROVE  /\ \A pc \in Ends : Over(h, pc) \in Handler
         /\ hd[h].run \in Runs => Dispatch(h) \in Handler
         /\ \A kind \in Kinds : Attempts(kind) \in Nat
  <1>1. \A pc \in Ends : Over(h, pc) \in Handler
    BY DEF TypeOK, Over, Handler, Idle
  <1>2. Dispatch(h) \in Handler
    BY <1>1 DEF TypeOK, Dispatch, Handler
  <1>3. \A kind \in Kinds : Attempts(kind) \in Nat
    BY ConstantsAssumption DEF Attempts
  <1>4. QED BY <1>1, <1>2, <1>3

\* Accepting a request keeps the types.
LEMMA AcceptTypes ==
  ASSUME TypeOK, NEW h \in Handlers, NEW kind \in Kinds, NEW r \in Runs,
         NEW t \in Templates, NEW held \in BOOLEAN, Accept(h, kind, r, t, held)
  PROVE  TypeOK'
  <1>1. tmpl[t] \in Template
    BY DEF TypeOK
  <1> DEFINE executor == kind = "chain" \/ tmpl[t].executor
             new == [pc |-> "checked", kind |-> kind, run |-> r, template |-> t,
                     held |-> held, executor |-> executor,
                     left |-> Attempts(kind), result |-> "none"]
  <1>2. /\ executor \in BOOLEAN
        /\ hd' = [hd EXCEPT ![h] = new]
    BY <1>1 DEF Template, Accept
  <1> HIDE DEF executor
  <1>3. hd' \in [Handlers -> Handler]
    <2>1. new \in Handler
      BY <1>2, HandlerRecords DEF Handler
    <2> HIDE DEF new
    <2>2. QED BY <1>2, <2>1 DEF TypeOK
  <1>4. [NoHistory EXCEPT !.production = tmpl[t].production] \in History
    BY <1>1 DEF History, NoHistory, Template
  <1>5. hist' \in [Runs -> History]
    BY <1>4 DEF Accept, TypeOK
  <1>6. QED
    BY <1>3, <1>5 DEF Accept, TypeOK

\* So does writing a status.
LEMMA WriteTypes ==
  ASSUME TypeOK, NEW r \in Runs, NEW status \in Statuses, Write(r, status)
  PROVE  /\ row' \in [Runs -> Row]
         /\ hist' \in [Runs -> History]
  <1>1. row[r] \in Row /\ hist[r] \in History
    BY DEF TypeOK
  <1>2. [row[r] EXCEPT !.status = status] \in Row
    BY <1>1 DEF Row
  <1>3. row' \in [Runs -> Row]
    BY <1>2 DEF Write, TypeOK
  <1>4. [hist[r] EXCEPT !.revived =
            @ \/ (row[r].status \notin Live /\ status \in Live)] \in History
    BY <1>1 DEF History
  <1>5. hist' \in [Runs -> History]
    BY <1>4 DEF Write, TypeOK
  <1>6. QED BY <1>3, <1>5

\* The invariant holds at the start.
LEMMA InitInvariant == Init => IInv
  <1>1. Init => TypeOK
    BY ConstantsAssumption
       DEF Init, TypeOK, NoRow, Row, Idle, Handler, NoHistory, History, Template
  <1>2. QED
    BY <1>1 DEF Init, IInv, Reserved, Attached, TasksCleared, ProductionHeld,
                RowsHaveTemplates, ResultsKnown, Idle, NoRow, InFlight

(***************************************************************************)
(* One lemma per kind of step                                              *)
(***************************************************************************)

\* A request that passed its checks: run r was fresh, so nobody else is at
\* work on it and no row changes.
LEMMA AcceptKeeps ==
  ASSUME IInv, NEW h \in Handlers, NEW kind \in Creating, NEW r \in Runs,
         NEW t \in Templates, NEW held \in BOOLEAN,
         hd[h].pc = "idle", Fresh(r),
         kind # "rerun" /\ tmpl[t].production => held,
         Accept(h, kind, r, t, held)
  PROVE  IInv'
  <1>1. TypeOK'
    BY AcceptTypes DEF IInv
  <1>2. /\ hd' = [hd EXCEPT ![h] = hd'[h]]
        /\ hd'[h].pc = "checked" /\ hd'[h].kind = kind /\ hd'[h].run = r
        /\ hd'[h].template = t /\ hd'[h].held = held
        /\ row' = row
    BY DEF Accept, IInv, TypeOK
  <1>3. /\ hist' = [hist EXCEPT ![r] = hist'[r]]
        /\ hist'[r].production = tmpl[t].production
        /\ hist'[r].approved = FALSE
    BY DEF Accept, IInv, TypeOK, NoHistory
  <1>4. \A k \in Handlers : k # h => hd'[k] = hd[k]
    BY <1>2 DEF IInv, TypeOK
  <1>5. \A q \in Runs : q # r => hist'[q] = hist[q]
    BY <1>3 DEF IInv, TypeOK
  <1>6. \A k \in Handlers : k # h /\ InFlight(k) => hd[k].run \in Runs /\ hd[k].run # r
    BY DEF Fresh, IInv, Attached
  <1>7. Reserved'
    BY <1>2, <1>3, <1>4, <1>5, <1>6 DEF Reserved, IInv, InFlight, Fresh
  <1>8. Attached'
    BY <1>2, <1>4 DEF Attached, IInv, InFlight
  <1>9. TasksCleared'
    BY <1>2, <1>4, <1>5, <1>6 DEF TasksCleared, IInv, InFlight
  <1>10. ProductionHeld' /\ RowsHaveTemplates' /\ ResultsKnown'
    BY <1>2, <1>4, <1>5 DEF ProductionHeld, RowsHaveTemplates, ResultsKnown,
                            IInv, Fresh
  <1>11. QED
    BY <1>1, <1>7, <1>8, <1>9, <1>10 DEF IInv

\* A decision that passed its checks: only its handler changes.
LEMMA ReadKeeps ==
  ASSUME IInv, NEW h \in Handlers, NEW kind \in Deciding, NEW r \in Runs,
         Exists(r), Read(h, kind, r)
  PROVE  IInv'
  <1>1. row[r].template \in Templates /\ row[r].status # "absent"
    BY DEF IInv, RowsHaveTemplates, Exists
  <1>2. tmpl[row[r].template].executor \in BOOLEAN
    BY <1>1 DEF IInv, TypeOK, Template
  <1>3. [pc |-> "checked", kind |-> kind, run |-> r, template |-> row[r].template,
         held |-> FALSE,
         executor |-> kind = "approve" /\ tmpl[row[r].template].executor,
         left |-> Attempts(kind), result |-> "none"] \in Handler
    BY <1>1, <1>2, HandlerRecords DEF Handler, IInv
  <1>4. TypeOK'
    BY <1>3 DEF Read, IInv, TypeOK
  <1>5. /\ hd'[h].pc = "checked" /\ hd'[h].kind = kind /\ hd'[h].run = r
        /\ \A k \in Handlers : k # h => hd'[k] = hd[k]
        /\ row' = row /\ hist' = hist
    BY DEF Read, IInv, TypeOK
  <1>6. \A k \in Handlers : hd[k].pc = "checked" /\ hd[k].kind \in Creating => hd[k].run # r
    BY <1>1 DEF IInv, Reserved
  <1>7. Reserved'
    BY <1>5, <1>6 DEF Reserved, IInv, InFlight
  <1>8. Attached'
    BY <1>1, <1>5 DEF Attached, IInv, InFlight
  <1>9. TasksCleared' /\ ProductionHeld' /\ RowsHaveTemplates' /\ ResultsKnown'
    BY <1>5 DEF TasksCleared, ProductionHeld, RowsHaveTemplates, ResultsKnown, IInv
  <1>10. QED
    BY <1>4, <1>7, <1>8, <1>9 DEF IInv

\* What the steps after the insert leave as it is in the rows and histories.
RowsKept ==
  /\ \A r \in Runs :
       /\ row'[r].status = "absent" <=> row[r].status = "absent"
       /\ row'[r].template = row[r].template /\ row'[r].trigger = row[r].trigger
  /\ \A r \in Runs :
       /\ hist'[r].production = hist[r].production /\ hist'[r].held = hist[r].held
       /\ hist[r].approved => hist'[r].approved
       /\ row[r].status = "absent" => hist'[r].approved = hist[r].approved

\* Handler h works on, or ends its work on, a run that was inserted.
LEMMA WorkKeeps ==
  ASSUME IInv, TypeOK', RowsKept, NEW h \in Handlers,
         InFlight(h), hd[h].pc = "checked" => hd[h].kind \in Deciding,
         \A k \in Handlers : k # h => hd'[k] = hd[k],
         hd'[h].pc # "checked", hd'[h].pc = "settle" => hd'[h].result \in Results,
         hd'[h].pc \in Tasked => /\ hd'[h].run = hd[h].run
                                 /\ hd'[h].kind = hd[h].kind
                                 /\ hd[h].pc \in Tasked \/ hist'[hd[h].run].approved
  PROVE  IInv'
  <1>1. /\ hd[h].run \in Runs /\ hd[h].kind \in Creating \cup Deciding
        /\ row[hd[h].run].status # "absent"
    BY DEF IInv, Attached, InFlight
  <1>2. \A k \in Handlers : k # h => (InFlight(k)' <=> InFlight(k))
    BY DEF InFlight
  <1>3. InFlight(h)' => hd'[h].run = hd[h].run
    BY DEF InFlight
  <1>4. Reserved'
    BY <1>2, <1>3 DEF Reserved, IInv, RowsKept
  <1>5. Attached'
    BY <1>1, <1>2, <1>3 DEF Attached, IInv, RowsKept, InFlight
  <1>6. \A k \in Handlers : hd[k].pc \in Tasked => hd[k].run \in Runs
    BY DEF IInv, Attached, InFlight
  <1>7. TasksCleared'
    BY <1>1, <1>6 DEF TasksCleared, IInv, RowsKept
  <1>8. ProductionHeld' /\ RowsHaveTemplates' /\ ResultsKnown'
    BY DEF ProductionHeld, RowsHaveTemplates, ResultsKnown, IInv, RowsKept
  <1>9. QED
    BY <1>4, <1>5, <1>7, <1>8 DEF IInv

\* A written status, of a row that exists, keeps the rows.
LEMMA WriteKeepsRows ==
  ASSUME IInv, NEW r \in Runs, NEW status \in Statuses \ {"absent"},
         Exists(r), Write(r, status)
  PROVE  RowsKept
  BY DEF Write, RowsKept, Exists, IInv, TypeOK, Row, History

\* What the insert writes to the histories.
LEMMA InsertHistory ==
  ASSUME IInv, NEW h \in Handlers, Insert(h), NEW q \in Runs
  PROVE  /\ hist'[q] \in History
         /\ hist'[q].production = hist[q].production
         /\ hist'[q].approved = hist[q].approved
         /\ hist'[q].held = IF q = hd[h].run THEN hd[h].held ELSE hist[q].held
  <1> DEFINE b == IF q = hd[h].run THEN hd[h].held ELSE hist[q].held
             c == hist[q].overtaken \/ Overtaken(h, q)
  <1>1. hist[q] \in History /\ hd[h].held \in BOOLEAN
    BY DEF IInv, TypeOK, Handler
  <1>2. b \in BOOLEAN
    BY <1>1 DEF History
  <1>3. c \in BOOLEAN
    BY <1>1 DEF History, Overtaken
  <1>4. hist'[q] = [hist[q] EXCEPT !.held = b, !.overtaken = c]
    BY DEF Insert
  <1>5. b = IF q = hd[h].run THEN hd[h].held ELSE hist[q].held
    OBVIOUS
  <1> HIDE DEF b, c
  <1>6. QED
    BY <1>1, <1>2, <1>3, <1>4, <1>5 DEF History

\* The commit of a new row.
LEMMA InsertKeeps ==
  ASSUME IInv, NEW h \in Handlers, Insert(h)
  PROVE  IInv'
  <1> DEFINE r == hd[h].run
  <1>1. /\ hd[h].pc = "checked" /\ hd[h].kind \in Creating
        /\ r \in Runs /\ hd[h].template \in Templates
        /\ row[r].status = "absent" /\ ~hist[r].approved
        /\ hd[h].held \in BOOLEAN /\ hd[h] \in Handler
        /\ hd[h].kind # "rerun" /\ hist[r].production => hd[h].held
        /\ \A k \in Handlers : k # h /\ InFlight(k) => hd[k].run # r
    BY DEF Insert, IInv, Reserved, TypeOK, Handler
  <1>2. \A k \in Handlers : k # h => hd'[k] = hd[k]
    BY DEF Insert, IInv, TypeOK
  <1>3. /\ hd'[h] \in Handler
        /\ hd[h].held => hd'[h].pc = "done"
        /\ ~hd[h].held => hd'[h].pc \in {"queued", "undispatched"}
        /\ hd'[h].pc = "queued" => hd'[h].run = r /\ hd'[h].kind = hd[h].kind
    <2>1. hd'[h] = IF hd[h].held THEN Over(h, "done") ELSE Dispatch(h)
      BY DEF Insert, IInv, TypeOK
    <2>2. Over(h, "done") \in Handler /\ Dispatch(h) \in Handler
      BY <1>1, HandlerRecords DEF IInv
    <2>3. /\ Over(h, "done").pc = "done" /\ Over(h, "undispatched").pc = "undispatched"
          /\ [hd[h] EXCEPT !.pc = "queued"].pc = "queued"
          /\ [hd[h] EXCEPT !.pc = "queued"].run = r
          /\ [hd[h] EXCEPT !.pc = "queued"].kind = hd[h].kind
      BY <1>1 DEF Over, Idle, Handler
    <2>4. QED
      BY <1>1, <2>1, <2>2, <2>3 DEF Dispatch
  <1>4. /\ \A q \in Runs : q # r => row'[q] = row[q]
        /\ row'[r].status # "absent" /\ row'[r].template = hd[h].template
        /\ row'[r].trigger = hd[h].kind /\ row'[r] \in Row
    BY <1>1 DEF Insert, IInv, TypeOK, Row
  <1>5. \A q \in Runs :
          /\ hist'[q] \in History
          /\ hist'[q].production = hist[q].production
          /\ hist'[q].approved = hist[q].approved
          /\ hist'[q].held = IF q = r THEN hd[h].held ELSE hist[q].held
    BY InsertHistory
  <1>6. TypeOK'
    <2>1. row' \in [Runs -> Row]
      BY <1>1, <1>4 DEF Insert, IInv, TypeOK
    <2>2. hd' \in [Handlers -> Handler]
      BY <1>3 DEF Insert, IInv, TypeOK
    <2>3. hist' \in [Runs -> History]
      BY <1>5 DEF Insert
    <2>4. QED
      BY <2>1, <2>2, <2>3 DEF Insert, IInv, TypeOK
  <1>7. Reserved'
    BY <1>1, <1>2, <1>3, <1>4, <1>5 DEF Reserved, IInv, InFlight
  <1>8. Attached'
    BY <1>1, <1>2, <1>3, <1>4 DEF Attached, IInv, InFlight
  <1>9. \A k \in Handlers : k # h /\ hd[k].pc \in Tasked => hd[k].run \in Runs /\ hd[k].run # r
    BY <1>1 DEF IInv, Attached, InFlight
  <1>10. TasksCleared'
    BY <1>1, <1>2, <1>3, <1>5, <1>9 DEF TasksCleared, IInv
  <1>11. ProductionHeld' /\ RowsHaveTemplates' /\ ResultsKnown'
    BY <1>1, <1>2, <1>3, <1>4, <1>5
       DEF ProductionHeld, RowsHaveTemplates, ResultsKnown, IInv
  <1>12. QED
    BY <1>6, <1>7, <1>8, <1>10, <1>11 DEF IInv

\* The commit of an approval keeps the invariant, whatever happened since the read.
LEMMA ApprovalKeeps ==
  ASSUME IInv, NEW h \in Handlers, CommitApproval(h)
  PROVE  IInv'
  <1> DEFINE r == hd[h].run
  <1>1. /\ hd[h].pc = "checked" /\ hd[h].kind \in Deciding /\ InFlight(h)
        /\ r \in Runs /\ hd[h] \in Handler
    BY DEF CommitApproval, IInv, Attached, TypeOK, InFlight
  <1>2. \A k \in Handlers : k # h => hd'[k] = hd[k]
    BY DEF CommitApproval, IInv, TypeOK
  <1>3. Over(h, "done") \in Handler /\ Over(h, "done").pc = "done"
        /\ Over(h, "undispatched").pc = "undispatched" /\ Dispatch(h) \in Handler
    BY <1>1, HandlerRecords DEF IInv, Over, Idle
  <1>4. CASE Exists(r)
    <2>1. hd' = [hd EXCEPT ![h] = Dispatch(h)] /\ hd'[h] = Dispatch(h)
      BY <1>4 DEF CommitApproval, IInv, TypeOK
    <2>2. /\ hd'[h].pc \in {"queued", "undispatched"}
          /\ hd'[h].pc = "queued" => hd'[h].run = r /\ hd'[h].kind = hd[h].kind
      BY <1>1, <1>3, <2>1 DEF Dispatch, Handler
    <2> DEFINE c == hist[r].revived \/ row[r].status \notin Live
               new == [hist[r] EXCEPT !.approved = TRUE, !.revived = c]
    <2>3. /\ hist' = [hist EXCEPT ![r] = new]
          /\ row' = [row EXCEPT ![r].status = "pending"]
          /\ UNCHANGED <<tmpl, due, faults, edits>>
      BY <1>4 DEF CommitApproval
    <2>4. /\ new \in History /\ new.approved
          /\ new.held = hist[r].held /\ new.production = hist[r].production
      <3>1. hist[r] \in History
        BY <1>1 DEF IInv, TypeOK
      <3>2. c \in BOOLEAN
        BY <3>1 DEF History
      <3> HIDE DEF c
      <3>3. QED BY <3>1, <3>2 DEF History
    <2> HIDE DEF new
    <2>5. hist'[r].approved /\ RowsKept
      BY <1>1, <1>4, <2>3, <2>4 DEF RowsKept, Exists, IInv, TypeOK, Row
    <2>6. row' \in [Runs -> Row] /\ hist' \in [Runs -> History]
      BY <1>1, <2>3, <2>4 DEF IInv, TypeOK, Row
    <2>7. TypeOK'
      BY <1>3, <2>1, <2>3, <2>6 DEF IInv, TypeOK
    <2>8. QED
      BY <1>1, <1>2, <2>2, <2>5, <2>7, WorkKeeps
  <1>5. CASE ~Exists(r)
    <2>1. hd'[h] = Over(h, "done") /\ row' = row /\ hist' = hist
      BY <1>5 DEF CommitApproval, IInv, TypeOK
    <2>2. TypeOK'
      BY <1>3, <1>5, <2>1 DEF CommitApproval, IInv, TypeOK
    <2>3. RowsKept
      BY <2>1 DEF RowsKept
    <2>4. QED
      BY <1>1, <1>2, <1>3, <2>1, <2>2, <2>3, WorkKeeps
  <1>6. QED BY <1>4, <1>5

\* A step of h that writes a status if the row is still there, and ends.
LEMMA EndKeeps ==
  ASSUME IInv, NEW h \in Handlers, NEW status \in Statuses \ {"absent"},
         InFlight(h), hd[h].pc = "checked" => hd[h].kind \in Deciding,
         IF Exists(hd[h].run) THEN Write(hd[h].run, status) ELSE UNCHANGED <<row, hist>>,
         hd' = [hd EXCEPT ![h] = Over(h, "done")],
         UNCHANGED <<tmpl, due, faults, edits>>
  PROVE  IInv'
  <1>1. hd[h].run \in Runs
    BY DEF IInv, Attached
  <1>2. Over(h, "done") \in Handler /\ Over(h, "done").pc = "done"
    BY HandlerRecords DEF IInv, Over, Idle
  <1>3. /\ \A k \in Handlers : k # h => hd'[k] = hd[k]
        /\ hd'[h] = Over(h, "done")
        /\ hd' \in [Handlers -> Handler]
    BY <1>2 DEF IInv, TypeOK
  <1>4. row' \in [Runs -> Row] /\ hist' \in [Runs -> History] /\ RowsKept
    <2>1. CASE Exists(hd[h].run)
      BY <1>1, <2>1, WriteTypes, WriteKeepsRows DEF IInv
    <2>2. CASE ~Exists(hd[h].run)
      BY <2>2 DEF RowsKept, IInv, TypeOK
    <2>3. QED BY <2>1, <2>2
  <1>5. TypeOK'
    BY <1>3, <1>4 DEF IInv, TypeOK
  <1>6. QED
    BY <1>2, <1>3, <1>4, <1>5, WorkKeeps

\* A handler that ends without touching a row.
LEMMA LeaveKeeps ==
  ASSUME IInv, NEW h \in Handlers, NEW pc \in Ends,
         hd' = [hd EXCEPT ![h] = Over(h, pc)],
         UNCHANGED <<tmpl, due, row, edits, hist>>, faults' \in 0..MaxFaults
  PROVE  IInv'
  <1>1. Over(h, pc) \in Handler /\ Over(h, pc).pc = pc
    BY HandlerRecords DEF IInv, Over, Idle
  <1>2. /\ \A k \in Handlers : k # h => hd'[k] = hd[k]
        /\ hd'[h] = Over(h, pc)
        /\ hd' \in [Handlers -> Handler]
    BY <1>1 DEF IInv, TypeOK
  <1>3. ~InFlight(h)'
    BY <1>1, <1>2 DEF InFlight
  <1>4. TypeOK'
    BY <1>2 DEF IInv, TypeOK
  <1>5. QED
    BY <1>1, <1>2, <1>3, <1>4
       DEF IInv, Reserved, Attached, TasksCleared, ProductionHeld,
           RowsHaveTemplates, ResultsKnown, InFlight

\* The start of a task keeps the invariant.
LEMMA StartKeeps ==
  ASSUME IInv, NEW h \in Handlers, Start(h)
  PROVE  IInv'
  <1> DEFINE r == hd[h].run
  <1>1. hd[h].pc = "queued" /\ InFlight(h) /\ hd[h] \in Handler
    BY DEF Start, InFlight, IInv, TypeOK
  <1>2. r \in Runs
    BY <1>1 DEF IInv, Attached
  <1>3. CASE Exists(r)
    <2>1. /\ hd' = [hd EXCEPT ![h].pc = "attempt"] /\ Write(r, "running")
          /\ UNCHANGED <<tmpl, due, faults, edits>>
      BY <1>3 DEF Start
    <2>2. /\ \A k \in Handlers : k # h => hd'[k] = hd[k]
          /\ hd'[h].pc = "attempt" /\ hd'[h].run = r /\ hd'[h].kind = hd[h].kind
          /\ hd' \in [Handlers -> Handler]
      BY <1>1, <2>1 DEF IInv, TypeOK, Handler
    <2>3. row' \in [Runs -> Row] /\ hist' \in [Runs -> History] /\ RowsKept
      BY <1>2, <1>3, <2>1, WriteTypes, WriteKeepsRows DEF IInv
    <2>4. TypeOK'
      BY <2>1, <2>2, <2>3 DEF IInv, TypeOK
    <2>5. QED
      BY <1>1, <2>2, <2>3, <2>4, WorkKeeps
  <1>4. CASE ~Exists(r)
    BY <1>1, <1>4, EndKeeps DEF Start
  <1>5. QED BY <1>3, <1>4

\* An attempt that ends, or is followed by another: only the task changes.
LEMMA AttemptKeeps ==
  ASSUME IInv, NEW h \in Handlers,
         Retry(h) \/ \E result \in Results : LastAttempt(h, result)
  PROVE  IInv'
  <1>1. hd[h].pc = "attempt" /\ InFlight(h) /\ hd[h] \in Handler
    BY DEF Retry, LastAttempt, Executing, InFlight, IInv, TypeOK
  <1>2. /\ \A k \in Handlers : k # h => hd'[k] = hd[k]
        /\ hd'[h].pc \in {"attempt", "settle"}
        /\ hd'[h].pc = "settle" => hd'[h].result \in Results
        /\ hd'[h].run = hd[h].run /\ hd'[h].kind = hd[h].kind
        /\ hd' \in [Handlers -> Handler]
        /\ UNCHANGED <<tmpl, due, row, faults, edits, hist>>
    <2>1. CASE Retry(h)
      BY <1>1, <2>1 DEF Retry, IInv, TypeOK, Handler
    <2>2. CASE \E result \in Results : LastAttempt(h, result)
      <3>1. PICK result \in Results : LastAttempt(h, result)
        BY <2>2
      <3> DEFINE new == [hd[h] EXCEPT !.pc = "settle", !.result = result]
      <3>2. hd' = [hd EXCEPT ![h] = new] /\ UNCHANGED <<tmpl, due, row, faults, edits, hist>>
        BY <3>1 DEF LastAttempt
      <3>3. /\ new \in Handler /\ new.pc = "settle" /\ new.result = result
            /\ new.run = hd[h].run /\ new.kind = hd[h].kind
        BY <1>1 DEF Handler
      <3> HIDE DEF new
      <3>4. QED
        BY <3>2, <3>3 DEF IInv, TypeOK
    <2>3. QED BY <2>1, <2>2
  <1>3. TypeOK'
    BY <1>2 DEF IInv, TypeOK
  <1>4. RowsKept
    BY <1>2 DEF RowsKept
  <1>5. QED
    BY <1>1, <1>2, <1>3, <1>4, WorkKeeps

\* A request: one lemma above per kind.
LEMMA RequestKeeps ==
  ASSUME IInv, NEW h \in Handlers, Request(h)
  PROVE  IInv'
  <1>1. \A t \in Templates : /\ tmpl[t].production \in BOOLEAN
                             /\ tmpl[t].requires \in BOOLEAN
    BY DEF IInv, TypeOK, Template
  <1>2. ASSUME NEW r \in Runs, NEW t \in Templates, RunTemplate(h, r, t)
        PROVE  IInv'
    <2>1. PICK answer \in GateAnswers(t) :
            Accept(h, "manual", r, t, tmpl[t].requires \/ answer)
      BY <1>2 DEF RunTemplate
    <2>2. /\ (tmpl[t].requires \/ answer) \in BOOLEAN
          /\ tmpl[t].production => (tmpl[t].requires \/ answer)
      BY <1>1, <2>1 DEF GateAnswers
    <2>3. hd[h].pc = "idle" /\ Fresh(r)
      BY <1>2 DEF RunTemplate
    <2> DEFINE held == tmpl[t].requires \/ answer
    <2> HIDE DEF held
    <2>4. held \in BOOLEAN /\ (tmpl[t].production => held)
          /\ Accept(h, "manual", r, t, held)
      BY <2>1, <2>2 DEF held
    <2>5. QED BY <2>3, <2>4, AcceptKeeps
  <1>3. ASSUME NEW r \in Runs, NEW t \in Templates,
               ScheduleTick(h, r, t) \/ CreateRunInternal(h, r, t)
        PROVE  IInv'
    <2>1. hd[h].pc = "idle" /\ Fresh(r)
      BY <1>3 DEF ScheduleTick, CreateRunInternal
    <2>2. PICK kind \in {"schedule", "webhook"}, answer \in GateAnswers(t) :
            Accept(h, kind, r, t, answer)
      BY <1>3 DEF ScheduleTick, CreateRunInternal
    <2>3. answer \in BOOLEAN /\ (tmpl[t].production => answer)
      BY <1>1, <2>2 DEF GateAnswers
    <2>4. QED BY <2>1, <2>2, <2>3, AcceptKeeps
  <1>4. ASSUME NEW r \in Runs, NEW orig \in Runs, Rerun(h, r, orig)
        PROVE  IInv'
    <2>1. row[orig].template \in Templates
      BY <1>4 DEF Rerun, Exists, IInv, RowsHaveTemplates
    <2>2. hd[h].pc = "idle" /\ Fresh(r) /\ Accept(h, "rerun", r, row[orig].template, FALSE)
      BY <1>4 DEF Rerun
    <2> DEFINE t == row[orig].template
    <2> HIDE DEF t
    <2>3. /\ t \in Templates /\ Accept(h, "rerun", r, t, FALSE)
      BY <2>1, <2>2 DEF t
    <2>4. QED BY <2>2, <2>3, AcceptKeeps
  <1>5. ASSUME NEW r \in Runs, NEW t \in Templates, ChainCheck(h, r, t)
        PROVE  IInv'
    BY <1>5, AcceptKeeps DEF ChainCheck
  <1>6. ASSUME NEW r \in Runs, \/ ReadForApproval(h, r)
                               \/ ReadForRejection(h, r)
                               \/ ReadForCancel(h, r)
        PROVE  IInv'
    <2>1. Exists(r) /\ \E kind \in Deciding : Read(h, kind, r)
      BY <1>6 DEF ReadForApproval, ReadForRejection, ReadForCancel, Exists
    <2>2. QED BY <2>1, ReadKeeps
  <1>7. QED
    BY <1>2, <1>3, <1>4, <1>5, <1>6 DEF Request

\* A commit or a step of a task.
LEMMA ProgressKeeps ==
  ASSUME IInv, NEW h \in Handlers, Commit(h) \/ Task(h)
  PROVE  IInv'
  <1>1. CASE Insert(h)
    BY <1>1, InsertKeeps
  <1>2. CASE CommitApproval(h)
    BY <1>2, ApprovalKeeps
  <1>3. CASE CommitDecision(h)
    <2>1. PICK status \in {"rejected", "cancelled"} :
            IF Exists(hd[h].run) THEN Write(hd[h].run, status) ELSE UNCHANGED <<row, hist>>
      BY <1>3 DEF CommitDecision
    <2>2. QED
      BY <1>3, <2>1, EndKeeps DEF CommitDecision, InFlight
  <1>4. CASE Refuse(h)
    <2>1. hd[h].pc = "queued" /\ InFlight(h)
      BY <1>4 DEF Refuse, InFlight
    <2>2. PICK status \in {"failed"} :
            /\ IF Exists(hd[h].run) THEN Write(hd[h].run, status) ELSE UNCHANGED <<row, hist>>
            /\ hd' = [hd EXCEPT ![h] = Over(h, "done")]
            /\ UNCHANGED <<tmpl, due, faults, edits>>
      BY <1>4 DEF Refuse
    <2>3. status \in Statuses \ {"absent"}
      BY <2>2
    <2>4. QED
      BY <2>1, <2>2, <2>3, EndKeeps
  <1>5. CASE Start(h)
    BY <1>5, StartKeeps
  <1>6. CASE Retry(h) \/ \E result \in Results : LastAttempt(h, result)
    BY <1>6, AttemptKeeps
  <1>7. CASE Finish(h)
    <2> DEFINE status == hd[h].result
    <2>1. status \in Results
      BY <1>7 DEF Finish, IInv, ResultsKnown
    <2>2. /\ IF Exists(hd[h].run) THEN Write(hd[h].run, status) ELSE UNCHANGED <<row, hist>>
          /\ hd[h].pc = "settle" /\ InFlight(h)
          /\ hd' = [hd EXCEPT ![h] = Over(h, "done")]
          /\ UNCHANGED <<tmpl, due, faults, edits>>
      BY <1>7 DEF Finish, InFlight
    <2> HIDE DEF status
    <2>3. QED
      BY <2>1, <2>2, EndKeeps
  <1>8. CASE Abandon(h)
    <2>1. faults' \in 0..MaxFaults
      BY <1>8 DEF Abandon, IInv, TypeOK
    <2>2. QED
      BY <1>8, <2>1, LeaveKeeps DEF Abandon
  <1>9. QED
    BY <1>1, <1>2, <1>3, <1>4, <1>5, <1>6, <1>7, <1>8 DEF Commit, Task

\* What happens around the runs.
LEMMA EnvironmentKeeps ==
  ASSUME IInv, Environment
  PROVE  IInv'
  <1>1. ASSUME NEW t \in Templates,
               (\E c \in Template : UpdateTemplate(t, c)) \/ TagHosts(t)
        PROVE  IInv'
    <2>1. tmpl' \in [Templates -> Template] /\ UNCHANGED <<due, row, hd, faults, hist>>
      <3>1. CASE \E c \in Template : UpdateTemplate(t, c)
        BY <3>1 DEF UpdateTemplate, IInv, TypeOK
      <3>2. CASE TagHosts(t)
        BY <3>2 DEF TagHosts, IInv, TypeOK, Template
      <3>3. QED BY <1>1, <3>1, <3>2
    <2>2. edits' \in 0..MaxEdits
      BY <1>1, ConstantsAssumption
         DEF UpdateTemplate, TagHosts, IInv, TypeOK
    <2>3. QED
      BY <2>1, <2>2 DEF IInv, TypeOK, Reserved, Attached, TasksCleared,
                  ProductionHeld, RowsHaveTemplates, ResultsKnown, InFlight
  <1>2. ASSUME NEW t \in Templates, CronFires(t) \/ ScheduleSkip(t)
        PROVE  IInv'
    BY <1>2 DEF CronFires, ScheduleSkip, IInv, TypeOK, Reserved, Attached,
                TasksCleared, ProductionHeld, RowsHaveTemplates, ResultsKnown, InFlight
  <1>3. ASSUME NEW t \in Templates, DeleteTemplate(t)
        PROVE  IInv'
    <2>1. \A r \in Runs : /\ row'[r] \in Row
                          /\ row'[r].status = "absent" <=> row[r].status = "absent"
                          /\ row'[r].template = row[r].template
                          /\ row'[r].trigger = row[r].trigger
      BY <1>3 DEF DeleteTemplate, Exists, IInv, TypeOK, Row
    <2>2. tmpl' \in [Templates -> Template] /\ edits' \in 0..MaxEdits
      BY <1>3, ConstantsAssumption DEF DeleteTemplate, IInv, TypeOK, Template
    <2>3. TypeOK' /\ UNCHANGED <<hd, hist>>
      BY <1>3, <2>1, <2>2 DEF DeleteTemplate, IInv, TypeOK
    <2>4. QED
      BY <2>1, <2>3 DEF IInv, Reserved, Attached, TasksCleared,
                        ProductionHeld, RowsHaveTemplates, ResultsKnown, InFlight
  <1>4. CASE Crash
    <2>1. \A h \in Handlers :
            hd'[h] = hd[h] \/ (\E pc \in Ends : hd'[h] = Over(h, pc))
      BY <1>4 DEF Crash
    <2>2. \A h \in Handlers : ~InFlight(h)'
      BY <1>4, <2>1 DEF Crash, InFlight, Over, Idle
    <2>3. TypeOK'
      <3>1. \A h \in Handlers : hd'[h] \in Handler
        BY <2>1, HandlerRecords DEF IInv, TypeOK
      <3>2. faults' \in 0..MaxFaults
        BY <1>4, ConstantsAssumption DEF Crash, IInv, TypeOK
      <3>3. QED
        BY <1>4, <3>1, <3>2 DEF Crash, IInv, TypeOK
    <2>4. UNCHANGED <<row, hist>>
      BY <1>4 DEF Crash
    <2>5. QED
      BY <2>2, <2>3, <2>4 DEF IInv, Reserved, Attached, TasksCleared,
                              ProductionHeld, RowsHaveTemplates, ResultsKnown, InFlight
  <1>5. ASSUME NEW h \in Handlers, CancelStep(h) \/ Fail(h)
        PROVE  IInv'
    <2>1. faults' \in 0..MaxFaults
      BY <1>5, ConstantsAssumption DEF CancelStep, Fail, IInv, TypeOK
    <2>2. PICK pc \in Ends : hd' = [hd EXCEPT ![h] = Over(h, pc)]
      BY <1>5 DEF CancelStep, Fail
    <2>3. QED
      BY <1>5, <2>1, <2>2, LeaveKeeps DEF CancelStep, Fail
  <1>6. QED
    BY <1>1, <1>2, <1>3, <1>4, <1>5 DEF Environment

\* IInv is inductive.
LEMMA Inductive == IInv /\ [Next]_vars => IInv'
  <1> SUFFICES ASSUME IInv, [Next]_vars
               PROVE  IInv'
    OBVIOUS
  <1>1. CASE Next
    BY <1>1, RequestKeeps, ProgressKeeps, EnvironmentKeeps DEF Next
  <1>2. CASE UNCHANGED vars
    BY <1>2 DEF vars, IInv, TypeOK, Reserved, Attached, TasksCleared,
                ProductionHeld, RowsHaveTemplates, ResultsKnown, InFlight
  <1>3. QED BY <1>1, <1>2

\* The invariant holds always.
LEMMA Invariance == Spec => []IInv
  BY InitInvariant, Inductive, PTL DEF Spec

(***************************************************************************)
(* The theorems                                                            *)
(***************************************************************************)

\* Every state of every execution is well formed: statuses, handlers and
\* tasks never leave the sets of values the code gives them.
THEOREM TypeCorrect == Spec => []TypeOK
  <1>1. IInv => TypeOK
    BY DEF IInv
  <1>2. QED BY <1>1, Invariance, PTL

\* No run whose targets were tagged production when it was asked for executes
\* before somebody approved it, re-runs excepted.
THEOREM ProductionSafe == Spec => []ProductionWaits
  <1>1. IInv => ProductionWaits
    BY DEF IInv, Attached, TasksCleared, ProductionHeld, ProductionWaits,
           Executing, InFlight
  <1>2. QED BY <1>1, Invariance, PTL

(***************************************************************************)
(* JobRun implements ExecutionGate                                         *)
(***************************************************************************)

Acting == {hd[h].run : h \in Executors}

\* A step that inserts nothing and approves nothing.
Unseen ==
  \A r \in Runs :
    /\ row'[r].status = "absent" <=> row[r].status = "absent"
    /\ row[r].status # "absent" =>
         hist'[r].held = hist[r].held /\ hist'[r].approved = hist[r].approved

\* A step that starts no execution.
NobodyStarts ==
  \A h \in Handlers : Executing(h)' => Executing(h) /\ hd'[h].run = hd[h].run

\* A step that leaves rows and histories alone holds and clears nothing.
LEMMA GateRunsKept ==
  ASSUME Unseen
  PROVE  Inserted' = Inserted /\ HeldRuns' = HeldRuns
  BY DEF Unseen, Inserted, HeldRuns

\* A step that starts no attempt can only make executors stop.
LEMMA ActingShrinks ==
  ASSUME NobodyStarts
  PROVE  Acting' \subseteq Acting
  BY DEF NobodyStarts, Acting, Executors

\* The insert holds or admits its run.
LEMMA InsertRefines ==
  ASSUME IInv, NEW h \in Handlers, Insert(h)
  PROVE  Gate!Next
  <1> DEFINE r == hd[h].run
  <1>1. r \in Runs /\ row[r].status = "absent" /\ ~hist[r].approved
    BY DEF Insert, IInv, Reserved
  <1>2. \A q \in Runs : q # r => row'[q] = row[q]
    BY DEF Insert, IInv, TypeOK
  <1>3. row'[r].status # "absent"
    BY <1>1 DEF Insert, IInv, TypeOK
  <1>5. \A q \in Runs : /\ hist'[q].approved = hist[q].approved
                        /\ q # r => hist'[q].held = hist[q].held
                        /\ q = r => hist'[q].held = hd[h].held
    BY InsertHistory
  <1>6. Inserted' = Inserted \cup {r} /\ r \notin Inserted
    BY <1>1, <1>2, <1>3 DEF Inserted
  <1>7. HeldRuns' = IF hd[h].held THEN HeldRuns \cup {r} ELSE HeldRuns
    BY <1>1, <1>5, <1>6 DEF HeldRuns, Inserted
  <1>8. Acting' = Acting
    <2>1. \A k \in Handlers : k # h => hd'[k] = hd[k]
      BY DEF Insert, IInv, TypeOK
    <2>2. hd[h].pc # "attempt" /\ hd'[h].pc # "attempt"
      BY DEF Insert, IInv, TypeOK, Handler, Over, Idle, Dispatch
    <2>3. Executors' = Executors
      BY <2>1, <2>2 DEF Executors, Executing
    <2>4. \A k \in Executors : hd'[k].run = hd[k].run
      BY <2>1, <2>2 DEF Executors, Executing
    <2>5. QED BY <2>3, <2>4 DEF Acting
  <1>9. HeldRuns \subseteq Inserted
    BY DEF HeldRuns
  <1>10. CASE hd[h].held
    <2>1. Gate!Hold(r)
      BY <1>6, <1>7, <1>8, <1>9, <1>10 DEF Gate!Hold, Acting
    <2>2. QED BY <1>1, <2>1 DEF Gate!Next
  <1>11. CASE ~hd[h].held
    <2>1. Gate!Admit(r)
      BY <1>6, <1>7, <1>8, <1>9, <1>11 DEF Gate!Admit, Acting
    <2>2. QED BY <1>1, <2>1 DEF Gate!Next
  <1>12. QED BY <1>10, <1>11

\* An approval of a held run clears it; a second approval changes nothing.
LEMMA ApprovalRefines ==
  ASSUME IInv, NEW h \in Handlers, CommitApproval(h)
  PROVE  [Gate!Next]_Gate!gate
  <1> DEFINE r == hd[h].run
  <1>1. r \in Runs /\ hd[h].pc = "checked" /\ hd[h] \in Handler
    BY DEF CommitApproval, IInv, Attached, InFlight, TypeOK
  <1>2. Acting' = Acting
    <2>1. \A k \in Handlers : k # h => hd'[k] = hd[k]
      BY DEF CommitApproval, IInv, TypeOK
    <2>2. hd'[h].pc # "attempt"
      <3>1. hd'[h] = Dispatch(h) \/ hd'[h] = Over(h, "done")
        BY DEF CommitApproval, IInv, TypeOK
      <3>2. Dispatch(h).pc # "attempt" /\ Over(h, "done").pc # "attempt"
        BY <1>1 DEF Handler, Over, Idle, Dispatch
      <3>3. QED BY <3>1, <3>2
    <2>3. Executors' = Executors
      BY <1>1, <2>1, <2>2 DEF Executors, Executing
    <2>4. \A k \in Executors : hd'[k].run = hd[k].run
      BY <1>1, <2>1 DEF Executors, Executing
    <2>5. QED BY <2>3, <2>4 DEF Acting
  <1>3. CASE Exists(r)
    <2> DEFINE c == hist[r].revived \/ row[r].status \notin Live
               new == [hist[r] EXCEPT !.approved = TRUE, !.revived = c]
    <2>1. hist' = [hist EXCEPT ![r] = new] /\ row' = [row EXCEPT ![r].status = "pending"]
      BY <1>3 DEF CommitApproval
    <2>2. new.approved /\ new.held = hist[r].held
      BY <1>1 DEF IInv, TypeOK, History
    <2> HIDE DEF new
    <2>3. /\ hist'[r].approved /\ \A q \in Runs : hist'[q].held = hist[q].held
          /\ \A q \in Runs : q # r => hist'[q] = hist[q]
      BY <1>1, <2>1, <2>2 DEF IInv, TypeOK
    <2>4. Inserted' = Inserted /\ r \in Inserted
      BY <1>1, <1>3, <2>1 DEF Inserted, Exists, IInv, TypeOK, Row
    <2>5. HeldRuns' = HeldRuns \ {r}
      BY <1>1, <2>3, <2>4 DEF HeldRuns, Inserted
    <2>6. CASE r \in HeldRuns
      <3>1. Gate!Approve(r)
        BY <1>2, <2>4, <2>5, <2>6 DEF Gate!Approve, Acting
      <3>2. QED BY <1>1, <3>1 DEF Gate!Next
    <2>7. CASE r \notin HeldRuns
      BY <1>2, <2>4, <2>5, <2>7 DEF Gate!gate, Acting
    <2>8. QED BY <2>6, <2>7
  <1>4. CASE ~Exists(r)
    <2>1. UNCHANGED <<row, hist>>
      BY <1>4 DEF CommitApproval
    <2>2. Inserted' = Inserted /\ HeldRuns' = HeldRuns
      BY <2>1, GateRunsKept DEF Unseen
    <2>3. QED BY <1>2, <2>2 DEF Gate!gate, Acting
  <1>5. QED BY <1>3, <1>4

\* A task that starts acts on a cleared run.
LEMMA StartRefines ==
  ASSUME IInv, NEW h \in Handlers, Start(h), Exists(hd[h].run)
  PROVE  Gate!Next
  <1> DEFINE r == hd[h].run
  <1>1. hd[h].pc = "queued" /\ r \in Runs /\ hd[h] \in Handler
    BY DEF Start, IInv, Attached, InFlight, TypeOK
  <1>2. Write(r, "running") /\ hd' = [hd EXCEPT ![h].pc = "attempt"]
    BY DEF Start
  <1>3. Inserted' = Inserted /\ HeldRuns' = HeldRuns
    <2>1. Unseen
      BY <1>1, <1>2 DEF Unseen, Write, Exists, IInv, TypeOK, Row, History
    <2>2. QED BY <2>1, GateRunsKept
  <1>4. r \in Inserted \ HeldRuns
    BY <1>1 DEF Inserted, HeldRuns, Exists, IInv, TasksCleared
  <1>5. Acting' = Acting \cup {r}
    <2>1. \A k \in Handlers : k # h => hd'[k] = hd[k]
      BY <1>2 DEF IInv, TypeOK
    <2>2. hd'[h].pc = "attempt" /\ hd'[h].run = r
      BY <1>1, <1>2 DEF IInv, TypeOK, Handler
    <2>3. Executors' = Executors \cup {h}
      BY <2>1, <2>2 DEF Executors, Executing
    <2>4. \A k \in Executors : hd'[k].run = hd[k].run
      BY <1>1, <2>1 DEF Executors, Executing
    <2>5. QED BY <2>2, <2>3, <2>4 DEF Acting
  <1>6. Gate!Act(r)
    BY <1>3, <1>4, <1>5 DEF Gate!Act, Acting
  <1>7. r \in Runs
    BY <1>1
  <1>8. \E q \in Runs : Gate!Act(q)
    BY <1>6, <1>7 DEF Gate!Act
  <1>9. QED BY <1>8 DEF Gate!Next

\* A request's checks write nothing the gate reads.
LEMMA RequestUnseen ==
  ASSUME IInv, NEW h \in Handlers, Request(h)
  PROVE  Unseen /\ NobodyStarts
  <1>1. ASSUME NEW r \in Runs, Fresh(r), NEW kind, NEW t, NEW held,
               Accept(h, kind, r, t, held)
        PROVE  Unseen /\ NobodyStarts
    <2>1. row' = row /\ row[r].status = "absent" /\ \A q \in Runs : q # r => hist'[q] = hist[q]
      BY <1>1 DEF Accept, Fresh, IInv, TypeOK
    <2>2. hd'[h].pc = "checked" /\ \A k \in Handlers : k # h => hd'[k] = hd[k]
      BY <1>1 DEF Accept, IInv, TypeOK
    <2>3. QED
      BY <2>1, <2>2 DEF Unseen, NobodyStarts, Executing
  <1>2. ASSUME NEW r \in Runs, NEW kind, Read(h, kind, r)
        PROVE  Unseen /\ NobodyStarts
    <2>1. /\ UNCHANGED <<row, hist>> /\ hd'[h].pc = "checked"
          /\ \A k \in Handlers : k # h => hd'[k] = hd[k]
      BY <1>2 DEF Read, IInv, TypeOK
    <2>2. QED
      BY <2>1 DEF Unseen, NobodyStarts, Executing
  <1>3. \/ \E r \in Runs, kind \in Kinds, t \in Templates \cup {NoTemplate}, held \in BOOLEAN :
             Fresh(r) /\ Accept(h, kind, r, t, held)
        \/ \E r \in Runs, kind \in Kinds : Read(h, kind, r)
    <2>1. \A t \in Templates : tmpl[t].requires \in BOOLEAN /\ GateAnswers(t) \subseteq BOOLEAN
      BY DEF IInv, TypeOK, Template, GateAnswers
    <2>2. ASSUME NEW r \in Runs, NEW t \in Templates, RunTemplate(h, r, t)
          PROVE  <1>3
      <3>1. PICK answer \in GateAnswers(t) :
              Fresh(r) /\ Accept(h, "manual", r, t, tmpl[t].requires \/ answer)
        BY <2>2 DEF RunTemplate
      <3> DEFINE held == tmpl[t].requires \/ answer
      <3>2. held \in BOOLEAN
        BY <2>1
      <3> HIDE DEF held
      <3>3. Accept(h, "manual", r, t, held)
        BY <3>1 DEF held
      <3>4. QED BY <3>1, <3>2, <3>3
    <2>3. ASSUME NEW r \in Runs, NEW t \in Templates,
                 ScheduleTick(h, r, t) \/ CreateRunInternal(h, r, t)
          PROVE  <1>3
      BY <2>1, <2>3 DEF ScheduleTick, CreateRunInternal
    <2>4. ASSUME NEW r \in Runs, NEW orig \in Runs, Rerun(h, r, orig)
          PROVE  <1>3
      <3>1. row[orig].template \in Templates \cup {NoTemplate}
        BY DEF IInv, TypeOK, Row
      <3>2. QED BY <2>4, <3>1 DEF Rerun
    <2>5. ASSUME NEW r \in Runs,
                 ReadForApproval(h, r) \/ ReadForRejection(h, r) \/ ReadForCancel(h, r)
          PROVE  <1>3
      BY <2>5 DEF ReadForApproval, ReadForRejection, ReadForCancel
    <2>6. ASSUME NEW r \in Runs, NEW t \in Templates, ChainCheck(h, r, t)
          PROVE  <1>3
      BY <2>6 DEF ChainCheck
    <2>7. QED BY <2>2, <2>3, <2>4, <2>5, <2>6 DEF Request
  <1>4. QED BY <1>1, <1>2, <1>3

\* Every other step stops executors or is not seen by the gate.
LEMMA OthersRefine ==
  ASSUME IInv, Next,
         ~ \E h \in Handlers : \/ Insert(h) \/ CommitApproval(h)
                               \/ Start(h) /\ Exists(hd[h].run)
  PROVE  Gate!Next
  <1>1. Unseen
    <2>1. ASSUME NEW h \in Handlers, Request(h) PROVE Unseen
      BY <2>1, RequestUnseen
    <2>2. ASSUME NEW r \in Runs, NEW status \in Statuses \ {"absent"}, Exists(r),
                 Write(r, status)
          PROVE  Unseen
      BY <2>2 DEF Unseen, Write, Exists, IInv, TypeOK, Row, History
    <2>3. ASSUME NEW h \in Handlers, CommitDecision(h) \/ Refuse(h) \/ Finish(h)
          PROVE  Unseen
      <3>1. hd[h].run \in Runs
        BY <2>3 DEF CommitDecision, Refuse, Finish, IInv, Attached, InFlight
      <3>2. hd[h].pc = "settle" => hd[h].result \in Results
        BY DEF IInv, ResultsKnown
      <3>3. \/ UNCHANGED <<row, hist>>
            \/ Exists(hd[h].run) /\ \E status \in Statuses \ {"absent"} : Write(hd[h].run, status)
        BY <2>3, <3>2 DEF CommitDecision, Refuse, Finish
      <3>4. QED BY <2>2, <3>1, <3>3 DEF Unseen
    <2>4. ASSUME NEW h \in Handlers,
                 \/ Start(h) /\ ~Exists(hd[h].run)
                 \/ Abandon(h) \/ Retry(h) \/ \E result \in Results : LastAttempt(h, result)
          PROVE  Unseen
      BY <2>4 DEF Unseen, Start, Abandon, Retry, LastAttempt
    <2>5. ASSUME Environment PROVE Unseen
      BY <2>5 DEF Unseen, Environment, UpdateTemplate, TagHosts, DeleteTemplate,
         CronFires, ScheduleSkip, CancelStep, Crash, Fail, Exists, IInv, TypeOK, Row
    <2>6. QED
      BY <2>1, <2>3, <2>4, <2>5 DEF Next, Commit, Task
  <1>2. NobodyStarts
    <2>1. ASSUME NEW h \in Handlers, Request(h) PROVE NobodyStarts
      BY <2>1, RequestUnseen
    <2>2. ASSUME NEW k \in Handlers,
                 \/ CommitDecision(k) \/ Abandon(k) \/ Refuse(k) \/ Finish(k)
                 \/ Start(k) /\ ~Exists(hd[k].run)
          PROVE  NobodyStarts
      BY <2>2 DEF NobodyStarts, CommitDecision, Abandon, Refuse, Finish, Start, Over, Idle,
         Executing, IInv, TypeOK
    <2>3. ASSUME NEW k \in Handlers, NEW result \in Results,
                 Retry(k) \/ LastAttempt(k, result)
          PROVE  NobodyStarts
      <3>1. hd[k] \in Handler /\ Executing(k)
        BY <2>3 DEF IInv, TypeOK, Retry, LastAttempt
      <3>2. \A h \in Handlers : h # k => hd'[h] = hd[h]
        BY <2>3 DEF Retry, LastAttempt, IInv, TypeOK
      <3>3. hd'[k].run = hd[k].run
        <4> DEFINE new == [hd[k] EXCEPT !.pc = "settle", !.result = result]
        <4>1. new.run = hd[k].run
          BY <3>1 DEF Handler
        <4>2. CASE LastAttempt(k, result)
          <5>1. hd' = [hd EXCEPT ![k] = new]
            BY <4>2 DEF LastAttempt
          <5> HIDE DEF new
          <5>2. QED BY <4>1, <5>1 DEF IInv, TypeOK
        <4>3. CASE Retry(k)
          BY <3>1, <4>3 DEF Retry, IInv, TypeOK, Handler
        <4>4. QED BY <2>3, <4>2, <4>3
      <3>4. QED BY <3>1, <3>2, <3>3 DEF NobodyStarts, Executing
    <2>4. ASSUME Environment PROVE NobodyStarts
      <3>1. CASE Crash
        BY <3>1 DEF NobodyStarts, Crash, Over, Idle, Executing, InFlight
      <3>2. CASE UNCHANGED hd
        BY <3>2 DEF NobodyStarts, Executing
      <3>3. CASE \E k \in Handlers : CancelStep(k) \/ Fail(k)
        <4>1. PICK k \in Handlers, pc \in Ends : hd' = [hd EXCEPT ![k] = Over(k, pc)]
          BY <3>3 DEF CancelStep, Fail
        <4>2. Over(k, pc).pc = pc
          BY DEF Over, Idle
        <4>3. QED
          BY <4>1, <4>2 DEF NobodyStarts, Executing, IInv, TypeOK
      <3>4. QED
        BY <2>4, <3>1, <3>2, <3>3 DEF Environment, UpdateTemplate, TagHosts,
           DeleteTemplate, CronFires, ScheduleSkip
    <2>5. QED
      BY <2>1, <2>2, <2>3, <2>4 DEF Next, Commit, Task, Results
  <1>3. Inserted' = Inserted /\ HeldRuns' = HeldRuns
    BY <1>1, GateRunsKept
  <1>4. Acting' \subseteq Acting
    BY <1>2, ActingShrinks
  <1>5. Gate!Stop
    BY <1>3, <1>4 DEF Gate!Stop, Acting
  <1>6. QED BY <1>5 DEF Gate!Next

\* Job runs implement the gate: held runs execute after an approval only,
\* and no decision, edit, crash or second approval leads round it.
THEOREM GateRefinement == Spec => GateSpec
  <1>1. Init => Gate!Init
    BY DEF Init, Gate!Init, Inserted, HeldRuns, Executors, Executing, NoRow, Idle
  <1>2. IInv /\ [Next]_vars => [Gate!Next]_Gate!gate
    <2> SUFFICES ASSUME IInv, [Next]_vars PROVE [Gate!Next]_Gate!gate
      OBVIOUS
    <2>1. CASE \E h \in Handlers : Insert(h)
      BY <2>1, InsertRefines
    <2>2. CASE \E h \in Handlers : CommitApproval(h)
      BY <2>2, ApprovalRefines
    <2>3. CASE \E h \in Handlers : Start(h) /\ Exists(hd[h].run)
      BY <2>3, StartRefines
    <2>4. CASE UNCHANGED vars
      BY <2>4 DEF vars, Gate!gate, Inserted, HeldRuns, Executors, Executing
    <2>5. QED
      BY <2>1, <2>2, <2>3, <2>4, OthersRefine
  <1>3. QED
    BY <1>1, <1>2, Invariance, PTL DEF Spec, GateSpec, Gate!Spec

(***************************************************************************)
(* Who is at work on a live run, what explains two live runs of one        *)
(* template, and that a run that is over stays over.                       *)
(***************************************************************************)
(* What a step may do. *)

\* Handler h gives up its run, or goes on with it; nobody else moves.
Moves(h) ==
  /\ InFlight(h)
  /\ hd'[h].run = hd[h].run
  /\ \A k \in Handlers \ {h} : hd'[k] = hd[k]

\* Handler h writes the row of its run.
WritesRow(h, status) ==
  LET r == hd[h].run IN
  /\ Moves(h) /\ Exists(r) /\ r \in Runs
  /\ row'[r].status = status /\ row'[r].template = row[r].template
  /\ row'[r].trigger = row[r].trigger
  /\ row[r].status \notin Live /\ status \in Live => hist'[r].revived
  /\ hist'[r].overtaken = hist[r].overtaken
  /\ hist[r].revived => hist'[r].revived
  /\ \A q \in Runs \ {r} : row'[q] = row[q] /\ hist'[q] = hist[q]
  /\ hd'[h].pc # "checked"
  /\ status \in {"pending", "running"} => hd'[h].pc \in Tasked \cup {"undispatched"}

\* Handler h leaves the rows alone: a task that ends so finds its row gone, or dies.
LeavesRows(h) ==
  /\ Moves(h) /\ UNCHANGED <<row, hist>>
  /\ hd'[h].pc # "checked"
  /\ hd[h].pc \in Tasked =>
       \/ hd'[h].pc \in Tasked \cup {"lost"}
       \/ ~Exists(hd[h].run)

\* What Over and Dispatch make of a handler.
LEMMA AfterWork ==
  ASSUME TypeOK, NEW h \in Handlers
  PROVE  /\ \A pc : Over(h, pc).pc = pc /\ Over(h, pc).run = hd[h].run
         /\ Dispatch(h).pc \in {"queued", "undispatched"} /\ Dispatch(h).run = hd[h].run
  <1>1. hd[h] \in Handler
    BY DEF TypeOK
  <1>2. \A pc : Over(h, pc).pc = pc /\ Over(h, pc).run = hd[h].run
    BY <1>1 DEF Over, Idle
  <1>3. QED BY <1>1, <1>2 DEF Dispatch, Handler

\* A status that is written.
LEMMA WriteShape ==
  ASSUME TypeOK, NEW r \in Runs, NEW status, Write(r, status)
  PROVE  /\ row'[r].status = status /\ row'[r].template = row[r].template
         /\ row'[r].trigger = row[r].trigger
         /\ row[r].status \notin Live /\ status \in Live => hist'[r].revived
         /\ hist'[r].overtaken = hist[r].overtaken
         /\ hist[r].revived => hist'[r].revived
         /\ \A q \in Runs \ {r} : row'[q] = row[q] /\ hist'[q] = hist[q]
  <1>1. row[r] \in Row /\ hist[r] \in History
    BY DEF TypeOK
  <1> DEFINE b == hist[r].revived \/ (row[r].status \notin Live /\ status \in Live)
  <1>2. hist' = [hist EXCEPT ![r].revived = b]
    BY DEF Write
  <1>3. b <=> (hist[r].revived \/ (row[r].status \notin Live /\ status \in Live))
    OBVIOUS
  <1> HIDE DEF b
  <1>4. hist'[r].revived = b /\ hist'[r].overtaken = hist[r].overtaken
    BY <1>1, <1>2 DEF TypeOK, History
  <1>5. row' = [row EXCEPT ![r].status = status]
    BY DEF Write
  <1>6. QED
    BY <1>1, <1>2, <1>3, <1>4, <1>5 DEF TypeOK, Row

\* A task or a decision writes its row, or leaves the rows alone.
LEMMA WorkShape ==
  ASSUME IInv, NEW h \in Handlers,
         \/ CommitApproval(h) \/ CommitDecision(h) \/ Abandon(h) \/ Task(h)
         \/ CancelStep(h) \/ Fail(h)
  PROVE  LeavesRows(h) \/ \E status \in Statuses : WritesRow(h, status)
  <1>1. TypeOK /\ hd[h] \in Handler
    BY DEF IInv, TypeOK
  <1>2. InFlight(h) /\ hd[h].run \in Runs
    BY DEF IInv, Attached, InFlight, CommitApproval, CommitDecision, Abandon, Task, Refuse,
           Start, LastAttempt, Retry, Finish, Executing, CancelStep, Fail
  <1>3. ASSUME NEW x, hd' = [hd EXCEPT ![h] = x], x.run = hd[h].run
        PROVE  Moves(h) /\ hd'[h] = x
    BY <1>1, <1>2, <1>3 DEF Moves, TypeOK
  <1>4. ASSUME NEW pc, hd' = [hd EXCEPT ![h] = Over(h, pc)]
         PROVE  Moves(h) /\ hd'[h].pc = pc
    <2>1. Over(h, pc).pc = pc /\ Over(h, pc).run = hd[h].run
      BY <1>1, AfterWork
    <2>2. QED BY <1>3, <1>4, <2>1
  <1>5. ASSUME Exists(hd[h].run), NEW status \in Statuses, Write(hd[h].run, status),
               Moves(h), hd'[h].pc # "checked",
               status \in {"pending", "running"} => hd'[h].pc \in Tasked \cup {"undispatched"}
        PROVE  WritesRow(h, status)
    BY <1>1, <1>2, <1>5, WriteShape DEF WritesRow
  <1>6. ASSUME NEW status \in Statuses \ {"pending", "running"},
               IF Exists(hd[h].run) THEN Write(hd[h].run, status) ELSE UNCHANGED <<row, hist>>,
               hd' = [hd EXCEPT ![h] = Over(h, "done")]
        PROVE  LeavesRows(h) \/ WritesRow(h, status)
    <2>1. Moves(h) /\ hd'[h].pc = "done"
      BY <1>6, <1>4
    <2>2. QED
      BY <1>5, <1>6, <2>1 DEF LeavesRows
  <1>7. CASE CommitApproval(h)
    <2>1. CASE Exists(hd[h].run)
      <3>1. Moves(h) /\ hd'[h].pc \in {"queued", "undispatched"}
        BY <1>1, <1>3, <1>7, <2>1, AfterWork DEF CommitApproval
      <3> DEFINE r == hd[h].run
                 c == hist[r].revived \/ row[r].status \notin Live
                 new == [hist[r] EXCEPT !.approved = TRUE, !.revived = c]
      <3>2. row' = [row EXCEPT ![r].status = "pending"] /\ hist' = [hist EXCEPT ![r] = new]
        BY <1>7, <2>1 DEF CommitApproval
      <3>3. c <=> (hist[r].revived \/ row[r].status \notin Live)
        OBVIOUS
      <3> HIDE DEF c
      <3>4. new.revived = c /\ new.overtaken = hist[r].overtaken
        BY <1>1, <1>2 DEF TypeOK, History
      <3> HIDE DEF new
      <3>5. hist'[r] = new /\ row[r] \in Row
            /\ \A q \in Runs \ {r} : row'[q] = row[q] /\ hist'[q] = hist[q]
        BY <1>1, <1>2, <3>2 DEF TypeOK
      <3>6. row'[r].status = "pending" /\ row'[r].template = row[r].template
            /\ row'[r].trigger = row[r].trigger
        BY <1>1, <1>2, <3>2, <3>5 DEF TypeOK, Row
      <3>7. WritesRow(h, "pending")
        BY <1>2, <2>1, <3>1, <3>3, <3>4, <3>5, <3>6 DEF WritesRow
      <3>8. QED BY <3>7
    <2>2. CASE ~Exists(hd[h].run)
      <3>1. Moves(h) /\ hd'[h].pc = "done" /\ UNCHANGED <<row, hist>>
        BY <1>7, <1>4, <2>2 DEF CommitApproval
      <3>2. QED BY <2>2, <3>1 DEF LeavesRows
    <2>3. QED BY <2>1, <2>2
  <1>8. CASE CommitDecision(h)
    <2>1. PICK status \in {"rejected", "cancelled"} :
            IF Exists(hd[h].run) THEN Write(hd[h].run, status) ELSE UNCHANGED <<row, hist>>
      BY <1>8 DEF CommitDecision
    <2>2. QED BY <1>6, <1>8, <2>1 DEF CommitDecision
  <1>9. CASE Abandon(h) \/ CancelStep(h) \/ Fail(h)
    <2>1. PICK pc \in {"done", "lost"} :
            /\ hd' = [hd EXCEPT ![h] = Over(h, pc)] /\ UNCHANGED <<row, hist>>
            /\ hd[h].pc \in Tasked => pc = "lost"
      BY <1>9 DEF Abandon, CancelStep, Fail
    <2>2. Moves(h) /\ hd'[h].pc = pc
      BY <1>4, <2>1
    <2>3. QED BY <2>1, <2>2 DEF LeavesRows
  <1>10. CASE Refuse(h)
    BY <1>6, <1>10 DEF Refuse
  <1>11. CASE Finish(h)
    <2>1. hd[h].result \in Results
      BY <1>11 DEF Finish, IInv, ResultsKnown
    <2>2. QED BY <1>6, <1>11, <2>1 DEF Finish
  <1>12. CASE Start(h)
    <2>1. CASE Exists(hd[h].run)
      <3>1. hd' = [hd EXCEPT ![h].pc = "attempt"] /\ Write(hd[h].run, "running")
        BY <1>12, <2>1 DEF Start
      <3>2. Moves(h) /\ hd'[h].pc = "attempt"
        BY <1>1, <1>2, <3>1 DEF Moves, TypeOK, Handler
      <3>3. QED BY <1>5, <2>1, <3>1, <3>2
    <2>2. CASE ~Exists(hd[h].run)
      <3>1. Moves(h) /\ hd'[h].pc = "done" /\ UNCHANGED <<row, hist>>
        BY <1>12, <1>4, <2>2 DEF Start
      <3>2. QED BY <2>2, <3>1 DEF LeavesRows
    <2>3. QED BY <2>1, <2>2
  <1>13. CASE Retry(h) \/ \E result \in Results : LastAttempt(h, result)
    <2>1. Moves(h) /\ hd'[h].pc \in {"attempt", "settle"} /\ UNCHANGED <<row, hist>>
      <3>1. CASE Retry(h)
        BY <1>1, <1>2, <3>1 DEF Retry, Executing, Moves, TypeOK, Handler
      <3>2. CASE \E result \in Results : LastAttempt(h, result)
        <4>1. PICK result \in Results : LastAttempt(h, result)
          BY <3>2
        <4>2. PICK x : x = [hd[h] EXCEPT !.pc = "settle", !.result = result]
          OBVIOUS
        <4>3. hd' = [hd EXCEPT ![h] = x] /\ UNCHANGED <<row, hist>>
          BY <4>1, <4>2 DEF LastAttempt
        <4>4. x.run = hd[h].run /\ x.pc = "settle"
          BY <1>1, <4>2 DEF Handler
        <4>5. QED BY <1>3, <4>3, <4>4
      <3>3. QED BY <1>13, <3>1, <3>2
    <2>2. QED BY <2>1 DEF LeavesRows
  <1>14. QED
    BY <1>7, <1>8, <1>9, <1>10, <1>11, <1>12, <1>13 DEF Task

\* A request is accepted; it was alone if it asks live_run_id.
Accepts(h, r, t) ==
  /\ hd[h].pc = "idle" /\ Fresh(r)
  /\ UNCHANGED row
  /\ hd'[h].pc = "checked" /\ hd'[h].kind \in Creating
  /\ hd'[h].run = r /\ hd'[h].template = t
  /\ hd'[h].kind \in Guarded => LiveRuns(t) = {}
  /\ \A k \in Handlers \ {h} : hd'[k] = hd[k]
  /\ \A q \in Runs \ {r} : hist'[q] = hist[q]

\* A decision has read a run that is not finished.
Asks(h, r) ==
  /\ hd[h].pc = "idle" /\ Exists(r) /\ row[r].status \notin Finished
  /\ UNCHANGED <<row, hist>>
  /\ hd'[h].pc = "checked" /\ hd'[h].kind \in Deciding /\ hd'[h].run = r
  /\ \A k \in Handlers \ {h} : hd'[k] = hd[k]

\* Nobody moves; a template that is deleted takes its runs with it.
Surroundings ==
  /\ UNCHANGED <<hd, hist>>
  /\ \A r \in Runs :
       \/ row'[r] = row[r]
       \/ /\ row'[r].status = "purged" /\ row'[r].template = row[r].template
          /\ row'[r].trigger = row[r].trigger

\* The requests, as far as the proofs below look at them.
LEMMA RequestShape ==
  ASSUME IInv, NEW h \in Handlers, Request(h)
  PROVE  \/ \E r \in Runs, t \in Templates : Accepts(h, r, t)
         \/ \E r \in Runs : Asks(h, r)
  <1>1. TypeOK
    BY DEF IInv
  <1>2. ASSUME NEW kind \in Creating, NEW r \in Runs, NEW t \in Templates, NEW held,
               hd[h].pc = "idle", Fresh(r), kind \in Guarded => LiveRuns(t) = {},
               Accept(h, kind, r, t, held)
        PROVE  Accepts(h, r, t)
    BY <1>1, <1>2 DEF Accept, Accepts, TypeOK
  <1>3. ASSUME NEW kind \in Deciding, NEW r \in Runs, Exists(r), row[r].status \notin Finished,
               Read(h, kind, r)
        PROVE  Asks(h, r)
    BY <1>1, <1>3 DEF Read, Asks, TypeOK
  <1>4. ASSUME NEW r \in Runs, NEW t \in Templates,
               RunTemplate(h, r, t) \/ ScheduleTick(h, r, t)
        PROVE  Accepts(h, r, t)
    <2>1. PICK kind, held : kind \in Guarded /\ Accept(h, kind, r, t, held)
      <3>1. CASE RunTemplate(h, r, t)
        BY <3>1 DEF RunTemplate
      <3>2. CASE ScheduleTick(h, r, t)
        BY <3>2 DEF ScheduleTick
      <3>3. QED BY <1>4, <3>1, <3>2
    <2>2. hd[h].pc = "idle" /\ Fresh(r) /\ LiveRuns(t) = {}
      BY <1>4 DEF RunTemplate, ScheduleTick
    <2>3. QED BY <1>2, <2>1, <2>2
  <1>5. ASSUME NEW r \in Runs, NEW t \in Templates,
               CreateRunInternal(h, r, t) \/ ChainCheck(h, r, t)
        PROVE  Accepts(h, r, t)
    <2>1. hd[h].pc = "idle" /\ Fresh(r)
      BY <1>5 DEF CreateRunInternal, ChainCheck
    <2>2. CASE CreateRunInternal(h, r, t)
      <3>1. PICK held : Accept(h, "webhook", r, t, held)
        BY <2>2 DEF CreateRunInternal
      <3>2. QED BY <1>2, <2>1, <3>1
    <2>3. CASE ChainCheck(h, r, t)
      <3>1. Accept(h, "chain", r, t, FALSE)
        BY <2>3 DEF ChainCheck
      <3>2. QED BY <1>2, <2>1, <3>1
    <2>4. QED BY <1>5, <2>2, <2>3
  <1>6. ASSUME NEW r \in Runs, NEW orig \in Runs, Rerun(h, r, orig)
        PROVE  \E t \in Templates : Accepts(h, r, t)
    <2>1. PICK t \in Templates : t = row[orig].template
      BY <1>6 DEF Rerun, Exists, IInv, RowsHaveTemplates
    <2>2. hd[h].pc = "idle" /\ Fresh(r) /\ Accept(h, "rerun", r, t, FALSE)
      BY <1>6, <2>1 DEF Rerun
    <2>3. QED BY <1>2, <2>2
  <1>7. ASSUME NEW r \in Runs,
               ReadForApproval(h, r) \/ ReadForRejection(h, r) \/ ReadForCancel(h, r)
        PROVE  Asks(h, r)
    <2>1. PICK kind \in Deciding : Read(h, kind, r)
      BY <1>7 DEF ReadForApproval, ReadForRejection, ReadForCancel
    <2>2. Exists(r) /\ row[r].status \notin Finished
      BY <1>7 DEF ReadForApproval, ReadForRejection, ReadForCancel, Exists
    <2>3. QED BY <1>3, <2>1, <2>2
  <1>8. QED
    BY <1>4, <1>5, <1>6, <1>7 DEF Request

\* Every step is one of these.
LEMMA StepShape ==
  ASSUME IInv, Next
  PROVE  \/ \E h \in Handlers, r \in Runs, t \in Templates : Accepts(h, r, t)
         \/ \E h \in Handlers, r \in Runs : Asks(h, r)
         \/ \E h \in Handlers : Insert(h)
         \/ \E h \in Handlers : LeavesRows(h) \/ \E status \in Statuses : WritesRow(h, status)
         \/ Surroundings
         \/ Crash
  <1>1. CASE \E h \in Handlers : Request(h)
    BY <1>1, RequestShape
  <1>2. CASE \E h \in Handlers : Commit(h) \/ Task(h) \/ CancelStep(h) \/ Fail(h)
    BY <1>2, WorkShape DEF Commit
  <1>3. ASSUME NEW t \in Templates,
               \/ \E c \in Template : UpdateTemplate(t, c)
               \/ TagHosts(t) \/ CronFires(t) \/ ScheduleSkip(t)
        PROVE  Surroundings
    BY <1>3 DEF UpdateTemplate, TagHosts, CronFires, ScheduleSkip, Surroundings
  <1>4. ASSUME NEW t \in Templates, DeleteTemplate(t)
        PROVE  Surroundings
    BY <1>4 DEF DeleteTemplate, Surroundings, IInv, TypeOK, Row
  <1>5. QED
    BY <1>1, <1>2, <1>3, <1>4 DEF Next, Environment

\* The insert: nobody else moves, and its run gets a row.
LEMMA InsertShape ==
  ASSUME IInv, NEW h \in Handlers, Insert(h)
  PROVE  LET r == hd[h].run IN
         /\ hd[h].pc = "checked" /\ hd[h].kind \in Creating
         /\ r \in Runs /\ hd[h].template \in Templates /\ row[r].status = "absent"
         /\ \A k \in Handlers \ {h} : hd'[k] = hd[k] /\ (InFlight(k) => hd[k].run # r)
         /\ \A q \in Runs \ {r} : row'[q] = row[q]
         /\ row'[r].template = hd[h].template /\ row'[r].trigger = hd[h].kind
         /\ row'[r].status \in {"pending", "pending_approval"}
         /\ hd'[h].run = r /\ hd'[h].pc \in {"done", "queued", "undispatched"}
         /\ row'[r].status = "pending" => hd'[h].pc # "done"
         /\ \A q \in Runs : /\ hist'[q].revived = hist[q].revived
                            /\ hist[q].overtaken \/ Overtaken(h, q) => hist'[q].overtaken
  <1> DEFINE r == hd[h].run
  <1>1. TypeOK /\ hd[h].pc = "checked" /\ hd[h].kind \in Creating
    BY DEF IInv, Insert
  <1>2. /\ r \in Runs /\ hd[h].template \in Templates /\ row[r].status = "absent"
        /\ \A k \in Handlers \ {h} : InFlight(k) => hd[k].run # r
    BY <1>1 DEF IInv, Reserved
  <1>3. PICK x : x = IF hd[h].held THEN Over(h, "done") ELSE Dispatch(h)
    OBVIOUS
  <1>4. hd' = [hd EXCEPT ![h] = x]
    BY <1>3 DEF Insert
  <1>5. /\ \A k \in Handlers \ {h} : hd'[k] = hd[k]
        /\ hd'[h] = x
    BY <1>1, <1>4 DEF TypeOK
  <1>6. /\ x.run = r /\ x.pc \in {"done", "queued", "undispatched"}
        /\ ~hd[h].held => x.pc # "done"
    BY <1>1, <1>3, AfterWork
  <1>7. /\ \A q \in Runs \ {r} : row'[q] = row[q]
        /\ row'[r].template = hd[h].template /\ row'[r].trigger = hd[h].kind
        /\ row'[r].status = IF hd[h].held THEN "pending_approval" ELSE "pending"
    BY <1>1, <1>2 DEF Insert, TypeOK
  <1>8. ASSUME NEW q \in Runs
        PROVE  /\ hist'[q].revived = hist[q].revived
               /\ hist[q].overtaken \/ Overtaken(h, q) => hist'[q].overtaken
    <2>1. PICK a, b : /\ hist'[q] = [hist[q] EXCEPT !.held = a, !.overtaken = b]
                      /\ b = (hist[q].overtaken \/ Overtaken(h, q))
      BY DEF Insert
    <2>2. hist'[q].revived = hist[q].revived /\ hist'[q].overtaken = b
      BY <1>1, <2>1 DEF TypeOK, History
    <2>3. QED BY <2>1, <2>2
  <1>9. QED
    BY <1>1, <1>2, <1>5, <1>6, <1>7, <1>8

-----------------------------------------------------------------------------
(* Live runs have owners. *)

\* A handler that is at work on r, or left it stranded.
Responsible(h, r) == hd[h].run = r /\ hd[h].pc \in Tasked \cup {"lost", "undispatched"}

\* Whoever is responsible stays it, but for the one that writes the row.
LEMMA OwnersStay ==
  ASSUME IInv, Next, LiveRunsHaveOwners
  PROVE  LiveRunsHaveOwners'
  <1>1. TypeOK /\ \A k \in Handlers : hd[k].pc \in Tasked => hd[k].run \in Runs
    BY DEF IInv, Attached, InFlight
  <1> SUFFICES ASSUME NEW q \in Runs, row'[q].status \in {"pending", "running"}
               PROVE  \E k \in Handlers : Responsible(k, q)'
    BY DEF LiveRunsHaveOwners, Responsible, Owned, Stranded
  <1>2. row[q].status \in {"pending", "running"} => \E k \in Handlers : Responsible(k, q)
    BY DEF LiveRunsHaveOwners, Responsible, Owned, Stranded
  <1>3. ASSUME NEW h \in Handlers, row'[q] = row[q],
               \A k \in Handlers \ {h} : hd'[k] = hd[k],
               Responsible(h, q) => Responsible(h, q)'
        PROVE  \E k \in Handlers : Responsible(k, q)'
    BY <1>2, <1>3 DEF Responsible
  <1>4. ASSUME NEW h \in Handlers, NEW r \in Runs, NEW t \in Templates, Accepts(h, r, t)
        PROVE  \E k \in Handlers : Responsible(k, q)'
    BY <1>3, <1>4 DEF Accepts, Responsible
  <1>5. ASSUME NEW h \in Handlers, NEW r \in Runs, Asks(h, r)
        PROVE  \E k \in Handlers : Responsible(k, q)'
    BY <1>3, <1>5 DEF Asks, Responsible
  <1>6. ASSUME NEW h \in Handlers, Insert(h)
        PROVE  \E k \in Handlers : Responsible(k, q)'
    <2>1. CASE q = hd[h].run
      <3>1. hd'[h].run = q /\ hd'[h].pc \in {"queued", "undispatched"}
        BY <1>6, <2>1, InsertShape
      <3>2. QED BY <3>1 DEF Responsible
    <2>2. CASE q # hd[h].run
      <3>1. row'[q] = row[q] /\ hd[h].pc = "checked" /\ \A k \in Handlers \ {h} : hd'[k] = hd[k]
        BY <1>6, <2>2, InsertShape
      <3>2. QED BY <1>3, <3>1 DEF Responsible
    <2>3. QED BY <2>1, <2>2
  <1>7. ASSUME NEW h \in Handlers, LeavesRows(h)
        PROVE  \E k \in Handlers : Responsible(k, q)'
    <2>1. row'[q] = row[q] /\ \A k \in Handlers \ {h} : hd'[k] = hd[k]
      BY <1>7 DEF LeavesRows, Moves
    <2>2. Responsible(h, q) => Responsible(h, q)'
      BY <1>7, <2>1 DEF LeavesRows, Moves, Responsible, InFlight, Exists
    <2>3. QED BY <1>3, <2>1, <2>2
  <1>8. ASSUME NEW h \in Handlers, NEW status \in Statuses, WritesRow(h, status)
        PROVE  \E k \in Handlers : Responsible(k, q)'
    <2>1. CASE q = hd[h].run
      BY <1>8, <2>1 DEF WritesRow, Moves, Responsible
    <2>2. CASE q # hd[h].run
      <3>1. row'[q] = row[q] /\ \A k \in Handlers \ {h} : hd'[k] = hd[k]
        BY <1>8, <2>2 DEF WritesRow, Moves
      <3>2. QED BY <1>3, <2>2, <3>1 DEF Responsible
    <2>3. QED BY <2>1, <2>2
  <1>9. CASE Surroundings
    <2>1. row'[q] = row[q] /\ hd' = hd
      BY <1>9 DEF Surroundings
    <2>2. QED BY <1>2, <2>1 DEF Responsible
  <1>10. CASE Crash
    <2>1. row' = row /\ \A k \in Handlers : Responsible(k, q) => Responsible(k, q)'
      BY <1>1, <1>10, AfterWork DEF Crash, Responsible, InFlight
    <2>2. QED BY <1>2, <2>1
  <1>11. QED
    BY <1>4, <1>5, <1>6, <1>7, <1>8, <1>9, <1>10, StepShape

\* A run that reads pending or running, which live_run_id counts, has a runner
\* task, or one of the two known ways of the code to strand it: no executor at
\* the dispatch, or a task that died; no request, decision or edit orphans it.
THEOREM LiveRunsOwned == Spec => []LiveRunsHaveOwners
  <1>1. Init => LiveRunsHaveOwners
    BY DEF Init, NoRow, LiveRunsHaveOwners
  <1>2. IInv /\ LiveRunsHaveOwners /\ [Next]_vars => LiveRunsHaveOwners'
    <2>1. UNCHANGED vars /\ LiveRunsHaveOwners => LiveRunsHaveOwners'
      BY DEF vars, LiveRunsHaveOwners, Owned, Stranded
    <2>2. QED BY <2>1, OwnersStay
  <1>3. QED BY <1>1, <1>2, Invariance, PTL DEF Spec

-----------------------------------------------------------------------------
(* What is over stays over. *)

\* A handler comes to a run only as it is created, or by reading it unfinished.
LEMMA SettledStays ==
  ASSUME IInv, Next, NEW q \in Runs, Settled(q)
  PROVE  \/ Settled(q)' /\ row'[q] = row[q]
         \/ row'[q].status = "purged"
  <1>1. /\ TypeOK /\ row[q].status \in Finished
        /\ \A k \in Handlers : InFlight(k) => hd[k].run # q
    BY DEF Settled, IInv
  <1>2. ASSUME row'[q] = row[q], NEW h \in Handlers,
               \A k \in Handlers \ {h} : hd'[k] = hd[k],
               InFlight(h)' => hd'[h].run # q
        PROVE  Settled(q)' /\ row'[q] = row[q]
    BY <1>1, <1>2 DEF Settled, InFlight
  <1>3. ASSUME NEW h \in Handlers, NEW r \in Runs, NEW t \in Templates, Accepts(h, r, t)
        PROVE  Settled(q)' /\ row'[q] = row[q]
    BY <1>1, <1>2, <1>3 DEF Accepts, Fresh
  <1>4. ASSUME NEW h \in Handlers, NEW r \in Runs, Asks(h, r)
        PROVE  Settled(q)' /\ row'[q] = row[q]
    BY <1>1, <1>2, <1>4 DEF Asks
  <1>5. ASSUME NEW h \in Handlers, Insert(h)
        PROVE  Settled(q)' /\ row'[q] = row[q]
    <2>1. /\ hd[h].pc = "checked" /\ hd'[h].run = hd[h].run
          /\ \A k \in Handlers \ {h} : hd'[k] = hd[k]
          /\ \A p \in Runs \ {hd[h].run} : row'[p] = row[p]
      BY <1>5, InsertShape
    <2>2. hd[h].run # q
      BY <1>1, <2>1 DEF InFlight
    <2>3. QED BY <1>2, <2>1, <2>2
  <1>6. ASSUME NEW h \in Handlers, LeavesRows(h) \/ \E status \in Statuses : WritesRow(h, status)
        PROVE  Settled(q)' /\ row'[q] = row[q]
    <2>1. Moves(h)
      BY <1>6 DEF LeavesRows, WritesRow
    <2>2. hd[h].run # q
      BY <1>1, <2>1 DEF Moves
    <2>3. row'[q] = row[q]
      BY <1>6, <2>2 DEF LeavesRows, WritesRow
    <2>4. QED BY <1>2, <2>1, <2>2, <2>3 DEF Moves
  <1>7. CASE Surroundings
    BY <1>1, <1>7 DEF Surroundings, Settled, InFlight
  <1>8. CASE Crash
    <2>1. row' = row /\ \A k \in Handlers : ~InFlight(k)'
      BY <1>1, <1>8, AfterWork DEF Crash, InFlight
    <2>2. QED BY <1>1, <2>1 DEF Settled
  <1>9. QED
    BY <1>3, <1>4, <1>5, <1>6, <1>7, <1>8, StepShape

\* The row of a finished run nobody is at work on is never written again, by no
\* late approval, rejection or cancellation: it can only be deleted, with its
\* template.
THEOREM FinishedStays == Spec => SettledStaysSettled
  <1> DEFINE Step == \A r \in Runs : Settled(r) => \/ Settled(r)' /\ row'[r] = row[r]
                                                   \/ row'[r].status = "purged"
  <1>1. IInv /\ [Next]_vars => [Step]_vars
    BY SettledStays
  <1>2. QED BY <1>1, Invariance, PTL DEF Spec, SettledStaysSettled

-----------------------------------------------------------------------------
(* What explains two live runs. *)

\* What live_run_id said when h asked is still so, but for the runs that did not
\* ask, were revived, or were inserted since and marked h's own run for it.
ClearSince(h) ==
  \A r \in LiveRuns(hd[h].template) :
    \/ row[r].trigger \notin Guarded
    \/ hist[r].revived
    \/ hist[hd[h].run].overtaken

Clear ==
  \A h \in Handlers : hd[h].pc = "checked" /\ hd[h].kind \in Guarded => ClearSince(h)

\* How the runs that have a row change: the marks stay, and a run becomes live
\* by its insert or is revived.
MarksStay ==
  \A q \in Runs : row[q].status # "absent" =>
    /\ row'[q].template = row[q].template /\ row'[q].trigger = row[q].trigger
    /\ hist[q].overtaken => hist'[q].overtaken
    /\ hist[q].revived => hist'[q].revived
    /\ row'[q].status \in Live => row[q].status \in Live \/ hist'[q].revived

\* The checks that are under way go on, or are made on a template without live runs.
ChecksStay ==
  \A h \in Handlers : hd'[h].pc = "checked" /\ hd'[h].kind \in Guarded =>
    \/ hd'[h] = hd[h] /\ (hist[hd[h].run].overtaken => hist'[hd[h].run].overtaken)
    \/ LiveRuns(hd'[h].template) = {} /\ UNCHANGED row

\* A step that inserts nothing marks what it revives.
LEMMA OthersMark ==
  ASSUME IInv, Next, ~ \E h \in Handlers : Insert(h)
  PROVE  /\ MarksStay /\ ChecksStay
         /\ \A q \in Runs : row[q].status = "absent" => row'[q].status \notin Live
  <1> DEFINE Goal == /\ MarksStay /\ ChecksStay
                     /\ \A q \in Runs : row[q].status = "absent" => row'[q].status \notin Live
  <1>1. /\ TypeOK
        /\ \A k \in Handlers : hd[k].pc = "checked" /\ hd[k].kind \in Guarded => hd[k].run \in Runs
    BY DEF IInv, Reserved
  <1>2. ASSUME NEW h \in Handlers, NEW r \in Runs, NEW t \in Templates, Accepts(h, r, t)
        PROVE  Goal
    <2>1. row' = row /\ row[r].status = "absent" /\ \A q \in Runs \ {r} : hist'[q] = hist[q]
      BY <1>2 DEF Accepts, Fresh
    <2>2. MarksStay
      BY <2>1 DEF MarksStay
    <2>3. ASSUME NEW k \in Handlers \ {h}, hd'[k].pc = "checked", hd'[k].kind \in Guarded
          PROVE  hd'[k] = hd[k] /\ hist'[hd[k].run] = hist[hd[k].run]
      <3>1. hd'[k] = hd[k] /\ hd[k].run # r
        BY <1>2, <2>3 DEF Accepts, Fresh, InFlight
      <3>2. QED BY <1>1, <2>1, <2>3, <3>1
    <2>4. hd'[h].kind \in Guarded => LiveRuns(hd'[h].template) = {}
      BY <1>2 DEF Accepts
    <2>5. ChecksStay
      BY <2>1, <2>3, <2>4 DEF ChecksStay
    <2>6. QED BY <2>1, <2>2, <2>5
  <1>3. ASSUME UNCHANGED <<row, hist>>,
               \A k \in Handlers : hd'[k] = hd[k] \/ hd'[k].pc # "checked"
                                                  \/ hd'[k].kind \notin Guarded
        PROVE  Goal
    BY <1>3 DEF MarksStay, ChecksStay
  <1>4. ASSUME NEW h \in Handlers, NEW r \in Runs, Asks(h, r)
        PROVE  Goal
    BY <1>3, <1>4 DEF Asks
  <1>5. ASSUME NEW h \in Handlers, LeavesRows(h)
        PROVE  Goal
    BY <1>3, <1>5 DEF LeavesRows, Moves
  <1>6. ASSUME NEW h \in Handlers, NEW status \in Statuses, WritesRow(h, status)
        PROVE  Goal
    <2>1. MarksStay
      BY <1>6 DEF WritesRow, MarksStay
    <2>2. ChecksStay
      <3>1. \A k \in Handlers : hd'[k] = hd[k] \/ hd'[k].pc # "checked"
        BY <1>6 DEF WritesRow, Moves
      <3>2. \A q \in Runs : hist[q].overtaken => hist'[q].overtaken
        BY <1>6 DEF WritesRow
      <3>3. QED BY <1>1, <3>1, <3>2 DEF ChecksStay
    <2>3. \A q \in Runs : row[q].status = "absent" => row'[q] = row[q]
      BY <1>6 DEF WritesRow, Exists
    <2>4. QED BY <2>1, <2>2, <2>3
  <1>7. CASE Surroundings
    BY <1>7 DEF Surroundings, MarksStay, ChecksStay
  <1>8. CASE Crash
    <2>1. \A k \in Handlers : hd'[k].pc # "checked"
      BY <1>1, <1>8, AfterWork DEF Crash, InFlight
    <2>2. UNCHANGED <<row, hist>>
      BY <1>8 DEF Crash
    <2>3. QED BY <1>3, <2>1, <2>2
  <1>9. QED
    BY <1>2, <1>4, <1>5, <1>6, <1>7, <1>8, StepShape

\* The insert revives nothing, and marks the runs of those whose checks it overtook.
LEMMA InsertMarks ==
  ASSUME IInv, NEW h \in Handlers, Insert(h)
  PROVE  /\ MarksStay /\ ChecksStay
         /\ \A k \in Handlers \ {h} :
              /\ hd'[k].pc = "checked" /\ hd'[k].kind \in Guarded
              /\ hd'[k].template = hd[h].template
              => hist'[hd'[k].run].overtaken
  <1> DEFINE r == hd[h].run
  <1>1. /\ \A k \in Handlers \ {h} : hd'[k] = hd[k]
        /\ r \in Runs /\ row[r].status = "absent" /\ hd'[h].pc # "checked"
        /\ \A q \in Runs \ {r} : row'[q] = row[q]
        /\ \A q \in Runs : /\ hist'[q].revived = hist[q].revived
                           /\ hist[q].overtaken \/ Overtaken(h, q) => hist'[q].overtaken
    BY InsertShape
  <1>2. \A k \in Handlers : hd[k].pc = "checked" /\ hd[k].kind \in Guarded => hd[k].run \in Runs
    BY DEF IInv, Reserved
  <1>3. MarksStay
    BY <1>1 DEF MarksStay
  <1>4. ChecksStay
    BY <1>1, <1>2 DEF ChecksStay
  <1>5. ASSUME NEW k \in Handlers \ {h}, hd[k].pc = "checked", hd[k].kind \in Guarded,
               hd[k].template = hd[h].template
        PROVE  hist'[hd[k].run].overtaken
    <2>1. Overtaken(h, hd[k].run) /\ hd[k].run \in Runs
      BY <1>2, <1>5 DEF Overtaken
    <2>2. QED BY <1>1, <2>1
  <1>6. QED BY <1>1, <1>3, <1>4, <1>5

\* A check stays clear while others insert, decide and revive.
LEMMA ClearStays ==
  ASSUME IInv, Next, Clear
  PROVE  Clear'
  <1> SUFFICES ASSUME NEW h \in Handlers, hd'[h].pc = "checked", hd'[h].kind \in Guarded,
                      NEW q \in Runs, row'[q].template = hd'[h].template, row'[q].status \in Live
               PROVE  \/ row'[q].trigger \notin Guarded
                      \/ hist'[q].revived
                      \/ hist'[hd'[h].run].overtaken
    BY DEF Clear, ClearSince, LiveRuns
  <1>1. MarksStay /\ ChecksStay
    BY OthersMark, InsertMarks
  <1>2. CASE LiveRuns(hd'[h].template) = {} /\ UNCHANGED row
    BY <1>2 DEF LiveRuns
  <1>3. CASE hd'[h] = hd[h] /\ (hist[hd[h].run].overtaken => hist'[hd[h].run].overtaken)
    <2>1. CASE row[q].status = "absent"
      <3>1. PICK k \in Handlers : Insert(k)
        BY <2>1, OthersMark
      <3>2. hd[k].run = q /\ k # h /\ row'[q].template = hd[k].template
        BY <2>1, <3>1, InsertShape
      <3>3. QED BY <3>1, <3>2, InsertMarks
    <2>2. CASE row[q].status # "absent" /\ row[q].status \notin Live
      BY <1>1, <2>2 DEF MarksStay
    <2>3. CASE row[q].status \in Live
      <3>1. q \in LiveRuns(hd[h].template)
        BY <1>1, <1>3, <2>3 DEF LiveRuns, MarksStay
      <3>2. ClearSince(h)
        BY <1>3 DEF Clear
      <3>3. QED BY <1>1, <1>3, <2>3, <3>1, <3>2 DEF ClearSince, MarksStay
    <2>4. QED BY <2>1, <2>2, <2>3
  <1>4. QED BY <1>1, <1>2, <1>3 DEF ChecksStay

\* What explains a pair of live runs.
Explained(q, r) ==
  \E x \in {q, r} : \/ row[x].trigger \notin Guarded
                    \/ hist[x].overtaken
                    \/ hist[x].revived

\* A new pair is made by an insert, whose check is still clear or was overtaken,
\* or by a revival.
LEMMA ExplainedStays ==
  ASSUME IInv, Next, Clear, OverlapExplained,
         NEW q \in Runs, NEW r \in Runs, q # r,
         row'[q].status \in Live, row'[r].status \in Live, row'[q].template = row'[r].template
  PROVE  Explained(q, r)'
  <1>1. MarksStay
    BY OthersMark, InsertMarks
  <1>2. CASE row[q].status \in Live /\ row[r].status \in Live
    <2>1. Explained(q, r)
      BY <1>1, <1>2 DEF OverlapExplained, LiveRuns, MarksStay, Explained
    <2>2. QED BY <1>1, <1>2, <2>1 DEF Explained, MarksStay
  <1>3. CASE \E x \in {q, r} : row[x].status # "absent" /\ row[x].status \notin Live
    BY <1>1, <1>3 DEF MarksStay, Explained
  <1>4. ASSUME NEW x \in Runs, NEW y \in Runs, {x, y} = {q, r}, x # y,
               row[x].status = "absent", row[y].status \in Live
        PROVE  Explained(q, r)'
    <2>1. PICK h \in Handlers : Insert(h)
      BY <1>4, OthersMark
    <2>2. /\ hd[h].run = x /\ hd[h].pc = "checked"
          /\ row'[x].template = hd[h].template /\ row'[x].trigger = hd[h].kind
          /\ row'[y] = row[y]
      <3>1. \A p \in Runs : p # hd[h].run => row'[p] = row[p]
        BY <2>1, InsertShape
      <3>2. row[y].status # "absent" /\ row[x].status # row'[x].status
        BY <1>4
      <3>3. hd[h].run = x
        BY <1>4, <3>1, <3>2
      <3>4. row'[y] = row[y]
        BY <1>4, <3>1, <3>3
      <3>5. QED BY <2>1, <3>3, <3>4, InsertShape
    <2>3. CASE hd[h].kind \notin Guarded
      BY <1>4, <2>2, <2>3 DEF Explained
    <2>4. CASE hd[h].kind \in Guarded
      <3>1. ClearSince(h) /\ y \in LiveRuns(hd[h].template)
        BY <1>4, <2>2, <2>4 DEF Clear, LiveRuns
      <3>2. \/ row[y].trigger \notin Guarded \/ hist[y].revived
            \/ hist[x].overtaken
        BY <2>2, <3>1 DEF ClearSince
      <3>3. hist[x].overtaken => hist'[x].overtaken
        BY <2>1, InsertShape
      <3>4. QED BY <1>1, <1>4, <3>2, <3>3 DEF Explained, MarksStay
    <2>5. QED BY <2>3, <2>4
  <1>5. ~(row[q].status = "absent" /\ row[r].status = "absent")
    <2> SUFFICES ASSUME row[q].status = "absent", row[r].status = "absent" PROVE FALSE
      OBVIOUS
    <2>1. PICK h \in Handlers : Insert(h)
      BY OthersMark
    <2>2. \A p \in Runs \ {hd[h].run} : row'[p] = row[p]
      BY <2>1, InsertShape
    <2>3. QED BY <2>2
  <1>6. QED
    BY <1>2, <1>3, <1>4, <1>5

\* Two live runs of one template: one of them came by a path that does not ask
\* live_run_id (a re-run, a chain, an internal call), was inserted while the
\* other's check was under way, or was revived by a late decision or task.
THEOREM OverlapsExplained == Spec => []OverlapExplained
  <1>1. Init => Clear /\ OverlapExplained
    BY DEF Init, Clear, Idle, NoRow, OverlapExplained
  <1>2. IInv /\ Clear /\ OverlapExplained /\ [Next]_vars => Clear' /\ OverlapExplained'
    <2> SUFFICES ASSUME IInv, Clear, OverlapExplained, [Next]_vars
                 PROVE  Clear' /\ OverlapExplained'
      OBVIOUS
    <2>1. CASE Next
      <3>1. Clear'
        BY <2>1, ClearStays
      <3>2. OverlapExplained'
        BY <2>1, ExplainedStays DEF OverlapExplained, LiveRuns, Explained
      <3>3. QED BY <3>1, <3>2
    <2>2. CASE UNCHANGED vars
      BY <2>2 DEF vars, Clear, ClearSince, OverlapExplained, LiveRuns
    <2>3. QED BY <2>1, <2>2
  <1>3. QED BY <1>1, <1>2, Invariance, PTL DEF Spec
=============================================================================
