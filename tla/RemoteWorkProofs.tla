-------------------------- MODULE RemoteWorkProofs --------------------------
(***************************************************************************)
(* Proofs about Sftp, HostTasks, Chain and Webhook, for any number of      *)
(* requests, hosts, steps, attempts, problems and faults: transfers stay   *)
(* in the root and are recorded, playbooks end with their attempts, steps  *)
(* are earned, bodies run once.  The four take their steps side by side,   *)
(* as MCRemoteWork composes them.                                          *)
(***************************************************************************)
EXTENDS MCRemoteWork, Sequences, SequenceTheorems, FiniteSetTheorems, TLAPS

(***************************************************************************)
(* Sftp                                                                    *)
(***************************************************************************)

\* What an operation has resolved is a path; a transfer is confined, and its path
\* is no link unless it counts as loose; an upload has resolved a name in the
\* root; a download on its way to the caller has its entry.
Proper(x) ==
  /\ x.at \in {"resolved", "recorded", "done"} => x.path \in SF!Path /\ x.to \in SF!Path
  /\ x.at \in {"resolved", "recorded"} /\ x.op \in SF!Transfers =>
       SF!Within(x.path) /\ (x.loose \/ sf_fs[x.path] \notin SF!Path)
  /\ x.at = "resolved" /\ x.op = "upload" => x.path[1] = SF!Root
  /\ x.at = "done" => x.op = "upload"
  /\ x.at = "recorded" => x.op = "download" /\ [op |-> "download", path |-> x.path] \in sf_rows

TransfersInv ==
  /\ SF!TypeOK
  /\ SF!DownloadIsRecorded
  /\ SF!UploadsLandInRoot
  /\ \A c \in Caller : Proper(sf_call[c])

Files == [SF!Path -> {SF!Nothing, SF!File} \cup SF!Path]
FileCall ==
  [at : {"idle", "asked", "granted", "resolved", "recorded", "done"},
   op : SF!Ops, path : SF!Paths, to : SF!Paths, loose : BOOLEAN]

\* Links come to no place outside L.
LinksOnly(L) == \A p \in SF!Path \ L : sf_fs'[p] \in SF!Path => sf_fs[p] \in SF!Path

LEMMA FilesAreNoLinks == SF!File \notin SF!Path /\ SF!Nothing \notin SF!Path
  BY DEF SF!File, SF!Nothing, SF!Path, SF!Dir, SF!Root

LEMMA IdleTransfer ==
  /\ SF!Idle \in FileCall /\ SF!Idle.at = "idle"
  /\ \A c \in Caller : Proper(SF!Idle) /\ Proper(SF!Idle)'
  BY DEF SF!Idle, FileCall, SF!Ops, SF!Paths, Proper

LEMMA TransfersInit == SF!Init => TransfersInv
  <1> SUFFICES ASSUME SF!Init PROVE TransfersInv
    OBVIOUS
  <1>1. /\ sf_fs \in Files /\ sf_open = TRUE /\ sf_grants \subseteq SF!Actions
        /\ sf_rows = {} /\ sf_last = SF!NoTransfer /\ sf_changes \in 0..MaxChanges
        /\ sf_call = [c \in Caller |-> SF!Idle]
    BY RemoteWorkAssumption DEF SF!Init, Files, SF!Actions
  <1>2. sf_call \in [Caller -> FileCall] /\ \A c \in Caller : Proper(sf_call[c])
    BY <1>1, IdleTransfer
  <1>3. SF!TypeOK
    BY <1>1, <1>2 DEF SF!TypeOK, Files, FileCall
  <1>4. sf_last.op = "none"
    BY <1>1 DEF SF!NoTransfer
  <1>5. QED BY <1>2, <1>3, <1>4 DEF TransfersInv, SF!DownloadIsRecorded, SF!UploadsLandInRoot

\* Whoever waits finds its files and entries, when no link comes to its path.
LEMMA CallStays ==
  ASSUME TransfersInv, NEW d \in Caller, sf_call'[d] = sf_call[d], sf_rows \subseteq sf_rows',
         LinksOnly({})
  PROVE  sf_call'[d] \in FileCall /\ Proper(sf_call[d])'
  <1>1. PICK y : y = sf_call[d]
    OBVIOUS
  <1>2. y \in FileCall /\ Proper(y) /\ sf_call'[d] = y
    BY <1>1 DEF TransfersInv, SF!TypeOK, FileCall
  <1>3. Proper(y)'
    BY <1>2 DEF Proper, LinksOnly
  <1>4. QED BY <1>2, <1>3 DEF Proper

\* It is loose when one does.
LEMMA CallLoosened ==
  ASSUME TransfersInv, NEW d \in Caller, NEW q \in SF!Path, sf_call'[d] = SF!Loosened(q)[d],
         sf_rows' = sf_rows, LinksOnly({q})
  PROVE  sf_call'[d] \in FileCall /\ Proper(sf_call[d])'
  <1>1. PICK y : y = sf_call[d]
    OBVIOUS
  <1>2. y \in FileCall /\ Proper(y)
    BY <1>1 DEF TransfersInv, SF!TypeOK, FileCall
  <1>3. CASE y.at \in {"resolved", "recorded"} /\ y.op \in SF!Transfers /\ y.path = q
    <2>1. PICK z : z = [y EXCEPT !.loose = TRUE]
      OBVIOUS
    <2>2. sf_call'[d] = z
      BY <1>1, <1>3, <2>1 DEF SF!Loosened
    <2>3. z \in FileCall /\ z.loose /\ z.at = y.at /\ z.op = y.op /\ z.path = y.path /\ z.to = y.to
      BY <1>2, <2>1 DEF FileCall
    <2>4. Proper(z)'
      BY <1>2, <1>3, <2>3 DEF Proper
    <2>5. QED BY <2>2, <2>3, <2>4 DEF Proper
  <1>4. CASE ~(y.at \in {"resolved", "recorded"} /\ y.op \in SF!Transfers /\ y.path = q)
    <2>1. sf_call'[d] = y
      BY <1>1, <1>4 DEF SF!Loosened
    <2>2. Proper(y)'
      BY <1>2, <1>4 DEF Proper, LinksOnly
    <2>3. QED BY <1>2, <2>1, <2>2 DEF Proper
  <1>5. QED BY <1>3, <1>4

\* One operation goes on: its record becomes x.
LEMMA TransferGoes ==
  ASSUME TransfersInv, NEW c \in Caller, NEW x \in FileCall, sf_call' = [sf_call EXCEPT ![c] = x],
         Proper(x)', LinksOnly({}), sf_fs' \in Files,
         UNCHANGED <<sf_open, sf_grants, sf_changes>>,
         sf_rows \subseteq sf_rows', sf_rows' \subseteq SF!Row,
         sf_last' \in SF!Transfer \cup {SF!NoTransfer},
         SF!DownloadIsRecorded', SF!UploadsLandInRoot'
  PROVE  TransfersInv'
  <1>1. sf_call \in [Caller -> FileCall]
    BY DEF TransfersInv, SF!TypeOK, FileCall
  <1>2. sf_call' \in [Caller -> FileCall] /\ sf_call'[c] = x
        /\ \A d \in Caller \ {c} : sf_call'[d] = sf_call[d]
    BY <1>1
  <1>3. SF!TypeOK'
    BY <1>2 DEF TransfersInv, SF!TypeOK, Files, FileCall
  <1>4. ASSUME NEW d \in Caller PROVE Proper(sf_call[d])'
    BY <1>2, CallStays
  <1>5. QED BY <1>3, <1>4 DEF TransfersInv

\* The steps that change no file and transfer nothing.
LEMMA TransferMoves ==
  ASSUME TransfersInv, NEW c \in Caller, NEW x \in FileCall, sf_call' = [sf_call EXCEPT ![c] = x],
         Proper(x)', UNCHANGED <<sf_fs, sf_open, sf_grants, sf_changes, sf_last>>,
         sf_rows \subseteq sf_rows', sf_rows' \subseteq SF!Row
  PROVE  TransfersInv'
  <1>1. LinksOnly({}) /\ sf_fs' \in Files
    BY DEF LinksOnly, TransfersInv, SF!TypeOK, Files
  <1>2. sf_last' \in SF!Transfer \cup {SF!NoTransfer}
    BY DEF TransfersInv, SF!TypeOK
  <1>3. SF!DownloadIsRecorded' /\ SF!UploadsLandInRoot'
    BY DEF TransfersInv, SF!DownloadIsRecorded, SF!UploadsLandInRoot
  <1>4. QED BY <1>1, <1>2, <1>3, TransferGoes

\* What is logged is a transfer.
LEMMA LogTypes ==
  ASSUME TransfersInv, NEW c \in Caller, SF!LogCritical(c),
         sf_call[c].at \in {"resolved", "done"}, sf_call[c].op \in SF!Transfers
  PROVE  /\ sf_rows \subseteq sf_rows' /\ sf_rows' \subseteq SF!Row
         /\ [op |-> sf_call[c].op, path |-> sf_call[c].path] \in sf_rows'
  <1>1. PICK y : y = [op |-> sf_call[c].op, path |-> sf_call[c].path]
    OBVIOUS
  <1>2. sf_call[c].path \in SF!Path
    BY DEF TransfersInv, Proper
  <1>3. y \in SF!Row
    BY <1>1, <1>2 DEF SF!Row
  <1>4. sf_rows' = sf_rows \cup {y}
    BY <1>1 DEF SF!LogCritical
  <1>5. QED BY <1>1, <1>3, <1>4 DEF TransfersInv, SF!TypeOK

\* The operation leaves.
LEMMA LeaveKeeps ==
  ASSUME TransfersInv, NEW c \in Caller,
         \/ SF!Deny(c) \/ SF!DenyPath(c) \/ SF!Breaks(c) \/ SF!DownloadRefused(c) \/ SF!List(c)
         \/ SF!Fails(c) \/ SF!RecordFails(c) \/ SF!RecordUpload(c)
  PROVE  TransfersInv'
  <1>1. /\ sf_call' = [sf_call EXCEPT ![c] = SF!Idle]
        /\ UNCHANGED <<sf_fs, sf_open, sf_grants, sf_changes, sf_last>>
    BY DEF SF!Deny, SF!DenyPath, SF!Breaks, SF!DownloadRefused, SF!List, SF!Fails, SF!RecordFails,
           SF!RecordUpload, SF!Leave
  <1>2. sf_rows \subseteq sf_rows' /\ sf_rows' \subseteq SF!Row
    <2>1. CASE SF!RecordUpload(c)
      <3>1. sf_call[c].at = "done" /\ sf_call[c].op = "upload" /\ SF!LogCritical(c)
        BY <2>1 DEF SF!RecordUpload, TransfersInv, Proper
      <3>2. QED BY <3>1, LogTypes DEF SF!Transfers
    <2>2. CASE ~SF!RecordUpload(c)
      <3>1. sf_rows' = sf_rows
        BY <2>2 DEF SF!Deny, SF!DenyPath, SF!Breaks, SF!DownloadRefused, SF!List, SF!Fails,
                    SF!RecordFails
      <3>2. QED BY <3>1 DEF TransfersInv, SF!TypeOK
    <2>3. QED BY <2>1, <2>2
  <1>3. QED BY <1>1, <1>2, IdleTransfer, TransferMoves

\* What a path is resolved to is a path, and a link only if realpath has failed.
LEMMA ResolvedShape ==
  ASSUME TransfersInv, NEW c \in Caller, NEW p \in SF!Path, NEW x \in SF!Targets(c, p)
  PROVE  x[1] \in SF!Path /\ x[2] \in BOOLEAN /\ (x[2] \/ sf_fs[x[1]] \notin SF!Path)
  <1>1. SF!Real(p) \in SF!Path
    BY DEF SF!Real, SF!Hop
  <1>2. CASE x = <<p, sf_fs[p] \in SF!Path>>
    <2>1. PICK b \in BOOLEAN : b <=> sf_fs[p] \in SF!Path
      OBVIOUS
    <2>2. b = (sf_fs[p] \in SF!Path)
      BY <2>1
    <2>3. x[1] = p /\ x[2] = b
      BY <1>2, <2>2, Zenon
    <2>4. QED BY <2>1, <2>3
  <1>3. CASE \E r \in SF!Path : x = <<r, FALSE>> /\ sf_fs[r] \notin SF!Path
    BY <1>3
  <1>4. x = <<p, sf_fs[p] \in SF!Path>> \/ x \in {<<q, FALSE>> : q \in {r \in {SF!Real(p)} : sf_fs[r] \notin SF!Path}}
    BY DEF SF!Targets, SF!Lands, SF!Resolved, SF!AsNamed
  <1>5. QED BY <1>1, <1>2, <1>3, <1>4

LEMMA ResolveKeeps ==
  ASSUME TransfersInv, NEW c \in Caller, SF!Resolve(c)
  PROVE  TransfersInv'
  <1>1. \E p, q \in SF!Path : \E x \in SF!Targets(c, p), y \in SF!Targets(c, q) :
            /\ sf_call[c].op # "rename" => p = q /\ x = y
            /\ SF!Confined(c, p, x[1]) /\ SF!Confined(c, q, y[1])
            /\ sf_call' = [sf_call EXCEPT ![c] =
                 [sf_call[c] EXCEPT !.at = "resolved", !.path = x[1], !.to = y[1],
                                    !.loose = x[2] /\ sf_call[c].op \in SF!Transfers]]
    BY DEF SF!Resolve
  <1>2. PICK p \in SF!Path, q \in SF!Path :
          \E x \in SF!Targets(c, p), y \in SF!Targets(c, q) :
            /\ sf_call[c].op # "rename" => p = q /\ x = y
            /\ SF!Confined(c, p, x[1]) /\ SF!Confined(c, q, y[1])
            /\ sf_call' = [sf_call EXCEPT ![c] =
                 [sf_call[c] EXCEPT !.at = "resolved", !.path = x[1], !.to = y[1],
                                    !.loose = x[2] /\ sf_call[c].op \in SF!Transfers]]
    BY <1>1
  <1>3. PICK x \in SF!Targets(c, p), y \in SF!Targets(c, q) :
            /\ SF!Confined(c, p, x[1])
            /\ sf_call' = [sf_call EXCEPT ![c] =
                 [sf_call[c] EXCEPT !.at = "resolved", !.path = x[1], !.to = y[1],
                                    !.loose = x[2] /\ sf_call[c].op \in SF!Transfers]]
    BY <1>2
  <1>4. PICK s, t : s = x[1] /\ t = y[1]
    OBVIOUS
  <1>5. s \in SF!Path /\ t \in SF!Path /\ (x[2] \/ sf_fs[s] \notin SF!Path) /\ x[2] \in BOOLEAN
    BY <1>4, ResolvedShape
  <1>6. PICK b \in BOOLEAN : b <=> (x[2] /\ sf_call[c].op \in SF!Transfers)
    OBVIOUS
  <1>7. b = (x[2] /\ sf_call[c].op \in SF!Transfers)
    BY <1>5, <1>6
  <1>8. PICK k : k = [sf_call[c] EXCEPT !.at = "resolved", !.path = s, !.to = t, !.loose = b]
    OBVIOUS
  <1>9. sf_call' = [sf_call EXCEPT ![c] = k]
    BY <1>3, <1>4, <1>7, <1>8
  <1>10. UNCHANGED <<sf_fs, sf_open, sf_grants, sf_rows, sf_last, sf_changes>>
    BY DEF SF!Resolve
  <1>11. sf_call[c] \in FileCall
    BY DEF TransfersInv, SF!TypeOK, FileCall
  <1>12. /\ k \in FileCall /\ k.at = "resolved" /\ k.op = sf_call[c].op /\ k.path = s /\ k.to = t
         /\ k.loose = b
    BY <1>5, <1>8, <1>11 DEF FileCall, SF!Paths
  <1>13. SF!Within(s) /\ (k.op = "upload" => s[1] = SF!Root)
    BY <1>3, <1>4, <1>12 DEF SF!Confined
  <1>14. Proper(k)'
    BY <1>5, <1>6, <1>10, <1>12, <1>13 DEF Proper
  <1>15. QED BY <1>9, <1>10, <1>12, <1>14, TransferMoves DEF TransfersInv, SF!TypeOK

LEMMA MoveKeeps ==
  ASSUME TransfersInv, NEW c \in Caller, SF!Authorize(c) \/ SF!RecordDownload(c)
  PROVE  TransfersInv'
  <1>1. sf_call[c] \in FileCall /\ Proper(sf_call[c])
    BY DEF TransfersInv, SF!TypeOK, FileCall
  <1>2. PICK at \in {"granted", "recorded"} :
          /\ sf_call' = [sf_call EXCEPT ![c].at = at]
          /\ \/ at = "granted" /\ SF!Authorize(c)
             \/ at = "recorded" /\ SF!RecordDownload(c)
    BY DEF SF!Authorize, SF!RecordDownload, SF!Goto
  <1>3. PICK x : x = [sf_call[c] EXCEPT !.at = at]
    OBVIOUS
  <1>4. sf_call' = [sf_call EXCEPT ![c] = x]
    BY <1>2, <1>3
  <1>5. /\ x \in FileCall /\ x.at = at /\ x.op = sf_call[c].op /\ x.path = sf_call[c].path
        /\ x.to = sf_call[c].to /\ x.loose = sf_call[c].loose
    BY <1>1, <1>3 DEF FileCall
  <1>6. UNCHANGED <<sf_fs, sf_open, sf_grants, sf_last, sf_changes>>
    BY DEF SF!Authorize, SF!RecordDownload
  <1>7. CASE at = "granted" /\ SF!Authorize(c)
    <2>1. sf_rows' = sf_rows
      BY <1>7 DEF SF!Authorize
    <2>2. Proper(x)'
      BY <1>5, <1>7 DEF Proper
    <2>3. QED BY <1>4, <1>5, <1>6, <2>1, <2>2, TransferMoves DEF TransfersInv, SF!TypeOK
  <1>8. CASE at = "recorded" /\ SF!RecordDownload(c)
    <2>1. /\ SF!LogCritical(c) /\ sf_call[c].at = "resolved" /\ sf_call[c].op = "download"
      BY <1>8 DEF SF!RecordDownload, SF!Found
    <2>2. /\ sf_rows \subseteq sf_rows' /\ sf_rows' \subseteq SF!Row
          /\ [op |-> "download", path |-> sf_call[c].path] \in sf_rows'
      BY <2>1, LogTypes DEF SF!Transfers
    <2>3. Proper(x)'
      BY <1>1, <1>5, <1>6, <1>8, <2>1, <2>2 DEF Proper, SF!Transfers
    <2>4. QED BY <1>4, <1>5, <1>6, <2>2, <2>3, TransferMoves
  <1>9. QED BY <1>2, <1>7, <1>8

LEMMA AskKeeps ==
  ASSUME TransfersInv, NEW c \in Caller, NEW op \in SF!Ops, SF!Ask(c, op)
  PROVE  TransfersInv'
  <1>1. PICK x : x = [sf_call[c] EXCEPT !.at = "asked", !.op = op]
    OBVIOUS
  <1>2. sf_call[c] \in FileCall
    BY DEF TransfersInv, SF!TypeOK, FileCall
  <1>3. x \in FileCall /\ Proper(x)'
    BY <1>1, <1>2 DEF FileCall, Proper
  <1>4. /\ sf_call' = [sf_call EXCEPT ![c] = x] /\ sf_last' = SF!NoTransfer
        /\ UNCHANGED <<sf_fs, sf_open, sf_grants, sf_rows, sf_changes>>
    BY <1>1 DEF SF!Ask
  <1>5. LinksOnly({}) /\ sf_fs' \in Files /\ sf_rows' \subseteq SF!Row
    BY <1>4 DEF LinksOnly, TransfersInv, SF!TypeOK, Files
  <1>6. SF!DownloadIsRecorded' /\ SF!UploadsLandInRoot'
    BY <1>4 DEF SF!DownloadIsRecorded, SF!UploadsLandInRoot, SF!NoTransfer
  <1>7. QED BY <1>3, <1>4, <1>5, <1>6, TransferGoes

\* What a transfer opens is its path, unless that is loose.
LEMMA OpenedShape ==
  ASSUME TransfersInv, NEW c \in Caller, sf_call[c].at \in {"resolved", "recorded"},
         sf_call[c].op \in SF!Transfers
  PROVE  /\ SF!Opened(c) \in SF!Transfer /\ SF!Opened(c).op = sf_call[c].op
         /\ SF!Opened(c).path = sf_call[c].path /\ SF!Within(sf_call[c].path)
         /\ SF!Opened(c).file = SF!Opened(c).path \/ SF!Opened(c).loose
         /\ SF!Real(sf_call[c].path) \in SF!Path
  <1>1. PICK y : y = sf_call[c]
    OBVIOUS
  <1>2. y \in FileCall /\ y.path \in SF!Path /\ SF!Within(y.path) /\ (y.loose \/ sf_fs[y.path] \notin SF!Path)
    BY <1>1 DEF TransfersInv, SF!TypeOK, FileCall, Proper
  <1>3. PICK r : r = SF!Real(y.path)
    OBVIOUS
  <1>4. r \in SF!Path /\ (y.loose \/ r = y.path)
    BY <1>2, <1>3 DEF SF!Real, SF!Hop
  <1>5. SF!Opened(c) = [op |-> y.op, path |-> y.path, file |-> r, loose |-> y.loose]
    BY <1>1, <1>3 DEF SF!Opened
  <1>6. y.loose \in BOOLEAN
    BY <1>2 DEF FileCall
  <1>7. QED BY <1>1, <1>2, <1>3, <1>4, <1>5, <1>6 DEF SF!Transfer

LEMMA StreamKeeps ==
  ASSUME TransfersInv, NEW c \in Caller, SF!Stream(c)
  PROVE  TransfersInv'
  <1>1. /\ sf_call' = [sf_call EXCEPT ![c] = SF!Idle] /\ sf_call[c].at = "recorded"
        /\ UNCHANGED <<sf_fs, sf_open, sf_grants, sf_rows, sf_changes>>
        /\ sf_last' = sf_last \/ sf_last' = SF!Opened(c)
    BY DEF SF!Stream, SF!Leave
  <1>2. sf_call[c].op = "download" /\ [op |-> "download", path |-> sf_call[c].path] \in sf_rows
    BY <1>1 DEF TransfersInv, Proper
  <1>3. LinksOnly({}) /\ sf_fs' \in Files /\ sf_rows' \subseteq SF!Row
    BY <1>1 DEF LinksOnly, TransfersInv, SF!TypeOK, Files
  <1>4. /\ sf_last' \in SF!Transfer \cup {SF!NoTransfer}
        /\ SF!DownloadIsRecorded' /\ SF!UploadsLandInRoot'
    <2>1. CASE sf_last' = sf_last
      BY <1>1, <2>1 DEF TransfersInv, SF!TypeOK, SF!DownloadIsRecorded, SF!UploadsLandInRoot
    <2>2. CASE sf_last' = SF!Opened(c)
      <3>1. PICK t : t = SF!Opened(c)
        OBVIOUS
      <3>2. /\ t \in SF!Transfer /\ t.op = "download" /\ t.path = sf_call[c].path /\ SF!Within(t.path)
            /\ t.file = t.path \/ t.loose
        BY <1>1, <1>2, <3>1, OpenedShape DEF SF!Transfers
      <3>3. sf_last' = t
        BY <2>2, <3>1
      <3>4. QED BY <1>1, <1>2, <3>2, <3>3 DEF SF!DownloadIsRecorded, SF!UploadsLandInRoot, SF!Within
    <2>3. QED BY <1>1, <2>1, <2>2
  <1>5. QED BY <1>1, <1>3, <1>4, IdleTransfer, TransferGoes

\* An upload writes what its path leads to, and lays no link.
LEMMA UploadKeeps ==
  ASSUME TransfersInv, NEW c \in Caller, SF!Upload(c)
  PROVE  TransfersInv'
  <1>1. /\ sf_call[c].at = "resolved" /\ sf_call[c].op = "upload"
        /\ UNCHANGED <<sf_open, sf_grants, sf_rows, sf_changes>>
        /\ sf_last' = SF!Opened(c)
    BY DEF SF!Upload
  <1>2. PICK r, t : r = SF!Real(sf_call[c].path) /\ t = SF!Opened(c)
    OBVIOUS
  <1>3. /\ r \in SF!Path /\ t \in SF!Transfer /\ t.op = "upload" /\ t.path = sf_call[c].path
        /\ t.file = t.path \/ t.loose
    BY <1>1, <1>2, OpenedShape DEF SF!Transfers
  <1>4. sf_fs' = [sf_fs EXCEPT ![r] = SF!File] /\ sf_last' = t
    BY <1>2 DEF SF!Upload
  <1>5. /\ sf_fs \in Files /\ sf_call[c] \in FileCall /\ Proper(sf_call[c]) /\ sf_rows \subseteq SF!Row
    BY DEF TransfersInv, SF!TypeOK, Files, FileCall
  <1>6. sf_fs' \in Files /\ LinksOnly({})
    BY <1>3, <1>4, <1>5, FilesAreNoLinks DEF Files, LinksOnly
  <1>7. t.path[1] = SF!Root
    BY <1>1, <1>3, <1>5 DEF Proper
  <1>8. SF!DownloadIsRecorded' /\ SF!UploadsLandInRoot'
    BY <1>3, <1>4, <1>7 DEF SF!DownloadIsRecorded, SF!UploadsLandInRoot
  <1>9. CASE SF!Leave(c)
    <2>1. sf_call' = [sf_call EXCEPT ![c] = SF!Idle]
      BY <1>9 DEF SF!Leave
    <2>2. QED BY <1>1, <1>3, <1>4, <1>5, <1>6, <1>8, <2>1, IdleTransfer, TransferGoes
  <1>10. CASE SF!Goto(c, "done")
    <2>1. PICK x : x = [sf_call[c] EXCEPT !.at = "done"]
      OBVIOUS
    <2>2. /\ sf_call' = [sf_call EXCEPT ![c] = x] /\ x \in FileCall /\ x.at = "done"
          /\ x.op = "upload" /\ x.path = sf_call[c].path /\ x.to = sf_call[c].to
      BY <1>1, <1>5, <1>10, <2>1 DEF FileCall, SF!Goto
    <2>3. Proper(x)'
      BY <1>1, <1>5, <2>2 DEF Proper
    <2>4. QED BY <1>1, <1>3, <1>4, <1>5, <1>6, <1>8, <2>2, <2>3, TransferGoes
  <1>11. QED BY <1>9, <1>10 DEF SF!Upload

LEMMA RemoveKeeps ==
  ASSUME TransfersInv, NEW c \in Caller, SF!MakeOrRemove(c)
  PROVE  TransfersInv'
  <1>1. PICK p : p = sf_call[c].path
    OBVIOUS
  <1>2. p \in SF!Path /\ sf_fs \in Files
    BY <1>1 DEF SF!MakeOrRemove, TransfersInv, Proper, SF!TypeOK, Files
  <1>3. /\ sf_call' = [sf_call EXCEPT ![c] = SF!Idle]
        /\ UNCHANGED <<sf_open, sf_grants, sf_rows, sf_last, sf_changes>>
        /\ sf_fs' = sf_fs \/ sf_fs' = [sf_fs EXCEPT ![p] = SF!Nothing]
    BY <1>1 DEF SF!MakeOrRemove, SF!Leave
  <1>4. sf_fs' \in Files /\ LinksOnly({})
    BY <1>2, <1>3, FilesAreNoLinks DEF Files, LinksOnly
  <1>5. SF!DownloadIsRecorded' /\ SF!UploadsLandInRoot'
    BY <1>3 DEF TransfersInv, SF!UploadsLandInRoot, SF!DownloadIsRecorded
  <1>6. QED BY <1>3, <1>4, <1>5, IdleTransfer, TransferGoes DEF TransfersInv, SF!TypeOK

\* A link comes to q, and c is done with its operation or had none.
LEMMA LinkComes ==
  ASSUME TransfersInv, NEW q \in SF!Path, LinksOnly({q}), sf_fs' \in Files,
         \A d \in Caller : sf_call'[d] = SF!Idle \/ sf_call'[d] = SF!Loosened(q)[d],
         DOMAIN sf_call' = Caller, sf_call' = [d \in Caller |-> sf_call'[d]],
         sf_changes' \in 0..MaxChanges, UNCHANGED <<sf_open, sf_grants, sf_rows, sf_last>>
  PROVE  TransfersInv'
  <1>1. ASSUME NEW d \in Caller PROVE sf_call'[d] \in FileCall /\ Proper(sf_call[d])'
    <2>1. CASE sf_call'[d] = SF!Idle
      <3>1. Proper(SF!Idle)'
        BY IdleTransfer
      <3>2. QED BY <2>1, <3>1, IdleTransfer DEF Proper
    <2>2. CASE sf_call'[d] = SF!Loosened(q)[d]
      BY <2>2, CallLoosened
    <2>3. QED BY <2>1, <2>2
  <1>2. sf_call' \in [Caller -> FileCall]
    BY <1>1
  <1>3. SF!TypeOK'
    BY <1>2 DEF TransfersInv, SF!TypeOK, Files, FileCall
  <1>4. SF!DownloadIsRecorded' /\ SF!UploadsLandInRoot'
    BY DEF TransfersInv, SF!UploadsLandInRoot, SF!DownloadIsRecorded
  <1>5. QED BY <1>1, <1>3, <1>4 DEF TransfersInv

LEMMA RenameKeeps ==
  ASSUME TransfersInv, NEW c \in Caller, SF!Rename(c)
  PROVE  TransfersInv'
  <1>1. PICK p, q : p = sf_call[c].path /\ q = sf_call[c].to
    OBVIOUS
  <1>2. p \in SF!Path /\ q \in SF!Path /\ sf_fs \in Files /\ sf_call \in [Caller -> FileCall]
    BY <1>1 DEF SF!Rename, TransfersInv, Proper, SF!TypeOK, Files, FileCall
  <1>3. UNCHANGED <<sf_open, sf_grants, sf_rows, sf_last, sf_changes>>
    BY DEF SF!Rename
  <1>4. PICK v \in {SF!File} \cup SF!Path :
          /\ sf_fs' = [sf_fs EXCEPT ![p] = SF!Nothing, ![q] = v]
          /\ sf_call' = [(IF v = SF!File THEN sf_call ELSE SF!Loosened(q)) EXCEPT ![c] = SF!Idle]
    BY <1>1 DEF SF!Rename
  <1>5. sf_fs' \in Files
    BY <1>2, <1>4 DEF Files
  <1>6. CASE v = SF!File
    <2>1. LinksOnly({})
      BY <1>2, <1>4, <1>6, FilesAreNoLinks DEF LinksOnly, Files
    <2>2. sf_call' = [sf_call EXCEPT ![c] = SF!Idle]
      BY <1>4, <1>6
    <2>3. SF!DownloadIsRecorded' /\ SF!UploadsLandInRoot'
      BY <1>3 DEF TransfersInv, SF!UploadsLandInRoot, SF!DownloadIsRecorded
    <2>4. QED BY <1>3, <1>5, <2>1, <2>2, <2>3, IdleTransfer, TransferGoes DEF TransfersInv, SF!TypeOK
  <1>7. CASE v # SF!File
    <2>1. LinksOnly({q})
      BY <1>2, <1>4, FilesAreNoLinks DEF LinksOnly, Files
    <2>2. PICK L : L = SF!Loosened(q)
      OBVIOUS
    <2>3. L = [d \in Caller |-> L[d]]
      BY <2>2 DEF SF!Loosened
    <2>4. sf_call' = [L EXCEPT ![c] = SF!Idle]
      BY <1>4, <1>7, <2>2
    <2>5. /\ DOMAIN sf_call' = Caller /\ sf_call' = [d \in Caller |-> sf_call'[d]]
          /\ \A d \in Caller : sf_call'[d] = SF!Idle \/ sf_call'[d] = L[d]
      BY <2>3, <2>4
    <2>6. sf_changes' \in 0..MaxChanges
      BY <1>3 DEF TransfersInv, SF!TypeOK
    <2>7. QED BY <1>2, <1>3, <1>5, <2>1, <2>2, <2>5, <2>6, LinkComes
  <1>8. QED BY <1>6, <1>7

LEMMA HostKeeps ==
  ASSUME TransfersInv, SF!HostChanges
  PROVE  TransfersInv'
  <1>1. PICK p \in SF!Path, v \in {SF!Nothing, SF!File} \cup SF!Path :
          /\ sf_fs' = [sf_fs EXCEPT ![p] = v]
          /\ sf_call' = IF v \in SF!Path THEN SF!Loosened(p) ELSE sf_call
    BY DEF SF!HostChanges
  <1>2. /\ UNCHANGED <<sf_open, sf_grants, sf_rows, sf_last>>
        /\ sf_changes < MaxChanges /\ sf_changes' = sf_changes + 1
    BY DEF SF!HostChanges
  <1>3. sf_changes' \in 0..MaxChanges
    BY <1>2, RemoteWorkAssumption DEF TransfersInv, SF!TypeOK
  <1>4. sf_fs \in Files /\ sf_call \in [Caller -> FileCall]
    BY DEF TransfersInv, SF!TypeOK, Files, FileCall
  <1>5. sf_fs' \in Files
    BY <1>1, <1>4 DEF Files
  <1>6. CASE v \in SF!Path
    <2>1. LinksOnly({p})
      BY <1>1, <1>4 DEF LinksOnly, Files
    <2>2. sf_call' = SF!Loosened(p)
      BY <1>1, <1>6
    <2>3. PICK L : L = SF!Loosened(p)
      OBVIOUS
    <2>4. DOMAIN L = Caller /\ L = [d \in Caller |-> L[d]]
      BY <2>3 DEF SF!Loosened
    <2>5. QED BY <1>2, <1>3, <1>5, <2>1, <2>2, <2>3, <2>4, LinkComes
  <1>7. CASE v \notin SF!Path
    <2>1. LinksOnly({})
      BY <1>1, <1>4, <1>7 DEF LinksOnly, Files
    <2>2. sf_call' = sf_call /\ sf_rows \subseteq sf_rows'
      BY <1>1, <1>2, <1>7
    <2>3. \A d \in Caller : Proper(sf_call[d])'
      BY <2>1, <2>2, CallStays
    <2>4. SF!TypeOK'
      BY <1>2, <1>3, <1>4, <1>5, <2>2 DEF TransfersInv, SF!TypeOK, Files, FileCall
    <2>5. SF!DownloadIsRecorded' /\ SF!UploadsLandInRoot'
      BY <1>2 DEF TransfersInv, SF!UploadsLandInRoot, SF!DownloadIsRecorded
    <2>6. QED BY <2>3, <2>4, <2>5 DEF TransfersInv
  <1>8. QED BY <1>6, <1>7

LEMMA TransfersKeep == TransfersInv /\ [SF!Next]_(SF!vars) => TransfersInv'
  <1> SUFFICES ASSUME TransfersInv, [SF!Next]_(SF!vars) PROVE TransfersInv'
    OBVIOUS
  <1>1. CASE SF!SessionEnds \/ UNCHANGED SF!vars
    <2>1. UNCHANGED <<sf_fs, sf_grants, sf_call, sf_rows, sf_last, sf_changes>> /\ sf_open' \in BOOLEAN
      BY <1>1 DEF SF!SessionEnds, SF!vars, TransfersInv, SF!TypeOK
    <2>2. QED BY <2>1 DEF TransfersInv, SF!TypeOK, SF!UploadsLandInRoot, SF!DownloadIsRecorded, Proper
  <1>2. CASE \E c \in Caller, op \in SF!Ops : SF!Ask(c, op)
    BY <1>2, AskKeeps
  <1>3. QED BY <1>1, <1>2, LeaveKeeps, ResolveKeeps, MoveKeeps, StreamKeeps, UploadKeeps, RemoveKeeps,
               RenameKeeps, HostKeeps DEF SF!Next

LEMMA TransfersSafe == TransfersInv => SF!TypeOK /\ SF!DownloadIsRecorded /\ SF!UploadsLandInRoot
  BY DEF TransfersInv

(***************************************************************************)
(* HostTasks                                                               *)
(***************************************************************************)

\* Nothing of a playbook works before it was launched, or after its end, unless
\* its attempt has left it to itself.
TasksInv ==
  /\ HT!TypeOK
  /\ ht_at = "waiting" => ht_attempt # Attempts
  /\ ht_kind = "ansible" => \A a \in HT!Attempt :
       a # ht_attempt \/ ht_at # "running" => HT!In(a, {"work"}) = {} \/ a \in ht_deserted

Doings == {"todo", "look", "ready", "skip", "work", "ok", "bad", "cut"}
USE DEF Doings

LEMMA TasksInit == HT!Init => TasksInv
  BY RemoteWorkAssumption DEF HT!Init, TasksInv, HT!TypeOK, HT!Attempt, HT!First, HT!In, HT!Kinds

\* What happens to the hosts of one attempt.
LEMMA HostsChange ==
  ASSUME TasksInv, NEW a \in HT!Attempt, NEW f \in [Node -> Doings],
         ht_task' = [ht_task EXCEPT ![a] = f]
  PROVE  /\ ht_task' \in [HT!Attempt -> [Node -> Doings]]
         /\ \A e \in HT!Attempt \ {a} : HT!In(e, {"work"})' = HT!In(e, {"work"})
         /\ HT!In(a, {"work"})' = {h \in Node : f[h] = "work"}
  BY DEF TasksInv, HT!TypeOK, HT!In

\* A step about one host starts no work.
LEMMA HostBecomes ==
  ASSUME TasksInv, NEW a \in HT!Attempt, NEW h \in Node,
         NEW what \in Doings,
         HT!Becomes(a, h, what)
  PROVE  /\ ht_task' \in [HT!Attempt -> [Node -> Doings]]
         /\ what # "work" => \A e \in HT!Attempt : HT!In(e, {"work"})' \subseteq HT!In(e, {"work"})
  <1>1. PICK f : f = [ht_task[a] EXCEPT ![h] = what]
    OBVIOUS
  <1>2. f \in [Node -> Doings]
    BY <1>1 DEF TasksInv, HT!TypeOK
  <1>3. ht_task' = [ht_task EXCEPT ![a] = f]
    BY <1>1 DEF HT!Becomes
  <1>4. what # "work" => {k \in Node : f[k] = "work"} \subseteq HT!In(a, {"work"})
    BY <1>1 DEF HT!In, TasksInv, HT!TypeOK
  <1>5. QED BY <1>2, <1>3, <1>4, HostsChange

LEMMA BashKeeps ==
  ASSUME TasksInv, NEW a \in HT!Attempt, NEW h \in Node,
         HT!BashBegins(a, h) \/ HT!BashRefuses(a, h) \/ HT!BashRuns(a, h) \/ HT!BashRaises(a, h)
  PROVE  TasksInv'
  <1>1. PICK what \in {"look", "bad", "ok", "work", "cut"} : HT!Becomes(a, h, what)
    BY DEF HT!BashBegins, HT!BashRefuses, HT!BashRuns, HT!BashRaises
  <1>2. ht_task' \in [HT!Attempt -> [Node -> Doings]]
    BY <1>1, HostBecomes
  <1>3. /\ ht_kind = "bash" /\ ht_kind' = ht_kind /\ ht_dry' = ht_dry /\ ht_attempt' = ht_attempt
        /\ ht_agent' = ht_agent /\ ht_changed' \subseteq Node /\ ht_strayed' \subseteq Node
        /\ \/ ht_at' = ht_at /\ ht_status' = ht_status
           \/ /\ ht_at' \in {"over", "waiting"} /\ (ht_at' = "waiting" => ht_attempt # Attempts)
              /\ ht_status' = "error"
        /\ ht_deserted' = ht_deserted
    BY DEF HT!BashBegins, HT!BashRefuses, HT!BashRuns, HT!BashRaises, HT!Kept, HT!Conclude,
           TasksInv, HT!TypeOK
  <1>4. QED BY <1>2, <1>3 DEF TasksInv, HT!TypeOK

LEMMA HostsKeep ==
  ASSUME TasksInv, NEW h \in Node,
         \/ HT!Skip(h) \/ HT!Resolve(h, TRUE) \/ HT!Resolve(h, FALSE)
         \/ \E a \in HT!Attempt : HT!HostEnds(a, h, "ok") \/ HT!HostEnds(a, h, "bad")
  PROVE  TasksInv'
  <1>1. PICK a \in HT!Attempt, what \in {"skip", "ready", "ok", "bad"} : HT!Becomes(a, h, what)
    BY DEF HT!Skip, HT!Resolve, HT!HostEnds, TasksInv, HT!TypeOK
  <1>2. /\ ht_task' \in [HT!Attempt -> [Node -> Doings]]
        /\ \A e \in HT!Attempt : HT!In(e, {"work"})' \subseteq HT!In(e, {"work"})
    BY <1>1, HostBecomes
  <1>3. /\ ht_kind' = ht_kind /\ ht_dry' = ht_dry /\ ht_attempt' = ht_attempt /\ ht_at' = ht_at
        /\ ht_status' = ht_status /\ ht_agent' = ht_agent /\ ht_changed' = ht_changed
        /\ ht_strayed' \subseteq Node /\ ht_deserted' = ht_deserted
    BY DEF HT!Skip, HT!Resolve, HT!HostEnds, HT!Kept, TasksInv, HT!TypeOK
  <1>4. QED BY <1>2, <1>3 DEF TasksInv, HT!TypeOK

LEMMA AttemptKeeps ==
  ASSUME TasksInv,
         \/ HT!BashDone \/ HT!Unresolved \/ HT!PrepareFails \/ HT!Exit \/ HT!Retry
         \/ HT!Prepare(TRUE) \/ HT!Prepare(FALSE)
  PROVE  TasksInv'
  <1>1. /\ ht_kind' = ht_kind /\ ht_dry' = ht_dry /\ ht_task' = ht_task
        /\ ht_changed' = ht_changed /\ ht_strayed' = ht_strayed /\ ht_deserted' = ht_deserted
        /\ ht_agent' \subseteq HT!Attempt
    BY DEF HT!BashDone, HT!Unresolved, HT!PrepareFails, HT!Exit, HT!Retry, HT!Prepare, HT!Conclude,
           HT!AgentAfter, HT!StartAgent, TasksInv, HT!TypeOK
  <1>2. CASE HT!Retry
    <2>1. /\ ht_attempt' = ht_attempt + 1 /\ ht_at' \in {"running", "resolving"}
          /\ ht_kind = "ansible" => ht_at' = "resolving"
          /\ ht_status' = "running" /\ ht_at = "waiting"
      BY <1>2 DEF HT!Retry, HT!First
    <2>2. ht_attempt' \in HT!Attempt
      BY <2>1, RemoteWorkAssumption DEF TasksInv, HT!TypeOK, HT!Attempt
    <2>3. QED BY <1>1, <2>1, <2>2 DEF TasksInv, HT!TypeOK, HT!In
  <1>3. CASE ~HT!Retry
    <2>1. /\ ht_attempt' = ht_attempt /\ ht_status' \in {"running", "success", "failed", "error"}
          /\ ht_at' \in {"starting", "waiting", "over"} /\ (ht_at' = "waiting" => ht_attempt # Attempts)
          /\ ht_kind = "ansible" => ht_at # "running" \/ HT!In(ht_attempt, {"work"}) = {}
      BY <1>3 DEF HT!BashDone, HT!Unresolved, HT!PrepareFails, HT!Exit, HT!Prepare, HT!Conclude,
                  TasksInv, HT!TypeOK
    <2>2. QED BY <1>1, <2>1 DEF TasksInv, HT!TypeOK, HT!In
  <1>4. QED BY <1>2, <1>3

\* Who leaves a playbook to itself is noted.
LEMMA DesertKeeps ==
  ASSUME TasksInv, HT!Desert
  PROVE  TasksInv'
  <1>1. /\ ht_kind' = ht_kind /\ ht_dry' = ht_dry /\ ht_attempt' = ht_attempt /\ ht_task' = ht_task
        /\ ht_status' = "error" /\ ht_changed' = ht_changed /\ ht_strayed' = ht_strayed
        /\ ht_at' \in {"over", "waiting"} /\ (ht_at' = "waiting" => ht_attempt # Attempts)
        /\ ht_agent' \subseteq HT!Attempt /\ ht_deserted' = ht_deserted \cup {ht_attempt}
    BY DEF HT!Desert, HT!Conclude, HT!AgentAfter, TasksInv, HT!TypeOK
  <1>2. QED BY <1>1 DEF TasksInv, HT!TypeOK, HT!In

LEMMA LaunchKeeps ==
  ASSUME TasksInv, HT!LaunchPlaybook \/ HT!LaunchSalt
  PROVE  TasksInv'
  <1>1. PICK hosts : HT!Launch(hosts) /\ hosts \subseteq Node
    BY DEF HT!LaunchPlaybook, HT!LaunchSalt, HT!Inventory, HT!Roster, HT!In
  <1>2. PICK f : f = [h \in Node |-> IF h \in hosts THEN "work" ELSE ht_task[ht_attempt][h]]
    OBVIOUS
  <1>3. f \in [Node -> Doings]
    BY <1>2 DEF TasksInv, HT!TypeOK
  <1>4. ht_task' = [ht_task EXCEPT ![ht_attempt] = f]
    BY <1>1, <1>2 DEF HT!Launch
  <1>5. /\ ht_kind' = ht_kind /\ ht_dry' = ht_dry /\ ht_attempt' = ht_attempt /\ ht_at' = "running"
        /\ ht_status' = ht_status /\ ht_agent' = ht_agent /\ ht_changed' \subseteq Node
        /\ ht_strayed' = ht_strayed /\ ht_deserted' = ht_deserted
    BY <1>1 DEF HT!LaunchPlaybook, HT!LaunchSalt, HT!Launch, HT!Inventory, HT!Roster, HT!In,
                TasksInv, HT!TypeOK
  <1>6. ht_attempt \in HT!Attempt
    BY DEF TasksInv, HT!TypeOK
  <1>7. QED BY <1>3, <1>4, <1>5, <1>6, HostsChange DEF TasksInv, HT!TypeOK

\* A timeout kills the process group of a playbook.
LEMMA TimeOutKeeps == TasksInv /\ HT!TimeOut => TasksInv'
  <1> SUFFICES ASSUME TasksInv, HT!TimeOut PROVE TasksInv'
    OBVIOUS
  <1>1. PICK f : f = [h \in Node |-> IF ht_task[ht_attempt][h] \in HT!Reached THEN "cut"
                                     ELSE ht_task[ht_attempt][h]]
    OBVIOUS
  <1>2. f \in [Node -> Doings]
    BY <1>1 DEF TasksInv, HT!TypeOK
  <1>3. ht_task' = [ht_task EXCEPT ![ht_attempt] = f]
    BY <1>1 DEF HT!TimeOut, HT!Cut
  <1>4. /\ ht_kind' = ht_kind /\ ht_dry' = ht_dry /\ ht_attempt' = ht_attempt
        /\ ht_at' \in {"over", "waiting"} /\ (ht_at' = "waiting" => ht_attempt # Attempts)
        /\ ht_status' = "error" /\ ht_agent' \subseteq HT!Attempt /\ ht_changed' = ht_changed
        /\ ht_strayed' = ht_strayed /\ ht_deserted' = ht_deserted
    BY DEF HT!TimeOut, HT!Conclude, HT!AgentAfter, TasksInv, HT!TypeOK
  <1>5. ht_kind = "ansible" => {h \in Node : f[h] = "work"} = {}
    BY <1>1 DEF HT!Reached
  <1>6. ht_attempt \in HT!Attempt
    BY DEF TasksInv, HT!TypeOK
  <1>7. QED BY <1>2, <1>3, <1>4, <1>5, <1>6, HostsChange DEF TasksInv, HT!TypeOK

LEMMA TasksKeep == TasksInv /\ [HT!Next]_(HT!vars) => TasksInv'
  <1> SUFFICES ASSUME TasksInv, [HT!Next]_(HT!vars) PROVE TasksInv'
    OBVIOUS
  <1>1. CASE HT!Next
    BY <1>1, BashKeeps, HostsKeep, AttemptKeeps, DesertKeeps, LaunchKeeps,
       TimeOutKeeps DEF HT!Next
  <1>2. CASE UNCHANGED HT!vars
    BY <1>2 DEF HT!vars, TasksInv, HT!TypeOK, HT!In
  <1>3. QED BY <1>1, <1>2

LEMMA TasksSafe == TasksInv => HT!TypeOK /\ HT!PlaybookEndsWithAttempt
  BY RemoteWorkAssumption DEF TasksInv, HT!PlaybookEndsWithAttempt, HT!Attempt, HT!TypeOK

(***************************************************************************)
(* Chain                                                                   *)
(***************************************************************************)

\* A step lets those after it run, and the steps before s let it run.
Passed(t) ==
  \/ ch_child[t] = "success" \/ t \in ch_late
  \/ ch_keep[t] /\ ch_child[t] \notin CH!Live \cup {"none"}

Earned(s) == \A t \in 1..(s - 1) : Passed(t)

\* The steps that were begun are those before the place in the list, with the one
\* that is awaited; the result so far is that of all of them as they were read.
\* A cancel on its way is for a run that was begun.
StepsInv ==
  /\ CH!TypeOK
  /\ CH!StepsAreEarned
  /\ ch_row = "success" => ch_at = "over"
  /\ ch_at = "waiting" => ch_attempt # Attempts
  /\ ch_at = "gate" => ch_i = 1 /\ ch_ok /\ ch_child = CH!NoChildren
  /\ \A s \in ch_cancel \ {0} : ch_child[s] # "none"
  /\ ch_at \in {"child", "work", "read"} => ch_i \in CH!Step
  /\ ch_at = "read" => ch_child[ch_i] \notin CH!Live \cup {"none"}
  /\ ch_at \in {"steps", "child", "work", "read"} =>
       /\ ch_i \in CH!Step => Earned(ch_i)
       /\ \A s \in CH!Step : s > ch_i \/ (s = ch_i /\ ch_at = "steps") => ch_child[s] = "none"
       /\ \A s \in CH!Step : s < ch_i => ch_child[s] \notin CH!Live
       /\ ch_ok => \A s \in CH!Step : s < ch_i => ch_child[s] = "success" \/ s \in ch_late

LEMMA NoChildrenType ==
  CH!NoChildren \in [CH!Step -> {"none", "refused", "cancelled"} \cup CH!Live \cup CH!Ended]
  BY DEF CH!NoChildren

LEMMA StepsInit == CH!Init => StepsInv
  <1> SUFFICES ASSUME CH!Init PROVE StepsInv
    OBVIOUS
  <1>1. /\ ch_at = "gate" /\ ch_i = 1 /\ ch_ok = TRUE /\ ch_row = "running" /\ ch_attempt = 1
        /\ ch_edits = 0 /\ ch_left = {} /\ ch_touched = FALSE /\ ch_child = CH!NoChildren
        /\ ch_cancel = {} /\ ch_late = {}
        /\ ch_keep \in [CH!Step -> BOOLEAN] /\ ch_runs \in [CH!Step -> BOOLEAN]
        /\ ch_prod \in [CH!Step -> BOOLEAN]
    BY DEF CH!Init
  <1>2. \A s \in CH!Step : CH!NoChildren[s] = "none"
    BY DEF CH!NoChildren
  <1>3. CH!TypeOK
    <2>1. /\ 1 \in 1..Attempts /\ 1 \in 1..(Steps + 1) /\ 0 \in 0..MaxEdits
      BY RemoteWorkAssumption
    <2>2. QED BY <1>1, <2>1, NoChildrenType DEF CH!TypeOK
  <1>4. CH!StepsAreEarned
    BY <1>1, <1>2 DEF CH!StepsAreEarned
  <1>5. QED BY <1>1, <1>3, <1>4 DEF StepsInv

\* The end of an attempt, after all steps in success or with another result.
LEMMA ConcludeKeeps ==
  ASSUME StepsInv, NEW result \in {"success", "failed", "error"}, CH!Conclude(result),
         result = "success" => \A s \in CH!Step : ch_child[s] = "success" \/ s \in ch_late,
         ch_at \in {"gate", "steps", "child", "work", "read"},
         UNCHANGED <<ch_keep, ch_runs, ch_prod, ch_edits, ch_attempt, ch_i, ch_ok, ch_child,
                     ch_cancel, ch_left, ch_touched, ch_late>>
  PROVE  StepsInv'
  <1>1. /\ ch_at' \in {"over", "waiting"} /\ (ch_at' = "waiting" => ch_attempt # Attempts)
        /\ \/ ch_row' = result /\ ch_at' = "over"
           \/ ch_row' = ch_row
    BY DEF CH!Conclude
  <1>2. ch_row # "success"
    BY DEF StepsInv
  <1>3. CH!TypeOK'
    BY <1>1 DEF StepsInv, CH!TypeOK, CH!Ended
  <1>4. CH!StepsAreEarned'
    BY <1>1, <1>2 DEF StepsInv, CH!StepsAreEarned
  <1>5. QED BY <1>1, <1>2, <1>3, <1>4 DEF StepsInv

\* A step stays the one in hand: its row is there, it runs, or it has ended.
LEMMA StepGoes ==
  ASSUME StepsInv, NEW what \in {"pending", "running", "success", "failed", "error"},
         ch_i \in CH!Step, ch_at \in {"steps", "child", "work"},
         ch_child' = [ch_child EXCEPT ![ch_i] = what],
         ch_at' \in {"child", "work", "read"},
         ch_at' = "read" => what \notin CH!Live,
         ch_touched' \in BOOLEAN,
         UNCHANGED <<ch_keep, ch_runs, ch_prod, ch_edits, ch_attempt, ch_i, ch_ok, ch_row,
                     ch_cancel, ch_left, ch_late>>
  PROVE  StepsInv'
  <1>1. /\ ch_i \in 1..Steps /\ Steps \in Nat
    BY RemoteWorkAssumption DEF CH!Step
  <1>2. /\ ch_child'[ch_i] = what
        /\ \A s \in CH!Step \ {ch_i} : ch_child'[s] = ch_child[s]
    BY DEF StepsInv, CH!TypeOK
  <1>3. CH!TypeOK'
    BY DEF StepsInv, CH!TypeOK, CH!Live, CH!Ended
  <1>4. ch_row' # "success"
    BY DEF StepsInv
  <1>5. Earned(ch_i)'
    BY <1>1, <1>2 DEF StepsInv, Earned, Passed, CH!Step
  <1>6. \A s \in CH!Step : s > ch_i => ch_child'[s] = "none"
    BY <1>1, <1>2 DEF StepsInv, CH!Step
  <1>7. CH!StepsAreEarned'
    <2>1. ASSUME NEW s \in CH!Step, ch_child'[s] # "none", NEW t \in 1..(s - 1)
          PROVE  Passed(t)'
      <3>1. t \in 1..(ch_i - 1)
        BY <1>1, <1>6, <2>1 DEF CH!Step
      <3>2. QED BY <1>5, <3>1 DEF Earned
    <2>2. QED BY <1>4, <2>1 DEF CH!StepsAreEarned, Passed
  <1>8. /\ \A s \in CH!Step : s < ch_i => ch_child'[s] \notin CH!Live
        /\ \A s \in CH!Step : ch_ok /\ s < ch_i => ch_child'[s] = "success" \/ s \in ch_late
    BY <1>1, <1>2 DEF StepsInv, CH!Step
  <1>9. \A s \in ch_cancel \ {0} : ch_child'[s] # "none"
    BY <1>2 DEF StepsInv, CH!TypeOK, CH!Step
  <1>10. QED BY <1>2, <1>3, <1>4, <1>5, <1>6, <1>7, <1>8, <1>9 DEF StepsInv

\* The chain is done with a step.
LEMMA StepIsOver ==
  ASSUME StepsInv, NEW good \in BOOLEAN, NEW what,
         ch_i \in CH!Step, ch_at \in {"steps", "read"},
         what \in {"refused", "cancelled", "success", "failed", "error"}, good <=> what = "success",
         ch_child' = [ch_child EXCEPT ![ch_i] = what],
         CH!GoOn(ch_i, good), ch_ok' = (ch_ok /\ good), ch_at' = "steps",
         UNCHANGED <<ch_keep, ch_runs, ch_prod, ch_edits, ch_attempt, ch_row, ch_cancel, ch_left,
                     ch_touched, ch_late>>
  PROVE  StepsInv'
  <1>1. /\ ch_i \in 1..Steps /\ Steps \in Nat
        /\ ch_i' = IF good \/ ch_keep[ch_i] THEN ch_i + 1 ELSE Steps + 1
    BY RemoteWorkAssumption DEF CH!Step, CH!GoOn
  <1>2. /\ ch_child'[ch_i] = what
        /\ \A s \in CH!Step \ {ch_i} : ch_child'[s] = ch_child[s]
    BY DEF StepsInv, CH!TypeOK
  <1>3. CH!TypeOK'
    BY <1>1 DEF StepsInv, CH!TypeOK, CH!Step, CH!Live, CH!Ended
  <1>4. \A s \in CH!Step : ch_child'[s] # "none" => s <= ch_i
    BY <1>1, <1>2 DEF StepsInv, CH!Step
  <1>5. \A t \in 1..(ch_i - 1) : Passed(t)'
    BY <1>1, <1>2 DEF StepsInv, Earned, Passed, CH!Step
  <1>6. ch_row # "success"
    BY DEF StepsInv
  <1>7. CH!StepsAreEarned'
    <2>1. ASSUME NEW s \in CH!Step, ch_child'[s] # "none", NEW t \in 1..(s - 1)
          PROVE  Passed(t)'
      <3>1. s <= ch_i
        BY <1>4, <2>1
      <3>2. t \in 1..(ch_i - 1)
        BY <1>1, <2>1, <3>1 DEF CH!Step
      <3>3. QED BY <1>5, <3>2
    <2>2. QED BY <1>6, <2>1 DEF CH!StepsAreEarned, Passed
  <1>8. Earned(ch_i)' \/ ch_i' \notin CH!Step
    <2>1. CASE good \/ ch_keep[ch_i]
      <3>1. ASSUME NEW t \in 1..(ch_i' - 1)
            PROVE  Passed(t)'
        <4>1. CASE t = ch_i
          BY <1>2, <2>1, <4>1 DEF CH!Live, Passed
        <4>2. CASE t # ch_i
          <5>1. t \in 1..(ch_i - 1)
            BY <1>1, <2>1, <3>1, <4>2
          <5>2. QED BY <1>5, <5>1
        <4>3. QED BY <4>1, <4>2
      <3>2. QED BY <3>1 DEF Earned
    <2>2. CASE ~(good \/ ch_keep[ch_i])
      BY <1>1, <2>2 DEF CH!Step
    <2>3. QED BY <2>1, <2>2
  <1>9. /\ \A s \in CH!Step : s >= ch_i' => ch_child'[s] = "none"
        /\ \A s \in CH!Step : s < ch_i' => ch_child'[s] \notin CH!Live
    <2>1. ch_i' > ch_i
      BY <1>1
    <2>2. \A s \in CH!Step : ch_child'[s] \notin CH!Live
      BY <1>1, <1>2 DEF StepsInv, CH!Step, CH!Live
    <2>3. QED BY <1>1, <1>4, <2>1, <2>2 DEF CH!Step
  <1>10. ch_ok' => \A s \in CH!Step : s < ch_i' => ch_child'[s] = "success" \/ s \in ch_late
    <2>1. ASSUME ch_ok', NEW s \in CH!Step, s < ch_i'
          PROVE  ch_child'[s] = "success" \/ s \in ch_late
      <3>1. ch_ok /\ good
        BY <2>1
      <3>2. ch_i' = ch_i + 1
        BY <1>1, <3>1
      <3>3. CASE s = ch_i
        BY <1>2, <3>1, <3>3
      <3>4. CASE s # ch_i
        <4>1. s < ch_i
          BY <1>1, <2>1, <3>2, <3>4 DEF CH!Step
        <4>2. QED BY <1>2, <3>1, <3>4, <4>1 DEF StepsInv
      <3>5. QED BY <3>3, <3>4
    <2>2. QED BY <2>1
  <1>11. /\ ch_at' = "steps" /\ ch_row' # "success"
         /\ \A s \in ch_cancel \ {0} : ch_child'[s] # "none"
    BY <1>2, <1>6 DEF StepsInv, CH!TypeOK, CH!Step
  <1>12. QED BY <1>1, <1>3, <1>7, <1>8, <1>9, <1>10, <1>11 DEF StepsInv, CH!Step

\* A cancel that comes after the chain has read the step's success is noted.
LEMMA CancelStepKeeps ==
  ASSUME StepsInv, NEW s \in CH!Step, CH!CancelStep(s)
  PROVE  StepsInv'
  <1>1. /\ s \in ch_cancel /\ ch_cancel' = ch_cancel \ {s}
        /\ ch_child' = [ch_child EXCEPT ![s] = "cancelled"]
        /\ UNCHANGED <<ch_keep, ch_runs, ch_prod, ch_edits, ch_at, ch_attempt, ch_i, ch_ok, ch_row,
                       ch_left, ch_touched>>
    BY DEF CH!CancelStep, CH!given
  <1>2. /\ ch_child'[s] = "cancelled" /\ \A t \in CH!Step \ {s} : ch_child'[t] = ch_child[t]
    BY <1>1 DEF StepsInv, CH!TypeOK
  <1>3. /\ ch_late \subseteq ch_late' /\ ch_late' \subseteq CH!Step
        /\ ch_child[s] = "success" => s \in ch_late' \/ (ch_at = "read" /\ ch_i = s)
    BY DEF CH!CancelStep, StepsInv, CH!TypeOK
  <1>4. ch_child[s] # "none"
    BY <1>1, RemoteWorkAssumption DEF StepsInv, CH!Step
  <1>5. CH!TypeOK'
    BY <1>1, <1>3 DEF StepsInv, CH!TypeOK
  <1>6. ASSUME NEW t \in CH!Step, Passed(t), ~(ch_at = "read" /\ ch_i = t)
        PROVE  Passed(t)'
    <2>1. CASE t = s
      BY <1>1, <1>2, <1>3, <1>6, <2>1 DEF Passed, CH!Live
    <2>2. CASE t # s
      BY <1>1, <1>2, <1>3, <1>6, <2>2 DEF Passed
    <2>3. QED BY <2>1, <2>2
  <1>7. \A q \in CH!Step : (ch_child'[q] = "none") <=> (ch_child[q] = "none")
    BY <1>2, <1>4
  <1>8. CH!StepsAreEarned'
    <2>1. ASSUME NEW q \in CH!Step, ch_child'[q] # "none", NEW t \in 1..(q - 1)
          PROVE  Passed(t)'
      <3>1. /\ t \in CH!Step /\ t < q
        BY <2>1, RemoteWorkAssumption DEF CH!Step
      <3>2. Passed(t)
        BY <1>7, <2>1 DEF StepsInv, CH!StepsAreEarned, Passed
      <3>3. ~(ch_at = "read" /\ ch_i = t)
        BY <1>7, <2>1, <3>1 DEF StepsInv
      <3>4. QED BY <1>6, <3>1, <3>2, <3>3
    <2>2. ASSUME ch_row' = "success", NEW q \in CH!Step
          PROVE  ch_child'[q] = "success" \/ q \in ch_late'
      <3>1. ch_at = "over" /\ (ch_child[q] = "success" \/ q \in ch_late)
        BY <1>1, <2>2 DEF StepsInv, CH!StepsAreEarned
      <3>2. QED BY <1>2, <1>3, <3>1
    <2>3. QED BY <2>1, <2>2 DEF CH!StepsAreEarned, Passed
  <1>9. ch_at # "gate"
    BY <1>4 DEF StepsInv, CH!NoChildren
  <1>10. ASSUME ch_at \in {"steps", "child", "work", "read"}
         PROVE  /\ ch_i \in CH!Step => Earned(ch_i)'
                /\ \A t \in CH!Step : t > ch_i \/ (t = ch_i /\ ch_at = "steps") => ch_child'[t] = "none"
                /\ \A t \in CH!Step : t < ch_i => ch_child'[t] \notin CH!Live
                /\ ch_ok => \A t \in CH!Step : t < ch_i => ch_child'[t] = "success" \/ t \in ch_late'
    <2>1. ASSUME ch_i \in CH!Step PROVE Earned(ch_i)'
      <3>1. ASSUME NEW t \in 1..(ch_i - 1) PROVE Passed(t)'
        <4>1. t \in CH!Step /\ t # ch_i
          BY <2>1, <3>1, RemoteWorkAssumption DEF CH!Step
        <4>2. Passed(t)
          BY <1>10, <2>1, <3>1 DEF StepsInv, Earned
        <4>3. QED BY <1>6, <4>1, <4>2
      <3>2. QED BY <1>1, <3>1 DEF Earned
    <2>2. \A t \in CH!Step : t > ch_i \/ (t = ch_i /\ ch_at = "steps") => ch_child'[t] = "none"
      BY <1>7, <1>10 DEF StepsInv
    <2>3. \A t \in CH!Step : t < ch_i => ch_child'[t] \notin CH!Live
      BY <1>2, <1>10 DEF StepsInv, CH!Live
    <2>4. ASSUME ch_ok, NEW t \in CH!Step, t < ch_i
          PROVE  ch_child'[t] = "success" \/ t \in ch_late'
      <3>1. /\ ch_child[t] = "success" \/ t \in ch_late
            /\ t # ch_i
        BY <1>10, <2>4, RemoteWorkAssumption DEF StepsInv, CH!Step, CH!TypeOK
      <3>2. QED BY <1>2, <1>3, <3>1
    <2>5. QED BY <2>1, <2>2, <2>3, <2>4
  <1>11. ch_at = "read" => ch_child'[ch_i] \notin CH!Live \cup {"none"}
    BY <1>2, <1>7 DEF StepsInv, CH!Live
  <1>12. \A t \in ch_cancel' \ {0} : ch_child'[t] # "none"
    BY <1>1, <1>2 DEF StepsInv, CH!TypeOK, CH!Step
  <1>13. QED BY <1>1, <1>5, <1>8, <1>9, <1>10, <1>11, <1>12 DEF StepsInv

\* A cancel is on its way to a run that was begun.
LEMMA ReadForCancelKeeps ==
  ASSUME StepsInv, NEW s \in 0..Steps, CH!ReadForCancel(s)
  PROVE  StepsInv'
  <1>1. /\ ch_cancel' = ch_cancel \cup {s} /\ ch_edits' = ch_edits + 1 /\ ch_edits < MaxEdits
        /\ UNCHANGED <<ch_keep, ch_runs, ch_prod, ch_at, ch_attempt, ch_i, ch_ok, ch_row, ch_child,
                       ch_left, ch_touched, ch_late>>
    BY DEF CH!ReadForCancel
  <1>2. ch_edits' \in 0..MaxEdits
    BY <1>1, RemoteWorkAssumption DEF StepsInv, CH!TypeOK
  <1>3. CH!TypeOK'
    BY <1>1, <1>2 DEF StepsInv, CH!TypeOK
  <1>4. s # 0 => ch_child[s] # "none"
    BY DEF CH!ReadForCancel, CH!Live
  <1>5. CH!StepsAreEarned'
    BY <1>1 DEF StepsInv, CH!StepsAreEarned
  <1>6. CH!NoChildren' = CH!NoChildren
    BY DEF CH!NoChildren
  <1>7. QED BY <1>1, <1>3, <1>4, <1>5, <1>6 DEF StepsInv, Earned, Passed

LEMMA StepsKeep == StepsInv /\ [CH!Next]_(CH!vars) => StepsInv'
  <1> SUFFICES ASSUME StepsInv, [CH!Next]_(CH!vars) PROVE StepsInv'
    OBVIOUS
  <1>1. ASSUME CH!Gate(TRUE) \/ CH!Gate(FALSE) PROVE StepsInv'
    <2>1. CASE CH!Conclude("failed")
      BY <1>1, <2>1, ConcludeKeeps DEF CH!Gate, CH!given
    <2>2. CASE ch_at' = "steps" /\ ch_row' = ch_row
      <3>1. /\ ch_i = 1 /\ ch_child = CH!NoChildren
            /\ UNCHANGED <<ch_keep, ch_runs, ch_prod, ch_edits, ch_attempt, ch_i, ch_ok, ch_child,
                           ch_cancel, ch_left, ch_touched, ch_late>>
        BY <1>1 DEF CH!Gate, CH!given, StepsInv
      <3>2. \A s \in CH!Step : ch_child[s] = "none" /\ s >= 1
        BY <3>1 DEF CH!NoChildren, CH!Step
      <3>3. CH!TypeOK'
        BY <2>2, <3>1 DEF StepsInv, CH!TypeOK
      <3>4. CH!StepsAreEarned'
        BY <2>2, <3>1 DEF StepsInv, CH!StepsAreEarned
      <3>5. Earned(ch_i)'
        BY <3>1 DEF Earned
      <3>6. ch_row' # "success"
        BY <1>1, <2>2 DEF CH!Gate, StepsInv
      <3>7. QED BY <2>2, <3>1, <3>2, <3>3, <3>4, <3>5, <3>6 DEF StepsInv, CH!Step, CH!Live
    <2>3. QED BY <1>1, <2>1, <2>2 DEF CH!Gate
  <1>2. CASE CH!RefuseStep
    BY <1>2, StepIsOver DEF CH!RefuseStep, CH!given
  <1>3. ASSUME NEW result \in CH!Ended, CH!EndStep(result) PROVE StepsInv'
    <2>1. /\ ch_i \in CH!Step /\ ch_at \in {"child", "work"} /\ result \notin CH!Live
      BY <1>3 DEF CH!EndStep, StepsInv, CH!Ended, CH!Live
    <2>2. QED BY <1>3, <2>1, StepGoes DEF CH!EndStep, CH!given, CH!Ended, StepsInv, CH!TypeOK
  <1>4. CASE CH!StartStep
    BY <1>4, StepGoes DEF CH!StartStep, CH!given, StepsInv, CH!TypeOK
  <1>5. CASE CH!RunStep
    <2>1. ch_i \in CH!Step /\ ch_touched' \in BOOLEAN
      BY <1>5 DEF CH!RunStep, StepsInv, CH!TypeOK
    <2>2. QED BY <1>5, <2>1, StepGoes DEF CH!RunStep, CH!given
  <1>6. CASE CH!ReadBack
    <2>1. PICK good \in BOOLEAN : good <=> ch_child[ch_i] = "success"
      OBVIOUS
    <2>2. /\ ch_i \in CH!Step /\ ch_child' = ch_child
          /\ ch_child[ch_i] \in {"refused", "cancelled", "success", "failed", "error"}
      BY <1>6 DEF CH!ReadBack, StepsInv, CH!TypeOK, CH!Live, CH!Ended
    <2>3. ch_child' = [ch_child EXCEPT ![ch_i] = ch_child[ch_i]]
      BY <2>2 DEF StepsInv, CH!TypeOK
    <2>4. good = (ch_child[ch_i] = "success")
      BY <2>1
    <2>5. CH!GoOn(ch_i, good) /\ ch_ok' = (ch_ok /\ good)
      BY <1>6, <2>4 DEF CH!ReadBack
    <2>6. QED BY <1>6, <2>1, <2>2, <2>3, <2>5, StepIsOver DEF CH!ReadBack, CH!given
  <1>7. CASE CH!Finish
    <2>1. ch_ok => \A s \in CH!Step : ch_child[s] = "success" \/ s \in ch_late
      BY <1>7, RemoteWorkAssumption DEF CH!Finish, StepsInv, CH!Step
    <2>2. PICK result \in {"success", "failed", "error"} :
            CH!Conclude(result) /\ (result = "success" => ch_ok)
      BY <1>7 DEF CH!Finish
    <2>3. QED BY <1>7, <2>1, <2>2, ConcludeKeeps DEF CH!Finish, CH!given
  <1>8. CASE CH!TimeOut
    BY <1>8, ConcludeKeeps DEF CH!TimeOut, CH!given
  <1>9. CASE CH!Retry
    <2>1. /\ ch_at = "waiting" /\ ch_attempt' = ch_attempt + 1 /\ ch_at' = "gate" /\ ch_i' = 1
          /\ ch_ok' = TRUE /\ ch_left' = ch_left \cup CH!Stranded(ch_child)
          /\ ch_child' = CH!NoChildren /\ ch_cancel' = ch_cancel \cap {0} /\ ch_late' = {}
          /\ UNCHANGED <<ch_keep, ch_runs, ch_prod, ch_edits, ch_row, ch_touched>>
      BY <1>9 DEF CH!Retry, CH!given
    <2>2. ch_attempt + 1 \in 1..Attempts /\ ch_left' \subseteq CH!Step /\ 1 \in 1..(Steps + 1)
      BY <2>1, RemoteWorkAssumption DEF StepsInv, CH!TypeOK, CH!Stranded
    <2>3. CH!TypeOK'
      BY <2>1, <2>2, NoChildrenType DEF StepsInv, CH!TypeOK
    <2>4. ch_row' # "success"
      BY <2>1 DEF StepsInv
    <2>5. \A s \in CH!Step : ch_child'[s] = "none"
      BY <2>1 DEF CH!NoChildren
    <2>6. CH!StepsAreEarned'
      BY <2>4, <2>5 DEF CH!StepsAreEarned
    <2>7. CH!NoChildren' = CH!NoChildren
      BY DEF CH!NoChildren
    <2>8. QED BY <2>1, <2>3, <2>4, <2>6, <2>7 DEF StepsInv
  <1>10. CASE CH!CancelChain
    <2>1. /\ ch_cancel' = ch_cancel \ {0} /\ ch_row' = "cancelled"
          /\ UNCHANGED <<ch_keep, ch_runs, ch_prod, ch_edits, ch_at, ch_attempt, ch_i, ch_ok,
                         ch_child, ch_left, ch_touched, ch_late>>
      BY <1>10 DEF CH!CancelChain, CH!given
    <2>2. QED BY <2>1 DEF StepsInv, CH!TypeOK, CH!StepsAreEarned, Earned, Passed
  <1>11. ASSUME NEW s \in CH!Step, CH!Edit(s) PROVE StepsInv'
    <2>1. /\ ch_edits' \in 0..MaxEdits /\ ch_runs' \in [CH!Step -> BOOLEAN]
          /\ ch_prod' \in [CH!Step -> BOOLEAN]
          /\ UNCHANGED <<ch_keep, ch_at, ch_attempt, ch_i, ch_ok, ch_row, ch_child, ch_cancel,
                         ch_left, ch_touched, ch_late>>
      <3>1. /\ ch_edits < MaxEdits /\ ch_edits' = ch_edits + 1
            /\ UNCHANGED <<ch_keep, ch_at, ch_attempt, ch_i, ch_ok, ch_row, ch_child, ch_cancel,
                           ch_left, ch_touched, ch_late>>
        BY <1>11 DEF CH!Edit
      <3>2. ch_edits' \in 0..MaxEdits
        BY <3>1, RemoteWorkAssumption DEF StepsInv, CH!TypeOK
      <3>3. /\ ch_runs' = [ch_runs EXCEPT ![s] = ~ch_runs[s]] \/ ch_runs' = ch_runs
            /\ ch_prod' = [ch_prod EXCEPT ![s] = ~ch_prod[s]] \/ ch_prod' = ch_prod
        BY <1>11 DEF CH!Edit
      <3>4. QED BY <3>1, <3>2, <3>3 DEF StepsInv, CH!TypeOK
    <2>2. QED BY <2>1 DEF StepsInv, CH!TypeOK, CH!StepsAreEarned, Earned, Passed
  <1>12. ASSUME NEW s \in CH!Step, CH!CancelStep(s) PROVE StepsInv'
    BY <1>12, CancelStepKeeps
  <1>13. ASSUME NEW s \in 0..Steps, CH!ReadForCancel(s) PROVE StepsInv'
    BY <1>13, ReadForCancelKeeps
  <1>14. CASE UNCHANGED CH!vars
    BY <1>14 DEF CH!vars, StepsInv, CH!TypeOK, CH!StepsAreEarned, Earned, Passed
  <1>15. QED BY <1>1, <1>2, <1>3, <1>4, <1>5, <1>6, <1>7, <1>8, <1>9, <1>10, <1>11, <1>12, <1>13,
               <1>14 DEF CH!Next

LEMMA StepsSafe == StepsInv => CH!TypeOK /\ CH!StepsAreEarned
  BY DEF StepsInv

(***************************************************************************)
(* Webhook                                                                 *)
(***************************************************************************)

\* A call that may still start a run of a body; a run of it in its window.
Admits(c, b) == we_call[c].body = b /\ we_call[c].at \notin {"idle", "follow"}
RunOf(r, b) == we_run[r].body = b /\ ~we_run[r].old

\* A call is about a problem.
Named == \A c \in Caller : we_call[c].at # "idle" => we_call[c].event \in Problems

\* A body has its key while a call may start a run of it, or one has; and then
\* there is no other such call, and no other run.
BodiesInv ==
  /\ WE!TypeOK
  /\ we_run \in Seq(WE!Runs) /\ Len(we_run) <= MaxRuns
  /\ Named
  /\ \A b \in WE!Body :
       /\ \A c \in Caller : Admits(c, b) =>
            /\ b \in we_replay
            /\ \A d \in Caller : Admits(d, b) => d = c
            /\ \A r \in DOMAIN we_run : ~RunOf(r, b)
       /\ \A r \in DOMAIN we_run : RunOf(r, b) =>
            /\ b \in we_replay
            /\ \A q \in DOMAIN we_run : RunOf(q, b) => q = r

CallRecord ==
  [at : WE!At, path : WE!Paths, event : Problems \cup {None}, body : WE!Body \cup {None},
   host : BOOLEAN, run : 0..MaxRuns]

\* The type of what the steps of a call and of a run do not touch.
Rest ==
  /\ we_enabled \in BOOLEAN /\ we_replay \subseteq WE!Body /\ we_dedup \subseteq Problems
  /\ we_debounce \subseteq Problems /\ we_faults \in 0..MaxFaults

LEMMA NoBody == None \notin WE!Body
  BY RemoteWorkAssumption DEF WE!Body

LEMMA IdleCall == WE!Idle \in CallRecord /\ WE!Idle.at = "idle" /\ WE!Idle.body = None
  BY RemoteWorkAssumption DEF WE!Idle, CallRecord, WE!At, WE!Paths

LEMMA BodyTypes ==
  WE!TypeOK <=> /\ Rest
                /\ we_call \in [Caller -> CallRecord]
                /\ DOMAIN we_run \in {1..n : n \in 0..MaxRuns}
                /\ \A r \in DOMAIN we_run : we_run[r] \in WE!Runs
  BY DEF WE!TypeOK, Rest, CallRecord

LEMMA RunTypes ==
  \A q \in Seq(WE!Runs) : Len(q) <= MaxRuns =>
    /\ DOMAIN q \in {1..n : n \in 0..MaxRuns}
    /\ \A r \in DOMAIN q : q[r] \in WE!Runs
  <1>1. ASSUME NEW q \in Seq(WE!Runs), Len(q) <= MaxRuns
        PROVE  /\ DOMAIN q \in {1..n : n \in 0..MaxRuns}
               /\ \A r \in DOMAIN q : q[r] \in WE!Runs
    <2>1. Len(q) \in 0..MaxRuns /\ DOMAIN q = 1..Len(q)
      BY <1>1, RemoteWorkAssumption
    <2>2. QED BY <2>1
  <1>2. QED BY <1>1

\* Runs put for runs, one by one, are as many.
LEMMA RunsAgain ==
  \A q \in Seq(WE!Runs) : \A f \in [DOMAIN q -> WE!Runs] : f \in Seq(WE!Runs) /\ Len(f) = Len(q)
  <1>1. ASSUME NEW q \in Seq(WE!Runs), NEW f \in [DOMAIN q -> WE!Runs]
        PROVE  f \in Seq(WE!Runs) /\ Len(f) = Len(q)
    <2>1. Len(q) \in Nat /\ DOMAIN q = 1..Len(q)
      BY LenProperties
    <2>2. f \in [1..Len(q) -> WE!Runs]
      BY <2>1
    <2>3. f \in Seq(WE!Runs)
      BY <2>1, <2>2, SeqDef
    <2>4. Len(f) \in Nat /\ DOMAIN f = 1..Len(f)
      BY <2>3, LenProperties
    <2>5. QED BY <2>1, <2>2, <2>3, <2>4
  <1>2. QED BY <1>1

LEMMA BodiesInit == WE!Init => BodiesInv
  <1> SUFFICES ASSUME WE!Init PROVE BodiesInv
    OBVIOUS
  <1>1. /\ we_run = <<>> /\ we_call = [c \in Caller |-> WE!Idle] /\ Rest
    BY RemoteWorkAssumption DEF WE!Init, Rest
  <1>2. we_run \in Seq(WE!Runs) /\ Len(we_run) <= MaxRuns /\ DOMAIN we_run = {}
    BY <1>1, RemoteWorkAssumption
  <1>3. WE!TypeOK
    BY <1>1, <1>2, IdleCall, BodyTypes, RunTypes
  <1>4. QED BY <1>1, <1>2, <1>3, IdleCall DEF BodiesInv, Admits, Named

\* A step after which no call may start a run that could not before, and that
\* makes no run and takes no key.
LEMMA BodiesStay ==
  ASSUME BodiesInv, Rest', we_call' \in [Caller -> CallRecord], Named',
         we_run' \in Seq(WE!Runs), DOMAIN we_run' = DOMAIN we_run, Len(we_run') <= MaxRuns,
         \A r \in DOMAIN we_run : we_run'[r].body = we_run[r].body /\ we_run'[r].old = we_run[r].old,
         we_replay \subseteq we_replay',
         \A c \in Caller : \A b \in WE!Body : Admits(c, b)' => Admits(c, b)
  PROVE  BodiesInv'
  <1>1. \A r \in DOMAIN we_run : \A b \in WE!Body : RunOf(r, b)' <=> RunOf(r, b)
    BY DEF RunOf
  <1>2. WE!TypeOK'
    BY RunTypes DEF WE!TypeOK, Rest, CallRecord
  <1>3. QED BY <1>1, <1>2 DEF BodiesInv

\* A call that leaves, or goes on with its body.
LEMMA CallGoes ==
  ASSUME BodiesInv, NEW c \in Caller, NEW x \in CallRecord, we_call' = [we_call EXCEPT ![c] = x],
         x.at = "idle" \/ x.event \in Problems,
         \/ x.at \in {"idle", "follow"}
         \/ x.body = None
         \/ x.body = we_call[c].body /\ we_call[c].at \notin {"idle", "follow"},
         UNCHANGED <<we_replay, we_run>>, Rest'
  PROVE  BodiesInv'
  <1>1. we_call \in [Caller -> CallRecord]
    BY BodyTypes DEF BodiesInv
  <1>2. we_call' \in [Caller -> CallRecord] /\ we_call'[c] = x
        /\ \A d \in Caller \ {c} : we_call'[d] = we_call[d]
    BY <1>1
  <1>3. /\ \A d \in Caller : \A b \in WE!Body : Admits(d, b)' => Admits(d, b)
        /\ Named'
    BY <1>2, NoBody DEF Admits, Named, BodiesInv
  <1>4. QED BY <1>2, <1>3, BodiesStay DEF BodiesInv

\* A step of one run.
LEMMA RunGoes ==
  ASSUME BodiesInv, NEW k, NEW x, we_run' = [we_run EXCEPT ![k] = x],
         k \in DOMAIN we_run => /\ x \in WE!Runs
                                /\ x.body = we_run[k].body /\ x.old = we_run[k].old,
         we_replay' = we_replay, we_call' \in [Caller -> CallRecord], Rest', Named',
         \A c \in Caller : \A b \in WE!Body : Admits(c, b)' => Admits(c, b)
  PROVE  BodiesInv'
  <1>1. we_run' \in Seq(WE!Runs) /\ DOMAIN we_run' = DOMAIN we_run /\ Len(we_run') = Len(we_run)
    <2>1. we_run \in Seq(WE!Runs) /\ we_run \in [DOMAIN we_run -> WE!Runs]
      BY BodyTypes DEF BodiesInv
    <2>2. we_run' \in [DOMAIN we_run -> WE!Runs]
      BY <2>1
    <2>3. QED BY <2>1, <2>2, RunsAgain
  <1>2. \A r \in DOMAIN we_run : we_run'[r].body = we_run[r].body /\ we_run'[r].old = we_run[r].old
    BY <1>1 DEF BodiesInv
  <1>3. QED BY <1>1, <1>2, BodiesStay DEF BodiesInv

\* The first delivery of a body in its window.
LEMMA DeliverKeeps ==
  ASSUME BodiesInv, NEW c \in Caller, NEW b \in WE!Body, NEW path \in {"auto", "execute"},
         WE!Deliver(c, b, path)
  PROVE  BodiesInv'
  <1>1. PICK x : x = [WE!Idle EXCEPT !.at = "admitted", !.path = path, !.event = b[1], !.body = b]
    OBVIOUS
  <1>2. x \in CallRecord /\ x.at = "admitted" /\ x.body = b
    <2>1. b[1] \in Problems
      BY DEF WE!Body
    <2>2. x = [at |-> "admitted", path |-> path, event |-> b[1], body |-> b, host |-> FALSE, run |-> 0]
      BY <1>1 DEF WE!Idle
    <2>3. 0 \in 0..MaxRuns
      BY RemoteWorkAssumption
    <2>4. QED BY <2>1, <2>2, <2>3 DEF CallRecord, WE!At, WE!Paths
  <1>3. /\ we_call' = [we_call EXCEPT ![c] = x] /\ we_replay' = we_replay \cup {b}
        /\ b \notin we_replay /\ we_call[c].at = "idle" /\ we_run' = we_run
        /\ UNCHANGED <<we_enabled, we_dedup, we_debounce, we_faults>>
    BY <1>1 DEF WE!Deliver, WE!Admitted
  <1>4. we_call \in [Caller -> CallRecord] /\ Rest
    BY BodyTypes DEF BodiesInv
  <1>5. we_call' \in [Caller -> CallRecord] /\ Rest' /\ we_call'[c] = x
        /\ \A d \in Caller \ {c} : we_call'[d] = we_call[d]
    BY <1>2, <1>3, <1>4 DEF Rest
  <1>6. WE!TypeOK'
    BY <1>3, <1>5, RunTypes DEF BodiesInv, WE!TypeOK, Rest, CallRecord
  <1>7. \A a \in WE!Body : /\ \A r \in DOMAIN we_run : RunOf(r, a)' <=> RunOf(r, a)
                           /\ \A d \in Caller \ {c} : Admits(d, a)' <=> Admits(d, a)
                           /\ Admits(c, a)' <=> a = b
    BY <1>2, <1>3, <1>5 DEF RunOf, Admits
  <1>8. /\ \A d \in Caller : ~Admits(d, b)
        /\ \A r \in DOMAIN we_run : ~RunOf(r, b)
    BY <1>3 DEF BodiesInv
  <1>9. Named'
    <2>1. x.event \in Problems
      <3>1. x.event = b[1]
        BY <1>1 DEF WE!Idle
      <3>2. QED BY <3>1 DEF WE!Body
    <2>2. QED BY <1>5, <2>1 DEF Named, BodiesInv
  <1>10. QED BY <1>3, <1>6, <1>7, <1>8, <1>9 DEF BodiesInv

\* The one call of a body makes its one run.
LEMMA DispatchKeeps ==
  ASSUME BodiesInv, NEW c \in Caller, NEW s \in WE!States, NEW x \in CallRecord,
         we_call[c].at = "dispatch", WE!NewRun(c, s), we_call' = [we_call EXCEPT ![c] = x],
         x.at \in {"idle", "follow"}, x.at = "idle" \/ x.event \in Problems,
         we_replay' = we_replay, Rest'
  PROVE  BodiesInv'
  <1>1. PICK y : y = [event |-> we_call[c].event, body |-> we_call[c].body, state |-> s,
                      on |-> IF we_call[c].host THEN "affected" ELSE "template",
                      old |-> FALSE, posted |-> "no"]
    OBVIOUS
  <1>2. /\ we_call \in [Caller -> CallRecord] /\ we_run \in Seq(WE!Runs)
        /\ we_run' = Append(we_run, y) /\ Len(we_run) < MaxRuns
    BY <1>1, BodyTypes DEF BodiesInv, WE!NewRun
  <1>3. y \in WE!Runs /\ y.body = we_call[c].body /\ y.old = FALSE
    <2>1. we_call[c].event \in Problems
      BY DEF BodiesInv, Named
    <2>2. we_call[c].body \in WE!Body \cup {None}
      BY <1>2 DEF CallRecord
    <2>3. QED BY <1>1, <2>1, <2>2 DEF WE!Runs, WE!States
  <1>4. /\ we_call' \in [Caller -> CallRecord] /\ we_call'[c] = x
        /\ \A d \in Caller \ {c} : we_call'[d] = we_call[d]
    BY <1>2
  <1>5. PICK n : n = Len(we_run) + 1
    OBVIOUS
  <1>6. /\ we_run' \in Seq(WE!Runs) /\ Len(we_run') <= MaxRuns
        /\ DOMAIN we_run' = DOMAIN we_run \cup {n} /\ n \notin DOMAIN we_run
        /\ we_run'[n] = y /\ \A r \in DOMAIN we_run : we_run'[r] = we_run[r]
    BY <1>2, <1>3, <1>5, RemoteWorkAssumption
  <1>7. WE!TypeOK'
    BY <1>4, <1>6, RunTypes DEF WE!TypeOK, Rest, CallRecord
  <1>8. \A b \in WE!Body : /\ \A r \in DOMAIN we_run : RunOf(r, b)' <=> RunOf(r, b)
                           /\ RunOf(n, b)' <=> Admits(c, b)
                           /\ \A d \in Caller \ {c} : Admits(d, b)' <=> Admits(d, b)
                           /\ ~Admits(c, b)'
    BY <1>3, <1>4, <1>6 DEF RunOf, Admits
  <1>9. Named'
    BY <1>4 DEF Named, BodiesInv
  <1>10. QED BY <1>6, <1>7, <1>8, <1>9 DEF BodiesInv

\* A window ends once no call may start a run of the body.
LEMMA WindowKeeps ==
  ASSUME BodiesInv, NEW b \in WE!Body, WE!ReplayExpires(b)
  PROVE  BodiesInv'
  <1>1. /\ we_replay' = we_replay \ {b} /\ we_call' = we_call
        /\ we_run' = [r \in DOMAIN we_run |-> [we_run[r] EXCEPT !.old = @ \/ we_run[r].body = b]]
        /\ \A c \in Caller : we_call[c].body = b => we_call[c].at = "follow"
        /\ UNCHANGED <<we_enabled, we_dedup, we_debounce, we_faults>>
    BY DEF WE!ReplayExpires
  <1>2. /\ DOMAIN we_run' = DOMAIN we_run
        /\ \A r \in DOMAIN we_run : /\ we_run'[r] \in WE!Runs /\ we_run'[r].body = we_run[r].body
                                    /\ we_run'[r].old <=> we_run[r].old \/ we_run[r].body = b
    <2>1. DOMAIN we_run' = DOMAIN we_run
      BY <1>1
    <2>2. ASSUME NEW r \in DOMAIN we_run
          PROVE  /\ we_run'[r] \in WE!Runs /\ we_run'[r].body = we_run[r].body
                 /\ we_run'[r].old <=> we_run[r].old \/ we_run[r].body = b
      <3>1. PICK o \in BOOLEAN : o = (we_run[r].old \/ we_run[r].body = b)
        OBVIOUS
      <3>2. we_run'[r] = [we_run[r] EXCEPT !.old = o]
        BY <1>1, <3>1
      <3>3. we_run[r] \in WE!Runs
        BY BodyTypes DEF BodiesInv
      <3>4. /\ we_run'[r] \in WE!Runs /\ we_run'[r].body = we_run[r].body
            /\ we_run'[r].old = o
        BY <3>2, <3>3 DEF WE!Runs
      <3>5. QED BY <3>1, <3>4
    <2>3. QED BY <2>1, <2>2
  <1>3. we_run' \in Seq(WE!Runs) /\ Len(we_run') = Len(we_run)
    <2>1. we_run' \in [DOMAIN we_run -> WE!Runs]
      BY <1>1, <1>2
    <2>2. QED BY <2>1, RunsAgain DEF BodiesInv
  <1>4. Rest' /\ we_call' \in [Caller -> CallRecord]
    BY <1>1, BodyTypes DEF BodiesInv, Rest
  <1>5. WE!TypeOK'
    BY <1>3, <1>4, RunTypes DEF BodiesInv, WE!TypeOK, Rest, CallRecord
  <1>6. \A a \in WE!Body : /\ \A c \in Caller : (Admits(c, a)' <=> Admits(c, a)) /\ (Admits(c, a) => a # b)
                           /\ \A r \in DOMAIN we_run : RunOf(r, a)' <=> RunOf(r, a) /\ a # b
    BY <1>1, <1>2 DEF Admits, RunOf
  <1>7. Named'
    BY <1>1 DEF Named, BodiesInv
  <1>8. QED BY <1>1, <1>2, <1>3, <1>5, <1>6, <1>7 DEF BodiesInv

LEMMA CallKeeps ==
  ASSUME BodiesInv, NEW c \in Caller,
         \/ WE!DedupAsk(c) \/ WE!DedupMark(c) \/ WE!Debounce(c) \/ WE!Match(c) \/ WE!MatchFails(c)
         \/ WE!Lookup(c) \/ WE!LookupFails(c) \/ WE!PostFails(c)
         \/ \E e \in Problems : WE!Console(c, e)
  PROVE  BodiesInv'
  <1>1. we_call[c] \in CallRecord /\ Rest
    BY BodyTypes DEF BodiesInv
  <1>2. Rest' /\ UNCHANGED <<we_replay, we_run>>
    <2>1. we_call[c].at \in {"admitted", "checked"} => we_call[c].event \in Problems
      BY DEF BodiesInv, Named
    <2>2. /\ we_enabled' = we_enabled /\ UNCHANGED <<we_replay, we_run>>
          /\ \/ we_dedup' = we_dedup
             \/ we_dedup' = we_dedup \cup {we_call[c].event} /\ we_call[c].at = "checked"
          /\ \/ we_debounce' = we_debounce
             \/ we_debounce' = we_debounce \cup {we_call[c].event} /\ we_call[c].at = "admitted"
          /\ we_faults' = we_faults \/ (we_faults < MaxFaults /\ we_faults' = we_faults + 1)
      BY DEF WE!DedupAsk, WE!DedupMark, WE!Debounce, WE!Match, WE!MatchFails, WE!Lookup,
             WE!LookupFails, WE!PostFails, WE!Console, WE!Fault
    <2>3. we_faults' \in 0..MaxFaults
      BY <1>1, <2>2, RemoteWorkAssumption DEF Rest
    <2>4. QED BY <1>1, <2>1, <2>2, <2>3 DEF Rest
  <1>3. CASE we_call' = [we_call EXCEPT ![c] = WE!Idle]
    BY <1>2, <1>3, IdleCall, CallGoes
  <1>4. CASE /\ we_call[c].at \notin {"idle", "follow"}
             /\ \E at \in {"checked", "marked", "lookup", "dispatch"} : WE!Goto(c, at)
    <2>1. PICK at \in {"checked", "marked", "lookup", "dispatch"} :
            we_call' = [we_call EXCEPT ![c].at = at]
      BY <1>4 DEF WE!Goto
    <2>2. PICK x : x = [we_call[c] EXCEPT !.at = at]
      OBVIOUS
    <2>3. we_call' = [we_call EXCEPT ![c] = x]
      BY <2>1, <2>2
    <2>4. x \in CallRecord /\ x.body = we_call[c].body /\ x.event = we_call[c].event
      BY <1>1, <2>2 DEF CallRecord, WE!At
    <2>5. QED BY <1>2, <1>4, <2>3, <2>4, CallGoes DEF BodiesInv, Named
  <1>5. CASE WE!Lookup(c)
    <2>1. PICK x : x = [we_call[c] EXCEPT !.at = "dispatch", !.host = TRUE]
      OBVIOUS
    <2>2. we_call' = [we_call EXCEPT ![c] = x] /\ we_call[c].at = "lookup"
      BY <1>5, <2>1 DEF WE!Lookup
    <2>3. x \in CallRecord /\ x.body = we_call[c].body /\ x.event = we_call[c].event
      BY <1>1, <2>1 DEF CallRecord, WE!At
    <2>4. QED BY <1>2, <2>2, <2>3, CallGoes DEF BodiesInv, Named
  <1>6. ASSUME NEW e \in Problems, WE!Console(c, e) PROVE BodiesInv'
    <2>1. PICK x : x = [WE!Idle EXCEPT !.at = "dispatch", !.path = "console", !.event = e,
                                       !.host = TRUE]
      OBVIOUS
    <2>2. we_call' = [we_call EXCEPT ![c] = x]
      BY <1>6, <2>1 DEF WE!Console
    <2>3. x \in CallRecord /\ x.body = None /\ x.event = e
      <3>1. x = [at |-> "dispatch", path |-> "console", event |-> e, body |-> None, host |-> TRUE,
                 run |-> 0]
        BY <2>1 DEF WE!Idle
      <3>2. 0 \in 0..MaxRuns
        BY RemoteWorkAssumption
      <3>3. QED BY <3>1, <3>2 DEF CallRecord, WE!At, WE!Paths
    <2>4. QED BY <1>2, <2>2, <2>3, CallGoes
  <1>7. QED BY <1>3, <1>4, <1>5, <1>6
          DEF WE!DedupAsk, WE!DedupMark, WE!Debounce, WE!Match, WE!MatchFails,
              WE!LookupFails, WE!PostFails, WE!Leave

LEMMA RunKeeps ==
  ASSUME BodiesInv, NEW r \in DOMAIN we_run, WE!Approve(r) \/ WE!Reject(r) \/ WE!RunEnds(r)
  PROVE  BodiesInv'
  <1>1. we_run[r] \in WE!Runs /\ Rest /\ we_call \in [Caller -> CallRecord]
    BY BodyTypes DEF BodiesInv
  <1>2. PICK state \in WE!States, on \in {"affected", "template"} :
          we_run' = [we_run EXCEPT ![r].state = state, ![r].on = on]
    <2>1. CASE WE!Approve(r)
      BY <2>1 DEF WE!Approve, WE!States
    <2>2. CASE WE!Reject(r) \/ WE!RunEnds(r)
      <3>1. PICK state \in WE!States : we_run' = [we_run EXCEPT ![r].state = state]
        BY <2>2 DEF WE!Reject, WE!RunEnds, WE!States
      <3>2. we_run' = [we_run EXCEPT ![r].state = state, ![r].on = we_run[r].on]
        BY <1>1, <3>1 DEF WE!Runs
      <3>3. QED BY <1>1, <3>2 DEF WE!Runs
    <2>3. QED BY <2>1, <2>2
  <1>3. PICK x : x = [we_run[r] EXCEPT !.state = state, !.on = on]
    OBVIOUS
  <1>4. we_run' = [we_run EXCEPT ![r] = x]
    BY <1>2, <1>3
  <1>5. x \in WE!Runs /\ x.body = we_run[r].body /\ x.old = we_run[r].old
    BY <1>1, <1>3 DEF WE!Runs
  <1>6. UNCHANGED <<we_enabled, we_replay, we_dedup, we_debounce, we_call, we_faults>>
    BY DEF WE!Approve, WE!Reject, WE!RunEnds
  <1>7. Rest' /\ Named' /\ we_call' \in [Caller -> CallRecord]
        /\ \A c \in Caller : \A b \in WE!Body : Admits(c, b)' => Admits(c, b)
    BY <1>1, <1>6 DEF Rest, Named, Admits, BodiesInv
  <1>8. QED BY <1>4, <1>5, <1>6, <1>7, RunGoes

LEMMA PostKeeps ==
  ASSUME BodiesInv, NEW c \in Caller, WE!Post(c)
  PROVE  BodiesInv'
  <1>1. /\ we_call \in [Caller -> CallRecord] /\ Rest
        /\ \A r \in DOMAIN we_run : we_run[r] \in WE!Runs
    BY BodyTypes DEF BodiesInv
  <1>2. PICK k : k = we_call[c].run
    OBVIOUS
  <1>3. PICK x : x = [we_run[k] EXCEPT !.posted = we_run[k].state]
    OBVIOUS
  <1>4. /\ we_run' = [we_run EXCEPT ![k] = x] /\ we_call' = [we_call EXCEPT ![c] = WE!Idle]
        /\ UNCHANGED <<we_enabled, we_replay, we_dedup, we_debounce, we_faults>>
    BY <1>2, <1>3 DEF WE!Post, WE!Leave
  <1>5. k \in DOMAIN we_run => x \in WE!Runs /\ x.body = we_run[k].body /\ x.old = we_run[k].old
    BY <1>1, <1>3 DEF WE!Runs
  <1>6. Rest' /\ we_call' \in [Caller -> CallRecord]
    BY <1>1, <1>4, IdleCall DEF Rest
  <1>7. /\ Named'
        /\ \A d \in Caller : \A b \in WE!Body : Admits(d, b)' => Admits(d, b)
    BY <1>1, <1>4, IdleCall DEF Named, Admits, BodiesInv
  <1>8. QED BY <1>4, <1>5, <1>6, <1>7, RunGoes

LEMMA BodiesKeep == BodiesInv /\ [WE!Next]_(WE!vars) => BodiesInv'
  <1> SUFFICES ASSUME BodiesInv, [WE!Next]_(WE!vars) PROVE BodiesInv'
    OBVIOUS
  <1>1. /\ Rest /\ we_call \in [Caller -> CallRecord] /\ we_run \in Seq(WE!Runs)
        /\ Len(we_run) <= MaxRuns
    BY BodyTypes DEF BodiesInv
  <1>2. ASSUME NEW c \in Caller, NEW b \in WE!Body,
               WE!Deliver(c, b, "auto") \/ WE!Deliver(c, b, "execute")
        PROVE  BodiesInv'
    BY <1>2, DeliverKeeps
  <1>3. ASSUME NEW c \in Caller, WE!Dispatch(c) PROVE BodiesInv'
    <2>1. PICK x : x = [we_call[c] EXCEPT !.at = "follow", !.run = Len(we_run) + 1]
      OBVIOUS
    <2>2. PICK s \in WE!States : WE!NewRun(c, s)
      BY <1>3 DEF WE!Dispatch, WE!States
    <2>3. /\ we_call' = [we_call EXCEPT ![c] = x] /\ we_call[c].at = "dispatch"
          /\ UNCHANGED <<we_enabled, we_replay, we_dedup, we_debounce, we_faults>>
      BY <1>3, <2>1 DEF WE!Dispatch
    <2>4. Len(we_run) + 1 \in 0..MaxRuns
      BY <1>1, <2>2, RemoteWorkAssumption DEF WE!NewRun
    <2>5. x \in CallRecord /\ x.at = "follow" /\ x.event = we_call[c].event
      BY <1>1, <2>1, <2>4 DEF CallRecord, WE!At
    <2>6. Rest'
      BY <1>1, <2>3 DEF Rest
    <2>7. x.event \in Problems
      BY <2>3, <2>5 DEF BodiesInv, Named
    <2>8. QED BY <2>2, <2>3, <2>5, <2>6, <2>7, DispatchKeeps
  <1>4. ASSUME NEW c \in Caller, WE!DispatchFails(c) PROVE BodiesInv'
    <2>1. /\ we_call' = [we_call EXCEPT ![c] = WE!Idle] /\ we_call[c].at = "dispatch"
          /\ UNCHANGED <<we_enabled, we_replay, we_dedup, we_debounce>>
          /\ we_faults < MaxFaults /\ we_faults' = we_faults + 1
      BY <1>4 DEF WE!DispatchFails, WE!Leave, WE!Fault
    <2>2. Rest'
      BY <1>1, <2>1, RemoteWorkAssumption DEF Rest
    <2>3. CASE we_run' = we_run
      BY <2>1, <2>2, <2>3, IdleCall, CallGoes
    <2>4. CASE WE!NewRun(c, "running")
      BY <2>1, <2>2, <2>4, IdleCall, DispatchKeeps DEF WE!States
    <2>5. QED BY <1>4, <2>3, <2>4 DEF WE!DispatchFails
  <1>5. CASE WE!Restart
    <2>1. /\ we_call' = [c \in Caller |-> WE!Idle]
          /\ UNCHANGED <<we_enabled, we_replay, we_dedup, we_debounce, we_run>>
          /\ we_faults < MaxFaults /\ we_faults' = we_faults + 1
      BY <1>5 DEF WE!Restart, WE!Fault
    <2>2. Rest' /\ we_call' \in [Caller -> CallRecord]
      BY <1>1, <2>1, IdleCall, RemoteWorkAssumption DEF Rest
    <2>3. Named' /\ \A c \in Caller : \A b \in WE!Body : ~Admits(c, b)'
      BY <2>1, IdleCall DEF Named, Admits
    <2>4. QED BY <1>1, <2>1, <2>2, <2>3, BodiesStay
  <1>6. CASE WE!Switch \/ \E e \in Problems : WE!KeyExpires(e)
    <2>1. /\ UNCHANGED <<we_replay, we_call, we_run, we_faults>>
          /\ we_enabled' \in BOOLEAN /\ we_dedup' \subseteq we_dedup
          /\ we_debounce' \subseteq we_debounce
      BY <1>1, <1>6 DEF WE!Switch, WE!KeyExpires, Rest
    <2>2. Rest' /\ Named'
      BY <1>1, <2>1 DEF Rest, Named, BodiesInv
    <2>3. \A c \in Caller : \A b \in WE!Body : Admits(c, b)' => Admits(c, b)
      BY <2>1 DEF Admits
    <2>4. QED BY <1>1, <2>1, <2>2, <2>3, BodiesStay
  <1>7. CASE UNCHANGED WE!vars
    BY <1>7 DEF WE!vars, BodiesInv, WE!TypeOK, Named, Admits, RunOf
  <1>8. QED BY <1>2, <1>3, <1>4, <1>5, <1>6, <1>7, CallKeeps, RunKeeps, PostKeeps, WindowKeeps
          DEF WE!Next

LEMMA SameCardinality == \A S : WE!Cardinality(S) = Cardinality(S)
  BY DEF WE!Cardinality, Cardinality

LEMMA BodiesSafe == BodiesInv => WE!TypeOK /\ WE!BodyRunsOnce
  <1> SUFFICES ASSUME BodiesInv PROVE WE!TypeOK /\ WE!BodyRunsOnce
    OBVIOUS
  <1>1. ASSUME NEW b \in WE!Body
        PROVE  Cardinality({r \in DOMAIN we_run : we_run[r].body = b /\ ~we_run[r].old}) <= 1
    <2> DEFINE S == {r \in DOMAIN we_run : we_run[r].body = b /\ ~we_run[r].old}
    <2>2. \A r \in S : r \in DOMAIN we_run /\ RunOf(r, b)
      BY DEF RunOf
    <2>3. \A r, q \in S : q = r
      BY <2>2 DEF BodiesInv
    <2> HIDE DEF S
    <2>4. S = {} \/ \E r : S = {r}
      BY <2>3
    <2>5. Cardinality(S) \in {0, 1}
      BY <2>4, FS_EmptySet, FS_Singleton
    <2>6. Cardinality(S) <= 1
      BY <2>5
    <2>7. QED BY <2>6, Zenon DEF S
  <1>2. WE!BodyRunsOnce
    BY <1>1, SameCardinality, Zenon DEF WE!BodyRunsOnce
  <1>3. QED BY <1>2 DEF BodiesInv

(***************************************************************************)
(* The four side by side                                                   *)
(***************************************************************************)
PartsInv ==
  /\ part = "sftp" => TransfersInv
  /\ part = "tasks" => TasksInv
  /\ part = "chain" => StepsInv
  /\ part = "webhook" => BodiesInv

AllVars == <<part, SF!vars, HT!vars, CH!vars, WE!vars>>

\* Each takes its own steps, or rests.
LEMMA PartsSteps ==
  ASSUME [PartsNext]_AllVars
  PROVE  /\ part' = part
         /\ part = "sftp" => [SF!Next]_(SF!vars)
         /\ part = "tasks" => [HT!Next]_(HT!vars)
         /\ part = "chain" => [CH!Next]_(CH!vars)
         /\ part = "webhook" => [WE!Next]_(WE!vars)
  BY DEF PartsNext, AllVars, SF!vars, HT!vars, CH!vars, WE!vars

LEMMA PartsInitSound == PartsInit => PartsInv
  BY TransfersInit, TasksInit, StepsInit, BodiesInit DEF PartsInit, PartsInv

LEMMA PartsKeep == PartsInv /\ [PartsNext]_AllVars => PartsInv'
  <1> SUFFICES ASSUME PartsInv, [PartsNext]_AllVars PROVE PartsInv'
    OBVIOUS
  <1>1. (part = "sftp" => TransfersInv)'
    BY PartsSteps, TransfersKeep DEF PartsInv
  <1>2. (part = "tasks" => TasksInv)'
    BY PartsSteps, TasksKeep DEF PartsInv
  <1>3. (part = "chain" => StepsInv)'
    BY PartsSteps, StepsKeep DEF PartsInv
  <1>4. (part = "webhook" => BodiesInv)'
    BY PartsSteps, BodiesKeep DEF PartsInv
  <1>5. QED BY <1>1, <1>2, <1>3, <1>4 DEF PartsInv

LEMMA PartsInvariance == PartsSpec => []PartsInv
  BY PartsInitSound, PartsKeep, PTL DEF PartsSpec, AllVars

\* A download is handed out only with its entry in the audit log, and bytes are
\* written only in the root, in whatever order operations resolve their names,
\* write, rename and remove files, and whichever of them fail (sftp.py: download,
\* upload, _resolve, upload_target).
THEOREM TransfersGuarded == PartsSpec => []TransfersAreGuarded
<1>1. PartsInv => TransfersAreGuarded
  BY TransfersSafe DEF PartsInv, TransfersAreGuarded
<1> QED  BY <1>1, PartsInvariance, PTL

\* A playbook ends with its attempt, timed out or not, and never works beside the
\* next attempt (ansible.py, runner.py: execute); a step of a chain runs once
\* those before it have succeeded or may fail, whatever was edited or cancelled
\* meanwhile (chain.py); a signed body starts one run in its window, on whichever
\* path and however often it is delivered (webhook.py: _authenticate).
THEOREM RemoteWorkGuarded == PartsSpec => []RemoteWorkIsGuarded
<1>1. PartsInv => RemoteWorkIsGuarded
  BY TasksSafe, StepsSafe, BodiesSafe DEF PartsInv, RemoteWorkIsGuarded
<1> QED  BY <1>1, PartsInvariance, PTL

=============================================================================
