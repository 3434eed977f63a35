--------------------------------- MODULE Sftp ---------------------------------
(* terminal-service, api/sftp.py: browsing and transferring files over the    *)
(* connection of an open SSH session.  Every operation is authorized, its     *)
(* path is resolved by the host and confined to the SFTP root, then it is     *)
(* done, and recorded: before the bytes move for a download, after them for   *)
(* the others.                                                                *)
(*                                                                            *)
(* A path is a directory and a name.  realpath may fail, for a link into a    *)
(* directory that is not there (yet), or for a moment: then the name stands    *)
(* for itself, and is opened as what it has become by then.  What lies outside *)
(* the root is files: a link that comes back from there is one to its end.     *)
EXTENDS Naturals, FiniteSets

CONSTANTS
    Call,         \* operations being handled at a time
    Name,
    MaxChanges    \* bound: changes to the files by others on the host

Root == "root"                   \* settings.sftp_root
Dir == {Root, "below", "outside"}
Path == Dir \X Name

VARIABLES
    fs,        \* the files and links of the host
    open,      \* the session is active and its connection is registered
    grants,    \* actions the authorization of the user and the host names
    call,
    rows,      \* of the audit log, the entries of transfers that went well
    last,      \* history: the last transfer, until another request comes
    changes

vars == <<fs, open, grants, call, rows, last, changes>>

Ops == {"list", "download", "upload", "mkdir", "rename", "delete"}
Transfers == {"download", "upload"}
Actions == {"sftp"} \cup Transfers

\* The action an operation asks for.
Needs(op) == IF op \in Transfers THEN op ELSE "sftp"

\* What a path may be, besides a link to another.
Nothing == <<"nothing", "">>
File == <<"file", "">>

NoPath == <<"outside", "">>
Paths == Path \cup {NoPath}
Idle == [at |-> "idle", op |-> "list", path |-> NoPath, to |-> NoPath, loose |-> FALSE]
Row == [op : Transfers, path : Path]

\* A transfer: the path that was confined, the file that was opened, and whether
\* that path was a link realpath did not follow, or has become one since.
Transfer == [op : Transfers, path : Path, file : Path, loose : BOOLEAN]
NoTransfer == [op |-> "none", path |-> NoPath, file |-> NoPath, loose |-> FALSE]

TypeOK ==
    /\ fs \in [Path -> {Nothing, File} \cup Path]
    /\ open \in BOOLEAN /\ grants \subseteq Actions
    /\ call \in [Call -> [at : {"idle", "asked", "granted", "resolved", "recorded", "done"},
                          op : Ops, path : Paths, to : Paths, loose : BOOLEAN]]
    /\ rows \subseteq Row
    /\ last \in Transfer \cup {NoTransfer}
    /\ changes \in 0..MaxChanges

Init ==
    /\ fs \in [Path -> {Nothing, File} \cup Path]
    /\ \A p \in Path : fs[p] # p
    /\ open = TRUE
    /\ \A p \in Path : p[1] = "outside" => fs[p] = File
    /\ grants \in {{}, {"sftp"}}
    /\ call = [c \in Call |-> Idle]
    /\ rows = {} /\ last = NoTransfer
    /\ changes = 0

-----------------------------------------------------------------------------
Goto(c, at) == call' = [call EXCEPT ![c].at = at]
Leave(c) == call' = [call EXCEPT ![c] = Idle]

\* log_action, of a refusal or of an operation that is no transfer: nothing
\* here depends on whether it is written, and the caller is told the same.
\* A critical entry that cannot be written is an error of the call.
LogCritical(c) == rows' = rows \cup {[op |-> call[c].op, path |-> call[c].path]}

Ask(c, op) ==
    /\ call[c].at = "idle"
    /\ call' = [call EXCEPT ![c].at = "asked", ![c].op = op]
    /\ last' = NoTransfer
    /\ UNCHANGED <<fs, open, grants, rows, changes>>

\* _authorize: no actions named restrict nothing, and neither does an elevation,
\* which is as if there were none.
Granted(c) == open /\ (grants = {} \/ Needs(call[c].op) \in grants)

Authorize(c) ==
    /\ call[c].at = "asked" /\ Granted(c)
    /\ Goto(c, "granted")
    /\ UNCHANGED <<fs, open, grants, rows, last, changes>>

Deny(c) ==
    /\ call[c].at = "asked" /\ ~Granted(c)
    /\ Leave(c)
    /\ UNCHANGED <<fs, open, grants, rows, last, changes>>

-----------------------------------------------------------------------------
(* Paths                                                                       *)

\* Where a path leads; a host gives up on links in a circle, or on more than two.
Hop(p) == IF fs[p] \in Path THEN fs[p] ELSE p
Real(p) == Hop(Hop(p))

\* _within_root.
Within(p) == p[1] # "outside"

\* What _resolve makes of a path: what sftp.realpath answers, or, when it fails,
\* the name in its directory; and whether that leaves a link.
AsNamed(p) == <<p, fs[p] \in Path>>
Resolved(p) == {AsNamed(p)} \cup {<<q, FALSE>> : q \in {r \in {Real(p)} : fs[r] \notin Path}}

\* Bug: the place of an upload is joined from the root and the name, and not
\* resolved again.
LandsJoined(p) == {<<p, FALSE>>}

\* upload: the name may be that of a link.
Lands(p) == Resolved(p)

\* _resolve, upload_target: an upload is asked for the root itself, and ends in
\* it when its name is resolved.
Targets(c, p) == IF call[c].op = "upload" THEN Lands(p) ELSE Resolved(p)

Confined(c, p, t) == /\ Within(t)
                     /\ call[c].op = "upload" => p[1] = Root /\ t[1] = Root

\* The request names p, and a rename q too: x and y are what they are resolved to.
Resolve(c) ==
    /\ call[c].at = "granted" /\ open
    /\ \E p, q \in Path : \E x \in Targets(c, p), y \in Targets(c, q) :
         /\ call[c].op # "rename" => p = q /\ x = y
         /\ Confined(c, p, x[1]) /\ Confined(c, q, y[1])
         /\ call' = [call EXCEPT ![c] = [call[c] EXCEPT !.at = "resolved", !.path = x[1], !.to = y[1],
                                                        !.loose = x[2] /\ call[c].op \in Transfers]]
    /\ UNCHANGED <<fs, open, grants, rows, last, changes>>

\* _deny_path: critical, and refused whether or not it is written.
DenyPath(c) ==
    /\ call[c].at = "granted" /\ open
    /\ \E p \in Path : \E x \in Targets(c, p) : ~Confined(c, p, x[1])
    /\ Leave(c)
    /\ UNCHANGED <<fs, open, grants, rows, last, changes>>

\* The connection is gone, or the host fails: an exception nobody records.
Breaks(c) ==
    /\ call[c].at \in {"granted", "recorded"}
    /\ Leave(c)
    /\ UNCHANGED <<fs, open, grants, rows, last, changes>>

-----------------------------------------------------------------------------
(* Downloads                                                                   *)

\* No such file, or a directory, or larger than it may be: refused before anything
\* is recorded.
DownloadRefused(c) ==
    /\ call[c].at = "resolved" /\ call[c].op = "download"
    /\ Leave(c)
    /\ UNCHANGED <<fs, open, grants, rows, last, changes>>

\* stat, which follows links, finds a file.
Found(c) == call[c].at = "resolved" /\ call[c].op = "download" /\ fs[Real(call[c].path)] = File

\* What is transferred is what the path leads to by now.
Opened(c) == [op |-> call[c].op, path |-> call[c].path, file |-> Real(call[c].path),
              loose |-> call[c].loose]

\* Bug: the entry of a download is like any other.
RecordDownloadAnyway(c) ==
    /\ Found(c)
    /\ LogCritical(c) \/ UNCHANGED rows
    /\ Goto(c, "recorded")
    /\ UNCHANGED <<fs, open, grants, last, changes>>

RecordDownload(c) ==
    /\ Found(c)
    /\ LogCritical(c)
    /\ Goto(c, "recorded")
    /\ UNCHANGED <<fs, open, grants, last, changes>>

Stream(c) ==
    /\ call[c].at = "recorded" /\ open
    /\ last' = IF fs[Real(call[c].path)] = File THEN Opened(c) ELSE last
    /\ Leave(c)
    /\ UNCHANGED <<fs, open, grants, rows, changes>>

-----------------------------------------------------------------------------
(* The others                                                                  *)

\* What opens a file follows the link it finds.  An upload may break off with
\* some of its bytes written.
Upload(c) ==
    /\ call[c].at = "resolved" /\ call[c].op = "upload" /\ open
    /\ fs[Real(call[c].path)] \notin Path
    /\ fs' = [fs EXCEPT ![Real(call[c].path)] = File]
    /\ last' = Opened(c)
    /\ Goto(c, "done") \/ Leave(c)
    /\ UNCHANGED <<open, grants, rows, changes>>

RecordUpload(c) ==
    /\ call[c].at = "done"
    /\ LogCritical(c)
    /\ Leave(c)
    /\ UNCHANGED <<fs, open, grants, last, changes>>

List(c) ==
    /\ call[c].at = "resolved" /\ call[c].op = "list" /\ open
    /\ Leave(c)
    /\ UNCHANGED <<fs, open, grants, rows, last, changes>>

\* A link has come to p: whoever has resolved p no longer knows where it leads.
Loosened(p) ==
    [c \in Call |-> IF /\ call[c].at \in {"resolved", "recorded"} /\ call[c].op \in Transfers
                       /\ call[c].path = p
                    THEN [call[c] EXCEPT !.loose = TRUE] ELSE call[c]]

\* mkdir, rename, remove; a directory is not told from nothing.
MakeOrRemove(c) ==
    LET p == call[c].path
    IN /\ call[c].at = "resolved" /\ open
       /\ \/ /\ call[c].op = "mkdir" /\ fs[p] = Nothing
             /\ UNCHANGED fs
          \/ /\ call[c].op = "delete" /\ fs[p] # Nothing
             /\ fs' = [fs EXCEPT ![p] = Nothing]
       /\ Leave(c)
       /\ UNCHANGED <<open, grants, rows, last, changes>>

\* A link that was not followed is itself renamed, and leads elsewhere if it is a
\* relative one.  What it is renamed to leads to no file.
Rename(c) ==
    LET p == call[c].path
        q == call[c].to
    IN /\ call[c].at = "resolved" /\ open /\ call[c].op = "rename"
       /\ p # q /\ fs[p] # Nothing /\ fs[Real(q)] # File
       /\ \E v \in IF fs[p] = File THEN {File} ELSE Path :
            /\ fs' = [fs EXCEPT ![p] = Nothing, ![q] = v]
            /\ call' = [(IF v = File THEN call ELSE Loosened(q)) EXCEPT ![c] = Idle]
       /\ UNCHANGED <<open, grants, rows, last, changes>>

\* What its users do on the host meanwhile (external).
HostChanges ==
    /\ changes < MaxChanges /\ changes' = changes + 1
    /\ \E p \in Path, v \in {Nothing, File} \cup Path :
         /\ Within(p) /\ v # p
         /\ fs' = [fs EXCEPT ![p] = v]
         /\ call' = IF v \in Path THEN Loosened(p) ELSE call
    /\ UNCHANGED <<open, grants, rows, last>>

\* The host refuses, or an upload is larger than it may be.
Fails(c) ==
    /\ call[c].at = "resolved" /\ call[c].op # "download"
    /\ Leave(c)
    /\ UNCHANGED <<fs, open, grants, rows, last, changes>>

\* The critical entry cannot be written: the call fails.
RecordFails(c) ==
    /\ \/ call[c].at = "done"
       \/ Found(c)
    /\ Leave(c)
    /\ UNCHANGED <<fs, open, grants, rows, last, changes>>

-----------------------------------------------------------------------------
SessionEnds ==
    /\ open
    /\ open' = FALSE
    /\ UNCHANGED <<fs, grants, call, rows, last, changes>>

Next ==
    \/ \E c \in Call, op \in Ops : Ask(c, op)
    \/ \E c \in Call : \/ Authorize(c) \/ Deny(c)
                       \/ Resolve(c) \/ DenyPath(c) \/ Breaks(c)
                       \/ DownloadRefused(c) \/ RecordDownload(c) \/ Stream(c)
                       \/ List(c) \/ Upload(c) \/ RecordUpload(c)
                       \/ MakeOrRemove(c) \/ Rename(c)
                       \/ Fails(c) \/ RecordFails(c)
    \/ SessionEnds \/ HostChanges

Spec == Init /\ [][Next]_vars

-----------------------------------------------------------------------------
\* sftp.py:22: a download that cannot be written to the audit log does not
\* happen.  What is handed over has its entry, under the path that was confined;
\* and it is the file of that path, unless realpath did not follow a link there,
\* or one has been laid there since.
DownloadIsRecorded ==
    last.op = "download" =>
        /\ Within(last.path) /\ [op |-> "download", path |-> last.path] \in rows
        /\ last.file = last.path \/ last.loose

\* sftp.py:440: an upload lands in the root itself, whatever its name is a link
\* to, and whatever the other operations do to the files meanwhile, with the
\* same exceptions.
UploadsLandInRoot ==
    last.op = "upload" =>
        /\ last.path[1] = Root
        /\ last.file = last.path \/ last.loose

\* sftp.py:22: transfers are recorded before their bytes move: an upload whose
\* entry cannot be written does not happen either.
UploadIsRecorded ==
    last.op = "upload" => [op |-> "upload", path |-> last.path] \in rows

\* sftp.py:24: a path is rejected if it escapes the root; what it leads to when it
\* is opened does not escape either.
TransfersStayBelow == last # NoTransfer => Within(last.file)
=============================================================================
