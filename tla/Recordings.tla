----------------------------- MODULE Recordings ------------------------------
(* recording-service: one row per terminal session, written when the session  *)
(* closes (api/internal.py), moved to S3 by the tier loop or by the           *)
(* housekeeping job, emptied by the retention loop or by the housekeeping job *)
(* (main.py), and played back (api/recordings.py).                            *)
(*                                                                            *)
(* Frames are a number: the write they came with, 0 for none.  Uploads are    *)
(* awaited one by one between the reading of the rows and the one commit that *)
(* empties them, so all the others may act in between.                        *)
EXTENDS Naturals

CONSTANTS
    Session,
    Tier,        \* who tiers: the hourly loop, the housekeeping job
    MaxWrites    \* bound: recordings posted

VARIABLES
    row,       \* za_recordings by session
    bucket,    \* the object of each row, which is named after the row, in each S3
    tier,      \* what each tiering has read, where it goes, and what of it has been uploaded
    writes,
    last,      \* history: the frames last written
    strays     \* history: rows written when they were old enough to be tiered, or emptied by retention

vars == <<row, bucket, tier, writes, last, strays>>

Ages == {"new", "tierable", "expired"}

\* storage.py: the S3 of the Log Backend page, which inventory-service keeps,
\* and the S3 of this service's own environment.
Places == {"admin", "env"}

Rows == [there : BOOLEAN, frames : 0..MaxWrites, digest : 0..MaxWrites,
         purged : BOOLEAN, at : {"local", "s3"}, age : Ages]

NoRow == [there |-> FALSE, frames |-> 0, digest |-> 0, purged |-> FALSE, at |-> "local", age |-> "new"]

Idle == [read |-> <<>>, to |-> "admin", up |-> {}]

TypeOK ==
    /\ row \in [Session -> Rows]
    /\ bucket \in [Places -> [Session -> 0..MaxWrites]]
    /\ \A t \in Tier : /\ DOMAIN tier[t].read \subseteq Session /\ tier[t].up \subseteq Session
                       /\ tier[t].to \in Places
    /\ writes \in 0..MaxWrites /\ strays \subseteq Session

Init ==
    /\ row = [s \in Session |-> NoRow]
    /\ bucket = [p \in Places |-> [s \in Session |-> 0]]
    /\ tier = [t \in Tier |-> Idle]
    /\ writes = 0
    /\ last = [s \in Session |-> 0]
    /\ strays = {}

-----------------------------------------------------------------------------
\* write_recording: a session that closes again replaces what it had; where
\* the row says its frames are is left alone.
WriteRecording(s) ==
    /\ writes < MaxWrites /\ writes' = writes + 1
    /\ row' = [row EXCEPT ![s].there = TRUE, ![s].frames = writes + 1,
                          ![s].digest = writes + 1, ![s].purged = FALSE]
    /\ last' = [last EXCEPT ![s] = writes + 1]
    /\ strays' = IF row[s].age = "new" THEN strays ELSE strays \cup {s}
    /\ UNCHANGED <<bucket, tier>>

GrowOld(s) ==
    /\ row[s].there /\ row[s].age # "expired"
    /\ row' = [row EXCEPT ![s].age = IF @ = "new" THEN "tierable" ELSE "expired"]
    /\ UNCHANGED <<bucket, tier, writes, last, strays>>

\* _retention_loop and housekeeping_purge.
Purge ==
    LET gone == {s \in Session : row[s].age = "expired" /\ ~row[s].purged}
    IN /\ gone # {}
       /\ row' = [s \in Session |-> IF s \in gone THEN [row[s] EXCEPT !.frames = 0, !.purged = TRUE]
                                    ELSE row[s]]
       /\ strays' = strays \cup gone
       /\ UNCHANGED <<bucket, tier, writes, last>>

\* _tier_loop and housekeeping_tier read the rows to move, when recordings are
\* routed to S3: to the S3 inventory-service names, to that of the environment
\* when inventory-service does not answer (resolve_recording_s3).
Tierable(s) ==
    /\ row[s].age # "new" /\ row[s].at = "local" /\ ~row[s].purged
    /\ row[s].frames # 0

TierRead(t) ==
    /\ tier[t].read = <<>>
    /\ \E s \in Session : Tierable(s)
    /\ \E p \in Places :
          tier' = [tier EXCEPT ![t].read = [s \in {r \in Session : Tierable(r)} |-> row[s].frames],
                               ![t].to = p]
    /\ UNCHANGED <<row, bucket, writes, last, strays>>

\* write_to_s3, read_from_s3: the key is made of the row's id.
Put(p, s, frames) == bucket' = [bucket EXCEPT ![p][s] = frames]
Get(p, s) == bucket[p][s]

Upload(t, s) ==
    /\ s \in DOMAIN tier[t].read \ tier[t].up
    /\ Put(tier[t].to, s, tier[t].read[s])
    /\ tier' = [tier EXCEPT ![t].up = @ \cup {s}]
    /\ UNCHANGED <<row, writes, last, strays>>

\* Bug: the rows are emptied whether or not their upload came through.
UploadedAnyway(t) == TRUE

Uploaded(t) == tier[t].up = DOMAIN tier[t].read

\* One commit for all of them, of the columns this loop has set.
TierCommit(t) ==
    /\ tier[t].read # <<>> /\ Uploaded(t)
    /\ row' = [s \in Session |-> IF s \in DOMAIN tier[t].read
                                 THEN [row[s] EXCEPT !.frames = 0, !.at = "s3"] ELSE row[s]]
    /\ tier' = [tier EXCEPT ![t] = Idle]
    /\ UNCHANGED <<bucket, writes, last, strays>>

\* An upload raises, or the service restarts: nothing is committed.
TierFails(t) ==
    /\ tier[t].read # <<>>
    /\ tier' = [tier EXCEPT ![t] = Idle]
    /\ UNCHANGED <<row, bucket, writes, last, strays>>

Next ==
    \/ \E s \in Session : WriteRecording(s) \/ GrowOld(s)
    \/ Purge
    \/ \E t \in Tier : \/ TierRead(t) \/ TierCommit(t) \/ TierFails(t)
                       \/ \E s \in Session : Upload(t, s)

Spec == Init /\ [][Next]_vars

-----------------------------------------------------------------------------
\* get_recording_frames: what is in S3 is asked of the environment's.
Played(s) == IF row[s].at = "s3" THEN Get("env", s) ELSE row[s].frames

Kept(s) == IF row[s].at = "s3" THEN {Get(p, s) : p \in Places} ELSE {row[s].frames}

\* verify_recording, for a row with a digest.
Verified(s) == row[s].frames = row[s].digest

\* Tiering loses nothing (recording-service main.py:46-79): whoever moves a
\* recording, at once or twice, and whatever fails on the way, what the session
\* wrote is in its row or in S3.  Rows written again once they were old enough
\* to move, and rows emptied by retention, are left out.
TieringKeepsFrames ==
    \A s \in Session \ strays : row[s].there => last[s] \in Kept(s)

\* api/recordings.py:164: what was moved to S3 is fetched back transparently.
TieredIsPlayed ==
    \A s \in Session \ strays : row[s].there => Played(s) = last[s]

\* main.py:27: retention purges the frame data of old recordings.
PurgedIsGone == \A s \in Session : row[s].purged => Kept(s) = {0}

\* api/internal.py:40,46: verification re-hashes what was written at ingest;
\* nobody tampers here, and a purged recording has no digest to compare.
IntactVerifies == \A s \in Session : row[s].there /\ ~row[s].purged => Verified(s)
=============================================================================
