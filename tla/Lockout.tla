------------------------------- MODULE Lockout -------------------------------
(* identity-service, _lockout.py: the row that counts the failed logins of    *)
(* one name from one address.  It is read before the password is compared, to *)
(* refuse while it is locked, and read and written after a failure, without a *)
(* lock of the database: logins of the same name run at the same time.        *)
EXTENDS Naturals

CONSTANTS
    Call,            \* logins being handled at a time
    MaxFailures,     \* settings.login_max_failures
    MaxRelief        \* bound: times the row is given up: the password was right, a window passed

VARIABLES
    row,      \* NoRow, or the count, whether it is locked, and whether its window has passed
    call,     \* what each login is doing, and the row it has read
    wrong,    \* history: failures answered since the row was last given up
    relief

vars == <<row, call, wrong, relief>>

Locks == {"never", "on", "over"}
NoRow == [fails |-> 0, lock |-> "never", stale |-> FALSE, there |-> FALSE]
Row == [fails : 0..MaxFailures, lock : Locks, stale : BOOLEAN, there : BOOLEAN]
Idle == [at |-> "idle", read |-> NoRow]

TypeOK ==
    /\ row \in Row
    /\ call \in [Call -> [at : {"idle", "admitted", "failed", "counted"}, read : Row]]
    /\ wrong \in 0..MaxFailures
    /\ relief \in 0..MaxRelief

Init == row = NoRow /\ call = [c \in Call |-> Idle] /\ wrong = 0 /\ relief = 0

Locked == row.lock = "on"
Goto(c, at) == call' = [call EXCEPT ![c].at = at]
Relief == relief < MaxRelief /\ relief' = relief + 1

-----------------------------------------------------------------------------
\* check_locked: while the lock runs a login is refused, whatever the password.
Admit(c) ==
    /\ call[c].at = "idle" /\ ~Locked
    /\ Goto(c, "admitted")
    /\ UNCHANGED <<row, wrong, relief>>

\* The password is wrong.
Fail(c) ==
    /\ call[c].at = "admitted"
    /\ Goto(c, "failed")
    /\ UNCHANGED <<row, wrong, relief>>

\* The password is right: the row is deleted.
Clear(c) ==
    /\ call[c].at = "admitted" /\ Relief
    /\ row' = NoRow /\ wrong' = 0
    /\ call' = [call EXCEPT ![c] = Idle]

\* Bug: a row that was never locked counts as one whose lock is over.
ShouldResetUnlocked(r) == r.lock # "on" \/ r.stale

\* should_reset: the lock was served, or the last failure is long ago.
ShouldReset(r) == r.lock = "over" \/ r.stale

\* record_failure reads the row.
Count(c) ==
    /\ call[c].at = "failed"
    /\ call' = [call EXCEPT ![c] = [at |-> "counted", read |-> row]]
    /\ UNCHANGED <<row, wrong, relief>>

\* What a failure counts, from the row it has read.
Fails(r) ==
    LET n == (IF ShouldReset(r) THEN 0 ELSE r.fails) + 1
    IN IF n > MaxFailures THEN MaxFailures ELSE n

\* ... and writes of it what it has changed, over what others have written.
Write(c) ==
    LET r == call[c].read
        n == Fails(r)
    IN /\ call[c].at = "counted" /\ r.there = row.there
       /\ row' = [fails |-> IF n # r.fails THEN n ELSE row.fails,
                  lock |-> IF n = MaxFailures THEN "on"
                           ELSE IF ShouldReset(r) /\ r.lock # "never" THEN "never" ELSE row.lock,
                  stale |-> FALSE, there |-> TRUE]
       /\ wrong' = IF ShouldReset(r) THEN 1 ELSE IF wrong < MaxFailures THEN wrong + 1 ELSE wrong
       /\ call' = [call EXCEPT ![c] = Idle]
       /\ UNCHANGED relief

\* Another has inserted the row, or deleted it: the statement fails, the caller
\* sees an error, and the failure is not counted.
WriteFails(c) ==
    /\ call[c].at = "counted" /\ call[c].read.there # row.there
    /\ call' = [call EXCEPT ![c] = Idle]
    /\ UNCHANGED <<row, wrong, relief>>

-----------------------------------------------------------------------------
LockEnds ==
    /\ row.lock = "on" /\ Relief
    /\ row' = [row EXCEPT !.lock = "over"] /\ wrong' = 0
    /\ UNCHANGED call

WindowPasses ==
    /\ row.there /\ ~row.stale /\ Relief
    /\ row' = [row EXCEPT !.stale = TRUE] /\ wrong' = 0
    /\ UNCHANGED call

Next ==
    \/ \E c \in Call : Admit(c) \/ Fail(c) \/ Clear(c) \/ Count(c) \/ Write(c) \/ WriteFails(c)
    \/ LockEnds \/ WindowPasses

Spec == Init /\ [][Next]_vars

\* Someone goes on guessing, and every login that has begun is answered.
Fairness == \A c \in Call : WF_vars(Admit(c) \/ Fail(c) \/ Count(c) \/ Write(c) \/ WriteFails(c))
FairSpec == Spec /\ Fairness

-----------------------------------------------------------------------------
\* _lockout.py:51: guessing is locked out in the end, although each failure
\* overwrites the row with a count that others may have passed meanwhile.
GuessingIsLocked == []<>Locked

\* _lockout.py:51, "lock the key once the threshold is hit": as many failures as
\* the threshold have been answered, and the row is locked.
LockedAtThreshold == wrong = MaxFailures => Locked
=============================================================================
