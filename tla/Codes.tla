-------------------------------- MODULE Codes --------------------------------
(* identity-service, api/auth.py: the codes mailed to a user who has chosen   *)
(* mail as the second factor, and what they open.  A code is kept in Redis    *)
(* under its user and its purpose; reading it, and what follows from what was *)
(* read (a miss counted, the code used up), are separate calls.               *)
EXTENDS Naturals, FiniteSets

CONSTANTS
    Call,          \* requests being handled at a time
    Purpose,       \* some of "login", "enroll", "disable", "reveal", "elevate"
    MaxCodes,      \* bound: codes that are issued
    MaxTries       \* _MFA_OTP_MAX_ATTEMPTS

VARIABLES
    method,      \* "none" or "email"
    slot,        \* by purpose: the code kept, with the misses counted on it
    issued,      \* how many codes were issued; a code is its number
    madeFor,     \* history: what each code was issued for
    latest,      \* history: by purpose, the last code mailed, while it should open
    call,
    opened,      \* history: <<purpose, code>> of what was opened
    twice        \* history: a code opened something a second time

vars == <<method, slot, issued, madeFor, latest, call, opened, twice>>

Code == 0..MaxCodes          \* 0 is no code, or a wrong one
Empty == [code |-> 0, tries |-> 0]
Slot == [code : Code, tries : 0..MaxTries]
Idle(p) == [at |-> "idle", purpose |-> p, entered |-> 0, read |-> Empty]
SomePurpose == CHOOSE p \in Purpose : TRUE

TypeOK ==
    /\ method \in {"none", "email"}
    /\ slot \in [Purpose -> Slot]
    /\ issued \in Code
    /\ madeFor \in [Code \ {0} -> Purpose]
    /\ latest \in [Purpose -> Code]
    /\ call \in [Call -> [at : {"idle", "read", "right"}, purpose : Purpose,
                          entered : Code, read : Slot]]
    /\ opened \subseteq Purpose \X Code
    /\ twice \in BOOLEAN

Init ==
    /\ method \in {"none", "email"}
    /\ slot = [p \in Purpose |-> Empty]
    /\ issued = 0
    /\ madeFor = [k \in Code \ {0} |-> SomePurpose]
    /\ latest = [p \in Purpose |-> 0]
    /\ call = [c \in Call |-> Idle(SomePurpose)]
    /\ opened = {} /\ twice = FALSE

-----------------------------------------------------------------------------
\* The user's codes are mailed, and not those of an application.
ByMail == method = "email"

\* A mailed factor is set up by those who have none, and used by those who have it.
Allowed(p) == IF p = "enroll" THEN method = "none" ELSE ByMail

\* Bug: one code per user, whatever it is for.
KeyOfUser(p) == SomePurpose

\* _otp_key.
Key(p) == p

\* _issue_otp, for a login that begins or is resent, and for the others on
\* request: the code is kept before it is mailed.
Issue(p, mailed) ==
    /\ Allowed(p) /\ issued < MaxCodes
    /\ issued' = issued + 1
    /\ madeFor' = [madeFor EXCEPT ![issued + 1] = p]
    /\ slot' = [slot EXCEPT ![Key(p)] = [code |-> issued + 1, tries |-> 0]]
    /\ latest' = [latest EXCEPT ![p] = IF mailed THEN issued + 1 ELSE 0]
    /\ UNCHANGED <<method, call, opened, twice>>

\* mfa_resend: not again while the last one is young.
Resend(mailed) ==
    /\ "login" \in Purpose
    /\ slot[Key("login")] # Empty
    /\ Issue("login", mailed)

\* The five minutes are over, for Redis and for the handler alike.
Expire(p) ==
    /\ slot[p] # Empty
    /\ slot' = [slot EXCEPT ![p] = Empty]
    /\ latest' = [latest EXCEPT ![p] = 0]
    /\ UNCHANGED <<method, issued, madeFor, call, opened, twice>>

-----------------------------------------------------------------------------
\* _consume_otp reads what is kept, ...
Enter(c, p, k) ==
    /\ call[c].at = "idle" /\ Allowed(p) /\ k <= issued
    /\ slot[Key(p)] # Empty
    /\ call' = [call EXCEPT ![c] = [at |-> "read", purpose |-> p, entered |-> k,
                                    read |-> slot[Key(p)]]]
    /\ UNCHANGED <<method, slot, issued, madeFor, latest, opened, twice>>

Leave(c) == call' = [call EXCEPT ![c] = Idle(SomePurpose)]
Keep(c, s) == slot' = [slot EXCEPT ![Key(call[c].purpose)] = s]

\* ... gives it up when it was tried too often, ...
TooMany(c) ==
    /\ call[c].at = "read" /\ call[c].read.tries = MaxTries
    /\ Keep(c, Empty)
    /\ latest' = [latest EXCEPT ![call[c].purpose] = 0]
    /\ Leave(c)
    /\ UNCHANGED <<method, issued, madeFor, opened, twice>>

\* ... writes it back with one miss more, ...
Miss(c) ==
    LET r == call[c].read
    IN /\ call[c].at = "read" /\ r.tries < MaxTries /\ call[c].entered # r.code
       /\ Keep(c, [r EXCEPT !.tries = r.tries + 1])
       /\ Leave(c)
       /\ UNCHANGED <<method, issued, madeFor, latest, opened, twice>>

\* ... or uses it up.
Match(c) ==
    LET r == call[c].read
    IN /\ call[c].at = "read" /\ r.tries < MaxTries /\ call[c].entered = r.code
       /\ Keep(c, Empty)
       /\ latest' = [latest EXCEPT ![call[c].purpose] = 0]
       /\ call' = [call EXCEPT ![c].at = "right"]
       /\ UNCHANGED <<method, issued, madeFor, opened, twice>>

\* What the code was asked for: a session that is verified, a token to reveal one
\* credential, an elevation, a factor that is set up or given up.
Open(c) ==
    LET p == call[c].purpose
        o == <<p, call[c].entered>>
    IN /\ call[c].at = "right"
       /\ method' = CASE p = "enroll" -> "email" [] p = "disable" -> "none" [] OTHER -> method
       /\ opened' = opened \cup {o}
       /\ twice' = (twice \/ o \in opened)
       /\ Leave(c)
       /\ UNCHANGED <<slot, issued, madeFor, latest>>

Next ==
    \/ \E p \in Purpose, mailed \in BOOLEAN : (p # "login" \/ slot[p] = Empty) /\ Issue(p, mailed)
    \/ \E mailed \in BOOLEAN : Resend(mailed)
    \/ \E p \in Purpose : Expire(p)
    \/ \E c \in Call, p \in Purpose, k \in Code : Enter(c, p, k)
    \/ \E c \in Call : TooMany(c) \/ Miss(c) \/ Match(c) \/ Open(c)

Spec == Init /\ [][Next]_vars

-----------------------------------------------------------------------------
\* auth.py:119: a code opens what it was issued for and nothing else, whatever
\* other codes are pending and whoever overwrites them meanwhile.
CodeIsForItsPurpose == \A o \in opened : madeFor[o[2]] = o[1]

\* auth.py:166: a code is used up by the first who enters it.
CodeServesOnce == ~twice

\* auth.py:166: the code mailed last is the one kept, while it has not expired and
\* was neither used nor tried too often.
LatestCodeOpens == \A p \in Purpose : latest[p] # 0 => slot[p].code = latest[p]
=============================================================================
