---------------------------- MODULE UserSession ----------------------------
(***************************************************************************)
(* Browser sessions: identity-service mints them in Redis, the api-gateway *)
(* looks them up on every request, slides their expiry, lets through only  *)
(* what the gates of the session permit, and deletes them at logout.  Each *)
(* await on Redis is a step of its own, so the calls of several tabs       *)
(* interleave.  The caller's roles are the subject of RoleAdmin: here they *)
(* may refuse any request.                                                 *)
(*                                                                         *)
(* A session id that nothing refers to any more may be issued again: the   *)
(* bound is on the ids in use, not on the number of logins.                *)
(***************************************************************************)
EXTENDS FiniteSets

CONSTANTS
  User,      \* accounts
  Sid,       \* session ids in use at a time
  Call,      \* requests being handled at a time
  Changes,   \* fields of an account that are changed administratively
  None       \* the absence of a session, an entry or a pointer

VARIABLES
  acct,      \* za_users, za_user_roles and the group policies of each account
  store,     \* session:<id> in Redis
  pointer,   \* user_session:<user> in Redis: the session single sign-on kicks
  call       \* what each request has read so far and does next

vars == <<acct, store, pointer, call>>

Account == [active : BOOLEAN,  \* za_users.is_active
            must   : BOOLEAN,  \* must_change_password
            mfa    : BOOLEAN,  \* a second factor is enrolled (mfa_method)
            forced : BOOLEAN,  \* some group of the user enforces MFA
            single : BOOLEAN]  \* single-session, for the user or a group

\* The gates a session carries, and (history) whether a code was shown, or
\* none was required, when it was minted.
Blob == [user : User, pwc : BOOLEAN, pend : BOOLEAN, setup : BOOLEAN,
         shown : BOOLEAN]

\* What the gateway routes to a service, and what it serves without its gates:
\* the probe "nav", and its "own" other endpoints with the upgrades of WebSockets.
\* ("verify" includes the resending of a code, "enroll" the set-up of a factor.)
Routed == {"password", "verify", "enroll", "disable", "work"}
Op     == Routed \cup {"nav", "own"}
At == {"idle", "found", "slid", "admitted",
       "mint", "kick", "point", "put", "leave", "unpoint", "drop"}

Idle == [at |-> "idle", sid |-> None, op |-> None, blob |-> None,
         prior |-> None]

TypeOK ==
  /\ acct \in [User -> Account]
  /\ store \in [Sid -> Blob \cup {None}]
  /\ pointer \in [User -> Sid \cup {None}]
  /\ call \in [Call -> [at : At, sid : Sid \cup {None}, op : Op \cup {None},
                        blob : Blob \cup {None}, prior : Sid \cup {None}]]

Live(s) == store[s] # None
Finish(c) == call' = [call EXCEPT ![c] = Idle]

\* Ids no key, pointer or request in flight mentions.
Unused == {s \in Sid : /\ ~Live(s)
                       /\ \A u \in User : pointer[u] # s
                       /\ \A c \in Call : s \notin {call[c].sid, call[c].prior}}

\* The id the next session gets.
NextSid == CHOOSE s \in Unused : TRUE

(***************************************************************************)
(* Minting a session                                                       *)
(***************************************************************************)
\* The claims _mint_session computes: verify an enrolled factor, else enrol
\* the one a group enforces.
Claims(a, u, pwc) ==
  [user |-> u, pwc |-> pwc, pend |-> a.mfa, setup |-> a.forced /\ ~a.mfa,
   shown |-> ~a.mfa /\ ~a.forced]

\* The claims of the sessions mfa_enable and mfa_verify_login create directly.
CleanClaims(a, u) ==
  [user |-> u, pwc |-> FALSE, pend |-> FALSE, setup |-> FALSE,
   shown |-> TRUE]

\* Bug: change-password creates its session directly and forgets the claims
\* of the second factor.
PasswordOnlyClaims(a, u) == [Claims(a, u, FALSE) EXCEPT !.pend = FALSE, !.setup = FALSE]

\* What change-password mints: the password gate is lifted, the others not.
PasswordClaims(a, u) == Claims(a, u, FALSE)

\* A handler goes on to create_session, which first reads the pointer of the
\* user when single-session is on.
StartMint(c, blob, single) ==
  /\ Unused # {}
  /\ call' = [call EXCEPT ![c] = [Idle EXCEPT !.at = IF single THEN "mint" ELSE "put",
                                              !.sid = NextSid, !.blob = blob]]

\* POST /auth/login with the right password: only an active account.
Login(c, u) ==
  /\ call[c].at = "idle"
  /\ acct[u].active
  /\ StartMint(c, Claims(acct[u], u, acct[u].must), acct[u].single)
  /\ UNCHANGED <<acct, store, pointer>>

\* /auth/sso-exchange and /auth/jumpserver-login: the other side vouches for
\* the user, active or not.
LoginDelegated(c, u) ==
  /\ call[c].at = "idle"
  /\ StartMint(c, Claims(acct[u], u, acct[u].must), acct[u].single)
  /\ UNCHANGED <<acct, store, pointer>>

\* create_session with single-session on: GET the pointer, DEL the session
\* it names, SET the pointer; then, in every case, SET the session.
MintReadPointer(c) ==
  /\ call[c].at = "mint"
  /\ call' = [call EXCEPT ![c].prior = pointer[call[c].blob.user],
                          ![c].at = IF pointer[call[c].blob.user] = None
                                    THEN "point" ELSE "kick"]
  /\ UNCHANGED <<acct, store, pointer>>

MintKick(c) ==
  /\ call[c].at = "kick"
  /\ store' = [store EXCEPT ![call[c].prior] = None]
  /\ call' = [call EXCEPT ![c].at = "point", ![c].prior = None]
  /\ UNCHANGED <<acct, pointer>>

MintPoint(c) ==
  /\ call[c].at = "point"
  /\ pointer' = [pointer EXCEPT ![call[c].blob.user] = call[c].sid]
  /\ call' = [call EXCEPT ![c].at = "put"]
  /\ UNCHANGED <<acct, store>>

MintStore(c) ==
  /\ call[c].at = "put"
  /\ store' = [store EXCEPT ![call[c].sid] = call[c].blob]
  /\ Finish(c)
  /\ UNCHANGED <<acct, pointer>>

(***************************************************************************)
(* A request at the gateway                                                *)
(***************************************************************************)
\* lookup_session GETs the blob; an id that is not there is a 401.
Present(c, s, op) ==
  /\ call[c].at = "idle"
  /\ Live(s)
  /\ call' = [call EXCEPT ![c] = [Idle EXCEPT !.at = "found", !.sid = s,
                                              !.op = op, !.blob = store[s]]]
  /\ UNCHANGED <<acct, store, pointer>>

\* ... and SETs what it read with a new expiry.
Slide(c) ==
  /\ call[c].at = "found"
  /\ store' = [store EXCEPT ![call[c].sid] = call[c].blob]
  /\ call' = [call EXCEPT ![c].at = "slid"]
  /\ UNCHANGED <<acct, pointer>>

\* Past the absolute deadline the lookup deletes the session instead.
LookupTooOld(c) ==
  /\ call[c].at = "found"
  /\ store' = [store EXCEPT ![call[c].sid] = None]
  /\ Finish(c)
  /\ UNCHANGED <<acct, pointer>>

\* Bug: the gateway leaves the password gate to the handlers.
GatedByFactor(blob, op) ==
  /\ blob.pend => op = "verify"
  /\ blob.setup => op = "enroll"

\* gateway(): what each gate of the session leaves open.
Gated(blob, op) ==
  /\ blob.pwc => op = "password"
  /\ blob.pend => op = "verify"
  /\ blob.setup => op = "enroll"

\* gateway(), ws_gateway() and the endpoints of main.py itself.
Admit(c) ==
  /\ call[c].at = "slid"
  /\ call[c].op \in Routed => Gated(call[c].blob, call[c].op)
  /\ call' = [call EXCEPT ![c].at = "admitted"]
  /\ UNCHANGED <<acct, store, pointer>>

\* A gate, or the roles of the caller, refuse the request.
Refuse(c) ==
  /\ call[c].at = "slid"
  /\ Finish(c)
  /\ UNCHANGED <<acct, store, pointer>>

(***************************************************************************)
(* The handlers behind the gateway                                         *)
(***************************************************************************)
Admitted(c, op) == call[c].at = "admitted" /\ call[c].op = op

ChangePassword(c) ==
  LET u == call[c].blob.user IN
  /\ Admitted(c, "password")
  /\ acct' = [acct EXCEPT ![u].must = FALSE]
  /\ StartMint(c, PasswordClaims(acct[u], u), acct[u].single)
  /\ UNCHANGED <<store, pointer>>

VerifyLogin(c) ==
  LET u == call[c].blob.user IN
  /\ Admitted(c, "verify")
  /\ acct[u].mfa
  /\ StartMint(c, CleanClaims(acct[u], u), acct[u].single)
  /\ UNCHANGED <<acct, store, pointer>>

EnableMfa(c) ==
  LET u == call[c].blob.user IN
  /\ Admitted(c, "enroll")
  /\ ~acct[u].mfa
  /\ acct' = [acct EXCEPT ![u].mfa = TRUE]
  /\ StartMint(c, CleanClaims(acct[u], u), acct[u].single)
  /\ UNCHANGED <<store, pointer>>

DisableMfa(c) ==
  LET u == call[c].blob.user IN
  /\ Admitted(c, "disable")
  /\ acct[u].mfa
  /\ acct' = [acct EXCEPT ![u].mfa = FALSE]
  /\ Finish(c)
  /\ UNCHANGED <<store, pointer>>

\* Any other request, and one its handler refuses (a wrong code or password,
\* a factor that is not enrolled or is already).
Answer(c) ==
  /\ call[c].at = "admitted"
  /\ Finish(c)
  /\ UNCHANGED <<acct, store, pointer>>

\* POST /auth/logout: GET the session, GET the pointer and DEL it only if it
\* still names this session, DEL the session.
LogoutRead(c, s) ==
  /\ call[c].at = "idle"
  /\ Live(s)
  /\ call' = [call EXCEPT ![c] = [Idle EXCEPT !.at = "leave", !.sid = s,
                                              !.blob = store[s]]]
  /\ UNCHANGED <<acct, store, pointer>>

LogoutReadPointer(c) ==
  /\ call[c].at = "leave"
  /\ call' = [call EXCEPT ![c].at = IF pointer[call[c].blob.user] = call[c].sid
                                    THEN "unpoint" ELSE "drop"]
  /\ UNCHANGED <<acct, store, pointer>>

LogoutUnpoint(c) ==
  /\ call[c].at = "unpoint"
  /\ pointer' = [pointer EXCEPT ![call[c].blob.user] = None]
  /\ call' = [call EXCEPT ![c].at = "drop"]
  /\ UNCHANGED <<acct, store>>

LogoutDrop(c) ==
  /\ call[c].at = "drop"
  /\ store' = [store EXCEPT ![call[c].sid] = None]
  /\ Finish(c)
  /\ UNCHANGED <<acct, pointer>>

(***************************************************************************)
(* Time and the administrator                                              *)
(***************************************************************************)
\* The idle window of a session, and of the pointer, which no lookup slides.
SessionExpires(s) ==
  /\ Live(s)
  /\ store' = [store EXCEPT ![s] = None]
  /\ UNCHANGED <<acct, pointer, call>>

PointerExpires(u) ==
  /\ pointer[u] # None
  /\ pointer' = [pointer EXCEPT ![u] = None]
  /\ UNCHANGED <<acct, store, call>>

\* PUT /users/{id}, /users/{id}/deprovision, /users/{id}/mfa/reset and the
\* policies of a group change the account and touch no session; a factor
\* is only ever taken away.
Administer(u, k) ==
  /\ k = "mfa" => acct[u].mfa
  /\ acct' = [acct EXCEPT ![u] = [@ EXCEPT ![k] = ~acct[u][k]]]
  /\ UNCHANGED <<store, pointer, call>>


(***************************************************************************)
(* The specification                                                       *)
(***************************************************************************)
Init ==
  /\ acct \in [User -> {a \in Account : ~a.mfa /\ a.active}]
  /\ store = [s \in Sid |-> None]
  /\ pointer = [u \in User |-> None]
  /\ call = [c \in Call |-> Idle]

\* The steps a request takes once it has arrived.
Proceed(c) ==
  \/ MintReadPointer(c) \/ MintKick(c) \/ MintPoint(c) \/ MintStore(c)
  \/ Slide(c) \/ LookupTooOld(c)
  \/ Admit(c) \/ Refuse(c)
  \/ ChangePassword(c) \/ VerifyLogin(c) \/ EnableMfa(c) \/ DisableMfa(c)
  \/ Answer(c)
  \/ LogoutReadPointer(c) \/ LogoutUnpoint(c) \/ LogoutDrop(c)

Next ==
  \/ \E c \in Call : Proceed(c)
  \/ \E c \in Call, u \in User : Login(c, u) \/ LoginDelegated(c, u)
  \/ \E c \in Call, s \in Sid, op \in Op : Present(c, s, op)
  \/ \E c \in Call, s \in Sid : LogoutRead(c, s)
  \/ \E s \in Sid : SessionExpires(s)
  \/ \E u \in User : PointerExpires(u)
  \/ \E u \in User, k \in Changes : Administer(u, k)

Spec == Init /\ [][Next]_vars

(***************************************************************************)
(* Properties                                                              *)
(***************************************************************************)
\* While an account must change its password, every session of it is held at
\* the password gate: no mint of another handler (enrolment and the second
\* factor mint sessions without that gate) can be reached around it, and the
\* gateway routes nothing but the change to a service.
MustChangeSticks ==
  /\ \A s \in Sid : Live(s) /\ acct[store[s].user].must => store[s].pwc
  /\ \A c \in Call : call[c].at = "admitted" /\ call[c].op \in Routed \ {"password"} =>
                      ~acct[call[c].blob.user].must

\* Whatever else the gateway routes to a service, but the showing and the
\* enrolment of a factor, comes on a session whose chain of mints showed the
\* second factor, or that was minted when the account needed none.
WorkShowsFactor ==
  \A c \in Call : call[c].at = "admitted" /\ call[c].op \in Routed \ {"verify", "enroll"} =>
                  call[c].blob.shown

\* main.py:522: a session minted with MFA pending may ONLY verify its code,
\* resend a code, or probe nav.  The upgrade of a WebSocket and the gateway's own
\* endpoints do not ask.
PendingOnlyVerifies ==
  \A c \in Call : call[c].at = "admitted" /\ call[c].blob.pend =>
                  call[c].op \in {"verify", "nav"}

\* auth.py:344: a user who must change the password may also have to show or
\* enrol a factor.  Of the requests that lift a gate, one must pass the gates.
GateCanBeLifted ==
  \A s \in Sid : Live(s) =>
    \E op \in {"password", "verify", "enroll"} : Gated(store[s], op)

\* sessions.py:85: with single-session on there is never a window with two
\* valid sessions of one user.
OneSession ==
  \A s, t \in Sid : /\ Live(s) /\ Live(t) /\ store[s].user = store[t].user
                    /\ acct[store[s].user].single
                    => s = t

\* main.py:218: the token is meaningless the moment the logout returns.  So no
\* lookup that read the session before puts it back.
LookupRevivesNothing ==
  [][\A c \in Call : call[c].at = "found" /\ call'[c].at = "slid"
                       => Live(call[c].sid)]_vars

=============================================================================
