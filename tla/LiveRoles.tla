----------------------------- MODULE LiveRoles -----------------------------
(***************************************************************************)
(* How the api-gateway knows what a caller may do.  A session carries the  *)
(* roles it was minted with; on each request the gateway wants the roles   *)
(* the user has now, which it asks identity-service for and keeps for a    *)
(* while, and judges them by its copy of the roles' permission documents,  *)
(* which a loop and every change of a role refresh.  A personal access     *)
(* token has its primary role read on each request.                        *)
(*                                                                         *)
(* Roles are numbered by precedence, the lowest number first.              *)
(***************************************************************************)
EXTENDS Naturals, FiniteSets, FiniteSetsExt

CONSTANTS
  User, Role,
  UserRole,  \* the role named user, which an account without one counts as
  Builtin,   \* roles whose documents nobody edits, user among them
  Call,      \* requests being handled at a time
  Refresh,   \* fetches of the documents under way at a time
  None

VARIABLES
  known,     \* users that exist
  active,    \* za_users.is_active
  held,      \* effective roles of each user, direct and by group
  allows,    \* roles whose document permits the request looked at
  minted,    \* roles in the session of each user
  cache,     \* _role_cache: the roles the gateway last heard
  docs,      \* _ROLE_PERMS: the roles whose cached document permits it
  fetch,     \* documents on their way to the gateway
  up,        \* whether identity-service answers
  call       \* the requests

vars == <<known, active, held, allows, minted, cache, docs, fetch, up, call>>
identity == <<known, active, held, allows>>

Idle == [at |-> "idle", user |-> None, by |-> {}]

TypeOK ==
  /\ known \subseteq User /\ active \subseteq User
  /\ held \in [User -> SUBSET Role] /\ minted \in [User -> SUBSET Role]
  /\ allows \subseteq Role /\ docs \subseteq Role
  /\ cache \in [User -> (SUBSET Role) \cup {None}]
  /\ fetch \in [Refresh -> (SUBSET Role) \cup {None}]
  /\ up \in BOOLEAN
  /\ call \in [Call -> [at : {"idle", "looked", "asked", "admitted"},
                        user : User \cup {None}, by : SUBSET Role]]

\* primary_role.
Primary(R) == IF R = {} THEN UserRole ELSE Min(R)

\* The roles lookup_session makes of a session, also of one minted with none.
InSession(u) == IF minted[u] = {} THEN {UserRole} ELSE minted[u]

\* The roles gateway() judges: where the user has none now, the primary role
\* that the session was minted with.
Judged(u, roles) == IF roles = {} THEN {Primary(minted[u])} ELSE roles

\* is_authorized: some role's document permits it.
Authorized(roles) == roles \cap docs # {}

Finish(c) == call' = [call EXCEPT ![c] = Idle]

Decide(c, roles) ==
  IF Authorized(roles)
  THEN call' = [call EXCEPT ![c].at = "admitted", ![c].by = roles]
  ELSE Finish(c)

(***************************************************************************)
(* A request with a session                                                *)
(***************************************************************************)
\* The session is minted with the roles of the moment.
Login(u) ==
  /\ u \in known
  /\ minted' = [minted EXCEPT ![u] = held[u]]
  /\ UNCHANGED <<identity, cache, docs, fetch, up, call>>

Arrive(c, u) ==
  /\ call[c].at = "idle"
  /\ call' = [call EXCEPT ![c] = [Idle EXCEPT !.at = "looked", !.user = u]]
  /\ UNCHANGED <<identity, minted, cache, docs, fetch, up>>

\* Bug: the answer is added to the roles of the session.
HeardAndMinted(u) == held[u] \cup InSession(u)

\* What _live_roles makes of the answer: an existing user's roles count even
\* when there are none; of a user identity-service does not know it keeps the
\* session's.
Heard(u) == IF u \in known THEN held[u] ELSE InSession(u)

AskRoles(c) ==
  /\ call[c].at = "looked"
  /\ cache[call[c].user] = None
  /\ up
  /\ call' = [call EXCEPT ![c].at = "asked", ![c].by = Heard(call[c].user)]
  /\ UNCHANGED <<identity, minted, cache, docs, fetch, up>>

RolesArrive(c) ==
  /\ call[c].at = "asked"
  /\ cache' = [cache EXCEPT ![call[c].user] = call[c].by]
  /\ Decide(c, Judged(call[c].user, call[c].by))
  /\ UNCHANGED <<identity, minted, docs, fetch, up>>

RolesCached(c) ==
  /\ call[c].at = "looked"
  /\ cache[call[c].user] # None
  /\ Decide(c, Judged(call[c].user, cache[call[c].user]))
  /\ UNCHANGED <<identity, minted, cache, docs, fetch, up>>

\* No answer: the roles of the session stand in, and are not cached.
RolesFallback(c) ==
  /\ call[c].at = "looked"
  /\ cache[call[c].user] = None
  /\ ~up
  /\ Decide(c, InSession(call[c].user))
  /\ UNCHANGED <<identity, minted, cache, docs, fetch, up>>

CacheLapses(u) ==
  /\ cache[u] # None
  /\ cache' = [cache EXCEPT ![u] = None]
  /\ UNCHANGED <<identity, minted, docs, fetch, up, call>>

\* The request has been served.
Served(c) ==
  /\ call[c].at = "admitted"
  /\ Finish(c)
  /\ UNCHANGED <<identity, minted, cache, docs, fetch, up>>

(***************************************************************************)
(* A request with a personal access token                                  *)
(***************************************************************************)
\* verify_token answers for an active user, with the primary role of the
\* moment; a token of another, or no answer, is a 401.
VerifyToken(c, u) ==
  /\ call[c].at = "idle"
  /\ up /\ u \in active
  /\ IF Authorized({Primary(held[u])})
     THEN call' = [call EXCEPT ![c] = [at |-> "admitted", user |-> u,
                                      by |-> {Primary(held[u])}]]
     ELSE UNCHANGED call
  /\ UNCHANGED <<identity, minted, cache, docs, fetch, up>>

(***************************************************************************)
(* The roles' documents                                                    *)
(***************************************************************************)
\* _load_role_perms, by the loop or after a role changed: the documents are
\* read at identity-service, and replace the cached ones when they arrive.
FetchDocs(f) ==
  /\ fetch[f] = None
  /\ up
  /\ fetch' = [fetch EXCEPT ![f] = allows]
  /\ UNCHANGED <<identity, minted, cache, docs, up, call>>

\* Bug: the answer is merged into the cached documents.
DocsMerge(f) ==
  /\ fetch[f] # None
  /\ docs' = docs \cup fetch[f]
  /\ fetch' = [fetch EXCEPT ![f] = None]
  /\ UNCHANGED <<identity, minted, cache, up, call>>

DocsArrive(f) ==
  /\ fetch[f] # None
  /\ docs' = fetch[f]
  /\ fetch' = [fetch EXCEPT ![f] = None]
  /\ UNCHANGED <<identity, minted, cache, up, call>>

(***************************************************************************)
(* identity-service                                                        *)
(***************************************************************************)
SetRoles(u, R) ==
  /\ u \in known
  /\ held' = [held EXCEPT ![u] = R]
  /\ UNCHANGED <<known, active, allows, minted, cache, docs, fetch, up, call>>

SetActive(u, b) ==
  /\ u \in known
  /\ active' = IF b THEN active \cup {u} ELSE active \ {u}
  /\ UNCHANGED <<known, held, allows, minted, cache, docs, fetch, up, call>>

DeleteUser(u) ==
  /\ u \in known
  /\ known' = known \ {u}
  /\ held' = [held EXCEPT ![u] = {}]
  /\ active' = active \ {u}
  /\ UNCHANGED <<allows, minted, cache, docs, fetch, up, call>>

\* POST and PUT /roles: a role that is not built in gets a document.
WriteRole(r, permits) ==
  /\ r \notin Builtin
  /\ allows' = IF permits THEN allows \cup {r} ELSE allows \ {r}
  /\ UNCHANGED <<known, active, held, minted, cache, docs, fetch, up, call>>

\* DELETE /roles/{id}: its rows of users and groups go with it.
DeleteRole(r) ==
  /\ r \notin Builtin
  /\ allows' = allows \ {r}
  /\ held' = [u \in User |-> held[u] \ {r}]
  /\ UNCHANGED <<known, active, minted, cache, docs, fetch, up, call>>

Outage ==
  /\ up' = ~up
  /\ UNCHANGED <<identity, minted, cache, docs, fetch, call>>

(***************************************************************************)
(* The specification                                                       *)
(***************************************************************************)
Init ==
  /\ known = User /\ active = User
  /\ held \in [User -> SUBSET Role] /\ minted = held
  /\ allows \in {Builtin, Role} /\ docs = allows
  /\ cache = [u \in User |-> None]
  /\ fetch = [f \in Refresh |-> None]
  /\ up = TRUE
  /\ call = [c \in Call |-> Idle]

Proceed(c) ==
  \/ AskRoles(c) \/ RolesArrive(c) \/ RolesCached(c) \/ RolesFallback(c)
  \/ Served(c)

Next ==
  \/ \E c \in Call : Proceed(c)
  \/ \E c \in Call, u \in User : Arrive(c, u) \/ VerifyToken(c, u)
  \/ \E u \in User : Login(u) \/ CacheLapses(u) \/ DeleteUser(u)
  \/ \E u \in User, R \in SUBSET Role : SetRoles(u, R)
  \/ \E u \in User, b \in BOOLEAN : SetActive(u, b)
  \/ \E f \in Refresh : FetchDocs(f) \/ DocsArrive(f)
  \/ \E r \in Role : DeleteRole(r) \/ \E b \in BOOLEAN : WriteRole(r, b)
  \/ Outage

Fairness ==
  /\ \A c \in Call : WF_vars(Proceed(c))
  /\ \A u \in User : WF_vars(CacheLapses(u))
  /\ \A f \in Refresh : WF_vars(FetchDocs(f)) /\ WF_vars(DocsArrive(f))

Spec == Init /\ [][Next]_vars /\ Fairness

(***************************************************************************)
(* Properties                                                              *)
(***************************************************************************)
Decides(u, r) ==
  \E c \in Call : /\ call[c].at = "admitted" /\ call[c].user = u
                 /\ r \in call[c].by \cap docs

\* A role taken for good from an existing user who keeps another one day lets
\* no request of the user through any more, whatever the session was minted
\* with and whichever answers arrived late, provided identity-service answers
\* from some time on.
WithdrawnRoleDies ==
  \A u \in User, r \in Role :
    <>[](u \in known /\ up /\ held[u] # {} /\ r \notin held[u])
      => <>[]~Decides(u, r)

\* A permission taken from a role for good one day lets no request through, in
\* whatever order the fetches of the documents arrived.
WithdrawnDocumentDies ==
  \A u \in User, r \in Role : <>[](up /\ r \notin allows) => <>[]~Decides(u, r)

\* security.py:72, auth.py:80: an account whose last role is gone is denied;
\* an empty answer must not inherit the roles of the session.
EmptyIsDenied ==
  \A u \in User :
    <>[](u \in known /\ up /\ held[u] = {}) => <>[](\A r \in Role : ~Decides(u, r))

\* main.py:546: zero trust, what the caller's roles do not grant is denied; a
\* user who was deleted has no role.
DeletedUserIsDenied ==
  \A u \in User :
    <>[](u \notin known /\ up) => <>[](\A r \in Role : ~Decides(u, r))
=============================================================================
