--------------------------- MODULE MCIdentity ---------------------------
(***************************************************************************)
(* Who somebody is and what that lets them do, on small sets for TLC:      *)
(* access to a host (Access), a user's sessions (UserSession), roles and   *)
(* groups (RoleAdmin) and mailed codes (Codes).  The four share no state,  *)
(* so one run looks at them one at a time: a behaviour of the run is a     *)
(* behaviour of one of them.                                               *)
(***************************************************************************)
EXTENDS Access, TLC

CONSTANTS
  Asker,                   \* requests to UserSession, RoleAdmin and Codes
  Owners, Sids,            \* UserSession: accounts, session ids
  Somebody, Others,        \* RoleAdmin: the first superadmin, everybody else,
  Teams, Crew,             \* the groups, one of which has members from the start,
  Roles, RolesAskedFor,    \* the roles, and the sets of them requests ask for
  MaxRequests,
  Purposes,                \* Codes
  MaxCodes, MaxTries

ASSUME IdentityAssumption ==
  /\ MaxRequests \in Nat /\ MaxCodes \in Nat /\ MaxTries \in Nat
  /\ Purposes # {}
  /\ Others # {} /\ Crew \in Teams /\ "super" \in Roles

VARIABLES part,   \* the module whose states are looked at
\* UserSession
  us_acct, us_store, us_pointer, us_call,
\* RoleAdmin
  ra_engine, ra_db, ra_tx, ra_left,
\* Codes
  co_method, co_slot, co_issued, co_madeFor, co_latest, co_call, co_opened,
  co_twice

\* The databases RoleAdmin starts from: right after the installation, and with a
\* team, where rights come by way of the team or accounts from Zabbix.
Seeded == {<<"user", Somebody, None>>, <<"active", Somebody, None>>, <<"role", Somebody, "super">>}
People == Seeded \cup {<<"group", Crew, None>>}
                 \cup {<<row, u, None>> : row \in {"user", "active"}, u \in Others}
Databases ==
  LET u == CHOOSE u \in Others : TRUE
      inTeam == <<"member", u, Crew>>
  IN {Seeded, People \cup {inTeam}, People \cup {inTeam, <<"grant", Crew, "super">>},
      People \cup {<<"role", u, "super">>, <<"zabbix", u, None>>}}

\* must_change_password is set when an account is created, and by nothing else.
Changed == {"forced", "mfa"}
Persons == {Somebody} \cup Others
Superadmin == "super"

US == INSTANCE UserSession WITH
  User <- Owners, Sid <- Sids, Call <- Asker, Changes <- Changed,
  acct <- us_acct, store <- us_store, pointer <- us_pointer, call <- us_call
RA == INSTANCE RoleAdmin WITH
  User <- Persons, Group <- Teams, Role <- Roles, Super <- Superadmin,
  RoleSets <- RolesAskedFor, Request <- Asker, MaxRequests <- MaxRequests,
  Initial <- Databases, engine <- ra_engine, db <- ra_db, tx <- ra_tx, left <- ra_left
CO == INSTANCE Codes WITH
  Call <- Asker, Purpose <- Purposes, MaxCodes <- MaxCodes, MaxTries <- MaxTries,
  method <- co_method, slot <- co_slot, issued <- co_issued,
  madeFor <- co_madeFor, latest <- co_latest, call <- co_call,
  opened <- co_opened, twice <- co_twice

Parts == {"access", "sessions", "roles", "codes"}

\* A module that is not looked at rests, or has no state at all.
Off == "off"

PartsInit ==
  /\ part \in Parts
  /\ IF part = "access" THEN Init
     ELSE /\ rule = [r \in Rule |-> CHOOSE x \in Rules : TRUE]
          /\ member = {} /\ call = [c \in Call |-> Idle] /\ edits = 0 /\ faults = 0
  /\ IF part = "sessions" THEN US!Init
     ELSE us_acct = Off /\ us_store = Off /\ us_pointer = Off /\ us_call = Off
  /\ IF part = "roles" THEN RA!Init
     ELSE ra_engine = Off /\ ra_db = Seeded /\ ra_tx = [t \in Asker |-> RA!Idle] /\ ra_left = 0
  /\ IF part = "codes" THEN CO!Init
     ELSE co_method = Off /\ co_slot = Off /\ co_issued = Off /\ co_madeFor = Off
          /\ co_latest = Off /\ co_call = Off /\ co_opened = Off /\ co_twice = Off

PartsNext ==
  /\ UNCHANGED part
  /\ IF part = "access" THEN Next ELSE UNCHANGED vars
  /\ IF part = "sessions" THEN US!Next ELSE UNCHANGED <<us_acct, us_store, us_pointer, us_call>>
  /\ IF part = "roles" THEN RA!Next ELSE UNCHANGED <<ra_engine, ra_db, ra_tx, ra_left>>
  /\ IF part = "codes" THEN CO!Next ELSE UNCHANGED <<co_method, co_slot, co_issued, co_madeFor, co_latest,
                                             co_call, co_opened, co_twice>>

PartsSpec == PartsInit /\ [][PartsNext]_<<part, vars, US!vars, RA!vars, CO!vars>>

\* Callers and rules are interchangeable: no property names one of them.
Interchangeable == Permutations(Asker) \cup Permutations(Rule)

(***************************************************************************)
(* The properties, stated in the modules they are about.                   *)
(***************************************************************************)
\* UserSession: a forced change of the password holds every session of the
\* account, and every request that is routed to a service, until it is done.
MustChangeSticks == part = "sessions" => US!TypeOK /\ US!MustChangeSticks

\* UserSession: no request is routed to a service on the password alone where a
\* factor was due, but for the showing and the enrolment of one.
WorkShowsFactor == part = "sessions" => US!WorkShowsFactor

\* RoleAdmin: no handler of the console leaves the system without a superadmin,
\* and none makes a superadmin for a caller who is none, unless another handler
\* commits meanwhile: for the first, on Postgres after the first query of its count
\* and on MySQL, whose snapshot the count reads, after its first read; for the
\* second, after its first read.
SuperadminsAreGuarded == RA!SuperadminRemains /\ RA!SuperadminIsGiven

\* Codes: a mailed code opens only what it was mailed for.
CodeIsForItsPurpose == part = "codes" => CO!TypeOK /\ CO!CodeIsForItsPurpose

=============================================================================
