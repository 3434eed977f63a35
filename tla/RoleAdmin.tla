----------------------------- MODULE RoleAdmin -----------------------------
(***************************************************************************)
(* Who holds the superadmin role, and who may change that: the handlers of *)
(* identity-service that write accounts, their direct roles, the groups,   *)
(* the roles a group grants and its members, and the two delegated logins  *)
(* that bring a role with them.  A handler reads what its guards need,     *)
(* writes its rows (uncommitted: the rows are locked, and nobody else sees *)
(* them), counts the superadmins that its own change leaves, and commits.  *)
(* Between these steps other handlers run.  No isolation level is set: on  *)
(* Postgres every query sees what is committed by then, on MySQL all of a  *)
(* transaction's queries see what its first one saw.                       *)
(*                                                                         *)
(* The database is a set of rows.  Columns that decide nothing here (names, *)
(* mail addresses, passwords) are left out; a caller's role is the one the *)
(* gateway forwards, superadmin or not, LiveRoles says how it is found.    *)
(***************************************************************************)
EXTENDS Naturals, FiniteSets

CONSTANTS
  User, Group,
  Role, Super,   \* Super is the superadmin role
  RoleSets,      \* the sets of roles that a request may ask for
  Request,       \* transactions under way at a time
  MaxRequests,   \* requests looked at in one behaviour
  Initial,       \* databases to start from: the seeded one and later ones
  None

VARIABLES
  engine,    \* DB_ENGINE
  db,        \* the committed rows
  tx,        \* what each transaction has read, written and passed
  left       \* requests still to come

vars == <<engine, db, tx, left>>

Account(u) == <<"user", u, None>>        \* za_users
Active(u) == <<"active", u, None>>       \* is_active
Synced(x) == <<"zabbix", x, None>>       \* zabbix_userid, zabbix_usrgrpid
Team(g) == <<"group", g, None>>          \* za_user_groups
Direct(u, r) == <<"role", u, r>>         \* za_user_roles
Member(u, g) == <<"member", u, g>>       \* za_user_group_members
Grants(g, r) == <<"grant", g, r>>        \* za_group_roles

Row == {Account(u) : u \in User} \cup {Active(u) : u \in User}
         \cup {Synced(x) : x \in User \cup Group} \cup {Team(g) : g \in Group}
         \cup {Direct(u, r) : u \in User, r \in Role}
         \cup {Member(u, g) : u \in User, g \in Group}
         \cup {Grants(g, r) : g \in Group, r \in Role}

Idle == [at |-> "idle", by |-> None, super |-> FALSE, del |-> {}, add |-> {},
         counts |-> FALSE, seen |-> {}, late |-> FALSE, miscounted |-> FALSE]

TypeOK ==
  /\ engine \in {"postgres", "mysql"}
  /\ db \subseteq Row /\ left \in 0..MaxRequests
  /\ \A t \in Request :
       /\ tx[t].at \in {"idle", "read", "written", "asking", "counting", "counted"}
       /\ tx[t].by \in {"admin", "sync", "login", None}
       /\ tx[t].del \cup tx[t].add \subseteq Row /\ tx[t].seen \subseteq User
       /\ {tx[t].super, tx[t].counts, tx[t].late, tx[t].miscounted} \subseteq BOOLEAN

(***************************************************************************)
(* Effective roles                                                         *)
(***************************************************************************)
\* effective_roles: direct, or by a group.
ByGroup(rows, u, r) == \E g \in Group : Member(u, g) \in rows /\ Grants(g, r) \in rows
Holds(rows, u, r) == Direct(u, r) \in rows \/ ByGroup(rows, u, r)

\* _effective_superadmin_count counts these.
Supers(rows) == {u \in User : Active(u) \in rows /\ Holds(rows, u, Super)}

(***************************************************************************)
(* Guards                                                                  *)
(***************************************************************************)
MayBind(super, R) == Super \in R => super
MayModify(super, u) == Holds(db, u, Super) => super
\* Bug: membership is not taken for a privilege.
MayChangeMembersAnyway(super, g) == TRUE
MayChangeMembers(super, g) == Grants(g, Super) \in db => super

(***************************************************************************)
(* A transaction                                                           *)
(***************************************************************************)
Left(t) == (db \ tx[t].del) \cup tx[t].add

\* A handler has read the database and found its guards satisfied.  MySQL takes
\* the transaction's snapshot here: what its count will find (seen) is settled.
\* History: whether a commit of another went past since (late), or since the
\* reads that its count rests on (miscounted).
Read(t, by, super, del, add, counts) ==
  /\ tx[t].at = "idle" /\ left > 0
  /\ left' = left - 1
  /\ tx' = [tx EXCEPT ![t] = [at |-> "read", by |-> by, super |-> super,
                              del |-> del, add |-> add, counts |-> counts,
                              seen |-> IF engine = "mysql" THEN Supers((db \ del) \cup add) ELSE {},
                              late |-> FALSE, miscounted |-> FALSE]]
  /\ UNCHANGED <<engine, db>>

Begin(t, a, del, add, counts) ==
  Read(t, "admin", Holds(db, a, Super), del, add, counts)

\* flush: waits for whoever has written one of the rows.
Write(t) ==
  /\ tx[t].at = "read"
  /\ \A o \in Request \ {t} :
       tx[o].at \notin {"idle", "read"} =>
         (tx[o].del \cup tx[o].add) \cap (tx[t].del \cup tx[t].add) = {}
  /\ tx' = [tx EXCEPT ![t].at = IF tx[t].counts THEN "written" ELSE "counted"]
  /\ UNCHANGED <<engine, db, left>>

\* _guard_last_superadmin on Postgres, where each query sees the committed rows of
\* others and its own: who holds the role directly, ...
CountHolders(t) ==
  /\ tx[t].at = "written" /\ engine = "postgres"
  /\ tx' = [tx EXCEPT ![t].at = "asking",
                      ![t].seen = {u \in User : Direct(u, Super) \in Left(t)}]
  /\ UNCHANGED <<engine, db, left>>

\* ... who by a group, ...
CountMembers(t) ==
  /\ tx[t].at = "asking"
  /\ tx' = [tx EXCEPT ![t].at = "counting",
                      ![t].seen = @ \cup {u \in User : ByGroup(Left(t), u, Super)}]
  /\ UNCHANGED <<engine, db, left>>

\* ... and which of them is active.
CountActive(t) ==
  /\ tx[t].at = "counting"
  /\ \E u \in tx[t].seen : Active(u) \in Left(t)
  /\ tx' = [tx EXCEPT ![t].at = "counted"]
  /\ UNCHANGED <<engine, db, left>>

\* _guard_last_superadmin on MySQL: on the rows of the snapshot and its own.
CountSnapshot(t) ==
  /\ tx[t].at = "written" /\ engine = "mysql"
  /\ tx[t].seen # {}
  /\ tx' = [tx EXCEPT ![t].at = "counted"]
  /\ UNCHANGED <<engine, db, left>>

\* Rows that refer to what somebody deleted meanwhile are refused.
Refers(rows) ==
  /\ \A u \in User, r \in Role : Direct(u, r) \in rows => Account(u) \in rows
  /\ \A u \in User, g \in Group :
       Member(u, g) \in rows => Account(u) \in rows /\ Team(g) \in rows
  /\ \A g \in Group, r \in Role : Grants(g, r) \in rows => Team(g) \in rows
  /\ \A u \in User : Active(u) \in rows => Account(u) \in rows

\* What o counts, or counted, was read before now.
PastItsCount(o) == engine = "mysql" \/ tx[o].at \in {"asking", "counting", "counted"}

Commit(t) ==
  /\ tx[t].at = "counted"
  /\ Refers(Left(t))
  /\ db' = Left(t)
  /\ tx' = [o \in Request |->
             CASE o = t -> Idle
               [] tx[o].at = "idle" -> tx[o]
               [] OTHER -> [tx[o] EXCEPT !.late = TRUE, !.miscounted = PastItsCount(o)]]
  /\ UNCHANGED <<engine, left>>

\* The count, the database or a failure ends the transaction with nothing.
Rollback(t) ==
  /\ tx[t].at # "idle"
  /\ tx' = [tx EXCEPT ![t] = Idle]
  /\ UNCHANGED <<engine, db, left>>

(***************************************************************************)
(* Accounts                                                                *)
(***************************************************************************)
Caller(a) == Active(a) \in db
IsSuper(a) == Holds(db, a, Super)
RowsOf(u) == {x \in db : x[2] = u}
DirectOf(u) == {x \in db : x[1] = "role" /\ x[2] = u}
SetDirect(u, R) == {Direct(u, r) : r \in R}

CreateUser(t, a, u, R) ==
  /\ Caller(a) /\ Account(u) \notin db
  /\ MayBind(IsSuper(a), R)
  /\ Begin(t, a, {}, {Account(u), Active(u)} \cup SetDirect(u, R), FALSE)

\* PUT /users/{id}: its direct roles, or whether it is active.
AssignRoles(t, a, u, R) ==
  /\ Caller(a) /\ Account(u) \in db
  /\ MayModify(IsSuper(a), u) /\ MayBind(IsSuper(a), R)
  /\ Begin(t, a, DirectOf(u), SetDirect(u, R), TRUE)

Activate(t, a, u) ==
  /\ Caller(a) /\ Account(u) \in db
  /\ MayModify(IsSuper(a), u)
  /\ Begin(t, a, {}, {Active(u)}, TRUE)

Deactivate(t, a, u) ==
  /\ Caller(a) /\ Account(u) \in db
  /\ MayModify(IsSuper(a), u)
  /\ Begin(t, a, {Active(u)}, {}, TRUE)

\* By a token with the deprovision scope.
Deprovision(t, a, u) ==
  /\ Caller(a) /\ Account(u) \in db
  /\ Begin(t, a, {Active(u)}, {}, TRUE)

DeleteUser(t, a, u) ==
  /\ Caller(a) /\ IsSuper(a) /\ a # u
  /\ Account(u) \in db /\ Synced(u) \notin db
  /\ Begin(t, a, RowsOf(u), {}, TRUE)

(***************************************************************************)
(* Groups                                                                  *)
(***************************************************************************)
CreateGroup(t, a, g) ==
  /\ Caller(a) /\ Team(g) \notin db
  /\ Begin(t, a, {}, {Team(g)}, FALSE)

SetGroupRoles(t, a, g, R) ==
  /\ Caller(a) /\ Team(g) \in db
  /\ MayBind(IsSuper(a), R)
  /\ Begin(t, a, {Grants(g, r) : r \in Role} \cap db, {Grants(g, r) : r \in R}, TRUE)

SetGroupMembers(t, a, g, M) ==
  /\ Caller(a) /\ Team(g) \in db
  /\ MayChangeMembers(IsSuper(a), g)
  /\ Begin(t, a, {Member(u, g) : u \in User} \cap db, {Member(u, g) : u \in M}, TRUE)

\* Bug: nobody counts the superadmins a deleted group leaves.
DeleteGroupUncounted(t, a, g) ==
  /\ Caller(a) /\ IsSuper(a)
  /\ Team(g) \in db /\ Synced(g) \notin db
  /\ Begin(t, a, {x \in db : g \in {x[2], x[3]}}, {}, FALSE)

DeleteGroup(t, a, g) ==
  /\ Caller(a) /\ IsSuper(a)
  /\ Team(g) \in db /\ Synced(g) \notin db
  /\ Begin(t, a, {x \in db : g \in {x[2], x[3]}}, {}, TRUE)

(***************************************************************************)
(* What comes from outside                                                 *)
(***************************************************************************)
\* POST /users/sync-from-zabbix, when Zabbix says u is a member of g: both are
\* created or adopted, and the membership is added.
SyncFromZabbix(t, a, u, g) ==
  /\ Caller(a)
  /\ Read(t, "sync", IsSuper(a), {},
           {Team(g), Synced(g), Account(u), Synced(u), Member(u, g)}
             \cup (IF Account(u) \in db THEN {} ELSE {Active(u)}), FALSE)

\* A delegated login (Zabbix, JumpServer) whose other side says u has role r:
\* the account is created, and r replaces its direct roles unless it is one.
DelegatedLogin(t, u, r) ==
  IF Direct(u, r) \in db
  THEN Read(t, "login", FALSE, {}, {}, FALSE)
  ELSE Read(t, "login", FALSE, DirectOf(u),
             {Direct(u, r)} \cup (IF Account(u) \in db THEN {}
                                 ELSE {Account(u), Active(u)}), FALSE)

(***************************************************************************)
(* The specification                                                       *)
(***************************************************************************)
Init ==
  /\ engine \in {"postgres", "mysql"}
  /\ db \in Initial
  /\ left = MaxRequests
  /\ tx = [t \in Request |-> Idle]

Proceed(t) ==
  \/ Write(t) \/ Commit(t) \/ Rollback(t)
  \/ CountHolders(t) \/ CountMembers(t) \/ CountActive(t) \/ CountSnapshot(t)

Administer(t, a) ==
  \/ \E u \in User, R \in RoleSets : CreateUser(t, a, u, R) \/ AssignRoles(t, a, u, R)
  \/ \E u \in User : \/ Activate(t, a, u) \/ Deactivate(t, a, u)
                     \/ Deprovision(t, a, u) \/ DeleteUser(t, a, u)
  \/ \E g \in Group : CreateGroup(t, a, g) \/ DeleteGroup(t, a, g)
  \/ \E g \in Group, R \in RoleSets : SetGroupRoles(t, a, g, R)
  \/ \E g \in Group, M \in SUBSET User : SetGroupMembers(t, a, g, M)

FromOutside(t) ==
  \/ \E a, u \in User, g \in Group : SyncFromZabbix(t, a, u, g)
  \/ \E u \in User, r \in Role : DelegatedLogin(t, u, r)

Next == \E t \in Request :
  \/ Proceed(t)
  \/ tx[t].at = "idle" /\ (FromOutside(t) \/ \E a \in User : Administer(t, a))

Spec == Init /\ [][Next]_vars

(***************************************************************************)
(* Properties                                                              *)
(***************************************************************************)
Ends(t) == tx[t].at = "counted" /\ tx'[t].at = "idle"

\* No handler of the console leaves the system without an active superadmin,
\* by whatever change of accounts, roles, groups or members it would come
\* about, unless another one committed after the reads that its count rests on:
\* the count's own on Postgres, the first of its transaction on MySQL.
SuperadminRemains ==
  [][db' # db /\ Supers(db) # {} /\ Supers(db') = {}
       => \E t \in Request : Ends(t) /\ (tx[t].miscounted \/ tx[t].by = "login")]_vars

\* Nobody becomes an active superadmin through a handler of the console that a
\* caller without the role used, unless another one committed after its reads.
\* The synchronisation and the delegated logins take Zabbix's word instead.
SuperadminIsGiven ==
  [][db' = db \/ Supers(db') \subseteq Supers(db) \/
       \E t \in Request : Ends(t) /\ (tx[t].super \/ tx[t].late
                                       \/ tx[t].by \in {"login", "sync"})]_vars

\* users.py:68: an operation that would remove the last superadmin is refused.
LastSuperadmin == Supers(db) # {}

\* users.py:84: only a superadmin may modify a superadmin account.
SuperadminIsTaken ==
  [][Supers(db) \subseteq Supers(db') \/
       \E t \in Request : Ends(t) /\ (tx[t].super \/ tx[t].late \/ tx[t].by = "login")]_vars
=============================================================================
