------------------------------- MODULE Access -------------------------------
(***************************************************************************)
(* Who may do what on a host: the rules of identity-service, the groups of *)
(* the host in inventory-service, and the two requests of terminal-service *)
(* that ask both.  Rules and memberships are those that concern one user   *)
(* and one host; they change, and inventory fails, between the queries of  *)
(* a request.                                                              *)
(***************************************************************************)
EXTENDS FiniteSets, Naturals

CONSTANTS Rule, HostGroup, Credential, None,
          Call,         \* the requests of the user for the host
          MaxEdits,     \* bound on changes of rules and memberships
          MaxFaults     \* bound on queries that inventory does not answer

ASSUME AccessAssumption == MaxEdits \in Nat /\ MaxFaults \in Nat

Action == {"ssh", "sftp"}

VARIABLES rule,      \* za_authorizations
          member,    \* the groups the host is in
          call,
          edits, faults

vars == <<rule, member, call, edits, faults>>

\* on: enabled, within its dates, and naming the user or a group of the user.
\* direct: naming the host.  No action at all stands for every action.
Rules == [on : BOOLEAN, direct : BOOLEAN, groups : SUBSET HostGroup,
          creds : SUBSET Credential, actions : SUBSET Action]

Calls == [kind : {"session", "sftp"},
          pc : {"none", "list", "acl", "resolve", "groups", "decide", "open", "refused"},
          elevated : BOOLEAN,                      \* an admin with an active elevation
          waived : BOOLEAN,                        \* elevation_used
          asked : Credential \cup {None},          \* the credential the request names
          cred : Credential \cup {None},           \* the one the session gets
          copy : [Rule -> Rules],                  \* the rules as they were read
          todo : SUBSET SUBSET HostGroup,          \* sets of groups to ask inventory about
          covers : SUBSET SUBSET HostGroup,        \* those the host is in, it answered
          truth : SUBSET SUBSET HostGroup]         \* those the host was in when it was asked

TypeOK ==
  /\ rule \in [Rule -> Rules]
  /\ member \subseteq HostGroup
  /\ call \in [Call -> Calls]
  /\ edits \in 0..MaxEdits
  /\ faults \in 0..MaxFaults

Idle == [kind |-> "session", pc |-> "none", elevated |-> FALSE, waived |-> FALSE,
         asked |-> None, cred |-> None, copy |-> rule, todo |-> {}, covers |-> {}, truth |-> {}]

Init ==
  /\ rule \in [Rule -> Rules]
  /\ member \in SUBSET HostGroup
  /\ call = [c \in Call |-> Idle]
  /\ edits = 0
  /\ faults = 0

\* internal_host_group_members: the host is in one of the groups.
InSome(gs) == gs \cap member # {}

Set(c, new) == call' = [call EXCEPT ![c] = new]

------------------------------------------------------------------------------
(* Administrators. *)

\* A rule is approved, or ends: it is disabled, expires, or is edited and has
\* to be approved again.
SwitchRule(r) ==
  /\ edits < MaxEdits
  /\ rule' = [rule EXCEPT ![r].on = ~rule[r].on]
  /\ edits' = edits + 1
  /\ UNCHANGED <<member, call, faults>>

MoveHost ==
  /\ edits < MaxEdits
  /\ member' \in (SUBSET HostGroup) \ {member}
  /\ edits' = edits + 1
  /\ UNCHANGED <<rule, call, faults>>

------------------------------------------------------------------------------
(* What identity-service answers. *)

On(rules) == {r \in Rule : rules[r].on}

\* Bug: a rule that names some group covers every host.
CoveringNamed(rules, covers) ==
  {r \in On(rules) : rules[r].direct \/ rules[r].groups # {}}

\* A rule covers the host by name, or by a group inventory says it is in.
Covering(rules, covers) ==
  {r \in On(rules) : rules[r].direct \/ rules[r].groups \in covers}

\* Direct before group, and within both a rule with a credential first.
Rank(row) == (IF row.direct THEN 0 ELSE 2) + (IF row.creds # {} THEN 0 ELSE 1)

\* Bug: the actions and credentials of every rule that covers the host.
BestOfAll(rules, covers) == Covering(rules, covers)

\* The rules at the best rank.
Best(rules, covers) ==
  LET all == Covering(rules, covers)
  IN {r \in all : \A s \in all : Rank(rules[r]) <= Rank(rules[s])}

\* Their actions together; none when there is no rule.
Actions(rules, covers) == UNION {rules[r].actions : r \in Best(rules, covers)}

\* An empty list is taken for no restriction.
Permits(actions, action) == actions = {} \/ action \in actions

------------------------------------------------------------------------------
(* create_session, and an SFTP request within a session. *)

Begin(c) ==
  /\ call[c].pc = "none"
  /\ \/ \E elevated \in BOOLEAN, asked \in Credential \cup {None} :
          Set(c, [Idle EXCEPT !.pc = "list", !.elevated = elevated, !.asked = asked])
     \/ \E elevated \in BOOLEAN :
          Set(c, [Idle EXCEPT !.kind = "sftp", !.pc = "resolve", !.elevated = elevated])
  /\ UNCHANGED <<rule, member, edits, faults>>

\* authz_host_ids: the host is listed when a rule names it, or inventory says
\* that it is in one of the groups of all rules together.
ListHosts(c) ==
  LET groups == UNION {rule[r].groups : r \in On(rule)}
      direct == \E r \in On(rule) : rule[r].direct
      after(listed) == [call[c] EXCEPT
        !.pc = IF listed \/ call[c].elevated THEN "acl" ELSE "refused",
        !.waived = ~listed /\ call[c].elevated]
  IN /\ call[c].pc = "list"
     /\ \/ Set(c, after(direct \/ InSome(groups))) /\ UNCHANGED faults
        \/ /\ groups # {} /\ faults < MaxFaults
           /\ Set(c, after(direct)) /\ faults' = faults + 1
     /\ UNCHANGED <<rule, member, edits>>

\* login_acls_check, of the user, the address and the time of day.
CheckAcl(c) ==
  /\ call[c].pc = "acl"
  /\ \E pc \in {"resolve", "refused"} : Set(c, [call[c] EXCEPT !.pc = pc])
  /\ UNCHANGED <<rule, member, edits, faults>>

\* authz_resolve reads the rules, and asks inventory once for each set of groups.
ReadRules(c) ==
  /\ call[c].pc = "resolve"
  /\ Set(c, [call[c] EXCEPT !.pc = "groups", !.copy = rule,
                            !.todo = {rule[r].groups : r \in On(rule)} \ {{}}])
  /\ UNCHANGED <<rule, member, edits, faults>>

AskGroups(c, gs) ==
  /\ call[c].pc = "groups"
  /\ gs \in call[c].todo
  /\ \E answered \in BOOLEAN :
       LET within == IF InSome(gs) THEN {gs} ELSE {}
       IN /\ answered \/ faults < MaxFaults
          /\ faults' = IF answered THEN faults ELSE faults + 1
          /\ Set(c, [call[c] EXCEPT !.todo = @ \ {gs}, !.truth = @ \cup within,
                                    !.covers = IF answered THEN @ \cup within ELSE @])
  /\ UNCHANGED <<rule, member, edits>>

Resolved(c) == call[c].pc = "groups" /\ call[c].todo = {}

\* The session gets the credential it names if the rule the database returned
\* first among the best grants it, or that rule's own; a session without
\* credential is refused.
OpenSession(c) ==
  LET k == call[c]
      best == Best(k.copy, k.covers)
      creds(r) == IF best = {} THEN {} ELSE k.copy[r].creds
  IN /\ Resolved(c)
     /\ k.kind = "session"
     /\ \E r \in IF best = {} THEN Rule ELSE best :
          LET granted == k.asked \in creds(r) \/ (k.waived /\ k.asked # None)
              cred == IF granted THEN k.asked
                      ELSE IF k.asked = None /\ creds(r) # {}
                      THEN CHOOSE x \in creds(r) : TRUE ELSE None
              ssh == Permits(Actions(k.copy, k.covers), "ssh") \/ k.waived
          IN Set(c, [k EXCEPT !.cred = cred,
                              !.pc = IF ssh /\ cred # None THEN "open" ELSE "refused"])
     /\ UNCHANGED <<rule, member, edits, faults>>

\* _gate: an SFTP request in an active session of the host.
DoSftp(c) ==
  LET k == call[c]
  IN /\ Resolved(c)
     /\ k.kind = "sftp"
     /\ Set(c, [k EXCEPT !.pc =
          IF Permits(Actions(k.copy, k.covers), "sftp") \/ k.elevated THEN "open" ELSE "refused"])
     /\ UNCHANGED <<rule, member, edits, faults>>

Next ==
  \/ \E r \in Rule : SwitchRule(r)
  \/ MoveHost
  \/ \E c \in Call :
       \/ Begin(c) \/ ListHosts(c) \/ CheckAcl(c) \/ ReadRules(c) \/ OpenSession(c) \/ DoSftp(c)
       \/ \E gs \in SUBSET HostGroup : AskGroups(c, gs)

Spec == Init /\ [][Next]_vars

------------------------------------------------------------------------------

Opened(c) == call[c].pc = "open" /\ call[c].kind = "session" /\ ~call[c].waived

\* A session that no elevation waived has its credential from a rule that was
\* in force when the rules were read, and that covered the host by its name or
\* by a group it was in: whatever changes or fails between the queries.
OpenedIsGranted ==
  \A c \in Call : Opened(c) =>
    \E r \in Rule :
      LET row == call[c].copy[r]
      IN /\ row.on /\ call[c].cred \in row.creds
         /\ row.direct \/ row.groups \in call[c].truth

\* Rules that name the host are not widened by rules that name its groups: with
\* one of them in force, the session's credential and its leave to use ssh come
\* from rules that name the host (_union_best_rank_actions).
DirectRuleRestricts ==
  \A c \in Call : Opened(c) =>
    LET direct == {r \in On(call[c].copy) : call[c].copy[r].direct}
    IN direct # {} =>
         /\ \E r \in direct : call[c].cred \in call[c].copy[r].creds
         /\ \E r \in direct : Permits(call[c].copy[r].actions, "ssh")

\* An SFTP request is allowed only when the rules would allow it had inventory
\* answered (test_membership_lookup_fails_closed: "An inventory outage must
\* narrow access, never widen it").  It does not hold: without an answer a
\* group's rule leaves no action, and no action is taken for no restriction.
OutageNarrows ==
  \A c \in Call : call[c].pc = "open" /\ call[c].kind = "sftp" /\ ~call[c].elevated =>
    Permits(Actions(call[c].copy, call[c].truth), "sftp")

\* An SFTP request is allowed only by a rule in force.  It does not hold for the
\* same reason: ending the last rule of an open session lifts its restriction.
SftpIsGranted ==
  \A c \in Call : call[c].pc = "open" /\ call[c].kind = "sftp" /\ ~call[c].elevated =>
    Covering(call[c].copy, call[c].truth) # {}

\* Of two rules at the same rank none takes an action away that the other one
\* gives (authz_resolve: the union can "only stop one peer grant from silently
\* shadowing another's actions").  It does not hold: a rule without actions
\* stands for all of them alone, and for none beside a rule with some.
PeersAddUp ==
  \A c \in Call : call[c].pc = "refused" /\ call[c].kind = "sftp" =>
    \A r \in Best(call[c].copy, call[c].covers) :
      ~Permits(call[c].copy[r].actions, "sftp")

==============================================================================
