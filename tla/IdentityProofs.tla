--------------------------- MODULE IdentityProofs ---------------------------
(***************************************************************************)
(* Proofs about Access, UserSession, RoleAdmin and Codes, for any number   *)
(* of rules, host groups, accounts, sessions, groups, roles and requests:  *)
(* what opens a session on a host, the gates of a session, the superadmins *)
(* that are left and made, and what a mailed code opens.  They take their  *)
(* steps side by side, as MCIdentity composes them.                        *)
(***************************************************************************)
EXTENDS MCIdentity, TLAPS

(***************************************************************************)
(* Access                                                                  *)
(***************************************************************************)

\* A request that opened a session by the rules, not by an elevation.
ByRules(k) == k.pc = "open" /\ k.kind = "session" /\ ~k.waived

\* What inventory answered is true of the host: an outage only leaves answers out.
AnswersAreTrue(k) == k.covers \subseteq k.truth

\* The credential comes from a rule that covers the host, as it was read.
Granted(k) ==
  \E r \in Rule : /\ k.copy[r].on /\ k.cred \in k.copy[r].creds
                  /\ k.copy[r].direct \/ k.copy[r].groups \in k.truth

\* Where a rule names the host, what the session may do comes from such rules.
Restricted(k) ==
  LET direct == {r \in On(k.copy) : k.copy[r].direct}
  IN direct # {} => /\ \E r \in direct : k.cred \in k.copy[r].creds
                    /\ \E r \in direct : Permits(k.copy[r].actions, "ssh")

Sound(k) == AnswersAreTrue(k) /\ (ByRules(k) => Granted(k) /\ Restricted(k))

GrantsInv == TypeOK /\ \A c \in Call : Sound(call[c])

\* A rule at the best rank covers the host (Best, Covering).
LEMMA BestCovers ==
  ASSUME NEW rules, NEW covers, NEW r \in Best(rules, covers)
  PROVE  /\ r \in Rule /\ rules[r].on
         /\ rules[r].direct \/ rules[r].groups \in covers
BY DEF Best, Covering, On

\* With a rule that names the host in force, the rules at the best rank all name
\* it (Rank).
LEMMA BestIsDirect ==
  ASSUME NEW rules \in [Rule -> Rules], NEW covers,
         NEW d \in Rule, rules[d].on, rules[d].direct,
         NEW r \in Best(rules, covers)
  PROVE  rules[r].direct
<1>1. d \in Covering(rules, covers)
  BY DEF Covering, On
<1>2. r \in Rule /\ Rank(rules[r]) <= Rank(rules[d])
  BY <1>1, BestCovers DEF Best
<1>3. Rank(rules[d]) \in {0, 1}
  BY DEF Rank
<1>4. ~rules[r].direct => Rank(rules[r]) \in {2, 3}
  BY DEF Rank
<1> QED  BY <1>2, <1>3, <1>4

\* What the best rules permit together, one of them permits alone (Actions,
\* Permits).
LEMMA OnePermits ==
  ASSUME NEW rules, NEW covers, NEW r \in Best(rules, covers),
         Permits(Actions(rules, covers), "ssh")
  PROVE  \E s \in Best(rules, covers) : Permits(rules[s].actions, "ssh")
<1>1. CASE Actions(rules, covers) = {}
  BY <1>1 DEF Actions, Permits
<1>2. CASE "ssh" \in Actions(rules, covers)
  BY <1>2 DEF Actions, Permits
<1> QED  BY <1>1, <1>2 DEF Permits

(* The steps. *)

\* A step of one request keeps the invariant when what it becomes is sound.
LEMMA SetKeeps ==
  ASSUME GrantsInv, NEW c \in Call, NEW new \in Calls, Sound(new), Set(c, new),
         UNCHANGED <<rule, member, edits>>, faults' \in 0..MaxFaults
  PROVE  GrantsInv'
<1>1. TypeOK'
  BY DEF GrantsInv, TypeOK, Set
<1>2. ASSUME NEW d \in Call PROVE Sound(call'[d])
  <2>1. call'[d] = IF d = c THEN new ELSE call[d]
    BY DEF Set, GrantsInv, TypeOK
  <2> QED  BY <2>1 DEF GrantsInv
<1> QED  BY <1>1, <1>2 DEF GrantsInv

LEMMA GrantsInit == Init => GrantsInv
<1> SUFFICES ASSUME Init PROVE GrantsInv
  OBVIOUS
<1>1. Idle \in Calls
  BY DEF Init, Idle, Calls
<1>2. Sound(Idle)
  BY DEF Idle, Sound, AnswersAreTrue, ByRules
<1> QED  BY <1>1, <1>2, AccessAssumption DEF Init, GrantsInv, TypeOK

\* Administrators change rules and memberships, not what requests have read.
LEMMA EditKeeps ==
  ASSUME GrantsInv, MoveHost \/ \E r \in Rule : SwitchRule(r)
  PROVE  GrantsInv'
<1>1. edits' \in 0..MaxEdits
  BY AccessAssumption DEF GrantsInv, TypeOK, MoveHost, SwitchRule
<1>2. rule' \in [Rule -> Rules]
  <2>1. ASSUME NEW r \in Rule, SwitchRule(r) PROVE rule' \in [Rule -> Rules]
    <3>1. [rule[r] EXCEPT !.on = ~rule[r].on] \in Rules
      BY DEF GrantsInv, TypeOK, Rules
    <3> QED  BY <2>1, <3>1 DEF GrantsInv, TypeOK, SwitchRule
  <2> QED  BY <2>1 DEF GrantsInv, TypeOK, MoveHost
<1>3. member' \subseteq HostGroup /\ UNCHANGED <<call, faults>>
  BY DEF GrantsInv, TypeOK, MoveHost, SwitchRule
<1> QED  BY <1>1, <1>2, <1>3 DEF GrantsInv, TypeOK

\* A session that opens has its credential from a rule at the best rank.
LEMMA OpenKeeps ==
  ASSUME GrantsInv, NEW c \in Call, OpenSession(c)
  PROVE  GrantsInv'
<1> DEFINE k == call[c]
           best == Best(k.copy, k.covers)
           creds(r) == IF best = {} THEN {} ELSE k.copy[r].creds
           granted(r) == k.asked \in creds(r) \/ (k.waived /\ k.asked # None)
           cred(r) == IF granted(r) THEN k.asked
                      ELSE IF k.asked = None /\ creds(r) # {}
                      THEN CHOOSE x \in creds(r) : TRUE ELSE None
           ssh == Permits(Actions(k.copy, k.covers), "ssh") \/ k.waived
           new(r) == [k EXCEPT !.cred = cred(r),
                               !.pc = IF ssh /\ cred(r) # None THEN "open" ELSE "refused"]
<1>1. PICK r \in IF best = {} THEN Rule ELSE best : Set(c, new(r))
  BY DEF OpenSession
<1>2. k \in Calls /\ Sound(k) /\ r \in Rule
  BY <1>1, BestCovers DEF GrantsInv, TypeOK
<1>3. k.copy[r] \in Rules /\ creds(r) \subseteq Credential
  BY <1>2 DEF Calls, Rules
<1>4. cred(r) \in Credential \cup {None}
  <2>1. creds(r) # {} => (CHOOSE x \in creds(r) : TRUE) \in creds(r)
    OBVIOUS
  <2>2. k.asked \in Credential \cup {None}
    BY <1>2 DEF Calls
  <2> QED  BY <1>3, <2>1, <2>2
<1> HIDE DEF cred
<1>5. new(r) \in Calls
  BY <1>2, <1>4 DEF Calls
<1>6. Sound(new(r))
  <2> DEFINE n == new(r)
  <2>1. /\ n.copy = k.copy /\ n.covers = k.covers /\ n.truth = k.truth
        /\ n.waived = k.waived /\ n.cred = cred(r)
        /\ n.pc = "open" => ssh /\ cred(r) # None
    BY <1>2 DEF Calls
  <2> HIDE DEF n
  <2>2. AnswersAreTrue(n)
    BY <1>2, <2>1 DEF Sound, AnswersAreTrue
  <2>3. ASSUME ByRules(n) PROVE Granted(n) /\ Restricted(n)
    <3>1. ~k.waived /\ cred(r) # None /\ Permits(Actions(k.copy, k.covers), "ssh")
      BY <2>1, <2>3 DEF ByRules
    <3>2. cred(r) \in creds(r)
      <4>1. creds(r) # {} => (CHOOSE x \in creds(r) : TRUE) \in creds(r)
        OBVIOUS
      <4> QED  BY <3>1, <4>1 DEF cred
    <3>3. r \in best /\ cred(r) \in k.copy[r].creds
      BY <1>1, <3>2
    <3>4. Granted(n)
      BY <1>2, <2>1, <3>3, BestCovers DEF Granted, Sound, AnswersAreTrue
    <3>5. Restricted(n)
      <4>1. SUFFICES ASSUME NEW d \in On(k.copy), k.copy[d].direct
                     PROVE  \E s \in On(k.copy) : k.copy[s].direct /\ cred(r) \in k.copy[s].creds
                     /\ \E q \in On(k.copy) : k.copy[q].direct /\ Permits(k.copy[q].actions, "ssh")
        BY <2>1 DEF Restricted
      <4>2. \A s \in best : s \in On(k.copy) /\ k.copy[s].direct
        <5>1. d \in Rule /\ k.copy[d].on /\ k.copy \in [Rule -> Rules]
          BY <1>2 DEF On, Calls
        <5> QED  BY <4>1, <5>1, BestIsDirect, BestCovers DEF On
      <4>3. PICK s \in best : Permits(k.copy[s].actions, "ssh")
        BY <3>1, <3>3, OnePermits
      <4> QED  BY <3>3, <4>2, <4>3
    <3> QED  BY <3>4, <3>5
  <2> QED  BY <2>2, <2>3 DEF Sound, n
<1> QED  BY <1>1, <1>5, <1>6, SetKeeps DEF OpenSession, GrantsInv, TypeOK

\* No other step opens a session.
LEMMA AccessRequestsKeep ==
  ASSUME GrantsInv, NEW c \in Call,
         \/ Begin(c) \/ ListHosts(c) \/ CheckAcl(c) \/ ReadRules(c) \/ DoSftp(c)
         \/ \E gs \in SUBSET HostGroup : AskGroups(c, gs)
  PROVE  GrantsInv'
<1> DEFINE k == call[c]
<1>0. k \in Calls /\ Sound(k) /\ faults \in 0..MaxFaults /\ rule \in [Rule -> Rules]
  BY DEF GrantsInv, TypeOK
<1>1. CASE Begin(c)
  <2>1. /\ UNCHANGED <<rule, member, edits, faults>>
        /\ \/ \E e \in BOOLEAN, a \in Credential \cup {None} :
                Set(c, [Idle EXCEPT !.pc = "list", !.elevated = e, !.asked = a])
           \/ \E e \in BOOLEAN :
                Set(c, [Idle EXCEPT !.kind = "sftp", !.pc = "resolve", !.elevated = e])
    BY <1>1 DEF Begin
  <2>2. ASSUME NEW e \in BOOLEAN, NEW a \in Credential \cup {None},
               Set(c, [Idle EXCEPT !.pc = "list", !.elevated = e, !.asked = a])
        PROVE  GrantsInv'
    <3> DEFINE new == [Idle EXCEPT !.pc = "list", !.elevated = e, !.asked = a]
    <3>1. new \in Calls /\ Sound(new)
      BY <1>0 DEF Idle, Calls, Sound, AnswersAreTrue, ByRules
    <3> QED  BY <1>0, <2>1, <2>2, <3>1, SetKeeps
  <2>3. ASSUME NEW e \in BOOLEAN,
               Set(c, [Idle EXCEPT !.kind = "sftp", !.pc = "resolve", !.elevated = e])
        PROVE  GrantsInv'
    <3> DEFINE new == [Idle EXCEPT !.kind = "sftp", !.pc = "resolve", !.elevated = e]
    <3>1. new \in Calls /\ Sound(new)
      BY <1>0 DEF Idle, Calls, Sound, AnswersAreTrue, ByRules
    <3> QED  BY <1>0, <2>1, <2>3, <3>1, SetKeeps
  <2> QED  BY <2>1, <2>2, <2>3
<1>2. CASE ListHosts(c)
  <2> DEFINE after(listed) == [k EXCEPT
               !.pc = IF listed \/ k.elevated THEN "acl" ELSE "refused",
               !.waived = ~listed /\ k.elevated]
  <2>1. ASSUME NEW listed \in BOOLEAN PROVE after(listed) \in Calls /\ Sound(after(listed))
    BY <1>0 DEF Calls, Sound, AnswersAreTrue, ByRules
  <2>2. PICK listed \in BOOLEAN : Set(c, after(listed))
    BY <1>2 DEF ListHosts
  <2>3. faults' \in 0..MaxFaults
    BY <1>0, <1>2, AccessAssumption DEF ListHosts
  <2> QED  BY <1>2, <2>1, <2>2, <2>3, SetKeeps DEF ListHosts
<1>3. CASE CheckAcl(c)
  <2>1. PICK pc \in {"resolve", "refused"} : Set(c, [k EXCEPT !.pc = pc])
    BY <1>3 DEF CheckAcl
  <2>2. [k EXCEPT !.pc = pc] \in Calls /\ Sound([k EXCEPT !.pc = pc])
    BY <1>0, <2>1 DEF Calls, Sound, AnswersAreTrue, ByRules
  <2> QED  BY <1>0, <1>3, <2>1, <2>2, SetKeeps DEF CheckAcl
<1>4. CASE ReadRules(c)
  <2> DEFINE new == [k EXCEPT !.pc = "groups", !.copy = rule,
                              !.todo = {rule[r].groups : r \in On(rule)} \ {{}}]
  <2>1. {rule[r].groups : r \in On(rule)} \subseteq SUBSET HostGroup
    BY <1>0 DEF On, Rules
  <2>2. new \in Calls /\ Sound(new)
    BY <1>0, <2>1 DEF Calls, Sound, AnswersAreTrue, ByRules
  <2> QED  BY <1>0, <1>4, <2>2, SetKeeps DEF ReadRules
<1>5. CASE DoSftp(c)
  <2>1. PICK pc \in {"open", "refused"} : Set(c, [k EXCEPT !.pc = pc])
    BY <1>5 DEF DoSftp
  <2>2. [k EXCEPT !.pc = pc] \in Calls /\ Sound([k EXCEPT !.pc = pc])
    BY <1>0, <1>5, <2>1 DEF Calls, Sound, AnswersAreTrue, ByRules, DoSftp
  <2> QED  BY <1>0, <1>5, <2>1, <2>2, SetKeeps DEF DoSftp
<1>6. ASSUME NEW gs \in SUBSET HostGroup, AskGroups(c, gs) PROVE GrantsInv'
  <2> DEFINE within == IF InSome(gs) THEN {gs} ELSE {}
             new(answered) ==
               [k EXCEPT !.todo = k.todo \ {gs}, !.truth = k.truth \cup within,
                         !.covers = IF answered THEN k.covers \cup within ELSE k.covers]
  <2>1. PICK answered \in BOOLEAN : /\ Set(c, new(answered))
                                    /\ answered \/ faults < MaxFaults
                                    /\ faults' = IF answered THEN faults ELSE faults + 1
    BY <1>6 DEF AskGroups
  <2>2. k.todo \in SUBSET SUBSET HostGroup /\ k.covers \in SUBSET SUBSET HostGroup
        /\ k.truth \in SUBSET SUBSET HostGroup /\ within \in SUBSET SUBSET HostGroup
    BY <1>0 DEF Calls
  <2>3. new(answered) \in Calls /\ Sound(new(answered))
    BY <1>0, <1>6, <2>2 DEF Calls, Sound, AnswersAreTrue, ByRules, AskGroups
  <2>4. faults' \in 0..MaxFaults
    BY <1>0, <2>1, AccessAssumption
  <2> QED  BY <1>6, <2>1, <2>3, <2>4, SetKeeps DEF AskGroups
<1> QED  BY <1>1, <1>2, <1>3, <1>4, <1>5, <1>6

LEMMA GrantsKeep == GrantsInv /\ [Next]_vars => GrantsInv'
<1> SUFFICES ASSUME GrantsInv, [Next]_vars PROVE GrantsInv'
  OBVIOUS
<1>1. CASE UNCHANGED vars
  BY <1>1 DEF vars, GrantsInv, TypeOK
<1>2. CASE MoveHost \/ \E r \in Rule : SwitchRule(r)
  BY <1>2, EditKeeps
<1>3. ASSUME NEW c \in Call, OpenSession(c) PROVE GrantsInv'
  BY <1>3, OpenKeeps
<1>4. ASSUME NEW c \in Call,
             \/ Begin(c) \/ ListHosts(c) \/ CheckAcl(c) \/ ReadRules(c) \/ DoSftp(c)
             \/ \E gs \in SUBSET HostGroup : AskGroups(c, gs)
      PROVE  GrantsInv'
  BY <1>4, AccessRequestsKeep
<1> QED  BY <1>1, <1>2, <1>3, <1>4 DEF Next

(***************************************************************************)
(* UserSession                                                             *)
(***************************************************************************)

\* A blob opens to work only if the second factor was shown or not required,
\* and holds its user at the password as long as the account does.
Honest(b) == b.pend \/ b.setup \/ b.shown
Held(b) == us_acct[b.user].must => b.pwc

CallRecord == [at : US!At, sid : Sids \cup {None}, op : US!Op \cup {None},
               blob : US!Blob \cup {None}, prior : Sids \cup {None}]

\* A request under way carries the blob of a session, and past the gateway the
\* gates of that blob let it through.
Fit(x) ==
  x.at # "idle" =>
    /\ x.sid \in Sids /\ x.blob \in US!Blob
    /\ Honest(x.blob) /\ Held(x.blob)
    /\ x.at \in {"found", "slid", "admitted"} => x.op \in US!Op
    /\ x.at = "admitted" /\ x.op \in US!Routed => US!Gated(x.blob, x.op)

Kept(b) == b # None => b \in US!Blob /\ Honest(b) /\ Held(b)

SessionsInv ==
  /\ us_acct \in [Owners -> US!Account]
  /\ us_store = [s \in Sids |-> us_store[s]]
  /\ us_pointer \in [Owners -> Sids \cup {None}]
  /\ us_call \in [Asker -> CallRecord]
  /\ \A s \in Sids : Kept(us_store[s])
  /\ \A c \in Asker : Fit(us_call[c])

\* The claims that the handlers put into a new session.
LEMMA ClaimsAreHonest ==
  ASSUME NEW a \in US!Account, NEW u \in Owners, NEW pwc \in BOOLEAN
  PROVE  /\ US!Claims(a, u, pwc) \in US!Blob /\ Honest(US!Claims(a, u, pwc))
         /\ US!Claims(a, u, pwc).user = u /\ US!Claims(a, u, pwc).pwc = pwc
         /\ US!CleanClaims(a, u) \in US!Blob /\ Honest(US!CleanClaims(a, u))
         /\ US!CleanClaims(a, u).user = u /\ US!CleanClaims(a, u).pwc = FALSE
  BY DEF US!Claims, US!CleanClaims, US!Blob, US!Account, Honest

\* What a step makes of one request, one session and one pointer.
CallChanges(c) ==
  /\ us_call' \in [Asker -> CallRecord]
  /\ \A k \in Asker \ {c} : us_call'[k] = us_call[k]
  /\ Fit(us_call[c])'
StoreChanges ==
  \/ us_store' = us_store
  \/ \E s, b : us_store' = [us_store EXCEPT ![s] = b] /\ Kept(b)'
PointerChanges ==
  \/ us_pointer' = us_pointer
  \/ \E u \in Owners, s \in Sids \cup {None} : us_pointer' = [us_pointer EXCEPT ![u] = s]

\* Nobody is asked for a new password who was not when the account was made.
AccountsKeep ==
  us_acct' \in [Owners -> US!Account] /\ \A u \in Owners : us_acct'[u].must => us_acct[u].must

\* The record of a request that does nothing.
LEMMA IdleCall == US!Idle \in CallRecord /\ US!Idle.at = "idle"
  BY DEF US!Idle, CallRecord, US!At

\* A mint begins: the request carries the blob it will store.
LEMMA MintBegins ==
  ASSUME SessionsInv, NEW c \in Asker, NEW b \in US!Blob, Honest(b), Held(b)', NEW single,
         US!StartMint(c, b, single)
  PROVE  CallChanges(c)
  <1>1. PICK at \in {"mint", "put"} :
          us_call' = [us_call EXCEPT ![c] = [US!Idle EXCEPT !.at = at, !.sid = US!NextSid, !.blob = b]]
    BY DEF US!StartMint
  <1>2. US!NextSid \in Sids
    BY DEF US!StartMint, US!NextSid, US!Unused
  <1>3. PICK x : x = [US!Idle EXCEPT !.at = at, !.sid = US!NextSid, !.blob = b]
    OBVIOUS
  <1>4. x \in CallRecord /\ x.at = at /\ x.sid \in Sids /\ x.blob = b
    <2>1. at \in US!At
      BY DEF US!At
    <2>2. QED BY <1>2, <1>3, <2>1, IdleCall DEF CallRecord
  <1>5. us_call' = [us_call EXCEPT ![c] = x]
    BY <1>1, <1>3
  <1>6. us_call' \in [Asker -> CallRecord] /\ us_call'[c] = x
        /\ \A k \in Asker \ {c} : us_call'[k] = us_call[k]
    BY <1>4, <1>5 DEF SessionsInv
  <1>7. QED BY <1>4, <1>6 DEF Fit, CallChanges

\* A request that has its blob goes on with it.
LEMMA GoesOn ==
  ASSUME SessionsInv, AccountsKeep, NEW c \in Asker, us_call[c].at # "idle",
         us_call' \in [Asker -> CallRecord],
         \A k \in Asker \ {c} : us_call'[k] = us_call[k],
         /\ us_call'[c].sid = us_call[c].sid /\ us_call'[c].blob = us_call[c].blob
         /\ us_call'[c].op = us_call[c].op,
         us_call'[c].at \in {"found", "slid", "admitted"} => us_call[c].at \in {"found", "slid", "admitted"},
         us_call'[c].at = "admitted" /\ us_call[c].op \in US!Routed
           => US!Gated(us_call[c].blob, us_call[c].op)
  PROVE  CallChanges(c)
  <1>1. us_call[c] \in CallRecord /\ Fit(us_call[c])
    BY DEF SessionsInv
  <1>2. Held(us_call[c].blob)'
    BY <1>1 DEF Fit, Held, AccountsKeep, US!Blob
  <1>3. Fit(us_call[c])'
    BY <1>1, <1>2 DEF Fit, Held
  <1>4. QED BY <1>3 DEF CallChanges

\* A request that is over carries nothing.
LEMMA Finishes ==
  ASSUME SessionsInv, NEW c \in Asker, US!Finish(c)
  PROVE  CallChanges(c)
  <1>1. us_call' \in [Asker -> CallRecord] /\ us_call'[c] = US!Idle
        /\ \A k \in Asker \ {c} : us_call'[k] = us_call[k]
    BY IdleCall DEF US!Finish, SessionsInv
  <1>2. QED BY <1>1, IdleCall DEF Fit, CallChanges

\* A lookup or a logout begins with the blob it reads.
LEMMA Reads ==
  ASSUME SessionsInv, us_acct' = us_acct, NEW c \in Asker, NEW s \in Sids, us_store[s] # None,
         NEW x \in CallRecord, us_call' = [us_call EXCEPT ![c] = x],
         x.at \in {"found", "leave"}, x.sid = s, x.blob = us_store[s],
         x.at = "found" => x.op \in US!Op
  PROVE  CallChanges(c)
  <1>1. us_store[s] \in US!Blob /\ Honest(us_store[s]) /\ Held(us_store[s])
    BY DEF SessionsInv, Kept
  <1>2. us_call' \in [Asker -> CallRecord] /\ us_call'[c] = x
        /\ \A k \in Asker \ {c} : us_call'[k] = us_call[k]
    BY DEF SessionsInv
  <1>3. Held(x.blob)'
    BY <1>1 DEF Held
  <1>4. QED BY <1>1, <1>2, <1>3 DEF Fit, CallChanges

\* What the parts of a step come to.
LEMMA SessionsStep ==
  ASSUME SessionsInv, AccountsKeep, StoreChanges, PointerChanges,
         us_call' = us_call \/ \E c \in Asker : CallChanges(c)
  PROVE  SessionsInv'
  <1>1. \A b \in US!Blob : Held(b) => Held(b)'
    BY DEF AccountsKeep, Held, US!Blob
  <1>2. \A b : Kept(b) => Kept(b)'
    BY <1>1 DEF Kept
  <1>3. \A x : Fit(x) => Fit(x)'
    BY <1>1 DEF Fit
  <1>4. us_store' = [s \in Sids |-> us_store'[s]] /\ \A s \in Sids : Kept(us_store[s])'
    BY <1>2 DEF SessionsInv, StoreChanges
  <1>5. us_call' \in [Asker -> CallRecord] /\ \A c \in Asker : Fit(us_call[c])'
    <2>1. CASE us_call' = us_call
      BY <1>3, <2>1 DEF SessionsInv
    <2>2. ASSUME NEW c \in Asker, CallChanges(c)
          PROVE  us_call' \in [Asker -> CallRecord] /\ \A k \in Asker : Fit(us_call[k])'
      <3>1. ASSUME NEW k \in Asker, k # c PROVE Fit(us_call[k])'
        BY <1>3, <2>2, <3>1 DEF SessionsInv, CallChanges
      <3>2. QED BY <2>2, <3>1 DEF CallChanges
    <2>3. QED BY <2>1, <2>2
  <1>6. us_pointer' \in [Owners -> Sids \cup {None}]
    BY DEF SessionsInv, PointerChanges
  <1>7. QED BY <1>4, <1>5, <1>6 DEF SessionsInv, AccountsKeep

\* The steps of a request in the gateway and in Redis.
LEMMA GatewayKeeps ==
  ASSUME SessionsInv, NEW c \in Asker,
         \/ US!MintReadPointer(c) \/ US!MintKick(c) \/ US!MintPoint(c) \/ US!MintStore(c)
         \/ US!Slide(c) \/ US!LookupTooOld(c) \/ US!Admit(c) \/ US!Refuse(c) \/ US!Answer(c)
         \/ US!LogoutReadPointer(c) \/ US!LogoutUnpoint(c) \/ US!LogoutDrop(c)
  PROVE  SessionsInv'
  <1>1. AccountsKeep /\ us_acct' = us_acct
    BY DEF AccountsKeep, SessionsInv, US!MintReadPointer, US!MintKick, US!MintPoint, US!MintStore, US!Slide,
       US!LookupTooOld, US!Admit, US!Refuse, US!Answer, US!LogoutReadPointer,
       US!LogoutUnpoint, US!LogoutDrop
  <1>2. PICK x \in CallRecord : x = us_call[c] /\ Fit(x)
    BY DEF SessionsInv
  <1>3. x.at # "idle"
    BY <1>2 DEF US!MintReadPointer, US!MintKick, US!MintPoint, US!MintStore, US!Slide,
       US!LookupTooOld, US!Admit, US!Refuse, US!Answer, US!LogoutReadPointer,
       US!LogoutUnpoint, US!LogoutDrop
  <1>4. x.blob \in US!Blob /\ x.blob.user \in Owners /\ Honest(x.blob) /\ Held(x.blob)
    BY <1>2, <1>3 DEF Fit, US!Blob
  <1>5. /\ x.prior \in Sids \cup {None} /\ x.sid \in Sids
        /\ us_pointer[x.blob.user] \in Sids \cup {None}
    BY <1>2, <1>3, <1>4 DEF SessionsInv, CallRecord, Fit
  <1>6. StoreChanges
    <2>1. \/ us_store' = us_store
          \/ us_store' = [us_store EXCEPT ![x.prior] = None]
          \/ us_store' = [us_store EXCEPT ![x.sid] = x.blob]
          \/ us_store' = [us_store EXCEPT ![x.sid] = None]
      BY <1>2 DEF US!MintReadPointer, US!MintKick, US!MintPoint, US!MintStore, US!Slide,
       US!LookupTooOld, US!Admit, US!Refuse, US!Answer, US!LogoutReadPointer,
       US!LogoutUnpoint, US!LogoutDrop
    <2>2. Kept(x.blob)' /\ Kept(None)'
      BY <1>1, <1>4 DEF Kept, Held
    <2>3. QED BY <2>1, <2>2 DEF StoreChanges
  <1>7. PointerChanges
    <2>1. \/ us_pointer' = us_pointer
          \/ us_pointer' = [us_pointer EXCEPT ![x.blob.user] = x.sid]
          \/ us_pointer' = [us_pointer EXCEPT ![x.blob.user] = None]
      BY <1>2 DEF US!MintReadPointer, US!MintKick, US!MintPoint, US!MintStore, US!Slide,
       US!LookupTooOld, US!Admit, US!Refuse, US!Answer, US!LogoutReadPointer,
       US!LogoutUnpoint, US!LogoutDrop
    <2>2. QED BY <1>4, <1>5, <2>1 DEF PointerChanges
  <1>8. CallChanges(c)
    <2>1. CASE US!Finish(c)
      BY <2>1, Finishes
    <2>2. CASE US!MintReadPointer(c)
      <3>1. PICK at \in {"point", "kick"} :
              us_call' = [us_call EXCEPT ![c].prior = us_pointer[x.blob.user], ![c].at = at]
        BY <1>2, <2>2 DEF US!MintReadPointer
      <3>2. at \in US!At
        BY DEF US!At
      <3>3. /\ us_call' \in [Asker -> CallRecord]
            /\ \A k \in Asker \ {c} : us_call'[k] = us_call[k]
            /\ us_call'[c].sid = us_call[c].sid /\ us_call'[c].blob = us_call[c].blob
            /\ us_call'[c].op = us_call[c].op /\ us_call'[c].at = at
        BY <1>5, <3>1, <3>2 DEF SessionsInv, CallRecord
      <3>4. QED BY <1>1, <1>2, <1>3, <3>3, GoesOn
    <2>3. CASE US!MintKick(c)
      <3>1. us_call' = [us_call EXCEPT ![c].at = "point", ![c].prior = None]
        BY <2>3 DEF US!MintKick
      <3>2. /\ us_call' \in [Asker -> CallRecord]
            /\ \A k \in Asker \ {c} : us_call'[k] = us_call[k]
            /\ us_call'[c].sid = us_call[c].sid /\ us_call'[c].blob = us_call[c].blob
            /\ us_call'[c].op = us_call[c].op /\ us_call'[c].at = "point"
        BY <3>1, ZenonT(30) DEF SessionsInv, CallRecord, US!At
      <3>3. QED BY <1>1, <1>2, <1>3, <3>2, GoesOn
    <2>4. ASSUME NEW at \in US!At, us_call' = [us_call EXCEPT ![c].at = at],
                 at \in {"found", "slid", "admitted"} => x.at \in {"found", "slid", "admitted"},
                 at = "admitted" /\ x.op \in US!Routed => US!Gated(x.blob, x.op)
          PROVE  CallChanges(c)
      <3>1. /\ us_call' \in [Asker -> CallRecord]
            /\ \A k \in Asker \ {c} : us_call'[k] = us_call[k]
            /\ us_call'[c].sid = us_call[c].sid /\ us_call'[c].blob = us_call[c].blob
            /\ us_call'[c].op = us_call[c].op /\ us_call'[c].at = at
        BY <2>4 DEF SessionsInv, CallRecord
      <3>2. QED BY <1>1, <1>2, <1>3, <2>4, <3>1, GoesOn
    <2>5. CASE US!MintPoint(c)
      BY <2>4, <2>5 DEF US!MintPoint, US!At
    <2>6. CASE US!Slide(c)
      BY <1>2, <2>4, <2>6 DEF US!Slide, US!At
    <2>7. CASE US!Admit(c)
      BY <1>2, <2>4, <2>7 DEF US!Admit, US!At
    <2>8. CASE US!LogoutReadPointer(c)
      <3>1. PICK at \in {"unpoint", "drop"} : us_call' = [us_call EXCEPT ![c].at = at]
        BY <2>8 DEF US!LogoutReadPointer
      <3>2. QED BY <2>4, <3>1 DEF US!At
    <2>9. CASE US!LogoutUnpoint(c)
      BY <2>4, <2>9 DEF US!LogoutUnpoint, US!At
    <2>10. QED
      BY <2>1, <2>2, <2>3, <2>5, <2>6, <2>7, <2>8, <2>9 DEF US!MintStore,
         US!LookupTooOld, US!Refuse, US!Answer, US!LogoutDrop
  <1>9. QED BY <1>1, <1>6, <1>7, <1>8, SessionsStep

\* The handlers that mint a session, and those that change the account.
LEMMA HandlersKeep ==
  ASSUME SessionsInv, NEW c \in Asker,
         \/ US!ChangePassword(c) \/ US!VerifyLogin(c) \/ US!EnableMfa(c) \/ US!DisableMfa(c)
  PROVE  SessionsInv'
  <1>1. PICK x \in CallRecord : x = us_call[c] /\ Fit(x)
    BY DEF SessionsInv
  <1>2. x.at = "admitted" /\ x.op \in {"password", "verify", "enroll", "disable"}
    BY <1>1 DEF US!ChangePassword, US!VerifyLogin, US!EnableMfa, US!DisableMfa, US!Admitted
  <1>3. PICK u \in Owners : u = x.blob.user
    BY <1>1, <1>2 DEF Fit, US!Blob
  <1>4. us_acct[u] \in US!Account /\ us_acct[u].single \in BOOLEAN
    BY DEF SessionsInv, US!Account
  <1>5. Held(x.blob) /\ US!Gated(x.blob, x.op)
    BY <1>1, <1>2 DEF Fit, US!Routed
  <1>6. x.op # "password" => ~us_acct[u].must
    BY <1>3, <1>5 DEF Held, US!Gated
  <1>7. StoreChanges /\ PointerChanges
    BY DEF StoreChanges, PointerChanges, US!ChangePassword, US!VerifyLogin, US!EnableMfa, US!DisableMfa
  <1>8. /\ US!PasswordClaims(us_acct[u], u) \in US!Blob /\ Honest(US!PasswordClaims(us_acct[u], u))
        /\ US!PasswordClaims(us_acct[u], u).user = u
        /\ US!CleanClaims(us_acct[u], u) \in US!Blob /\ Honest(US!CleanClaims(us_acct[u], u))
        /\ US!CleanClaims(us_acct[u], u).user = u
    BY <1>4, ClaimsAreHonest DEF US!PasswordClaims
  <1>9. CASE US!ChangePassword(c)
    <2>1. us_acct' = [us_acct EXCEPT ![u].must = FALSE]
      BY <1>1, <1>3, <1>9 DEF US!ChangePassword
    <2>2. AccountsKeep /\ ~us_acct'[u].must
      BY <2>1 DEF AccountsKeep, SessionsInv, US!Account
    <2>3. PICK b \in US!Blob : b = US!PasswordClaims(us_acct[u], u) /\ Honest(b) /\ b.user = u
      BY <1>8
    <2>4. Held(b)'
      BY <2>2, <2>3 DEF Held
    <2>5. US!StartMint(c, b, us_acct[u].single)
      BY <1>1, <1>3, <1>9, <2>3 DEF US!ChangePassword
    <2>6. CallChanges(c)
      BY <2>3, <2>4, <2>5, MintBegins
    <2>7. QED BY <1>7, <2>2, <2>6, SessionsStep
  <1>10. CASE US!VerifyLogin(c) \/ US!EnableMfa(c)
    <2>1. us_acct' = us_acct \/ us_acct' = [us_acct EXCEPT ![u].mfa = TRUE]
      BY <1>1, <1>3, <1>10 DEF US!VerifyLogin, US!EnableMfa
    <2>2. AccountsKeep
      BY <2>1, ZenonT(30) DEF AccountsKeep, SessionsInv, US!Account
    <2>3. PICK b \in US!Blob : b = US!CleanClaims(us_acct[u], u) /\ Honest(b) /\ b.user = u
      BY <1>8
    <2>4. ~us_acct[u].must
      BY <1>1, <1>6, <1>10 DEF US!VerifyLogin, US!EnableMfa, US!Admitted
    <2>5. Held(b)'
      BY <2>2, <2>3, <2>4 DEF Held, AccountsKeep
    <2>6. US!StartMint(c, b, us_acct[u].single)
      BY <1>1, <1>3, <1>10, <2>3 DEF US!VerifyLogin, US!EnableMfa
    <2>7. CallChanges(c)
      BY <2>3, <2>5, <2>6, MintBegins
    <2>8. QED BY <1>7, <2>2, <2>7, SessionsStep
  <1>11. CASE US!DisableMfa(c)
    <2>1. us_acct' = [us_acct EXCEPT ![u].mfa = FALSE] /\ US!Finish(c)
      BY <1>1, <1>3, <1>11 DEF US!DisableMfa
    <2>2. AccountsKeep
      BY <2>1 DEF AccountsKeep, SessionsInv, US!Account
    <2>3. QED BY <1>7, <2>1, <2>2, Finishes, SessionsStep
  <1>12. QED BY <1>9, <1>10, <1>11

\* The logins, and the requests that come in with a session.
LEMMA ArrivalsKeep ==
  ASSUME SessionsInv, NEW c \in Asker,
         \/ \E u \in Owners : US!Login(c, u) \/ US!LoginDelegated(c, u)
         \/ \E s \in Sids, op \in US!Op : US!Present(c, s, op)
         \/ \E s \in Sids : US!LogoutRead(c, s)
  PROVE  SessionsInv'
  <1>1. UNCHANGED <<us_acct, us_store, us_pointer>>
    BY DEF US!Login, US!LoginDelegated, US!Present, US!LogoutRead
  <1>2. AccountsKeep /\ StoreChanges /\ PointerChanges
    BY <1>1 DEF AccountsKeep, StoreChanges, PointerChanges, SessionsInv
  <1>3. ASSUME NEW u \in Owners, US!Login(c, u) \/ US!LoginDelegated(c, u)
        PROVE  CallChanges(c)
    <2>1. PICK a \in US!Account : a = us_acct[u]
      BY DEF SessionsInv
    <2>2. PICK b \in US!Blob : /\ b = US!Claims(a, u, a.must) /\ Honest(b)
                               /\ b.user = u /\ (a.must => b.pwc)
      <3>1. PICK b : b = US!Claims(a, u, a.must)
        OBVIOUS
      <3>2. b \in US!Blob /\ b.user = u /\ (a.must => b.pwc) /\ Honest(b)
        BY <3>1 DEF US!Claims, US!Blob, US!Account, Honest
      <3>3. QED BY <3>1, <3>2
    <2>3. Held(b)'
      BY <1>1, <2>1, <2>2 DEF Held
    <2>4. US!StartMint(c, b, us_acct[u].single)
      BY <1>3, <2>1, <2>2 DEF US!Login, US!LoginDelegated
    <2>5. QED BY <2>2, <2>3, <2>4, MintBegins
  <1>4. ASSUME NEW s \in Sids, us_store[s] # None PROVE us_store[s] \in US!Blob
    BY <1>4 DEF SessionsInv, Kept
  <1>5. ASSUME NEW s \in Sids, NEW op \in US!Op, US!Present(c, s, op)
        PROVE  CallChanges(c)
    <2>1. PICK x : x = [US!Idle EXCEPT !.at = "found", !.sid = s, !.op = op, !.blob = us_store[s]]
      OBVIOUS
    <2>2. us_store[s] # None /\ us_call' = [us_call EXCEPT ![c] = x]
      BY <1>5, <2>1 DEF US!Present, US!Live
    <2>3. /\ x \in CallRecord /\ x.at = "found" /\ x.sid = s
          /\ x.blob = us_store[s] /\ x.op = op
      BY <1>4, <2>1, <2>2, IdleCall DEF CallRecord, US!At
    <2>4. QED BY <1>1, <2>2, <2>3, Reads
  <1>6. ASSUME NEW s \in Sids, US!LogoutRead(c, s)
        PROVE  CallChanges(c)
    <2>1. PICK x : x = [US!Idle EXCEPT !.at = "leave", !.sid = s, !.blob = us_store[s]]
      OBVIOUS
    <2>2. us_store[s] # None /\ us_call' = [us_call EXCEPT ![c] = x]
      BY <1>6, <2>1 DEF US!LogoutRead, US!Live
    <2>3. x \in CallRecord /\ x.at = "leave" /\ x.sid = s /\ x.blob = us_store[s]
      BY <1>4, <2>1, <2>2, IdleCall DEF CallRecord, US!At
    <2>4. QED BY <1>1, <2>2, <2>3, Reads
  <1>7. QED BY <1>2, <1>3, <1>5, <1>6, SessionsStep

\* Time and the administrator.
LEMMA SurroundingsKeep ==
  ASSUME SessionsInv,
         \/ \E s \in Sids : US!SessionExpires(s)
         \/ \E u \in Owners : US!PointerExpires(u)
         \/ \E u \in Owners, k \in Changed : US!Administer(u, k)
  PROVE  SessionsInv'
  <1>1. us_call' = us_call
    BY DEF US!SessionExpires, US!PointerExpires, US!Administer
  <1>2. StoreChanges
    BY DEF StoreChanges, Kept, US!SessionExpires, US!PointerExpires, US!Administer
  <1>3. PointerChanges
    BY DEF PointerChanges, US!SessionExpires, US!PointerExpires, US!Administer
  <1>4. AccountsKeep
    <2>1. CASE us_acct' = us_acct
      BY <2>1 DEF AccountsKeep, SessionsInv
    <2>2. ASSUME NEW u \in Owners, NEW k \in Changed, US!Administer(u, k)
          PROVE  AccountsKeep
      <3>1. us_acct[u] \in US!Account /\ k \in {"forced", "mfa"}
        BY DEF SessionsInv, Changed
      <3>2. PICK a : a = [us_acct[u] EXCEPT ![k] = ~us_acct[u][k]]
        OBVIOUS
      <3>3. a \in US!Account /\ a.must = us_acct[u].must
        <4>1. CASE k = "forced"
          BY <3>1, <3>2, <4>1 DEF US!Account
        <4>2. CASE k = "mfa"
          BY <3>1, <3>2, <4>2 DEF US!Account
        <4>3. QED BY <3>1, <4>1, <4>2
      <3>4. us_acct' = [us_acct EXCEPT ![u] = a]
        BY <2>2, <3>2 DEF US!Administer
      <3>5. QED BY <3>3, <3>4 DEF AccountsKeep, SessionsInv
    <2>3. QED BY <2>1, <2>2 DEF US!SessionExpires, US!PointerExpires
  <1>5. QED BY <1>1, <1>2, <1>3, <1>4, SessionsStep

\* A behaviour of UserSession keeps the invariant from its beginning.
LEMMA SessionsInit == US!Init => SessionsInv
  <1> SUFFICES ASSUME US!Init PROVE SessionsInv
    OBVIOUS
  <1>1. /\ us_acct \in [Owners -> US!Account]
        /\ us_store = [s \in Sids |-> None] /\ us_pointer = [u \in Owners |-> None]
        /\ us_call = [c \in Asker |-> US!Idle]
    BY DEF US!Init
  <1>2. \A s \in Sids : us_store[s] = None
    BY <1>1
  <1>3. us_call \in [Asker -> CallRecord] /\ \A c \in Asker : us_call[c].at = "idle"
    BY <1>1, IdleCall
  <1>4. us_store = [s \in Sids |-> us_store[s]]
    BY <1>1
  <1>5. us_pointer \in [Owners -> Sids \cup {None}]
    BY <1>1
  <1>6. QED BY <1>1, <1>2, <1>3, <1>4, <1>5 DEF SessionsInv, Kept, Fit

LEMMA SessionsKeep ==
  SessionsInv /\ [US!Next]_<<us_acct, us_store, us_pointer, us_call>> => SessionsInv'
  <1> SUFFICES ASSUME SessionsInv, [US!Next]_<<us_acct, us_store, us_pointer, us_call>>
               PROVE  SessionsInv'
    OBVIOUS
  <1>1. CASE US!Next
    BY <1>1, GatewayKeeps, HandlersKeep, ArrivalsKeep, SurroundingsKeep DEF US!Next, US!Proceed
  <1>2. CASE UNCHANGED <<us_acct, us_store, us_pointer, us_call>>
    BY <1>2 DEF SessionsInv, Kept, Fit, Held
  <1>3. QED BY <1>1, <1>2

\* What the invariant says of the properties of UserSession.
LEMMA SessionsSafe ==
  SessionsInv => US!TypeOK /\ US!MustChangeSticks /\ US!WorkShowsFactor
  <1> SUFFICES ASSUME SessionsInv PROVE US!TypeOK /\ US!MustChangeSticks /\ US!WorkShowsFactor
    OBVIOUS
  <1>1. us_store \in [Sids -> US!Blob \cup {None}]
    BY DEF SessionsInv, Kept
  <1>2. US!TypeOK
    BY <1>1 DEF SessionsInv, CallRecord, US!TypeOK
  <1>3. ASSUME NEW c \in Asker, us_call[c].at = "admitted", us_call[c].op \in US!Routed
        PROVE  /\ US!Gated(us_call[c].blob, us_call[c].op)
               /\ Honest(us_call[c].blob) /\ Held(us_call[c].blob)
    BY <1>3 DEF SessionsInv, Fit
  <1>4. US!MustChangeSticks
    BY <1>3 DEF SessionsInv, Kept, Held, US!MustChangeSticks, US!Live, US!Gated
  <1>5. US!WorkShowsFactor
    BY <1>3 DEF US!WorkShowsFactor, US!Gated, Honest
  <1>6. QED BY <1>2, <1>4, <1>5

(***************************************************************************)
(* Codes                                                                   *)
(***************************************************************************)

\* A code that was issued for p.
IssuedFor(k, p) == k \in 1..co_issued /\ co_madeFor[k] = p

\* A code is kept where it was issued for, a request that reads it asks for the
\* same, and has entered it when it goes on.
CodesInv ==
  /\ CO!TypeOK
  /\ \A p \in Purposes : co_slot[p] = CO!Empty \/ IssuedFor(co_slot[p].code, p)
  /\ \A c \in Asker :
       /\ co_call[c].at = "read" => IssuedFor(co_call[c].read.code, co_call[c].purpose)
       /\ co_call[c].at = "right" => IssuedFor(co_call[c].entered, co_call[c].purpose)
  /\ \A o \in co_opened : IssuedFor(o[2], o[1])

\* What the bounds and the empty records come to.
LEMMA CodesTyped ==
  /\ CO!SomePurpose \in Purposes
  /\ CO!Code = 0..MaxCodes
  /\ CO!Empty \in CO!Slot
  /\ \A p \in Purposes : CO!Idle(p) \in [at : {"idle", "read", "right"}, purpose : Purposes,
                                         entered : CO!Code, read : CO!Slot]
  <1>1. CO!SomePurpose \in Purposes
    BY IdentityAssumption DEF CO!SomePurpose
  <1>2. CO!Empty \in CO!Slot
    BY IdentityAssumption DEF CO!Empty, CO!Slot, CO!Code
  <1>3. 0 \in CO!Code
    BY IdentityAssumption DEF CO!Code
  <1>4. QED BY <1>1, <1>2, <1>3 DEF CO!Code, CO!Idle

LEMMA CodesInit == CO!Init => CodesInv
  <1> SUFFICES ASSUME CO!Init PROVE CodesInv
    OBVIOUS
  <1>1. CO!TypeOK
    <2>1. co_slot \in [Purposes -> CO!Slot] /\ co_madeFor \in [CO!Code \ {0} -> Purposes]
      BY CodesTyped DEF CO!Init
    <2>2. co_issued \in CO!Code /\ co_latest \in [Purposes -> CO!Code]
      BY CodesTyped, IdentityAssumption DEF CO!Init
    <2>3. co_call \in [Asker -> [at : {"idle", "read", "right"}, purpose : Purposes,
                                 entered : CO!Code, read : CO!Slot]]
      BY CodesTyped DEF CO!Init
    <2>4. QED BY <2>1, <2>2, <2>3 DEF CO!Init, CO!TypeOK
  <1>2. /\ \A p \in Purposes : co_slot[p] = CO!Empty
        /\ \A c \in Asker : co_call[c].at = "idle"
    BY CodesTyped DEF CO!Init, CO!Idle
  <1>3. QED BY <1>1, <1>2 DEF CO!Init, CodesInv

\* A code that is issued is a new one, and the others keep their purpose.
LEMMA IssueKeeps ==
  ASSUME CodesInv, NEW p \in Purposes, NEW mailed \in BOOLEAN, CO!Issue(p, mailed)
  PROVE  CodesInv'
  <1>1. PICK n \in 1..MaxCodes : /\ n = co_issued + 1 /\ co_issued \in Nat
                                 /\ co_issued < MaxCodes /\ co_issued' = n
    BY IdentityAssumption DEF CO!Issue, CodesInv, CO!TypeOK, CO!Code
  <1>2. n \in CO!Code \ {0}
    BY IdentityAssumption DEF CO!Code
  <1>3. /\ co_madeFor' \in [CO!Code \ {0} -> Purposes]
        /\ co_madeFor'[n] = p
        /\ \A k \in 1..co_issued : co_madeFor'[k] = co_madeFor[k]
    <2>1. co_madeFor' = [co_madeFor EXCEPT ![n] = p] /\ co_madeFor \in [CO!Code \ {0} -> Purposes]
      BY <1>1 DEF CO!Issue, CodesInv, CO!TypeOK
    <2>2. \A k \in 1..co_issued : k \in CO!Code \ {0} /\ k # n
      BY <1>1, IdentityAssumption DEF CO!Code
    <2>3. QED BY <1>2, <2>1, <2>2
  <1>4. ASSUME NEW k, NEW q, IssuedFor(k, q) PROVE IssuedFor(k, q)'
    BY <1>1, <1>3, <1>4 DEF IssuedFor
  <1>5. IssuedFor(n, p)'
    BY <1>1, <1>3 DEF IssuedFor
  <1>6. PICK new : new = [code |-> n, tries |-> 0]
    OBVIOUS
  <1>7. new \in CO!Slot /\ new.code = n
    BY <1>2, <1>6, IdentityAssumption DEF CO!Slot
  <1>8. co_slot' = [co_slot EXCEPT ![p] = new]
    BY <1>1, <1>6 DEF CO!Issue, CO!Key
  <1>9. UNCHANGED <<co_method, co_call, co_opened, co_twice>>
    BY DEF CO!Issue
  <1>10. co_latest' \in [Purposes -> CO!Code]
    <2>1. PICK k \in CO!Code : co_latest' = [co_latest EXCEPT ![p] = k]
      <3>1. 0 \in CO!Code
        BY IdentityAssumption DEF CO!Code
      <3>2. co_latest' = [co_latest EXCEPT ![p] = IF mailed THEN n ELSE 0]
        BY <1>1 DEF CO!Issue
      <3>3. QED BY <1>2, <3>1, <3>2
    <2>2. QED BY <2>1 DEF CodesInv, CO!TypeOK
  <1>11. CO!TypeOK'
    <2>1. co_slot' \in [Purposes -> CO!Slot]
      BY <1>7, <1>8 DEF CodesInv, CO!TypeOK
    <2>2. co_issued' \in CO!Code
      BY <1>1, <1>2
    <2>3. QED BY <1>3, <1>9, <1>10, <2>1, <2>2 DEF CodesInv, CO!TypeOK
  <1>12. ASSUME NEW q \in Purposes
         PROVE  co_slot'[q] = CO!Empty \/ IssuedFor(co_slot[q].code, q)'
    <2>1. co_slot'[q] = IF q = p THEN new ELSE co_slot[q]
      BY <1>8 DEF CodesInv, CO!TypeOK
    <2>2. CASE q = p
      BY <1>5, <1>7, <2>1, <2>2 DEF IssuedFor
    <2>3. CASE q # p
      <3>1. PICK k : k = co_slot[q].code
        OBVIOUS
      <3>2. co_slot[q] = CO!Empty \/ IssuedFor(k, q)'
        BY <1>4, <3>1 DEF CodesInv
      <3>3. QED BY <2>1, <2>3, <3>1, <3>2 DEF IssuedFor
    <2>4. QED BY <2>2, <2>3
  <1>13. \A c \in Asker :
           /\ co_call'[c].at = "read" => IssuedFor(co_call[c].read.code, co_call[c].purpose)'
           /\ co_call'[c].at = "right" => IssuedFor(co_call[c].entered, co_call[c].purpose)'
    BY <1>4, <1>9 DEF CodesInv, IssuedFor
  <1>14. \A o \in co_opened' : IssuedFor(o[2], o[1])'
    BY <1>4, <1>9 DEF CodesInv
  <1>15. QED
    <2>1. \A q \in Purposes : co_slot'[q] = CO!Empty' \/ IssuedFor(co_slot[q].code, q)'
      BY <1>12 DEF CO!Empty
    <2>2. QED BY <1>11, <1>13, <1>14, <2>1 DEF CodesInv

\* What a request makes of the code it has read.
CodeCalls == [at : {"idle", "read", "right"}, purpose : Purposes,
              entered : CO!Code, read : CO!Slot]

\* A step that issues no code: it touches one request and the slot it reads.
LEMMA RequestKeeps ==
  ASSUME CodesInv, UNCHANGED <<co_issued, co_madeFor>>,
         co_method' \in {"none", "email"}, co_twice' \in BOOLEAN,
         co_latest' \in [Purposes -> CO!Code],
         \/ co_slot' = co_slot
         \/ \E p \in Purposes, new \in CO!Slot :
              /\ co_slot' = [co_slot EXCEPT ![p] = new]
              /\ new = CO!Empty \/ IssuedFor(new.code, p),
         \/ co_call' = co_call
         \/ \E c \in Asker, x \in CodeCalls :
              /\ co_call' = [co_call EXCEPT ![c] = x]
              /\ x.at = "read" => IssuedFor(x.read.code, x.purpose)
              /\ x.at = "right" => IssuedFor(x.entered, x.purpose),
         \/ co_opened' = co_opened
         \/ \E p \in Purposes, k \in CO!Code :
              co_opened' = co_opened \cup {<<p, k>>} /\ IssuedFor(k, p)
  PROVE  CodesInv'
  <1>1. \A k, p : IssuedFor(k, p)' <=> IssuedFor(k, p)
    BY DEF IssuedFor
  <1>2. /\ co_slot' \in [Purposes -> CO!Slot]
        /\ \A p \in Purposes : co_slot'[p] = CO!Empty \/ IssuedFor(co_slot'[p].code, p)
    BY DEF CodesInv, CO!TypeOK
  <1>3. /\ co_call' \in [Asker -> CodeCalls]
        /\ \A c \in Asker :
             /\ co_call'[c].at = "read" => IssuedFor(co_call'[c].read.code, co_call'[c].purpose)
             /\ co_call'[c].at = "right" => IssuedFor(co_call'[c].entered, co_call'[c].purpose)
    BY DEF CodesInv, CO!TypeOK, CodeCalls
  <1>4. /\ co_opened' \subseteq Purposes \X CO!Code
        /\ \A o \in co_opened' : IssuedFor(o[2], o[1])
    BY DEF CodesInv, CO!TypeOK
  <1>5. CO!TypeOK'
    BY <1>2, <1>3, <1>4 DEF CodesInv, CO!TypeOK, CodeCalls
  <1>6. QED BY <1>1, <1>2, <1>3, <1>4, <1>5 DEF CodesInv, IssuedFor

\* A request that is over.
LEMMA LeaveShape ==
  ASSUME NEW c, CO!Leave(c)
  PROVE  \E x \in CodeCalls : co_call' = [co_call EXCEPT ![c] = x] /\ x.at = "idle"
  BY CodesTyped DEF CO!Leave, CO!Idle, CodeCalls

\* A code that is read, counted, used up or given up, and what it opens.
LEMMA EntriesKeep ==
  ASSUME CodesInv,
         \/ \E p \in Purposes : CO!Expire(p)
         \/ \E c \in Asker, p \in Purposes, k \in CO!Code : CO!Enter(c, p, k)
         \/ \E c \in Asker : CO!TooMany(c) \/ CO!Miss(c) \/ CO!Match(c) \/ CO!Open(c)
  PROVE  CodesInv'
  <1>1. co_latest \in [Purposes -> CO!Code] /\ co_slot \in [Purposes -> CO!Slot]
        /\ co_call \in [Asker -> CodeCalls] /\ co_method \in {"none", "email"} /\ co_twice \in BOOLEAN
    BY DEF CodesInv, CO!TypeOK, CodeCalls
  <1>2. \A p \in Purposes : [co_latest EXCEPT ![p] = 0] \in [Purposes -> CO!Code]
    BY <1>1, IdentityAssumption DEF CO!Code
  <1>3. ASSUME NEW p \in Purposes, CO!Expire(p) PROVE CodesInv'
    BY <1>1, <1>2, <1>3, CodesTyped, RequestKeeps DEF CO!Expire
  <1>4. ASSUME NEW c \in Asker, NEW p \in Purposes, NEW k \in CO!Code, CO!Enter(c, p, k)
        PROVE  CodesInv'
    <2>1. PICK r \in CO!Slot : r = co_slot[p] /\ IssuedFor(r.code, p)
      BY <1>1, <1>4 DEF CO!Enter, CO!Key, CodesInv
    <2>2. PICK x \in CodeCalls : x = [at |-> "read", purpose |-> p, entered |-> k, read |-> r]
      BY DEF CodeCalls
    <2>3. x.at = "read" /\ x.read = r /\ x.purpose = p
      BY <2>2
    <2>4. co_call' = [co_call EXCEPT ![c] = x]
      BY <1>4, <2>1, <2>2 DEF CO!Enter, CO!Key
    <2>5. UNCHANGED <<co_method, co_slot, co_issued, co_madeFor, co_latest, co_opened, co_twice>>
      BY <1>4 DEF CO!Enter
    <2>6. QED BY <1>1, <2>1, <2>3, <2>4, <2>5, RequestKeeps
  <1>5. ASSUME NEW c \in Asker, CO!TooMany(c) PROVE CodesInv'
    <2>1. PICK x \in CodeCalls : co_call' = [co_call EXCEPT ![c] = x] /\ x.at = "idle"
      BY <1>5, LeaveShape DEF CO!TooMany
    <2>2. PICK p \in Purposes : p = co_call[c].purpose
      BY <1>1 DEF CodeCalls
    <2>3. /\ co_slot' = [co_slot EXCEPT ![p] = CO!Empty] /\ co_latest' = [co_latest EXCEPT ![p] = 0]
          /\ UNCHANGED <<co_method, co_issued, co_madeFor, co_opened, co_twice>>
      BY <1>5, <2>2 DEF CO!TooMany, CO!Keep, CO!Key
    <2>4. QED BY <1>1, <1>2, <2>1, <2>3, CodesTyped, RequestKeeps
  <1>6. ASSUME NEW c \in Asker, CO!Miss(c) PROVE CodesInv'
    <2>1. PICK x \in CodeCalls : co_call' = [co_call EXCEPT ![c] = x] /\ x.at = "idle"
      BY <1>6, LeaveShape DEF CO!Miss
    <2>2. PICK p \in Purposes, r \in CO!Slot : p = co_call[c].purpose /\ r = co_call[c].read
      BY <1>1 DEF CodeCalls
    <2>3. IssuedFor(r.code, p) /\ r.tries < MaxTries
      BY <1>6, <2>2 DEF CO!Miss, CodesInv
    <2>4. PICK new : new = [r EXCEPT !.tries = r.tries + 1]
      OBVIOUS
    <2>5. new \in CO!Slot /\ new.code = r.code
      BY <2>3, <2>4, IdentityAssumption DEF CO!Slot
    <2>6. /\ co_slot' = [co_slot EXCEPT ![p] = new]
          /\ UNCHANGED <<co_method, co_issued, co_madeFor, co_latest, co_opened, co_twice>>
      BY <1>6, <2>2, <2>4 DEF CO!Miss, CO!Keep, CO!Key
    <2>7. QED BY <1>1, <2>1, <2>3, <2>5, <2>6, RequestKeeps
  <1>7. ASSUME NEW c \in Asker, CO!Match(c) PROVE CodesInv'
    <2>1. PICK x : x = [co_call[c] EXCEPT !.at = "right"]
      OBVIOUS
    <2>2. /\ x \in CodeCalls /\ x.at = "right" /\ x.entered = co_call[c].entered
          /\ x.purpose = co_call[c].purpose
      BY <1>1, <2>1 DEF CodeCalls
    <2>3. IssuedFor(x.entered, x.purpose)
      BY <1>7, <2>2 DEF CO!Match, CodesInv
    <2>4. /\ co_call' = [co_call EXCEPT ![c] = x]
          /\ co_slot' = [co_slot EXCEPT ![x.purpose] = CO!Empty]
          /\ co_latest' = [co_latest EXCEPT ![x.purpose] = 0]
          /\ UNCHANGED <<co_method, co_issued, co_madeFor, co_opened, co_twice>>
      BY <1>7, <2>1, <2>2 DEF CO!Match, CO!Keep, CO!Key
    <2>5. x.purpose \in Purposes
      BY <2>2 DEF CodeCalls
    <2>6. QED BY <1>1, <1>2, <2>2, <2>3, <2>4, <2>5, CodesTyped, RequestKeeps
  <1>8. ASSUME NEW c \in Asker, CO!Open(c) PROVE CodesInv'
    <2>1. PICK x \in CodeCalls : co_call' = [co_call EXCEPT ![c] = x] /\ x.at = "idle"
      BY <1>8, LeaveShape DEF CO!Open
    <2>2. PICK p \in Purposes, k \in CO!Code :
            p = co_call[c].purpose /\ k = co_call[c].entered
      BY <1>1 DEF CodeCalls
    <2>3. IssuedFor(k, p)
      BY <1>8, <2>2 DEF CO!Open, CodesInv
    <2>4. /\ co_opened' = co_opened \cup {<<p, k>>}
          /\ UNCHANGED <<co_slot, co_issued, co_madeFor, co_latest>>
      BY <1>8, <2>2 DEF CO!Open
    <2>5. co_method' \in {"none", "email"}
      BY <1>1, <1>8, <2>2 DEF CO!Open
    <2>6. co_twice' \in BOOLEAN
      BY <1>8 DEF CO!Open
    <2>7. QED BY <1>1, <2>1, <2>3, <2>4, <2>5, <2>6, RequestKeeps
  <1>9. QED BY <1>3, <1>4, <1>5, <1>6, <1>7, <1>8

LEMMA CodesKeep == CodesInv /\ [CO!Next]_(CO!vars) => CodesInv'
  <1> SUFFICES ASSUME CodesInv, [CO!Next]_(CO!vars) PROVE CodesInv'
    OBVIOUS
  <1>1. CASE CO!Next
    BY <1>1, IssueKeeps, EntriesKeep DEF CO!Next, CO!Resend
  <1>2. CASE UNCHANGED CO!vars
    BY <1>2 DEF CO!vars, CodesInv, CO!TypeOK, IssuedFor
  <1>3. QED BY <1>1, <1>2

LEMMA CodesSafe == CodesInv => CO!TypeOK /\ CO!CodeIsForItsPurpose
  BY DEF CodesInv, IssuedFor, CO!CodeIsForItsPurpose

(***************************************************************************)
(* RoleAdmin                                                               *)
(***************************************************************************)

\* What t has done so far is covered by the guards it passed: as long as nobody
\* committed since it read, it makes no superadmin for a caller who is none; as
\* long as nobody committed since the reads of its count, it leaves one: what it
\* has seen is what its change leaves.
Guarded(t) ==
  ra_tx[t].at # "idle" =>
    /\ ra_tx[t].by \in {"admin", "sync", "login"}
    /\ ra_tx[t].by = "admin" /\ ~ra_tx[t].super /\ ~ra_tx[t].late
         => RA!Supers(RA!Left(t)) \subseteq RA!Supers(ra_db)
    /\ ra_tx[t].by # "login" /\ ~ra_tx[t].counts => ra_tx[t].del = {}
    /\ ra_tx[t].at = "counted" /\ ra_tx[t].counts /\ ~ra_tx[t].miscounted
         => RA!Supers(RA!Left(t)) # {}
    /\ ra_engine = "mysql" /\ ~ra_tx[t].miscounted
         => ra_tx[t].seen = RA!Supers(RA!Left(t))
    /\ ra_tx[t].at = "asking" => ra_engine = "postgres"
    /\ ra_tx[t].at \in {"asking", "counting"} /\ ~ra_tx[t].miscounted
         => \A u \in ra_tx[t].seen : u \in Persons /\ RA!Holds(RA!Left(t), u, Superadmin)

Columns == {"at", "by", "super", "del", "add", "counts", "seen", "late", "miscounted"}

\* Rows refer to rows that are there.
RolesInv ==
  /\ RA!Refers(ra_db)
  /\ ra_tx = [t \in Asker |-> ra_tx[t]]
  /\ \A t \in Asker : DOMAIN ra_tx[t] = Columns
  /\ \A t \in Asker : Guarded(t)

\* Rows of two kinds, or of two accounts, groups or roles, are two rows.
LEMMA RowsDiffer ==
  ASSUME NEW u, NEW r, NEW v, NEW q
  PROVE  /\ RA!Direct(u, r) = RA!Direct(v, q) => u = v /\ r = q
         /\ RA!Member(u, r) = RA!Member(v, q) => u = v /\ r = q
         /\ RA!Grants(u, r) = RA!Grants(v, q) => u = v /\ r = q
         /\ RA!Active(u) = RA!Active(v) => u = v
         /\ RA!Direct(u, r)[1] = "role" /\ RA!Direct(u, r)[2] = u
         /\ RA!Member(u, r)[1] = "member" /\ RA!Grants(u, r)[1] = "grant"
         /\ RA!Active(u)[1] = "active" /\ RA!Account(u)[1] = "user" /\ RA!Team(u)[1] = "group"
         /\ RA!Synced(u)[1] = "zabbix"
  BY DEF RA!Direct, RA!Member, RA!Grants, RA!Active, RA!Account, RA!Team, RA!Synced

LEMMA Kinds ==
  /\ \A x, y : /\ RA!Direct(x, y)[1] = "role" /\ RA!Member(x, y)[1] = "member"
               /\ RA!Grants(x, y)[1] = "grant"
  /\ \A x : /\ RA!Active(x)[1] = "active" /\ RA!Account(x)[1] = "user"
            /\ RA!Team(x)[1] = "group" /\ RA!Synced(x)[1] = "zabbix"
  BY DEF RA!Direct, RA!Member, RA!Grants, RA!Active, RA!Account, RA!Team, RA!Synced

\* What rows of a user's direct roles, or of a group, are.
LEMMA SetDirectRows ==
  ASSUME NEW u, NEW R
  PROVE  /\ \A v, q : RA!Direct(v, q) \in RA!SetDirect(u, R) => v = u /\ q \in R
         /\ \A v, q : RA!Member(v, q) \notin RA!SetDirect(u, R)
         /\ \A v, q : RA!Grants(v, q) \notin RA!SetDirect(u, R)
         /\ \A v : RA!Active(v) \notin RA!SetDirect(u, R)
         /\ \A v : RA!Account(v) \notin RA!SetDirect(u, R)
         /\ \A v : RA!Team(v) \notin RA!SetDirect(u, R)
  <1>1. \A v, q : RA!Direct(v, q) \in RA!SetDirect(u, R) => v = u /\ q \in R
    BY RowsDiffer DEF RA!SetDirect
  <1>2. \A x \in RA!SetDirect(u, R) : x[1] = "role"
    BY RowsDiffer DEF RA!SetDirect
  <1>3. QED
    <2>1. \A v, q : RA!Member(v, q)[1] # "role" /\ RA!Grants(v, q)[1] # "role"
      BY Kinds
    <2>2. \A v : RA!Active(v)[1] # "role" /\ RA!Account(v)[1] # "role" /\ RA!Team(v)[1] # "role"
      BY Kinds
    <2>3. QED BY <1>1, <1>2, <2>1, <2>2

\* More rows, more superadmins.
LEMMA SupersGrow ==
  ASSUME NEW rows, NEW more, rows \subseteq more
  PROVE  RA!Supers(rows) \subseteq RA!Supers(more)
  BY DEF RA!Supers, RA!Holds, RA!ByGroup

\* What is to be shown of a handler that begins: what it would leave has no
\* superadmin that is none already.
MakesNone(del, add) == RA!Supers((ra_db \ del) \cup add) \subseteq RA!Supers(ra_db)

\* It suffices to look at the rows that make a superadmin.
LEMMA MakesNoneIf ==
  ASSUME NEW del, NEW add,
         \A v \in Persons :
           LET left == (ra_db \ del) \cup add IN
             RA!Active(v) \in left /\ RA!Holds(left, v, Superadmin)
               => RA!Active(v) \in ra_db /\ RA!Holds(ra_db, v, Superadmin)
  PROVE  MakesNone(del, add)
  BY DEF MakesNone, RA!Supers

\* A new account has no rights but those its caller may give.
LEMMA CreateMakesNone ==
  ASSUME RA!Refers(ra_db), NEW u \in Persons, NEW R, Superadmin \notin R,
         RA!Account(u) \notin ra_db
  PROVE  MakesNone({}, {RA!Account(u), RA!Active(u)} \cup RA!SetDirect(u, R))
  <1> DEFINE add == {RA!Account(u), RA!Active(u)} \cup RA!SetDirect(u, R)
             left == (ra_db \ {}) \cup add
  <1>1. ASSUME NEW v \in Persons, RA!Active(v) \in left, RA!Holds(left, v, Superadmin)
        PROVE  RA!Active(v) \in ra_db /\ RA!Holds(ra_db, v, Superadmin)
    <2>1. RA!Direct(v, Superadmin) \in left => RA!Direct(v, Superadmin) \in ra_db
      <3>1. RA!Direct(v, Superadmin) # RA!Account(u) /\ RA!Direct(v, Superadmin) # RA!Active(u)
        BY Kinds
      <3>2. QED BY <3>1, SetDirectRows
    <2>2. \A g \in Teams : /\ RA!Member(v, g) \in left => RA!Member(v, g) \in ra_db
                           /\ RA!Grants(g, Superadmin) \in left => RA!Grants(g, Superadmin) \in ra_db
      <3>1. \A g : /\ RA!Member(v, g) # RA!Account(u) /\ RA!Member(v, g) # RA!Active(u)
                   /\ RA!Grants(g, Superadmin) # RA!Account(u)
                   /\ RA!Grants(g, Superadmin) # RA!Active(u)
        BY Kinds
      <3>2. QED BY <3>1, SetDirectRows
    <2>3. RA!Holds(ra_db, v, Superadmin)
      BY <1>1, <2>1, <2>2 DEF RA!Holds, RA!ByGroup
    <2>4. v # u
      <3>1. Superadmin \in Roles
        BY IdentityAssumption DEF Superadmin
      <3>2. RA!Account(v) \in ra_db
        BY <2>3, <3>1 DEF RA!Holds, RA!ByGroup, RA!Refers
      <3>3. QED BY <3>2
    <2>5. RA!Active(v) \in ra_db
      <3>1. RA!Active(v) # RA!Account(u)
        BY Kinds
      <3>2. RA!Active(v) # RA!Active(u)
        BY <2>4, RowsDiffer
      <3>3. QED BY <1>1, <3>1, <3>2, SetDirectRows
    <2>6. QED BY <2>3, <2>5
  <1>2. QED BY <1>1, MakesNoneIf

\* Other direct roles for somebody who is no superadmin.
LEMMA AssignMakesNone ==
  ASSUME NEW u \in Persons, NEW R, Superadmin \notin R, ~RA!Holds(ra_db, u, Superadmin)
  PROVE  MakesNone(RA!DirectOf(u), RA!SetDirect(u, R))
  <1> DEFINE left == (ra_db \ RA!DirectOf(u)) \cup RA!SetDirect(u, R)
  <1>1. ASSUME NEW v \in Persons, RA!Active(v) \in left, RA!Holds(left, v, Superadmin)
        PROVE  RA!Active(v) \in ra_db /\ RA!Holds(ra_db, v, Superadmin)
    <2>1. RA!Active(v) \in ra_db
      BY <1>1, SetDirectRows
    <2>2. RA!Direct(v, Superadmin) \in left => RA!Direct(v, Superadmin) \in ra_db
      BY SetDirectRows
    <2>3. \A g \in Teams : /\ RA!Member(v, g) \in left => RA!Member(v, g) \in ra_db
                           /\ RA!Grants(g, Superadmin) \in left => RA!Grants(g, Superadmin) \in ra_db
      BY SetDirectRows
    <2>4. QED BY <1>1, <2>1, <2>2, <2>3 DEF RA!Holds, RA!ByGroup
  <1>2. QED BY <1>1, MakesNoneIf

\* An account switched on or off that is no superadmin.
LEMMA SwitchMakesNone ==
  ASSUME NEW u \in Persons
  PROVE  /\ ~RA!Holds(ra_db, u, Superadmin) => MakesNone({}, {RA!Active(u)})
         /\ MakesNone({RA!Active(u)}, {})
  <1>1. ASSUME NEW rows, rows \subseteq ra_db \cup {RA!Active(u)}, NEW v \in Persons,
               RA!Holds(rows, v, Superadmin)
        PROVE  RA!Holds(ra_db, v, Superadmin)
    <2>1. RA!Direct(v, Superadmin) \in rows => RA!Direct(v, Superadmin) \in ra_db
      BY <1>1, Kinds
    <2>2. \A g \in Teams : /\ RA!Member(v, g) \in rows => RA!Member(v, g) \in ra_db
                           /\ RA!Grants(g, Superadmin) \in rows => RA!Grants(g, Superadmin) \in ra_db
      BY <1>1, Kinds
    <2>3. QED BY <1>1, <2>1, <2>2 DEF RA!Holds, RA!ByGroup
  <1>2. ASSUME ~RA!Holds(ra_db, u, Superadmin) PROVE MakesNone({}, {RA!Active(u)})
    <2> DEFINE left == (ra_db \ {}) \cup {RA!Active(u)}
    <2>1. ASSUME NEW v \in Persons, RA!Active(v) \in left, RA!Holds(left, v, Superadmin)
          PROVE  RA!Active(v) \in ra_db /\ RA!Holds(ra_db, v, Superadmin)
      <3>1. RA!Holds(ra_db, v, Superadmin)
        BY <1>1, <2>1
      <3>2. QED BY <1>2, <2>1, <3>1, RowsDiffer
    <2>2. QED BY <2>1, MakesNoneIf
  <1>3. MakesNone({RA!Active(u)}, {})
    BY SupersGrow DEF MakesNone
  <1>4. QED BY <1>2, <1>3

\* A group gets roles its caller may give, or members while it grants nothing.
LEMMA GroupMakesNone ==
  ASSUME NEW g \in Teams
  PROVE  /\ MakesNone({}, {RA!Team(g)})
         /\ \A R : Superadmin \notin R =>
              MakesNone({RA!Grants(g, r) : r \in Roles} \cap ra_db, {RA!Grants(g, r) : r \in R})
         /\ \A M : RA!Grants(g, Superadmin) \notin ra_db =>
              MakesNone({RA!Member(u, g) : u \in Persons} \cap ra_db, {RA!Member(u, g) : u \in M})
  <1>1. MakesNone({}, {RA!Team(g)})
    <2> DEFINE left == (ra_db \ {}) \cup {RA!Team(g)}
    <2>1. \A v : /\ RA!Active(v) \in left => RA!Active(v) \in ra_db
                 /\ RA!Direct(v, Superadmin) \in left => RA!Direct(v, Superadmin) \in ra_db
                 /\ \A h : /\ RA!Member(v, h) \in left => RA!Member(v, h) \in ra_db
                           /\ RA!Grants(h, Superadmin) \in left => RA!Grants(h, Superadmin) \in ra_db
      BY Kinds
    <2>2. QED BY <2>1, MakesNoneIf DEF RA!Holds, RA!ByGroup
  <1>2. ASSUME NEW R, Superadmin \notin R
        PROVE  MakesNone({RA!Grants(g, r) : r \in Roles} \cap ra_db, {RA!Grants(g, r) : r \in R})
    <2> DEFINE left == (ra_db \ ({RA!Grants(g, r) : r \in Roles} \cap ra_db))
                         \cup {RA!Grants(g, r) : r \in R}
    <2>1. \A v : /\ RA!Active(v) \in left => RA!Active(v) \in ra_db
                 /\ RA!Direct(v, Superadmin) \in left => RA!Direct(v, Superadmin) \in ra_db
                 /\ \A h : /\ RA!Member(v, h) \in left => RA!Member(v, h) \in ra_db
                           /\ RA!Grants(h, Superadmin) \in left => RA!Grants(h, Superadmin) \in ra_db
      <3>1. \A x \in {RA!Grants(g, r) : r \in R} : x[1] = "grant"
        BY Kinds
      <3>2. \A h : RA!Grants(h, Superadmin) \notin {RA!Grants(g, r) : r \in R}
        BY <1>2, RowsDiffer
      <3> HIDE DEF left
      <3>3. \A x \in left : x \in ra_db \/ x \in {RA!Grants(g, r) : r \in R}
        BY DEF left
      <3>4. QED BY <3>1, <3>2, <3>3, Kinds
    <2>2. QED BY <2>1, MakesNoneIf DEF RA!Holds, RA!ByGroup
  <1>3. ASSUME NEW M, RA!Grants(g, Superadmin) \notin ra_db
        PROVE  MakesNone({RA!Member(u, g) : u \in Persons} \cap ra_db, {RA!Member(u, g) : u \in M})
    <2> DEFINE left == (ra_db \ ({RA!Member(u, g) : u \in Persons} \cap ra_db))
                         \cup {RA!Member(u, g) : u \in M}
    <2>1. \A v : /\ RA!Active(v) \in left => RA!Active(v) \in ra_db
                 /\ RA!Direct(v, Superadmin) \in left => RA!Direct(v, Superadmin) \in ra_db
                 /\ \A h : /\ RA!Member(v, h) \in left => RA!Member(v, h) \in ra_db \/ h = g
                           /\ RA!Grants(h, Superadmin) \in left => RA!Grants(h, Superadmin) \in ra_db
      <3>1. \A x \in {RA!Member(u, g) : u \in M} : x[1] = "member"
        BY Kinds
      <3>2. \A v, h : RA!Member(v, h) \in {RA!Member(u, g) : u \in M} => h = g
        BY RowsDiffer
      <3> HIDE DEF left
      <3>3. \A x \in left : x \in ra_db \/ x \in {RA!Member(u, g) : u \in M}
        BY DEF left
      <3>4. QED BY <3>1, <3>2, <3>3, Kinds
    <2>2. QED BY <1>3, <2>1, MakesNoneIf DEF RA!Holds, RA!ByGroup
  <1>4. QED BY <1>1, <1>2, <1>3

\* What a transaction leaves, and whom, depends on its rows and the database only.
LEMMA SameGuard ==
  ASSUME NEW o \in Asker, Guarded(o), ra_tx'[o] = ra_tx[o], ra_db' = ra_db,
         ra_engine' = ra_engine
  PROVE  Guarded(o)'
  <1>1. RA!Left(o)' = RA!Left(o)
    BY DEF RA!Left
  <1>2. RA!Supers(RA!Left(o))' = RA!Supers(RA!Left(o)) /\ RA!Supers(ra_db)' = RA!Supers(ra_db)
    BY <1>1 DEF RA!Supers, RA!Holds, RA!ByGroup
  <1>3. \A u : RA!Holds(RA!Left(o), u, Superadmin)' <=> RA!Holds(RA!Left(o), u, Superadmin)
    BY <1>1 DEF RA!Holds, RA!ByGroup
  <1>4. QED BY <1>1, <1>2, <1>3 DEF Guarded

\* A handler that has read keeps the invariant, if it makes no superadmin for a
\* caller who is none, and takes no rows away uncounted.
LEMMA ReadKeeps ==
  ASSUME RolesInv, NEW t \in Asker, NEW by \in {"admin", "sync", "login"}, NEW super,
         NEW del, NEW add, NEW counts,
         RA!Read(t, by, super, del, add, counts),
         by = "admin" /\ ~super => MakesNone(del, add),
         by # "login" /\ ~counts => del = {}
  PROVE  RolesInv'
  <1> DEFINE seen == IF ra_engine = "mysql" THEN RA!Supers((ra_db \ del) \cup add) ELSE {}
  <1>1. /\ ra_db' = ra_db /\ ra_engine' = ra_engine
        /\ ra_tx' = [ra_tx EXCEPT ![t] = [at |-> "read", by |-> by, super |-> super,
                              del |-> del, add |-> add, counts |-> counts, seen |-> seen,
                              late |-> FALSE, miscounted |-> FALSE]]
    BY DEF RA!Read, Superadmin
  <1>0. ra_engine = "mysql" => seen = RA!Supers((ra_db \ del) \cup add)
    OBVIOUS
  <1> HIDE DEF seen
  <1>2. /\ ra_tx'[t].at = "read" /\ ra_tx'[t].by = by /\ (ra_tx'[t].super <=> super)
        /\ ra_tx'[t].del = del /\ ra_tx'[t].add = add /\ (ra_tx'[t].counts <=> counts)
        /\ ra_tx'[t].seen = seen
    BY <1>1 DEF RolesInv
  <1>3. Guarded(t)'
    <2>1. RA!Left(t)' = (ra_db \ del) \cup add
      BY <1>1, <1>2 DEF RA!Left
    <2>2. ASSUME by = "admin", ~super PROVE (RA!Supers(RA!Left(t)) \subseteq RA!Supers(ra_db))'
      BY <1>1, <2>1, <2>2 DEF MakesNone, RA!Supers, RA!Holds, RA!ByGroup
    <2>3. RA!Supers(RA!Left(t))' = RA!Supers((ra_db \ del) \cup add)
      BY <2>1 DEF RA!Supers, RA!Holds, RA!ByGroup
    <2>4. QED BY <1>0, <1>1, <1>2, <2>2, <2>3 DEF Guarded
  <1>4. ASSUME NEW o \in Asker, o # t PROVE Guarded(o)'
    BY <1>1, <1>4, SameGuard DEF RolesInv
  <1>5. RA!Refers(ra_db)'
    BY <1>1 DEF RolesInv, RA!Refers
  <1>6. ra_tx' = [o \in Asker |-> ra_tx'[o]]
    BY <1>1 DEF RolesInv
  <1>7. ASSUME NEW o \in Asker PROVE DOMAIN ra_tx'[o] = Columns
    <2>1. CASE o = t
      BY <1>1, <2>1 DEF RolesInv, Columns
    <2>2. CASE o # t
      BY <1>1, <2>2 DEF RolesInv
    <2>3. QED BY <2>1, <2>2
  <1>8. QED BY <1>3, <1>4, <1>5, <1>6, <1>7 DEF RolesInv

LEMMA BeginKeeps ==
  ASSUME RolesInv, NEW t \in Asker, NEW a, NEW del, NEW add, NEW counts,
         RA!Begin(t, a, del, add, counts),
         ~RA!IsSuper(a) => MakesNone(del, add),
         ~counts => del = {}
  PROVE  RolesInv'
  <1>1. PICK super : super = RA!Holds(ra_db, a, Superadmin)
    OBVIOUS
  <1>2. RA!Read(t, "admin", super, del, add, counts)
    BY <1>1 DEF RA!Begin
  <1>3. QED BY <1>1, <1>2, ReadKeeps DEF RA!IsSuper


\* Taking rows away makes no superadmin.
LEMMA FewerMakesNone ==
  ASSUME NEW del
  PROVE  MakesNone(del, {})
  BY SupersGrow DEF MakesNone

LEMMA AdministerKeeps ==
  ASSUME RolesInv, NEW t \in Asker, NEW a \in Persons, RA!Administer(t, a)
  PROVE  RolesInv'
  <1>1. ASSUME NEW u \in Persons, NEW R, RA!CreateUser(t, a, u, R) PROVE RolesInv'
    <2>1. PICK add : add = {RA!Account(u), RA!Active(u)} \cup RA!SetDirect(u, R)
      OBVIOUS
    <2>2. RA!Begin(t, a, {}, add, FALSE)
      BY <1>1, <2>1 DEF RA!CreateUser
    <2>3. ~RA!IsSuper(a) => MakesNone({}, add)
      BY <1>1, <2>1, CreateMakesNone DEF RA!CreateUser, RA!MayBind, RolesInv
    <2>4. QED BY <2>2, <2>3, BeginKeeps
  <1>2. ASSUME NEW u \in Persons, NEW R, RA!AssignRoles(t, a, u, R) PROVE RolesInv'
    <2>1. PICK del, add : del = RA!DirectOf(u) /\ add = RA!SetDirect(u, R)
      OBVIOUS
    <2>2. RA!Begin(t, a, del, add, TRUE)
      BY <1>2, <2>1 DEF RA!AssignRoles
    <2>3. ~RA!IsSuper(a) => MakesNone(del, add)
      BY <1>2, <2>1, AssignMakesNone DEF RA!AssignRoles, RA!MayBind, RA!MayModify
    <2>4. QED BY <2>2, <2>3, BeginKeeps
  <1>3. ASSUME NEW u \in Persons, RA!Activate(t, a, u) PROVE RolesInv'
    <2>1. PICK add : add = {RA!Active(u)}
      OBVIOUS
    <2>2. RA!Begin(t, a, {}, add, TRUE)
      BY <1>3, <2>1 DEF RA!Activate
    <2>3. ~RA!IsSuper(a) => MakesNone({}, add)
      BY <1>3, <2>1, SwitchMakesNone DEF RA!Activate, RA!MayModify
    <2>4. QED BY <2>2, <2>3, BeginKeeps
  <1>4. ASSUME NEW u \in Persons, RA!Deactivate(t, a, u) \/ RA!Deprovision(t, a, u) PROVE RolesInv'
    <2>1. PICK del : del = {RA!Active(u)}
      OBVIOUS
    <2>2. RA!Begin(t, a, del, {}, TRUE)
      BY <1>4, <2>1 DEF RA!Deactivate, RA!Deprovision
    <2>3. QED BY <2>2, FewerMakesNone, BeginKeeps
  <1>5. ASSUME NEW u \in Persons, RA!DeleteUser(t, a, u) PROVE RolesInv'
    <2>1. PICK del : del = RA!RowsOf(u)
      OBVIOUS
    <2>2. RA!Begin(t, a, del, {}, TRUE)
      BY <1>5, <2>1 DEF RA!DeleteUser
    <2>3. QED BY <2>2, FewerMakesNone, BeginKeeps
  <1>6. ASSUME NEW g \in Teams, RA!CreateGroup(t, a, g) PROVE RolesInv'
    <2>1. PICK add : add = {RA!Team(g)}
      OBVIOUS
    <2>2. RA!Begin(t, a, {}, add, FALSE)
      BY <1>6, <2>1 DEF RA!CreateGroup
    <2>3. QED BY <2>1, <2>2, GroupMakesNone, BeginKeeps
  <1>7. ASSUME NEW g \in Teams, RA!DeleteGroup(t, a, g) PROVE RolesInv'
    <2>1. PICK del : del = {x \in ra_db : g \in {x[2], x[3]}}
      OBVIOUS
    <2>2. RA!Begin(t, a, del, {}, TRUE)
      BY <1>7, <2>1 DEF RA!DeleteGroup
    <2>3. QED BY <2>2, FewerMakesNone, BeginKeeps
  <1>8. ASSUME NEW g \in Teams, NEW R, RA!SetGroupRoles(t, a, g, R) PROVE RolesInv'
    <2>1. PICK del, add : /\ del = {RA!Grants(g, r) : r \in Roles} \cap ra_db
                          /\ add = {RA!Grants(g, r) : r \in R}
      OBVIOUS
    <2>2. RA!Begin(t, a, del, add, TRUE)
      BY <1>8, <2>1 DEF RA!SetGroupRoles
    <2>3. ~RA!IsSuper(a) => MakesNone(del, add)
      BY <1>8, <2>1, GroupMakesNone DEF RA!SetGroupRoles, RA!MayBind
    <2>4. QED BY <2>2, <2>3, BeginKeeps
  <1>9. ASSUME NEW g \in Teams, NEW M, RA!SetGroupMembers(t, a, g, M) PROVE RolesInv'
    <2>1. PICK del, add : /\ del = {RA!Member(u, g) : u \in Persons} \cap ra_db
                          /\ add = {RA!Member(u, g) : u \in M}
      OBVIOUS
    <2>2. RA!Begin(t, a, del, add, TRUE)
      BY <1>9, <2>1 DEF RA!SetGroupMembers
    <2>3. ~RA!IsSuper(a) => MakesNone(del, add)
      BY <1>9, <2>1, GroupMakesNone DEF RA!SetGroupMembers, RA!MayChangeMembers
    <2>4. QED BY <2>2, <2>3, BeginKeeps
  <1>10. QED BY <1>1, <1>2, <1>3, <1>4, <1>5, <1>6, <1>7, <1>8, <1>9 DEF RA!Administer

LEMMA FromOutsideKeeps ==
  ASSUME RolesInv, NEW t \in Asker, RA!FromOutside(t)
  PROVE  RolesInv'
  <1>1. ASSUME NEW a \in Persons, NEW u \in Persons, NEW g \in Teams,
               RA!SyncFromZabbix(t, a, u, g)
        PROVE  RolesInv'
    <2>1. PICK super, add :
            /\ super = RA!IsSuper(a)
            /\ add = {RA!Team(g), RA!Synced(g), RA!Account(u), RA!Synced(u), RA!Member(u, g)}
                       \cup (IF RA!Account(u) \in ra_db THEN {} ELSE {RA!Active(u)})
      OBVIOUS
    <2>2. RA!Read(t, "sync", super, {}, add, FALSE)
      BY <1>1, <2>1 DEF RA!SyncFromZabbix
    <2>3. QED BY <2>2, ReadKeeps
  <1>2. ASSUME NEW u \in Persons, NEW r, RA!DelegatedLogin(t, u, r) PROVE RolesInv'
    <2>1. PICK del, add : RA!Read(t, "login", FALSE, del, add, FALSE)
      BY <1>2 DEF RA!DelegatedLogin
    <2>2. QED BY <2>1, ReadKeeps
  <1>3. QED BY <1>1, <1>2 DEF RA!FromOutside

\* A step of a transaction towards its commit: its rows stay what they are, and
\* so does what it has seen, unless it counts on Postgres.
LEMMA OnwardsKeeps ==
  ASSUME RolesInv, NEW t \in Asker, NEW at, NEW seen, ra_tx[t].at # "idle",
         ra_db' = ra_db, ra_engine' = ra_engine,
         ra_tx' = [ra_tx EXCEPT ![t] = [ra_tx[t] EXCEPT !.at = at, !.seen = seen]],
         seen = ra_tx[t].seen \/ ra_engine = "postgres", at = "asking" => ra_engine = "postgres",
         at \in {"asking", "counting"} /\ ~ra_tx[t].miscounted =>
           \A u \in seen : u \in Persons /\ RA!Holds(RA!Left(t), u, Superadmin),
         at = "counted" /\ ra_tx[t].counts /\ ~ra_tx[t].miscounted => RA!Supers(RA!Left(t)) # {}
  PROVE  RolesInv'
  <1>1. /\ ra_tx'[t].at = at /\ ra_tx'[t].seen = seen /\ ra_tx'[t].by = ra_tx[t].by
        /\ ra_tx'[t].super = ra_tx[t].super /\ ra_tx'[t].del = ra_tx[t].del
        /\ ra_tx'[t].add = ra_tx[t].add /\ ra_tx'[t].counts = ra_tx[t].counts
        /\ ra_tx'[t].late = ra_tx[t].late /\ ra_tx'[t].miscounted = ra_tx[t].miscounted
        /\ DOMAIN ra_tx'[t] = Columns
    <2>1. PICK x : x = [ra_tx[t] EXCEPT !.at = at, !.seen = seen]
      OBVIOUS
    <2>2. DOMAIN ra_tx[t] = Columns
      BY DEF RolesInv
    <2>3. /\ x.at = at /\ x.seen = seen /\ DOMAIN x = Columns
          /\ \A c \in Columns \ {"at", "seen"} : x[c] = ra_tx[t][c]
      BY <2>1, <2>2 DEF Columns
    <2>4. ra_tx'[t] = x
      BY <2>1 DEF RolesInv
    <2>5. QED BY <2>3, <2>4 DEF Columns
  <1>2. Guarded(t)'
    <2>1. RA!Left(t)' = RA!Left(t)
      BY <1>1 DEF RA!Left
    <2>2. RA!Supers(RA!Left(t))' = RA!Supers(RA!Left(t)) /\ RA!Supers(ra_db)' = RA!Supers(ra_db)
      BY <2>1 DEF RA!Supers, RA!Holds, RA!ByGroup
    <2>3. \A u : RA!Holds(RA!Left(t), u, Superadmin)' <=> RA!Holds(RA!Left(t), u, Superadmin)
      BY <2>1 DEF RA!Holds, RA!ByGroup
    <2>4. Guarded(t)
      BY DEF RolesInv
    <2>5. QED BY <1>1, <2>2, <2>3, <2>4 DEF Guarded
  <1>3. ASSUME NEW o \in Asker, o # t PROVE Guarded(o)'
    <2>1. ra_tx'[o] = ra_tx[o]
      BY <1>3 DEF RolesInv
    <2>2. QED BY <2>1, SameGuard DEF RolesInv
  <1>4. RA!Refers(ra_db)'
    BY DEF RolesInv, RA!Refers
  <1>5. ra_tx' = [o \in Asker |-> ra_tx'[o]]
    BY DEF RolesInv
  <1>6. \A o \in Asker : DOMAIN ra_tx'[o] = Columns
    BY <1>1 DEF RolesInv
  <1>7. QED BY <1>2, <1>3, <1>4, <1>5, <1>6 DEF RolesInv

\* A record whose place alone moves on keeps what it has seen.
LEMMA OnlyItsPlace ==
  ASSUME RolesInv, NEW t \in Asker, NEW at
  PROVE  [ra_tx EXCEPT ![t].at = at]
           = [ra_tx EXCEPT ![t] = [ra_tx[t] EXCEPT !.at = at, !.seen = ra_tx[t].seen]]
  <1>1. DOMAIN ra_tx[t] = Columns
    BY DEF RolesInv
  <1>2. [ra_tx[t] EXCEPT !.at = at] = [ra_tx[t] EXCEPT !.at = at, !.seen = ra_tx[t].seen]
    BY <1>1 DEF Columns
  <1>3. QED BY <1>2

LEMMA ProceedKeeps ==
  ASSUME RolesInv, NEW t \in Asker, RA!Proceed(t)
  PROVE  RolesInv'
  <1>1. CASE RA!Write(t)
    <2>1. PICK at : at = IF ra_tx[t].counts THEN "written" ELSE "counted"
      OBVIOUS
    <2>2. /\ ra_db' = ra_db /\ ra_engine' = ra_engine /\ ra_tx[t].at # "idle"
          /\ ra_tx' = [ra_tx EXCEPT ![t] = [ra_tx[t] EXCEPT !.at = at, !.seen = ra_tx[t].seen]]
      BY <1>1, <2>1, OnlyItsPlace DEF RA!Write
    <2>3. at = "counted" => ~ra_tx[t].counts
      BY <2>1
    <2>4. at \notin {"asking", "counting"}
      BY <2>1
    <2>5. PICK seen : /\ seen = ra_tx[t].seen
                      /\ ra_tx' = [ra_tx EXCEPT ![t] = [ra_tx[t] EXCEPT !.at = at, !.seen = seen]]
      BY <2>2
    <2>6. QED BY <2>2, <2>3, <2>4, <2>5, OnwardsKeeps
  <1>2. CASE RA!CountHolders(t)
    <2>1. PICK seen : seen = {u \in Persons : RA!Direct(u, Superadmin) \in RA!Left(t)}
      OBVIOUS
    <2>2. /\ ra_db' = ra_db /\ ra_engine' = ra_engine /\ ra_engine = "postgres"
          /\ ra_tx' = [ra_tx EXCEPT ![t].at = "asking", ![t].seen = seen]
          /\ ra_tx[t].at # "idle"
      BY <1>2, <2>1 DEF RA!CountHolders
    <2>3. ra_tx' = [ra_tx EXCEPT ![t] = [ra_tx[t] EXCEPT !.at = "asking", !.seen = seen]]
      BY <2>2 DEF RolesInv
    <2>4. PICK at : at = "asking" /\ ra_tx' = [ra_tx EXCEPT ![t] = [ra_tx[t] EXCEPT !.at = at, !.seen = seen]]
      BY <2>3
    <2>5. at \in {"asking", "counting"} =>
            \A u \in seen : u \in Persons /\ RA!Holds(RA!Left(t), u, Superadmin)
      BY <2>1 DEF RA!Holds
    <2>6. QED BY <2>2, <2>4, <2>5, OnwardsKeeps
  <1>8. CASE RA!CountMembers(t)
    <2>1. PICK seen :
            seen = ra_tx[t].seen \cup {u \in Persons : RA!ByGroup(RA!Left(t), u, Superadmin)}
      OBVIOUS
    <2>2. /\ ra_db' = ra_db /\ ra_engine' = ra_engine /\ ra_tx[t].at = "asking"
          /\ ra_tx' = [ra_tx EXCEPT ![t].at = "counting", ![t].seen = seen]
      BY <1>8, <2>1 DEF RA!CountMembers, RolesInv
    <2>3. ra_tx' = [ra_tx EXCEPT ![t] = [ra_tx[t] EXCEPT !.at = "counting", !.seen = seen]]
      BY <2>2 DEF RolesInv
    <2>4. PICK at : at = "counting" /\ ra_tx' = [ra_tx EXCEPT ![t] = [ra_tx[t] EXCEPT !.at = at, !.seen = seen]]
      BY <2>3
    <2>5. ra_engine = "postgres"
      BY <2>2 DEF RolesInv, Guarded
    <2>6. ~ra_tx[t].miscounted =>
            \A u \in seen : u \in Persons /\ RA!Holds(RA!Left(t), u, Superadmin)
      BY <2>1, <2>2 DEF RolesInv, Guarded, RA!Holds
    <2>7. /\ ra_tx[t].at # "idle" /\ (at = "asking" => ra_engine = "postgres")
          /\ seen = ra_tx[t].seen \/ ra_engine = "postgres"
          /\ at = "counted" /\ ra_tx[t].counts /\ ~ra_tx[t].miscounted => RA!Supers(RA!Left(t)) # {}
      BY <2>2, <2>4, <2>5
    <2>8. at \in {"asking", "counting"} /\ ~ra_tx[t].miscounted =>
            \A u \in seen : u \in Persons /\ RA!Holds(RA!Left(t), u, Superadmin)
      BY <2>6
    <2>9. ra_tx' = [ra_tx EXCEPT ![t] = [ra_tx[t] EXCEPT !.at = at, !.seen = seen]]
      BY <2>4
    <2>10. ra_db' = ra_db /\ ra_engine' = ra_engine
      BY <2>2
    <2>11. QED BY <2>7, <2>8, <2>9, <2>10, OnwardsKeeps
  <1>6. CASE RA!CountActive(t)
    <2>1. PICK u \in ra_tx[t].seen : RA!Active(u) \in RA!Left(t)
      BY <1>6 DEF RA!CountActive
    <2>2. ra_tx[t].at = "counting"
      BY <1>6 DEF RA!CountActive
    <2>3. ~ra_tx[t].miscounted => u \in RA!Supers(RA!Left(t))
      BY <2>1, <2>2 DEF RolesInv, Guarded, RA!Supers
    <2>4. PICK seen, at : seen = ra_tx[t].seen /\ at = "counted"
      OBVIOUS
    <2>5. ra_tx' = [ra_tx EXCEPT ![t] = [ra_tx[t] EXCEPT !.at = at, !.seen = seen]]
      BY <1>6, <2>4, OnlyItsPlace DEF RA!CountActive
    <2>6. ra_db' = ra_db /\ ra_engine' = ra_engine
      BY <1>6 DEF RA!CountActive
    <2>7. /\ ra_tx[t].at # "idle" /\ at \notin {"asking", "counting"}
          /\ seen = ra_tx[t].seen \/ ra_engine = "postgres"
          /\ at = "counted" /\ ra_tx[t].counts /\ ~ra_tx[t].miscounted => RA!Supers(RA!Left(t)) # {}
      BY <2>2, <2>3, <2>4
    <2>8. QED BY <2>5, <2>6, <2>7, OnwardsKeeps
  <1>7. CASE RA!CountSnapshot(t)
    <2>1. ra_tx[t].at # "idle" /\ ra_db' = ra_db /\ ra_engine' = ra_engine
      BY <1>7 DEF RA!CountSnapshot
    <2>2. ~ra_tx[t].miscounted => RA!Supers(RA!Left(t)) # {}
      BY <1>7 DEF RA!CountSnapshot, RolesInv, Guarded
    <2>3. PICK seen, at : seen = ra_tx[t].seen /\ at = "counted"
      OBVIOUS
    <2>4. ra_tx' = [ra_tx EXCEPT ![t] = [ra_tx[t] EXCEPT !.at = at, !.seen = seen]]
      BY <1>7, <2>3, OnlyItsPlace DEF RA!CountSnapshot
    <2>5. /\ at \notin {"asking", "counting"}
          /\ seen = ra_tx[t].seen \/ ra_engine = "postgres"
          /\ at = "counted" /\ ra_tx[t].counts /\ ~ra_tx[t].miscounted => RA!Supers(RA!Left(t)) # {}
      BY <2>2, <2>3
    <2>6. QED BY <2>1, <2>4, <2>5, OnwardsKeeps
  <1>3. CASE RA!Commit(t)
    <2>1. /\ ra_tx[t].at = "counted"
          /\ ra_db' = RA!Left(t) /\ RA!Refers(RA!Left(t)) /\ ra_engine' = ra_engine
          /\ ra_tx' = [o \in Asker |->
               CASE o = t -> RA!Idle
                 [] ra_tx[o].at = "idle" -> ra_tx[o]
                 [] OTHER -> [ra_tx[o] EXCEPT !.late = TRUE, !.miscounted = RA!PastItsCount(o)]]
      BY <1>3 DEF RA!Commit
    <2> DEFINE after(o) ==
          CASE o = t -> RA!Idle
            [] ra_tx[o].at = "idle" -> ra_tx[o]
            [] OTHER -> [ra_tx[o] EXCEPT !.late = TRUE, !.miscounted = RA!PastItsCount(o)]
    <2>9. ra_tx' = [o \in Asker |-> after(o)]
      BY <2>1
    <2>10. ra_tx'[t] = RA!Idle
      <3>1. after(t) = RA!Idle
        BY <2>1
      <3> HIDE DEF after
      <3>2. QED BY <2>9, <3>1
    <2>2. ra_tx'[t].at = "idle"
      BY <2>10 DEF RA!Idle
    <2>3. ASSUME NEW o \in Asker, o # t PROVE Guarded(o)' /\ DOMAIN ra_tx'[o] = Columns
      <3>1. CASE ra_tx[o].at = "idle"
        <4>1. ra_tx'[o] = ra_tx[o]
          BY <2>1, <2>3, <3>1
        <4>2. QED BY <3>1, <4>1 DEF Guarded, RolesInv
      <3>2. CASE ra_tx[o].at # "idle"
        <4>1. PICK x : x = [ra_tx[o] EXCEPT !.late = TRUE, !.miscounted = RA!PastItsCount(o)]
          OBVIOUS
        <4>2. ra_tx'[o] = x
          BY <2>1, <2>3, <3>2, <4>1
        <4>3. DOMAIN ra_tx[o] = Columns /\ Guarded(o)
          BY DEF RolesInv
        <4>4. /\ x.late /\ (x.miscounted <=> RA!PastItsCount(o)) /\ DOMAIN x = Columns
              /\ \A c \in Columns \ {"late", "miscounted"} : x[c] = ra_tx[o][c]
          BY <4>1, <4>3 DEF Columns
        <4>5. /\ x.at = ra_tx[o].at /\ x.by = ra_tx[o].by /\ x.del = ra_tx[o].del
              /\ x.counts = ra_tx[o].counts
          BY <4>4 DEF Columns
        <4>6. x.at \in {"asking", "counting", "counted"} \/ ra_engine = "mysql" => x.miscounted
          BY <4>4, <4>5 DEF RA!PastItsCount
        <4>7. QED BY <2>1, <4>2, <4>3, <4>4, <4>5, <4>6 DEF Guarded
      <3>3. QED BY <3>1, <3>2
    <2>4. RA!Refers(ra_db)'
      BY <2>1 DEF RA!Refers
    <2>5. ra_tx' = [o \in Asker |-> ra_tx'[o]]
      <3> HIDE DEF after
      <3>1. QED BY <2>9
    <2>6. Guarded(t)' /\ DOMAIN ra_tx'[t] = Columns
      <3>1. DOMAIN RA!Idle = Columns
        BY DEF RA!Idle, Columns
      <3>2. QED BY <2>2, <2>10, <3>1 DEF Guarded
    <2>7. QED BY <2>3, <2>4, <2>5, <2>6 DEF RolesInv
  <1>4. CASE RA!Rollback(t)
    <2>1. /\ ra_db' = ra_db /\ ra_engine' = ra_engine
          /\ ra_tx' = [ra_tx EXCEPT ![t] = RA!Idle]
      BY <1>4 DEF RA!Rollback
    <2>2. Guarded(t)'
      <3>1. ra_tx'[t].at = "idle"
        BY <2>1 DEF RA!Idle, RolesInv
      <3>2. QED BY <3>1 DEF Guarded
    <2>3. ASSUME NEW o \in Asker, o # t PROVE Guarded(o)'
      BY <2>1, <2>3, SameGuard DEF RolesInv
    <2>4. RA!Refers(ra_db)'
      BY <2>1 DEF RolesInv, RA!Refers
    <2>5. ra_tx' = [o \in Asker |-> ra_tx'[o]]
      BY <2>1 DEF RolesInv
    <2>6. ASSUME NEW o \in Asker PROVE DOMAIN ra_tx'[o] = Columns
      <3>1. CASE o = t
        BY <2>1, <3>1 DEF RolesInv, RA!Idle, Columns
      <3>2. CASE o # t
        BY <2>1, <3>2 DEF RolesInv
      <3>3. QED BY <3>1, <3>2
    <2>7. QED BY <2>2, <2>3, <2>4, <2>5, <2>6 DEF RolesInv
  <1>5. QED BY <1>1, <1>2, <1>3, <1>4, <1>6, <1>7, <1>8 DEF RA!Proceed


LEMMA RefersMore ==
  ASSUME NEW rows, RA!Refers(rows), NEW u, NEW g, NEW r
  PROVE  /\ RA!Refers(rows \cup {RA!Synced(u)})
         /\ RA!Account(u) \in rows => RA!Refers(rows \cup {RA!Direct(u, r)})
         /\ RA!Team(g) \in rows => RA!Refers(rows \cup {RA!Grants(g, r)})
         /\ RA!Account(u) \in rows /\ RA!Team(g) \in rows => RA!Refers(rows \cup {RA!Member(u, g)})
  <1>1. RA!Refers(rows \cup {RA!Synced(u)})
    BY Kinds DEF RA!Refers
  <1>2. ASSUME RA!Account(u) \in rows PROVE RA!Refers(rows \cup {RA!Direct(u, r)})
    <2>1. \A v, q : RA!Direct(v, q) = RA!Direct(u, r) => v = u
      BY RowsDiffer
    <2>2. QED BY <1>2, <2>1, Kinds DEF RA!Refers
  <1>3. ASSUME RA!Team(g) \in rows PROVE RA!Refers(rows \cup {RA!Grants(g, r)})
    <2>1. \A v, q : RA!Grants(v, q) = RA!Grants(g, r) => v = g
      BY RowsDiffer
    <2>2. QED BY <1>3, <2>1, Kinds DEF RA!Refers
  <1>4. ASSUME RA!Account(u) \in rows, RA!Team(g) \in rows
        PROVE  RA!Refers(rows \cup {RA!Member(u, g)})
    <2>1. \A v, q : RA!Member(v, q) = RA!Member(u, g) => v = u /\ q = g
      BY RowsDiffer
    <2>2. QED BY <1>4, <2>1, Kinds DEF RA!Refers
  <1>5. QED BY <1>1, <1>2, <1>3, <1>4

\* The databases to start from refer to nothing that is not there.
LEMMA DatabasesRefer == \A rows \in Databases : RA!Refers(rows)
  <1> DEFINE u == CHOOSE v \in Others : TRUE
  <1>1. u \in Others
    BY IdentityAssumption
  <1>2. \A v \in Others : RA!Account(v) \in People /\ RA!Active(v) \in People
    BY DEF People, RA!Account, RA!Active
  <1>3. RA!Team(Crew) \in People /\ RA!Account(Somebody) \in People
    BY DEF People, Seeded, RA!Account, RA!Team
  <1>4. Seeded = {RA!Account(Somebody), RA!Active(Somebody), RA!Direct(Somebody, Superadmin)}
    BY DEF Seeded, RA!Account, RA!Active, RA!Direct, Superadmin
  <1>5. RA!Refers(Seeded)
    <2>1. \A v, r : RA!Direct(v, r) \in Seeded => v = Somebody
      BY <1>4, Kinds, RowsDiffer
    <2>2. \A v : RA!Active(v) \in Seeded => v = Somebody
      BY <1>4, Kinds, RowsDiffer
    <2>3. \A v, g : RA!Member(v, g) \notin Seeded /\ RA!Grants(v, g) \notin Seeded
      BY <1>4, Kinds
    <2>4. RA!Account(Somebody) \in Seeded
      BY <1>4
    <2>5. QED BY <2>1, <2>2, <2>3, <2>4 DEF RA!Refers
  <1>6. RA!Refers(People)
    <2>1. \A x \in People : \/ x \in Seeded
                           \/ x = RA!Team(Crew)
                           \/ \E v \in Others : x = RA!Account(v) \/ x = RA!Active(v)
      BY DEF People, RA!Account, RA!Active, RA!Team
    <2>2. Seeded \subseteq People
      BY DEF People
    <2>3. ASSUME NEW v, RA!Active(v) \in People PROVE RA!Account(v) \in People
      <3>1. RA!Active(v) # RA!Team(Crew)
        BY Kinds
      <3>2. \A w : RA!Active(v) # RA!Account(w) /\ (RA!Active(v) = RA!Active(w) => v = w)
        BY Kinds, RowsDiffer
      <3>3. RA!Active(v) \in Seeded => v = Somebody
        BY <1>4, <3>2, Kinds
      <3>4. QED BY <1>2, <1>3, <2>1, <2>3, <3>1, <3>2, <3>3
    <2>4. ASSUME NEW v, NEW r, RA!Direct(v, r) \in People PROVE RA!Account(v) \in People
      BY <1>3, <1>4, <2>1, <2>4, Kinds, RowsDiffer
    <2>5. \A v, g : RA!Member(v, g) \notin People /\ RA!Grants(v, g) \notin People
      BY <1>4, <2>1, Kinds
    <2>6. QED BY <2>3, <2>4, <2>5 DEF RA!Refers
  <1> HIDE DEF u
  <1>7. RA!Refers(People \cup {RA!Member(u, Crew)})
    BY <1>1, <1>2, <1>3, <1>6, RefersMore
  <1>8. RA!Refers(People \cup {RA!Member(u, Crew), RA!Grants(Crew, Superadmin)})
    <2>1. RA!Refers((People \cup {RA!Member(u, Crew)}) \cup {RA!Grants(Crew, Superadmin)})
      BY <1>3, <1>7, RefersMore
    <2>2. QED BY <2>1
  <1>9. RA!Refers(People \cup {RA!Direct(u, Superadmin), RA!Synced(u)})
    <2>1. RA!Refers(People \cup {RA!Direct(u, Superadmin)})
      BY <1>1, <1>2, <1>6, RefersMore
    <2>2. RA!Refers((People \cup {RA!Direct(u, Superadmin)}) \cup {RA!Synced(u)})
      BY <2>1, RefersMore
    <2>3. QED BY <2>2
  <1>10. QED BY <1>5, <1>7, <1>8, <1>9
        DEF Databases, RA!Member, RA!Grants, RA!Direct, RA!Synced, Superadmin, u

LEMMA RolesInit ==
  ASSUME ra_db \in Databases \cup {Seeded}, ra_tx = [t \in Asker |-> RA!Idle]
  PROVE  RolesInv
  <1>1. RA!Refers(ra_db)
    BY DatabasesRefer DEF Databases
  <1>2. \A t \in Asker : ra_tx[t].at = "idle" /\ DOMAIN ra_tx[t] = Columns
    BY DEF RA!Idle, Columns
  <1>3. QED BY <1>1, <1>2 DEF RolesInv, Guarded

LEMMA RolesKeep == RolesInv /\ [RA!Next]_(RA!vars) => RolesInv'
  <1> SUFFICES ASSUME RolesInv, [RA!Next]_(RA!vars) PROVE RolesInv'
    OBVIOUS
  <1>1. CASE RA!Next
    BY <1>1, ProceedKeeps, FromOutsideKeeps, AdministerKeeps DEF RA!Next
  <1>2. CASE UNCHANGED RA!vars
    BY <1>2, SameGuard DEF RA!vars, RolesInv, RA!Refers
  <1>3. QED BY <1>1, <1>2

\* Only a commit changes the database.
LEMMA OnlyCommitChanges ==
  ASSUME [RA!Next]_(RA!vars), ra_db' # ra_db
  PROVE  \E t \in Asker : RA!Commit(t)
  <1>1. PICK t \in Asker : RA!Proceed(t) \/ RA!FromOutside(t) \/ \E a \in Persons : RA!Administer(t, a)
    BY DEF RA!Next, RA!vars
  <1>2. ASSUME RA!FromOutside(t) PROVE FALSE
    BY <1>2 DEF RA!FromOutside, RA!SyncFromZabbix, RA!DelegatedLogin, RA!Read
  <1>3. ASSUME NEW a \in Persons, RA!Administer(t, a) PROVE FALSE
    BY <1>3 DEF RA!Administer, RA!CreateUser, RA!AssignRoles, RA!Activate, RA!Deactivate,
                RA!Deprovision, RA!DeleteUser, RA!CreateGroup, RA!DeleteGroup,
                RA!SetGroupRoles, RA!SetGroupMembers, RA!Begin, RA!Read
  <1>4. RA!Commit(t)
    BY <1>1, <1>2, <1>3 DEF RA!Proceed, RA!Write, RA!CountHolders, RA!CountMembers, RA!CountActive,
                               RA!CountSnapshot, RA!Rollback
  <1>5. QED BY <1>4

\* What a commit does to the superadmins.
LEMMA CommitIsGuarded ==
  ASSUME RolesInv, NEW t \in Asker, RA!Commit(t)
  PROVE  /\ RA!Ends(t)
         /\ ra_tx[t].miscounted \/ ra_tx[t].by = "login" \/ RA!Supers(ra_db') # {}
              \/ RA!Supers(ra_db) = {}
         /\ \/ ra_tx[t].super \/ ra_tx[t].late \/ ra_tx[t].by \in {"login", "sync"}
            \/ RA!Supers(ra_db') \subseteq RA!Supers(ra_db)
  <1>1. /\ ra_db' = RA!Left(t) /\ ra_tx[t].at = "counted"
        /\ ra_tx'[t] = RA!Idle
    <2>1. /\ ra_tx[t].at = "counted" /\ ra_db' = RA!Left(t)
          /\ ra_tx' = [o \in Asker |->
               CASE o = t -> RA!Idle
                 [] ra_tx[o].at = "idle" -> ra_tx[o]
                 [] OTHER -> [ra_tx[o] EXCEPT !.late = TRUE, !.miscounted = RA!PastItsCount(o)]]
      BY DEF RA!Commit
    <2> DEFINE after(o) ==
          CASE o = t -> RA!Idle
            [] ra_tx[o].at = "idle" -> ra_tx[o]
            [] OTHER -> [ra_tx[o] EXCEPT !.late = TRUE, !.miscounted = RA!PastItsCount(o)]
    <2>2. ra_tx' = [o \in Asker |-> after(o)]
      BY <2>1
    <2>3. after(t) = RA!Idle
      BY <2>1
    <2> HIDE DEF after
    <2>4. QED BY <2>1, <2>2, <2>3
  <1>2. RA!Ends(t)
    BY <1>1 DEF RA!Ends, RA!Idle
  <1>3. Guarded(t)
    BY DEF RolesInv
  <1>4. CASE ra_tx[t].counts
    BY <1>1, <1>2, <1>3, <1>4 DEF Guarded
  <1>5. CASE ~ra_tx[t].counts
    <2>1. ra_tx[t].by # "login" => ra_db \subseteq ra_db'
      BY <1>1, <1>3, <1>5 DEF Guarded, RA!Left
    <2>2. ra_tx[t].by # "login" => RA!Supers(ra_db) \subseteq RA!Supers(ra_db')
      BY <2>1, SupersGrow
    <2>3. QED BY <1>1, <1>2, <1>3, <2>2 DEF Guarded
  <1>6. QED BY <1>4, <1>5


(***************************************************************************)
(* The parts together                                                      *)
(***************************************************************************)
PartsInv ==
  /\ GrantsInv
  /\ part = "sessions" => SessionsInv
  /\ part = "codes" => CodesInv
  /\ RolesInv

\* Every part takes its own steps, or rests.
LEMMA PartsSteps ==
  ASSUME [PartsNext]_<<part, vars, US!vars, RA!vars, CO!vars>>
  PROVE  /\ part' = part /\ [Next]_vars
         /\ part = "sessions" => [US!Next]_<<us_acct, us_store, us_pointer, us_call>>
         /\ part = "codes" => [CO!Next]_(CO!vars)
         /\ [RA!Next]_(RA!vars)
  BY DEF PartsNext, vars, US!vars, RA!vars, CO!vars

LEMMA PartsInitSound == PartsInit => PartsInv
  <1> SUFFICES ASSUME PartsInit PROVE PartsInv
    OBVIOUS
  <1>1. part = "sessions" => SessionsInv
    BY SessionsInit DEF PartsInit
  <1>2. part = "codes" => CodesInv
    BY CodesInit DEF PartsInit
  <1>3. RolesInv
    BY RolesInit DEF PartsInit, RA!Init
  <1>4. Init
    <2>1. CASE part = "access"
      BY <2>1 DEF PartsInit
    <2>2. CASE part # "access"
      <3>1. [on |-> FALSE, direct |-> FALSE, groups |-> {}, creds |-> {}, actions |-> {}] \in Rules
        BY DEF Rules
      <3>2. (CHOOSE x \in Rules : TRUE) \in Rules
        BY <3>1
      <3>3. rule \in [Rule -> Rules]
        BY <2>2, <3>2 DEF PartsInit
      <3>4. QED BY <2>2, <3>3 DEF PartsInit, Init
    <2>3. QED BY <2>1, <2>2
  <1>5. QED BY <1>1, <1>2, <1>3, <1>4, GrantsInit DEF PartsInv

LEMMA PartsKeep == PartsInv /\ [PartsNext]_<<part, vars, US!vars, RA!vars, CO!vars>> => PartsInv'
  <1> SUFFICES ASSUME PartsInv, [PartsNext]_<<part, vars, US!vars, RA!vars, CO!vars>>
               PROVE  PartsInv'
    OBVIOUS
  <1>1. (part = "sessions" => SessionsInv)'
    BY PartsSteps, SessionsKeep DEF PartsInv
  <1>2. (part = "codes" => CodesInv)'
    BY PartsSteps, CodesKeep DEF PartsInv
  <1>3. RolesInv'
    BY PartsSteps, RolesKeep DEF PartsInv
  <1>4. GrantsInv'
    BY PartsSteps, GrantsKeep DEF PartsInv
  <1>5. QED BY <1>1, <1>2, <1>3, <1>4 DEF PartsInv

LEMMA PartsInvariance == PartsSpec => []PartsInv
  BY PartsInitSound, PartsKeep, PTL DEF PartsSpec

\* Whatever changes or fails between the queries of a request (authz_host_ids,
\* authz_resolve), a session opens with the credential of a rule that was in
\* force and covered the host.
THEOREM SessionsAreGranted == PartsSpec => []OpenedIsGranted
<1>1. PartsInv => OpenedIsGranted
  BY DEF PartsInv, GrantsInv, Sound, ByRules, Granted, OpenedIsGranted, Opened
<1> QED  BY <1>1, PartsInvariance, PTL

\* A rule that names the host is not widened by rules that name its groups
\* (_union_best_rank_actions).
THEOREM DirectRulesRestrict == PartsSpec => []DirectRuleRestricts
<1>1. PartsInv => DirectRuleRestricts
  BY DEF PartsInv, GrantsInv, Sound, ByRules, Restricted, DirectRuleRestricts, Opened
<1> QED  BY <1>1, PartsInvariance, PTL

\* A change of password that an account still owes holds every session of the
\* account, whoever mints it, and every request that gateway() routes, until it is
\* done (auth.py: login, change_password, mfa_enable; sessions.py; main.py).
THEOREM OwedChangesGate == PartsSpec => []MustChangeSticks
<1>1. PartsInv => MustChangeSticks
  BY SessionsSafe DEF PartsInv, MustChangeSticks
<1> QED  BY <1>1, PartsInvariance, PTL

\* A request that gateway() routes to a service, but for the showing and the
\* enrolment of a factor, is on a session that showed the factor its account
\* needed when it was minted: no order of logins, enrolments, switches and
\* expiries gets past it on the password alone.  (The upgrade of a WebSocket and
\* the endpoints of main.py itself have no such gate.)
THEOREM FactorIsShown == PartsSpec => []WorkShowsFactor
<1>1. PartsInv => WorkShowsFactor
  BY SessionsSafe DEF PartsInv, WorkShowsFactor
<1> QED  BY <1>1, PartsInvariance, PTL

\* A mailed code opens what it was mailed for and nothing else, however many are
\* issued, resent and tried at a time (auth.py: _consume_otp).
THEOREM CodesOpenTheirOwn == PartsSpec => []CodeIsForItsPurpose
<1>1. PartsInv => CodeIsForItsPurpose
  BY CodesSafe DEF PartsInv, CodeIsForItsPurpose
<1> QED  BY <1>1, PartsInvariance, PTL

\* The console keeps an active superadmin, and makes one only for a caller who is
\* one, unless another handler commits between what it read or counted and its own
\* commit (users.py: _guard_last_superadmin, _guard_superadmin_bind,
\* _guard_superadmin_target).
THEOREM SuperadminsGuarded == PartsSpec => SuperadminsAreGuarded
<1> DEFINE Remains == ra_db' # ra_db /\ RA!Supers(ra_db) # {} /\ RA!Supers(ra_db') = {}
                        => \E t \in Asker : RA!Ends(t) /\ (ra_tx[t].miscounted \/ ra_tx[t].by = "login")
           Given == ra_db' = ra_db \/ RA!Supers(ra_db') \subseteq RA!Supers(ra_db) \/
                      \E t \in Asker : RA!Ends(t) /\ (ra_tx[t].super \/ ra_tx[t].late
                                                       \/ ra_tx[t].by \in {"login", "sync"})
<1>1. PartsInv /\ [PartsNext]_<<part, vars, US!vars, RA!vars, CO!vars>>
        => [Remains]_(RA!vars) /\ [Given]_(RA!vars)
  <2> SUFFICES ASSUME RolesInv, [RA!Next]_(RA!vars) PROVE Remains /\ Given
    BY PartsSteps DEF PartsInv
  <2>1. CASE ra_db' = ra_db
    BY <2>1
  <2>2. CASE ra_db' # ra_db
    <3>1. PICK t \in Asker : RA!Commit(t)
      BY <2>2, OnlyCommitChanges
    <3>2. QED BY <3>1, CommitIsGuarded
  <2>3. QED BY <2>1, <2>2
<1> QED  BY <1>1, PartsInvariance, PTL
        DEF PartsSpec, SuperadminsAreGuarded, RA!SuperadminRemains, RA!SuperadminIsGiven

=============================================================================
