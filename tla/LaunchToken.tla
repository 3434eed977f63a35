---------------------------- MODULE LaunchToken -----------------------------
(***************************************************************************)
(* The launch tokens that open a JumpServer session from Zabbix: a signed  *)
(* token with an expiry time, and a Redis key per token that is swapped    *)
(* for "used" by the first verification.                                   *)
(***************************************************************************)
EXTENDS Naturals

CONSTANTS Call,      \* the verifications, of any token
          Token,     \* the tokens minted, by their jti
          TTL,       \* TOKEN_TTL
          Grace,     \* how long Redis keeps the key after the token expired
          MaxTime    \* bound on the clock

VARIABLES now,       \* the clock
          token,     \* per token, when it expires, 0 when it is not minted
          key,       \* the Redis key launch_token:{jti}, and when it lapses
          call,      \* the verifications
          opened     \* how many sessions each token has opened

vars == <<now, token, key, call, opened>>

Forever == MaxTime + TTL + Grace + 1

TypeOK ==
  /\ now \in 1..MaxTime
  /\ token \in [Token -> 0..(MaxTime + TTL)]
  /\ key \in [Token -> [is : {"none", "pending", "used"}, until : 0..Forever]]
  /\ call \in [Call -> [pc : {"none", "fresh", "asked", "over"}, token : Token,
                        reply : {"none", "pending", "used"}]]
  /\ opened \in [Token -> Nat]

Init ==
  /\ now = 1
  /\ token = [t \in Token |-> 0]
  /\ key = [t \in Token |-> [is |-> "none", until |-> 0]]
  /\ call \in [Call -> {[pc |-> "none", token |-> t, reply |-> "none"] : t \in Token}]
  /\ opened = [t \in Token |-> 0]

Tick ==
  /\ now < MaxTime
  /\ now' = now + 1
  /\ UNCHANGED <<token, key, call, opened>>

\* What Redis holds now.
Held(t) == IF key[t].until > now THEN key[t].is ELSE "none"

\* create_launch_token signs the token and stores its key; the caller gets
\* the token only when both are done.
Mint(t) ==
  /\ token[t] = 0
  /\ token' = [token EXCEPT ![t] = now + TTL]
  /\ key' = [key EXCEPT ![t] = [is |-> "pending", until |-> now + TTL + Grace]]
  /\ UNCHANGED <<now, call, opened>>

\* verify_token: the signature and the expiry are checked.
CheckExpiry(c) ==
  /\ call[c].pc = "none"
  /\ token[call[c].token] # 0
  /\ call' = [call EXCEPT ![c].pc =
                IF now > token[call[c].token] THEN "over" ELSE "fresh"]
  /\ UNCHANGED <<now, token, key, opened>>

\* GETSET: the old value is answered and "used" stored, without a time to live,
\* in one step of Redis.
Swap(c) ==
  LET t == call[c].token
  IN /\ call[c].pc = "fresh"
     /\ call' = [call EXCEPT ![c].pc = "asked", ![c].reply = Held(t)]
     /\ key' = [key EXCEPT ![t] = [is |-> "used", until |-> Forever]]
     /\ UNCHANGED <<now, token, opened>>

\* Bug: only a replay is refused.
OpensUnlessUsed(reply) == reply # "used"

\* A replay and a token Redis does not know are refused.
Opens(reply) == reply = "pending"

Answer(c) ==
  /\ call[c].pc = "asked"
  /\ opened' = [opened EXCEPT ![call[c].token] =
                  opened[call[c].token] + IF Opens(call[c].reply) THEN 1 ELSE 0]
  /\ call' = [call EXCEPT ![c].pc = "over"]
  /\ UNCHANGED <<now, token, key>>

\* The reply of Redis, or the process, is lost: the caller gets an error.
Lose(c) ==
  /\ call[c].pc \in {"fresh", "asked"}
  /\ call' = [call EXCEPT ![c].pc = "over"]
  /\ UNCHANGED <<now, token, key, opened>>

\* Redis restarts without its data.
Forget ==
  /\ \E t \in Token : key[t].is # "none"
  /\ key' = [t \in Token |-> [is |-> "none", until |-> 0]]
  /\ UNCHANGED <<now, token, call, opened>>

Next ==
  \/ Tick
  \/ \E t \in Token : Mint(t)
  \/ \E c \in Call : CheckExpiry(c) \/ Swap(c) \/ Answer(c) \/ Lose(c)
  \/ Forget

Spec == Init /\ [][Next]_vars

------------------------------------------------------------------------------

\* A token opens one session at most, whatever verifications of it overlap,
\* replies are lost and data of Redis is forgotten.
TokenOpensOnce == \A t \in Token : opened[t] <= 1

\* A key of Redis lapses some time after its token ("TTL = token TTL + 10s
\* grace").  It does not hold: GETSET stores "used" for ever.
KeysLapse == \A t \in Token : key[t].until <= token[t] + Grace

==============================================================================
