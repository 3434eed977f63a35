-------------------------- MODULE AuditChainProofs --------------------------
(***************************************************************************)
(* Proofs about AuditChain, for any number of writers, connections, faults *)
(* and alterations: on Postgres the advisory lock keeps the chain one, and *)
(* on both engines a critical operation has its entry.                     *)
(***************************************************************************)
EXTENDS AuditChain, FiniteSetTheorems, TLAPS

USE DEF InTransaction

(* The inductive invariant. *)

OpStates == {"none", "waiting", "proceeded", "refused"}

\* The writers are records with the fields the actions set.
Shaped ==
  /\ wr = [w \in Writers |-> wr[w]]
  /\ op \in [Writers -> [state : OpStates, critical : BOOLEAN]]
  /\ \A w \in Writers :
       wr[w] = [pc |-> wr[w].pc, conn |-> wr[w].conn, payload |-> wr[w].payload,
                early |-> wr[w].early, view |-> wr[w].view, seq |-> wr[w].seq,
                prev |-> wr[w].prev]
  /\ tampers \in Nat

\* A connection is idle in the pool, once, or belongs to one transaction.
Pooled ==
  /\ pool \in Seq(Connections)
  /\ \A i, j \in 1..Len(pool) : pool[i] = pool[j] => i = j
  /\ \A w \in Writers : wr[w].pc \in InTransaction =>
       /\ wr[w].conn \in Connections
       /\ \A i \in 1..Len(pool) : pool[i] # wr[w].conn
       /\ \A v \in Writers : v # w /\ wr[v].pc \in InTransaction => wr[v].conn # wr[w].conn

\* Past the lock means holding it.
LockHeld ==
  engine = "postgres" =>
    \A w \in Writers :
      /\ wr[w].pc \in {"inside", "hashed"} => lock.owner = wr[w].conn
      /\ wr[w].pc # "unlocking"

\* Every row follows the row of the seq before.
Linked(rows) ==
  /\ \A e \in rows : e.seq \in Nat \ {0} /\ e.hash = compute_entry_hash(e.seq, e.prev, e.payload)
  /\ \A e, f \in rows : e.seq = f.seq => e = f
  /\ \A e \in rows : \/ e.seq = 1 /\ e.prev = Genesis
                     \/ \E f \in rows : f.seq + 1 = e.seq /\ f.hash = e.prev

\* What the holder of the lock has read is still the end of the log.
Current(w) ==
  \/ log = {} /\ wr[w].seq = 1 /\ wr[w].prev = Genesis
  \/ \E e \in log : /\ e.seq + 1 = wr[w].seq /\ e.hash = wr[w].prev
                    /\ \A f \in log : f.seq <= e.seq

ChainInv ==
  engine = "postgres" /\ tampers = 0 =>
    /\ Linked(log)
    /\ \A w \in Writers : wr[w].pc = "hashed" => Current(w)

\* A writer that got past its commit has its row, and a critical operation
\* waits for that.
Recorded ==
  \A w \in Writers :
    /\ wr[w].pc \in {"unlocking", "done"} /\ tampers = 0 => \E e \in log : e.id = w
    /\ op[w].state = "proceeded" /\ op[w].critical => wr[w].pc = "done"

IInv == Shaped /\ Pooled /\ LockHeld /\ ChainInv /\ Recorded

(***************************************************************************)
(* Shapes                                                                  *)
(***************************************************************************)

\* Nothing has happened yet: no row, no lock, every writer idle.
LEMMA ShapedInit == Init => Shaped
  <1> SUFFICES ASSUME Init PROVE Shaped
    OBVIOUS
  <1>1. wr = [w \in Writers |-> wr[w]] /\ \A w \in Writers : wr[w] = Left("idle")
    BY DEF Init
  <1>2. op \in [Writers -> [state : OpStates, critical : BOOLEAN]]
    BY DEF Init, OpStates
  <1>3. QED BY <1>1, <1>2 DEF Init, Shaped, Left

\* What each action makes of the writer it is about; the others are not
\* touched.
Moves(w, pc) ==
  /\ wr'[w].pc = pc
  /\ \A v \in Writers : v # w => wr'[v] = wr[v]

\* Every step of a writer moves it alone, to the stage its action names.
LEMMA Steps ==
  ASSUME Shaped, NEW w \in Writers
  PROVE  /\ \A p, early : Open(w, p, early) => Moves(w, "asking") /\ wr'[w].conn = Head(pool)
         /\ \A p, critical : Forward(w, p, critical) => Moves(w, "posted")
         /\ Lock(w) \/ LockTimeout(w) => Moves(w, "inside") /\ wr'[w].conn = wr[w].conn
         /\ ReadLast(w) => Moves(w, "hashed") /\ wr'[w].conn = wr[w].conn
         /\ Commit(w) => \E pc \in {"done", "unlocking"} : Moves(w, pc)
         /\ Unlock(w) => Moves(w, "done")
         /\ LoseConnection(w) => Moves(w, "lost")
  <1>1. \A p, early : Open(w, p, early) => Moves(w, "asking") /\ wr'[w].conn = Head(pool)
    BY DEF Shaped, Open, Moves
  <1>2. \A p, critical : Forward(w, p, critical) => Moves(w, "posted")
    BY DEF Shaped, Forward, Moves
  <1>3. Lock(w) \/ LockTimeout(w) => Moves(w, "inside") /\ wr'[w].conn = wr[w].conn
    BY DEF Shaped, Lock, LockTimeout, Moves
  <1>4. ReadLast(w) => Moves(w, "hashed") /\ wr'[w].conn = wr[w].conn
    BY DEF Shaped, ReadLast, Moves
  <1>5. Commit(w) => \E pc \in {"done", "unlocking"} : Moves(w, pc)
    BY DEF Shaped, Commit, Moves, Left
  <1>6. Unlock(w) => Moves(w, "done")
    BY DEF Shaped, Unlock, Moves, Left
  <1>7. LoseConnection(w) => Moves(w, "lost")
    BY DEF Shaped, LoseConnection, Moves, Left
  <1>8. QED BY <1>1, <1>2, <1>3, <1>4, <1>5, <1>6, <1>7

\* The pool keeps its shape when a connection is taken or given back.
LEMMA TakeAndGive ==
  ASSUME NEW S, NEW s \in Seq(S), \A i, j \in 1..Len(s) : s[i] = s[j] => i = j
  PROVE  /\ s # <<>> =>
              /\ Head(s) \in S /\ Tail(s) \in Seq(S)
              /\ Len(s) > 0 /\ Head(s) = s[1]
              /\ Len(Tail(s)) = Len(s) - 1
              /\ \A i \in 1..Len(Tail(s)) : Tail(s)[i] = s[i + 1]
         /\ \A c \in S :
              /\ Append(s, c) \in Seq(S)
              /\ Len(Append(s, c)) = Len(s) + 1
              /\ \A i \in 1..Len(s) + 1 :
                   Append(s, c)[i] = IF i = Len(s) + 1 THEN c ELSE s[i]
  OBVIOUS

\* What is given back comes last.
LEMMA TakeAndGiveLast ==
  ASSUME NEW S, NEW s \in Seq(S), NEW c
  PROVE  Append(s, c)[Len(s) + 1] = c
  OBVIOUS

\* Every element of s is there once; every element of u is one of s.
Distinct(s)  == \A i, j \in 1..Len(s) : s[i] = s[j] => i = j
Within(u, s) == \A i \in 1..Len(u) : \E j \in 1..Len(s) : u[i] = s[j]

\* A pool whose head is taken and given back holds the same connections.
LEMMA Rotate ==
  ASSUME NEW s \in Seq(Connections), Distinct(s), s # <<>>
  PROVE  \E u \in Seq(Connections) :
           u = Append(Tail(s), Head(s)) /\ Distinct(u) /\ Within(u, s)
  <1> DEFINE t == Append(Tail(s), Head(s))
  <1>1. t \in Seq(Connections) /\ Len(t) = Len(s) /\ Len(s) \in Nat \ {0}
    OBVIOUS
  <1>2. ASSUME NEW i \in 1..Len(s)
        PROVE  t[i] = IF i = Len(s) THEN s[1] ELSE s[i + 1]
    <2>1. CASE i = Len(s)
      <3>1. Tail(s) \in Seq(Connections) /\ Len(Tail(s)) = Len(s) - 1 /\ Head(s) = s[1]
        OBVIOUS
      <3>2. QED BY <2>1, <3>1, TakeAndGiveLast
    <2>2. CASE i # Len(s)
      <3>1. Tail(s) \in Seq(Connections) /\ i \in 1..Len(Tail(s)) /\ Tail(s)[i] = s[i + 1]
        BY <2>2
      <3>2. QED BY <2>2, <3>1
    <2>3. QED BY <2>1, <2>2
  <1>3. t = Append(Tail(s), Head(s))
    OBVIOUS
  <1> HIDE DEF t
  <1>4. \A i \in 1..Len(s) : i = Len(s) \/ i + 1 \in 1..Len(s)
    BY <1>1
  <1>5. 1 \in 1..Len(s)
    BY <1>1
  <1>6. Distinct(t)
    BY <1>1, <1>2, <1>4, <1>5 DEF Distinct
  <1>7. Within(t, s)
    BY <1>1, <1>2, <1>4, <1>5 DEF Within
  <1>8. QED BY <1>1, <1>3, <1>6, <1>7, Zenon

\* An idle pool has every connection once.
LEMMA IdlePool ==
  ASSUME NEW s \in Idle
  PROVE  s \in Seq(Connections) /\ \A i, j \in 1..Len(s) : s[i] = s[j] => i = j
  <1>1. Cardinality(Connections) \in Nat
    BY ChainAssumption, FS_CardinalityType
  <1>2. s \in [1..Cardinality(Connections) -> Connections]
    BY DEF Idle
  <1>3. s \in Seq(Connections) /\ Len(s) = Cardinality(Connections)
    BY <1>1, <1>2
  <1>4. QED BY <1>2, <1>3 DEF Idle

\* The fields the records have, they keep.
LEMMA ShapedKeeps ==
  ASSUME IInv, [Next]_vars
  PROVE  Shaped'
  <1>1. tampers' \in Nat
    <2>1. UNCHANGED tampers \/ tampers' = tampers + 1
      BY DEF Next, vars, Write, Client, Tamper, Local, Forward, Arrive, Lock,
         LockTimeout, ReadLast, Commit, Unlock, Answer, GiveUp, LoseConnection,
         Restart, Alter, Remove
    <2>2. QED BY <2>1 DEF IInv, Shaped
  <1>2. op' \in [Writers -> [state : OpStates, critical : BOOLEAN]]
    <2>1. CASE UNCHANGED op
      BY <2>1 DEF IInv, Shaped
    <2>2. ASSUME NEW w \in Writers, NEW p, NEW critical \in BOOLEAN, Forward(w, p, critical)
          PROVE  op' \in [Writers -> [state : OpStates, critical : BOOLEAN]]
      BY <2>2 DEF IInv, Shaped, Forward, OpStates
    <2>3. ASSUME NEW w \in Writers, Answer(w) \/ GiveUp(w)
          PROVE  op' \in [Writers -> [state : OpStates, critical : BOOLEAN]]
      <3>1. PICK x \in OpStates : op' = [op EXCEPT ![w] = [@ EXCEPT !.state = x]]
        BY <2>3 DEF Answer, GiveUp, OpStates
      <3>2. op \in [Writers -> [state : OpStates, critical : BOOLEAN]]
        BY DEF IInv, Shaped
      <3>3. QED BY <3>1, <3>2
    <2>4. QED
      BY <2>1, <2>2, <2>3 DEF Next, vars, Write, Client, Tamper, Local, Arrive, Lock,
         LockTimeout, ReadLast, Commit, Unlock, LoseConnection, Restart, Alter, Remove
  <1> DEFINE Record(x) == x = [pc |-> x.pc, conn |-> x.conn, payload |-> x.payload,
                               early |-> x.early, view |-> x.view, seq |-> x.seq,
                               prev |-> x.prev]
  <1>3. /\ wr' = [w \in Writers |-> wr'[w]]
        /\ \A w \in Writers : Record(wr'[w])
    <2>1. CASE UNCHANGED wr
      BY <2>1 DEF IInv, Shaped
    <2>2. ASSUME NEW w \in Writers, NEW x, Record(x), wr' = [wr EXCEPT ![w] = x]
          PROVE  <1>3
      BY <2>2 DEF IInv, Shaped
    <2>3. ASSUME NEW pc PROVE Record(Left(pc))
      BY DEF Left
    <2>4. ASSUME NEW w \in Writers, NEW p, NEW early, Open(w, p, early) PROVE <1>3
      BY <2>2, <2>4 DEF Open, IInv, Shaped
    <2>5. ASSUME NEW w \in Writers, NEW p, NEW critical, Forward(w, p, critical) PROVE <1>3
      BY <2>2, <2>5 DEF Forward, IInv, Shaped
    <2>6. ASSUME NEW w \in Writers, Lock(w) \/ LockTimeout(w) \/ ReadLast(w) PROVE <1>3
      BY <2>2, <2>6 DEF Lock, LockTimeout, ReadLast, IInv, Shaped
    <2>7. ASSUME NEW w \in Writers, Commit(w) \/ Unlock(w) \/ LoseConnection(w) PROVE <1>3
      BY <2>2, <2>3, <2>7 DEF Commit, Unlock, LoseConnection
    <2>8. CASE Restart
      <3>1. \A w \in Writers : wr'[w] = wr[w] \/ wr'[w] = Left("lost")
        BY <2>8 DEF Restart
      <3>2. wr' = [w \in Writers |-> wr'[w]]
        BY <2>8 DEF Restart
      <3>3. QED BY <2>3, <3>1, <3>2 DEF IInv, Shaped
    <2>9. QED
      BY <2>1, <2>4, <2>5, <2>6, <2>7, <2>8 DEF Next, vars, Write, Client, Tamper,
         Local, Arrive, Answer, GiveUp, Alter, Remove
  <1>4. QED BY <1>1, <1>2, <1>3 DEF Shaped

(***************************************************************************)
(* Connections and the lock                                                *)
(***************************************************************************)

\* No step lets two writers, or a writer and the pool, have one connection.
LEMMA PooledKeeps ==
  ASSUME IInv, [Next]_vars
  PROVE  Pooled'
  <1>1. ASSUME NEW w \in Writers, NEW p, NEW early, Open(w, p, early),
               wr[w].pc \notin InTransaction
        PROVE  Pooled'
    <2>1. Moves(w, "asking") /\ wr'[w].conn = Head(pool) /\ pool' = Tail(pool) /\ pool # <<>>
      BY <1>1, Steps DEF IInv, Open
    <2>2. QED
      BY <1>1, <2>1, TakeAndGive DEF Moves, IInv, Pooled
  <1>2. ASSUME NEW w \in Writers, Lock(w) \/ LockTimeout(w) \/ ReadLast(w)
        PROVE  Pooled'
    <2>1. /\ \E pc \in InTransaction : Moves(w, pc)
          /\ wr'[w].conn = wr[w].conn /\ wr[w].pc \in InTransaction /\ pool' = pool
      BY <1>2, Steps DEF IInv, Lock, LockTimeout, ReadLast
    <2>2. QED
      BY <1>2, <2>1 DEF Moves, IInv, Pooled
  <1>3. ASSUME NEW w \in Writers, Commit(w) \/ LoseConnection(w)
        PROVE  Pooled'
    <2>1. /\ \E pc \in {"done", "unlocking", "lost"} : Moves(w, pc)
          /\ wr[w].pc \in InTransaction /\ pool' = Append(pool, wr[w].conn)
      BY <1>3, Steps DEF IInv, Commit, LoseConnection
    <2>2. wr[w].conn \in Connections
      BY <2>1 DEF IInv, Pooled
    <2>3. /\ pool' \in Seq(Connections) /\ Len(pool') = Len(pool) + 1 /\ Len(pool) \in Nat
          /\ \A i \in 1..Len(pool) + 1 :
               pool'[i] = IF i = Len(pool) + 1 THEN wr[w].conn ELSE pool[i]
      BY <2>1, <2>2, TakeAndGive DEF IInv, Pooled
    <2>4. \A v \in Writers : wr'[v].pc \in InTransaction => v # w /\ wr'[v] = wr[v]
      BY <2>1 DEF Moves
    <2>5. \A i \in 1..Len(pool) : pool[i] # wr[w].conn
      BY <2>1 DEF IInv, Pooled
    <2>6. \A i, j \in 1..Len(pool') : pool'[i] = pool'[j] => i = j
      BY <2>3, <2>5 DEF IInv, Pooled
    <2>7. ASSUME NEW v \in Writers, wr'[v].pc \in InTransaction
          PROVE  /\ wr'[v].conn \in Connections
                 /\ \A i \in 1..Len(pool') : pool'[i] # wr'[v].conn
                 /\ \A u \in Writers : u # v /\ wr'[u].pc \in InTransaction
                                         => wr'[u].conn # wr'[v].conn
      BY <2>1, <2>3, <2>4, <2>7 DEF IInv, Pooled
    <2>8. QED
      BY <2>3, <2>6, <2>7 DEF Pooled
  <1>4. ASSUME NEW w \in Writers, Unlock(w)
        PROVE  Pooled'
    <2>1. /\ Moves(w, "done") /\ pool # <<>> /\ pool' = Append(Tail(pool), Head(pool))
      BY <1>4, Steps DEF IInv, Unlock
    <2>2. /\ pool' \in Seq(Connections)
          /\ \A i, j \in 1..Len(pool') : pool'[i] = pool'[j] => i = j
          /\ \A i \in 1..Len(pool') : \E j \in 1..Len(pool) : pool'[i] = pool[j]
      <3>1. pool \in Seq(Connections) /\ Distinct(pool)
        BY DEF IInv, Pooled, Distinct
      <3>2. PICK u \in Seq(Connections) :
              u = Append(Tail(pool), Head(pool)) /\ Distinct(u) /\ Within(u, pool)
        BY <2>1, <3>1, Rotate, Zenon
      <3>3. pool' \in Seq(Connections) /\ Distinct(pool') /\ Within(pool', pool)
        BY <2>1, <3>2, Zenon
      <3>4. QED BY <3>3 DEF Distinct, Within
    <2>3. \A v \in Writers : wr'[v].pc \in InTransaction => wr[v] = wr'[v]
      BY <2>1 DEF Moves
    <2>4. ASSUME NEW v \in Writers, wr'[v].pc \in InTransaction
          PROVE  /\ wr'[v].conn \in Connections
                 /\ \A i \in 1..Len(pool') : pool'[i] # wr'[v].conn
                 /\ \A u \in Writers : u # v /\ wr'[u].pc \in InTransaction
                                         => wr'[u].conn # wr'[v].conn
      BY <2>2, <2>3, <2>4 DEF IInv, Pooled
    <2>5. QED
      BY <2>2, <2>4 DEF Pooled
  <1>5. CASE Restart
    <2>1. pool' \in Idle /\ \A w \in Writers : wr'[w].pc \notin InTransaction
      BY <1>5 DEF Restart, Left
    <2>2. QED BY <2>1, IdlePool DEF Pooled
  <1>6. ASSUME NEW w \in Writers, NEW p, NEW critical, Forward(w, p, critical)
        PROVE  Pooled'
    <2>1. Moves(w, "posted") /\ pool' = pool
      BY <1>6, Steps DEF IInv, Forward
    <2>2. QED BY <2>1 DEF Moves, IInv, Pooled
  <1>7. CASE UNCHANGED <<wr, pool>>
    BY <1>7 DEF IInv, Pooled
  <1>8. QED
    BY <1>1, <1>2, <1>3, <1>4, <1>5, <1>6, <1>7 DEF Next, vars, Write, Client,
       Tamper, Local, Arrive, Answer, GiveUp, Alter, Remove

\* On Postgres a writer that is past the lock stays its only owner.
LEMMA LockKeeps ==
  ASSUME IInv, [Next]_vars
  PROVE  LockHeld'
  <1> SUFFICES ASSUME engine' = "postgres" PROVE LockHeld'
    BY DEF LockHeld
  <1>0. engine = "postgres"
    BY DEF Next, vars, Write, Client, Tamper, Local, Forward, Arrive, Lock,
       LockTimeout, ReadLast, Commit, Unlock, Answer, GiveUp, LoseConnection,
       Restart, Alter, Remove
  <1>1. \A w, v \in Writers :
          /\ wr[w].pc \in {"inside", "hashed"} => lock.owner = wr[w].conn
          /\ wr[w].pc # "unlocking"
          /\ wr[w].pc \in InTransaction => wr[w].conn \in Connections /\ wr[w].conn # NoConnection
          /\ wr[v].pc \in InTransaction /\ wr[w].pc \in InTransaction /\ v # w
               => wr[v].conn # wr[w].conn
    BY <1>0, ChainAssumption DEF IInv, LockHeld, Pooled
  <1>2. ASSUME NEW w \in Writers, Lock(w) PROVE LockHeld'
    <2>1. Moves(w, "inside") /\ wr'[w].conn = wr[w].conn /\ lock'.owner = wr[w].conn
      BY <1>2, Steps DEF IInv, Lock
    <2>2. QED BY <1>1, <1>2, <2>1 DEF Lock, Moves, LockHeld
  <1>3. ASSUME NEW w \in Writers, ReadLast(w) PROVE LockHeld'
    <2>1. /\ Moves(w, "hashed") /\ wr'[w].conn = wr[w].conn /\ lock' = lock
          /\ wr[w].pc = "inside"
      BY <1>3, Steps DEF IInv, ReadLast
    <2>2. QED BY <1>1, <2>1 DEF Moves, LockHeld
  <1>4. ASSUME NEW w \in Writers, Commit(w) \/ LoseConnection(w) PROVE LockHeld'
    <2>1. /\ \E pc \in {"done", "lost"} : Moves(w, pc)
          /\ wr[w].pc \in InTransaction
          /\ lock' = lock \/ (lock' = Free /\ lock.owner = wr[w].conn)
      <3>1. CASE Commit(w)
        BY <1>0, <1>1, <3>1, Steps DEF IInv, Commit, Shaped, Moves, Left
      <3>2. CASE LoseConnection(w)
        BY <1>0, <1>1, <3>2, Steps DEF IInv, LoseConnection
      <3>3. QED BY <1>4, <3>1, <3>2
    <2>2. QED BY <1>1, <2>1 DEF Moves, LockHeld
  <1>5. ASSUME NEW w \in Writers,
               \/ \E p \in Payloads, early \in BOOLEAN : Open(w, p, early) /\ lock' = lock
               \/ Arrive(w)
               \/ \E p \in Payloads, critical \in BOOLEAN : Forward(w, p, critical)
        PROVE  LockHeld'
    <2>1. lock' = lock /\ \E pc \in {"asking", "posted"} : Moves(w, pc)
      BY <1>5, Steps DEF IInv, Arrive, Forward
    <2>2. QED BY <1>1, <2>1 DEF Moves, LockHeld
  <1>6. ASSUME NEW w \in Writers, Unlock(w) PROVE LockHeld'
    BY <1>1, <1>6 DEF Unlock
  <1>7. CASE Restart
    BY <1>7 DEF Restart, Left, LockHeld
  <1>8. CASE UNCHANGED <<wr, lock>>
    BY <1>1, <1>8 DEF LockHeld
  <1>9. QED
    BY <1>0, <1>2, <1>3, <1>4, <1>5, <1>6, <1>7, <1>8 DEF Next, vars, Write, Client,
       Tamper, Local, Arrive, Answer, GiveUp, Alter, Remove, LockTimeout

(***************************************************************************)
(* The chain                                                               *)
(***************************************************************************)

\* A chain of rows, each on the row of the seq before, verifies.
LEMMA LinkedVerifies ==
  ASSUME NEW rows, Linked(rows)
  PROVE  verify_chain(rows)
  <1>1. ASSUME NEW e \in rows
        PROVE  \/ e.prev = Genesis /\ \A f \in rows : e.seq <= f.seq
               \/ \E f \in rows : Precedes(rows, f, e) /\ e.prev = f.hash
    <2>1. \A f \in rows : f.seq \in Nat \ {0}
      BY DEF Linked
    <2>2. CASE e.seq = 1 /\ e.prev = Genesis
      BY <2>1, <2>2
    <2>3. ASSUME NEW f \in rows, f.seq + 1 = e.seq, f.hash = e.prev
          PROVE  Precedes(rows, f, e)
      BY <2>1, <2>3 DEF Precedes
    <2>4. QED BY <2>2, <2>3 DEF Linked
  <1>2. QED BY <1>1 DEF Linked, verify_chain

\* Whoever reads the last row reads the end of the log.
LEMMA ReadsTheEnd ==
  ASSUME NEW w \in Writers, Shaped, engine = "postgres", ReadLast(w)
  PROVE  Current(w)'
  <1>1. Predecessors(w) = IF log = {} THEN {[seq |-> 0, hash |-> Genesis]} ELSE LastRows(log)
    BY DEF Predecessors, Visible
  <1>2. PICK last \in Predecessors(w) :
          wr' = [wr EXCEPT ![w] = [@ EXCEPT !.pc = "hashed", !.seq = last.seq + 1,
                                            !.prev = last.hash]]
    BY DEF ReadLast
  <1>3. wr'[w].seq = last.seq + 1 /\ wr'[w].prev = last.hash /\ log' = log
    <2>1. wr'[w] = [wr[w] EXCEPT !.pc = "hashed", !.seq = last.seq + 1, !.prev = last.hash]
      BY <1>2 DEF Shaped
    <2>2. wr'[w].seq = last.seq + 1 /\ wr'[w].prev = last.hash
      BY <2>1 DEF Shaped
    <2>3. QED BY <2>2 DEF ReadLast
  <1>4. CASE log = {}
    BY <1>1, <1>3, <1>4 DEF Current
  <1>5. CASE log # {}
    BY <1>1, <1>3, <1>5 DEF Current, LastRows
  <1>6. QED BY <1>4, <1>5

\* A row after the end of the log makes a chain again.
LEMMA AppendLinks ==
  ASSUME NEW w \in Writers, Linked(log), Current(w), AppendRow(w)
  PROVE  Linked(log')
  <1> DEFINE row == Entry(w, wr[w].seq, wr[w].prev, wr[w].payload)
  <1>1. log' = log \cup {row}
    BY DEF AppendRow
  <1>2. /\ row.seq = wr[w].seq /\ row.prev = wr[w].prev
        /\ row.hash = compute_entry_hash(row.seq, row.prev, row.payload)
    BY DEF Entry
  <1> HIDE DEF row
  <1>3. \A e \in log : e.seq \in Nat \ {0}
    BY DEF Linked
  <1>4. row.seq \in Nat \ {0} /\ \A e \in log : e.seq # row.seq
    BY <1>2, <1>3 DEF Current
  <1>5. \/ row.seq = 1 /\ row.prev = Genesis
        \/ \E f \in log : f.seq + 1 = row.seq /\ f.hash = row.prev
    BY <1>2 DEF Current
  <1>6. QED BY <1>1, <1>2, <1>4, <1>5 DEF Linked

\* On Postgres every step keeps the chain linked: who appends has read the last row.
LEMMA ChainKeeps ==
  ASSUME IInv, [Next]_vars
  PROVE  ChainInv'
  <1> SUFFICES ASSUME engine' = "postgres", tampers' = 0
               PROVE  Linked(log') /\ \A v \in Writers : wr'[v].pc = "hashed" => Current(v)'
    BY DEF ChainInv, Linked
  <1>1. engine = "postgres" /\ tampers = 0
    <2>1. engine' = engine /\ (tampers' = tampers \/ tampers' = tampers + 1)
      BY DEF Next, vars, Write, Client, Tamper, Local, Forward, Arrive, Lock,
         LockTimeout, ReadLast, Commit, Unlock, Answer, GiveUp, LoseConnection,
         Restart, Alter, Remove
    <2>2. QED BY <2>1 DEF IInv, Shaped
  <1>2. Linked(log) /\ \A v \in Writers : wr[v].pc = "hashed" => Current(v)
    BY <1>1 DEF IInv, ChainInv
  <1>3. ASSUME NEW w \in Writers, ReadLast(w)
        PROVE  Linked(log') /\ \A v \in Writers : wr'[v].pc = "hashed" => Current(v)'
    <2>1. Moves(w, "hashed") /\ log' = log
      BY <1>3, Steps DEF IInv, ReadLast
    <2>2. Current(w)'
      BY <1>1, <1>3, ReadsTheEnd DEF IInv
    <2>3. QED BY <1>2, <2>1, <2>2 DEF Moves, Current
  <1>4. ASSUME NEW w \in Writers, Commit(w)
        PROVE  Linked(log') /\ \A v \in Writers : wr'[v].pc = "hashed" => Current(v)'
    <2>1. /\ \E pc \in {"done", "unlocking"} : Moves(w, pc)
          /\ wr[w].pc = "hashed" /\ AppendRow(w)
      BY <1>4, Steps DEF IInv, Commit
    <2>2. Linked(log')
      BY <1>2, <2>1, AppendLinks
    <2>3. \A v \in Writers : v # w => wr[v].pc # "hashed"
      BY <1>1, <2>1 DEF IInv, LockHeld, Pooled
    <2>4. QED BY <2>1, <2>2, <2>3 DEF Moves
  <1>5. ASSUME log' = log,
               \A v \in Writers : wr'[v].pc = "hashed" => wr'[v] = wr[v]
        PROVE  Linked(log') /\ \A v \in Writers : wr'[v].pc = "hashed" => Current(v)'
    BY <1>2, <1>5 DEF Current
  <1>6. ASSUME NEW w \in Writers,
               \/ \E p \in Payloads, early \in BOOLEAN : Local(w, p, early)
               \/ \E p \in Payloads, critical \in BOOLEAN : Forward(w, p, critical)
               \/ Arrive(w) \/ Lock(w) \/ LockTimeout(w) \/ Unlock(w) \/ LoseConnection(w)
        PROVE  log' = log /\ \A v \in Writers : wr'[v].pc = "hashed" => wr'[v] = wr[v]
    <2>1. \E pc \in {"asking", "posted", "inside", "done", "lost"} : Moves(w, pc)
      BY <1>6, Steps DEF IInv, Local, Arrive
    <2>2. log' = log
      BY <1>6 DEF Local, Forward, Arrive, Lock, LockTimeout, Unlock, LoseConnection
    <2>3. QED BY <2>1, <2>2 DEF Moves
  <1>7. CASE Restart
    BY <1>5, <1>7 DEF Restart, Left
  <1>8. CASE UNCHANGED <<wr, log>>
    BY <1>5, <1>8
  <1>9. ~Tamper
    BY <1>1 DEF Tamper, Alter, Remove
  <1>10. QED
    BY <1>3, <1>4, <1>5, <1>6, <1>7, <1>8, <1>9 DEF Next, vars, Write, Client,
       Answer, GiveUp

(***************************************************************************)
(* The entries of critical operations                                      *)
(***************************************************************************)

\* Every step keeps what was answered true: the entry of a writer that is done is in the log.
LEMMA RecordedKeeps ==
  ASSUME IInv, [Next]_vars
  PROVE  Recorded'
  <1>1. log \subseteq log' \/ tampers' = tampers + 1
    <2>1. \/ log' = log
          \/ tampers' = tampers + 1
          \/ \E w \in Writers : Commit(w)
      BY DEF Next, vars, Write, Client, Tamper, Local, Forward, Arrive, Lock,
         LockTimeout, ReadLast, Unlock, Answer, GiveUp, LoseConnection, Restart,
         Alter, Remove
    <2>2. ASSUME NEW w \in Writers, Commit(w) PROVE log \subseteq log'
      BY <2>2 DEF Commit, AppendRow
    <2>3. QED BY <2>1, <2>2
  <1>2. (tampers' = 0 => tampers = 0) /\ (tampers' = tampers + 1 => tampers' # 0)
    <2>1. tampers' = tampers \/ tampers' = tampers + 1
      BY DEF Next, vars, Write, Client, Tamper, Local, Forward, Arrive, Lock,
         LockTimeout, ReadLast, Commit, Unlock, Answer, GiveUp, LoseConnection,
         Restart, Alter, Remove
    <2>2. QED BY <2>1 DEF IInv, Shaped
  <1>3. ASSUME NEW v \in Writers, wr'[v].pc \in {"unlocking", "done"}, tampers' = 0,
               wr[v].pc \in {"unlocking", "done"}
        PROVE  \E e \in log' : e.id = v
    BY <1>1, <1>2, <1>3 DEF IInv, Recorded
  <1>4. ASSUME UNCHANGED <<wr, op>> PROVE Recorded'
    BY <1>3, <1>4 DEF IInv, Recorded
  <1>5. ASSUME NEW w \in Writers, wr[w].pc # "done", op' = op,
               \E pc \in {"posted", "asking", "inside", "hashed", "lost"} : Moves(w, pc)
        PROVE  Recorded'
    BY <1>3, <1>5 DEF IInv, Recorded, Moves
  <1>6. ASSUME NEW w \in Writers,
               \/ \E p \in Payloads, early \in BOOLEAN : Local(w, p, early)
               \/ Arrive(w) \/ Lock(w) \/ LockTimeout(w) \/ ReadLast(w) \/ LoseConnection(w)
        PROVE  Recorded'
    <2>1. /\ wr[w].pc # "done" /\ op' = op
          /\ \E pc \in {"asking", "inside", "hashed", "lost"} : Moves(w, pc)
      BY <1>6, Steps DEF IInv, Local, Arrive, Lock, LockTimeout, ReadLast, LoseConnection
    <2>2. QED BY <1>5, <2>1
  <1>7. ASSUME NEW w \in Writers, NEW p, NEW critical \in BOOLEAN, Forward(w, p, critical)
        PROVE  Recorded'
    <2>1. Moves(w, "posted") /\ wr[w].pc = "idle"
      BY <1>7, Steps DEF IInv, Forward
    <2>2. op'[w].state = "waiting" /\ \A v \in Writers : v # w => op'[v] = op[v]
      BY <1>7 DEF Forward, IInv, Shaped
    <2>3. QED BY <1>3, <2>1, <2>2 DEF IInv, Recorded, Moves
  <1>8. ASSUME NEW w \in Writers, Commit(w) PROVE Recorded'
    <2>1. /\ \E pc \in {"done", "unlocking"} : Moves(w, pc)
          /\ wr[w].pc = "hashed" /\ AppendRow(w) /\ op' = op
      BY <1>8, Steps DEF IInv, Commit
    <2>2. \E e \in log' : e.id = w
      <3> DEFINE row == Entry(w, wr[w].seq, wr[w].prev, wr[w].payload)
      <3>1. row.id = w
        BY DEF Entry
      <3>2. row \in log'
        BY <2>1 DEF AppendRow
      <3>3. QED BY <3>1, <3>2
    <2>3. QED BY <1>3, <2>1, <2>2 DEF IInv, Recorded, Moves
  <1>9. ASSUME NEW w \in Writers, Unlock(w) PROVE Recorded'
    <2>1. Moves(w, "done") /\ wr[w].pc = "unlocking" /\ op' = op
      BY <1>9, Steps DEF IInv, Unlock
    <2>2. QED BY <1>3, <2>1 DEF IInv, Recorded, Moves
  <1>10. ASSUME NEW w \in Writers, Answer(w) \/ GiveUp(w) PROVE Recorded'
    <2>1. /\ wr' = wr /\ \A v \in Writers : v # w => op'[v] = op[v]
          /\ op'[w].critical = op[w].critical
          /\ op'[w].state = "proceeded" /\ op[w].critical => wr[w].pc = "done"
      BY <1>10 DEF Answer, GiveUp, IInv, Shaped
    <2>2. QED BY <1>3, <2>1 DEF IInv, Recorded
  <1>11. CASE Restart
    <2>1. op' = op
      BY <1>11 DEF Restart
    <2>2. ASSUME NEW v \in Writers
          PROVE  wr'[v] = wr[v] \/ (wr[v].pc # "done" /\ wr'[v].pc = "lost")
      BY <1>11 DEF Restart, Left
    <2>3. QED BY <1>3, <2>1, <2>2 DEF IInv, Recorded
  <1>12. QED
    BY <1>4, <1>6, <1>7, <1>8, <1>9, <1>10, <1>11 DEF Next, vars, Write, Client,
       Tamper, Alter, Remove

(***************************************************************************)
(* The theorems                                                            *)
(***************************************************************************)

\* The invariant holds at the start.
LEMMA InitInv == Init => IInv
  <1> SUFFICES ASSUME Init PROVE IInv
    OBVIOUS
  <1>1. \A w \in Writers : wr[w].pc = "idle" /\ op[w].state = "none"
    BY DEF Init, Left
  <1>2. Pooled
    BY <1>1, IdlePool DEF Init, Pooled
  <1>3. LockHeld /\ Recorded
    BY <1>1 DEF LockHeld, Recorded
  <1>4. ChainInv
    BY <1>1 DEF Init, ChainInv, Linked
  <1>5. QED BY <1>2, <1>3, <1>4, ShapedInit DEF IInv

\* The invariant is inductive.
LEMMA InvKeeps == IInv /\ [Next]_vars => IInv'
  BY ShapedKeeps, PooledKeeps, LockKeeps, ChainKeeps, RecordedKeeps DEF IInv

\* The chain of log_action and verify_chain: on Postgres it verifies in every
\* reachable state in which nobody touched the table, for any number of
\* requests, connections, lost connections and restarts.
THEOREM ChainSafe == Spec => []ChainVerifies
  <1>1. IInv => ChainVerifies
    BY LinkedVerifies DEF IInv, ChainInv, ChainVerifies
  <1>2. QED BY <1>1, InitInv, InvKeeps, PTL DEF Spec

\* The audit.log_action of the forwarding services: on both engines, a
\* critical operation was only carried out with its entry in the log.
THEOREM CriticalSafe == Spec => []CriticalIsRecorded
  <1>1. IInv => CriticalIsRecorded
    BY DEF IInv, Recorded, CriticalIsRecorded
  <1>2. QED BY <1>1, InitInv, InvKeeps, PTL DEF Spec

(***************************************************************************)
(* The evidence: what a chain that verifies shows about altered and        *)
(* removed rows                                                            *)
(***************************************************************************)

\* A writer carries what it was asked to record.
CarriesPayload ==
  \A w \in Writers :
    wr[w].pc \in {"posted", "asking", "inside", "hashed"} => wr[w].payload \in Payloads

\* On Postgres a row in the log is, its payload perhaps excepted, the row its
\* writer wrote; and whoever has a row, or had one before it, is done.
Written(e) ==
  /\ e.id \in Writers /\ wr[e.id].pc = "done" /\ e.seq \in Nat
  /\ e = [id |-> e.id, seq |-> e.seq, prev |-> e.prev, payload |-> e.payload, hash |-> e.hash]
  /\ \E p \in Payloads : /\ e.hash = compute_entry_hash(e.seq, e.prev, p)
                         /\ hist[e.id].row = {Entry(e.id, e.seq, e.prev, p)}
  /\ \A w \in hist[e.id].before : w \in Writers /\ wr[w].pc = "done"

\* The log is written in the order of seq.
InOrder(e, f) ==
  /\ e.seq = f.seq => e = f
  /\ e.seq < f.seq => e.id \in hist[f.id].before

\* The holder of the lock knows the end of the log, or knew it before somebody
\* removed rows: what is in the log was there when f was written, for any row f
\* it may link to.
Knows(w) ==
  /\ wr[w].seq \in Nat
  /\ \A f \in log : f.seq < wr[w].seq
  /\ wr[w].prev = Genesis => log = {}
  /\ \A f, g \in log : f.hash = wr[w].prev => g = f \/ g.id \in hist[f.id].before

\* Whatever rows are left of the log: if they verify, then what was there
\* before one of them is among them, as it was written.
Complete ==
  \A rows \in SUBSET log : verify_chain(rows) =>
    \A e \in rows : \A w \in hist[e.id].before : hist[w].row \subseteq rows

EvidenceInv ==
  engine = "postgres" =>
    /\ \A e \in log : Written(e)
    /\ \A e, f \in log : InOrder(e, f)
    /\ \A w \in Writers : wr[w].pc = "hashed" => Knows(w)
    /\ Complete

\* A chain of hashes says what was hashed, and no hash is the genesis.
LEMMA HashesDiffer ==
  ASSUME NEW a, NEW b, NEW c, NEW x, NEW y, NEW z
  PROVE  /\ compute_entry_hash(a, b, c) = compute_entry_hash(x, y, z) => a = x /\ b = y /\ c = z
         /\ compute_entry_hash(a, b, c) # Genesis
  BY DEF compute_entry_hash, Genesis

\* What a step of the program does to the log and to the writers, on Postgres:
\* a read and a commit apart, it leaves the log alone, and brings nobody past the
\* lock or to an end; whoever is done stays so.
Elsewhere ==
  /\ log' = log /\ hist' = hist
  /\ \A v \in Writers : wr'[v] = wr[v] \/ (wr[v].pc # "done" /\ wr'[v].pc \notin {"hashed", "done"})

LEMMA LogSteps ==
  ASSUME IInv, [Next]_vars, engine = "postgres"
  PROVE  \/ Elsewhere
         \/ \E w \in Writers : ReadLast(w) \/ Commit(w)
         \/ Tamper /\ UNCHANGED <<engine, wr, hist>>
  <1>1. ASSUME NEW w \in Writers, UNCHANGED <<log, hist>>, wr[w].pc # "done",
               \E pc \in {"asking", "posted", "inside", "lost"} : Moves(w, pc)
        PROVE  Elsewhere
    BY <1>1 DEF Moves, Elsewhere
  <1>2. ASSUME NEW w \in Writers,
               \/ \E p \in Payloads, early \in BOOLEAN : Local(w, p, early)
               \/ \E p \in Payloads, critical \in BOOLEAN : Forward(w, p, critical)
               \/ Arrive(w) \/ Lock(w) \/ LockTimeout(w) \/ LoseConnection(w)
        PROVE  Elsewhere
    <2>1. \E pc \in {"asking", "posted", "inside", "lost"} : Moves(w, pc)
      BY <1>2, Steps DEF IInv, Local, Arrive
    <2>2. UNCHANGED <<log, hist>> /\ wr[w].pc # "done"
      BY <1>2 DEF Local, Forward, Arrive, Lock, LockTimeout, LoseConnection
    <2>3. QED BY <1>1, <2>1, <2>2
  <1>3. ASSUME NEW w \in Writers PROVE ~Unlock(w)
    BY DEF IInv, LockHeld, Unlock
  <1>4. CASE Restart
    <2>1. \A v \in Writers : wr'[v] = wr[v] \/ (wr[v].pc # "done" /\ wr'[v].pc = "lost")
      BY <1>4 DEF Restart, Left
    <2>2. QED BY <1>4, <2>1 DEF Restart, Elsewhere
  <1>5. CASE UNCHANGED <<log, hist, wr>>
    BY <1>5 DEF Elsewhere
  <1>6. CASE Tamper
    BY <1>6 DEF Tamper, Alter, Remove
  <1>7. QED
    BY <1>2, <1>3, <1>4, <1>5, <1>6 DEF Next, vars, Write, Client, Answer, GiveUp

\* A writer keeps what it was asked to record until it commits.
LEMMA PayloadKeeps ==
  ASSUME IInv, CarriesPayload, [Next]_vars
  PROVE  CarriesPayload'
  <1> DEFINE Carrying == {"posted", "asking", "inside", "hashed"}
  <1>1. ASSUME NEW w \in Writers, NEW p \in Payloads, NEW early, Open(w, p, early)
        PROVE  CarriesPayload'
    <2>1. Moves(w, "asking")
      <3>1. Shaped
        BY DEF IInv
      <3>2. QED BY <1>1, <3>1, Steps
    <2>2. wr'[w].payload = p
      <3>1. wr'[w] = [wr[w] EXCEPT !.pc = "asking", !.conn = Head(pool), !.payload = p,
                                     !.early = early, !.view = IF early THEN log ELSE {}]
        BY <1>1 DEF IInv, Shaped, Open
      <3>2. QED BY <3>1 DEF IInv, Shaped
    <2>3. QED BY <2>1, <2>2 DEF Moves, CarriesPayload
  <1>2. ASSUME NEW w \in Writers, NEW p \in Payloads, NEW critical, Forward(w, p, critical)
        PROVE  CarriesPayload'
    <2>1. Moves(w, "posted")
      <3>1. Shaped
        BY DEF IInv
      <3>2. QED BY <1>2, <3>1, Steps
    <2>2. wr'[w].payload = p
      <3>1. wr'[w] = [wr[w] EXCEPT !.pc = "posted", !.payload = p]
        BY <1>2 DEF IInv, Shaped, Forward
      <3>2. QED BY <3>1 DEF IInv, Shaped
    <2>3. QED BY <2>1, <2>2 DEF Moves, CarriesPayload
  <1>3. ASSUME NEW w \in Writers, Arrive(w)
        PROVE  CarriesPayload'
    BY <1>1, <1>3 DEF Arrive, CarriesPayload
  <1>4. ASSUME NEW w \in Writers, Lock(w) \/ LockTimeout(w) \/ ReadLast(w)
        PROVE  CarriesPayload'
    <2>1. \E pc \in {"inside", "hashed"} : Moves(w, pc)
      BY <1>4, Steps DEF IInv
    <2>2. wr[w].pc \in Carrying
      BY <1>4 DEF Lock, LockTimeout, ReadLast
    <2>3. wr'[w].payload = wr[w].payload
      <3>1. CASE Lock(w) \/ LockTimeout(w)
        <4>1. wr'[w] = [wr[w] EXCEPT !.pc = "inside"]
          BY <3>1 DEF IInv, Shaped, Lock, LockTimeout
        <4>2. QED BY <4>1 DEF IInv, Shaped
      <3>2. CASE ReadLast(w)
        <4>1. PICK last : wr'[w] = [wr[w] EXCEPT !.pc = "hashed", !.seq = last.seq + 1,
                                                 !.prev = last.hash]
          BY <3>2 DEF IInv, Shaped, ReadLast
        <4>2. QED BY <4>1 DEF IInv, Shaped
      <3>3. QED BY <1>4, <3>1, <3>2
    <2>4. QED BY <2>1, <2>2, <2>3 DEF Moves, CarriesPayload
  <1>5. ASSUME NEW w \in Writers, Commit(w) \/ Unlock(w) \/ LoseConnection(w)
        PROVE  CarriesPayload'
    <2>1. \E pc \in {"done", "unlocking", "lost"} : Moves(w, pc)
      BY <1>5, Steps DEF IInv
    <2>2. QED BY <2>1 DEF Moves, CarriesPayload
  <1>6. CASE Restart
    BY <1>6 DEF Restart, Left, CarriesPayload
  <1>7. CASE UNCHANGED wr
    BY <1>7 DEF CarriesPayload
  <1>8. QED
    BY <1>1, <1>2, <1>3, <1>4, <1>5, <1>6, <1>7 DEF Next, vars, Write, Client, Tamper,
       Local, Answer, GiveUp, Alter, Remove

\* Whoever reads the last row knows the end of the log.
LEMMA ReaderKnows ==
  ASSUME NEW w \in Writers, IInv, EvidenceInv, engine = "postgres", ReadLast(w)
  PROVE  Knows(w)'
  <1>1. Predecessors(w) = IF log = {} THEN {[seq |-> 0, hash |-> Genesis]} ELSE LastRows(log)
    BY DEF Predecessors, Visible
  <1>2. PICK last \in Predecessors(w) :
          wr' = [wr EXCEPT ![w] = [@ EXCEPT !.pc = "hashed", !.seq = last.seq + 1,
                                            !.prev = last.hash]]
    BY DEF ReadLast
  <1>3. wr'[w].seq = last.seq + 1 /\ wr'[w].prev = last.hash /\ log' = log /\ hist' = hist
    <2>1. wr'[w] = [wr[w] EXCEPT !.pc = "hashed", !.seq = last.seq + 1, !.prev = last.hash]
      BY <1>2 DEF IInv, Shaped
    <2>2. wr'[w].seq = last.seq + 1 /\ wr'[w].prev = last.hash
      BY <2>1 DEF IInv, Shaped
    <2>3. QED BY <2>2 DEF ReadLast
  <1>4. CASE log = {}
    BY <1>1, <1>3, <1>4 DEF Knows
  <1>5. CASE log # {}
    <2>1. last \in log /\ \A f \in log : f.seq <= last.seq
      BY <1>1, <1>5 DEF LastRows
    <2>2. \A f \in log : Written(f)
      BY DEF EvidenceInv
    <2>3. last.seq \in Nat /\ \A f \in log : f.seq \in Nat
      BY <2>1, <2>2 DEF Written
    <2>4. last.hash # Genesis
      BY <2>1, <2>2, HashesDiffer DEF Written
    <2>5. ASSUME NEW f \in log, NEW g \in log, f.hash = last.hash
          PROVE  g = f \/ g.id \in hist[f.id].before
      <3>1. f.seq = last.seq
        BY <2>1, <2>2, <2>5, HashesDiffer DEF Written
      <3>2. g.seq = f.seq \/ g.seq < f.seq
        BY <2>1, <2>3, <3>1
      <3>3. InOrder(g, f)
        BY DEF EvidenceInv
      <3>4. QED BY <3>2, <3>3 DEF InOrder
    <2>6. QED BY <1>3, <2>1, <2>3, <2>4, <2>5 DEF Knows
  <1>6. QED BY <1>4, <1>5

\* A chain that verifies does so without its last row, and that row follows a
\* row of the chain unless it is the only one.
LEMMA WithoutLast ==
  ASSUME NEW rows, NEW last \in rows, verify_chain(rows),
         \A e \in rows : e.seq \in Nat,
         \A e \in rows \ {last} : e.seq < last.seq
  PROVE  /\ verify_chain(rows \ {last})
         /\ \/ last.prev = Genesis
            \/ \E f \in rows \ {last} : last.prev = f.hash
  <1> DEFINE rest == rows \ {last}
  <1>1. ASSUME NEW e \in rest
        PROVE  \/ e.prev = Genesis /\ \A f \in rest : e.seq <= f.seq
               \/ \E f \in rest : Precedes(rest, f, e) /\ e.prev = f.hash
    <2>1. CASE e.prev = Genesis /\ \A f \in rows : e.seq <= f.seq
      BY <2>1
    <2>2. ASSUME NEW f \in rows, Precedes(rows, f, e), e.prev = f.hash
          PROVE  f \in rest /\ Precedes(rest, f, e)
      <3>1. f # last
        BY <2>2 DEF Precedes
      <3>2. QED BY <2>2, <3>1 DEF Precedes
    <2>3. QED BY <2>1, <2>2 DEF verify_chain
  <1>2. verify_chain(rest)
    BY <1>1 DEF verify_chain
  <1>3. last.prev = Genesis \/ \E f \in rest : last.prev = f.hash
    <2>1. ASSUME NEW f \in rows, Precedes(rows, f, last) PROVE f \in rest
      BY <2>1 DEF Precedes
    <2>2. QED BY <2>1 DEF verify_chain
  <1>4. QED BY <1>2, <1>3

\* What a writer that commits adds, and to whom it matters: it is the only one
\* that has read the end of the log.
LEMMA CommitShape ==
  ASSUME NEW w \in Writers, IInv, CarriesPayload, EvidenceInv, hist = [v \in Writers |-> hist[v]],
         engine = "postgres", Commit(w),
         NEW row, row = Entry(w, wr[w].seq, wr[w].prev, wr[w].payload)
  PROVE  /\ log' = log \cup {row}
         /\ row.id = w /\ row.seq = wr[w].seq /\ row.prev = wr[w].prev
         /\ Written(row)'
         /\ hist'[w].before = {e.id : e \in log}
         /\ hist' = [v \in Writers |-> hist'[v]]
         /\ \A v \in Writers : v # w => hist'[v] = hist[v] /\ wr'[v] = wr[v] /\ wr[v].pc # "hashed"
         /\ wr[w].pc = "hashed" /\ wr'[w].pc = "done"
  <1>1. wr[w].pc = "hashed" /\ AppendRow(w)
    BY DEF Commit
  <1>2. wr'[w].pc = "done" /\ \A v \in Writers : v # w => wr'[v] = wr[v]
    <2>1. wr' = [wr EXCEPT ![w] = Left("done")]
      BY DEF Commit
    <2>2. QED BY <2>1 DEF IInv, Shaped, Left
  <1>3. log' = log \cup {row} /\ hist' = [hist EXCEPT ![w] = [row |-> {row}, before |-> {e.id : e \in log}]]
    BY <1>1 DEF AppendRow
  <1>4. /\ hist'[w].row = {row} /\ hist'[w].before = {e.id : e \in log}
        /\ hist' = [v \in Writers |-> hist'[v]]
        /\ \A v \in Writers : v # w => hist'[v] = hist[v]
    BY <1>3
  <1>5. /\ row.id = w /\ row.seq = wr[w].seq /\ row.prev = wr[w].prev /\ row.payload = wr[w].payload
        /\ row = [id |-> row.id, seq |-> row.seq, prev |-> row.prev, payload |-> row.payload, hash |-> row.hash]
        /\ row.hash = compute_entry_hash(row.seq, row.prev, row.payload)
        /\ row = Entry(row.id, row.seq, row.prev, row.payload)
    BY DEF Entry
  <1>6. \A v \in Writers : v # w => wr[v].pc # "hashed"
    BY <1>1 DEF IInv, LockHeld, Pooled
  <1>7. wr[w].payload \in Payloads /\ wr[w].seq \in Nat
    BY <1>1 DEF CarriesPayload, EvidenceInv, Knows
  <1>8. \A v \in {e.id : e \in log} : v \in Writers /\ wr[v].pc = "done"
    BY DEF EvidenceInv, Written
  <1>9. \A v \in {e.id : e \in log} : v \in Writers /\ wr'[v].pc = "done"
    BY <1>2, <1>8
  <1>10. Written(row)'
    <2>1. /\ row.id \in Writers /\ wr'[row.id].pc = "done" /\ row.seq \in Nat
      BY <1>2, <1>5, <1>7
    <2>2. /\ row.hash = compute_entry_hash(row.seq, row.prev, row.payload)
          /\ hist'[row.id].row = {Entry(row.id, row.seq, row.prev, row.payload)}
          /\ row.payload \in Payloads
      BY <1>4, <1>5, <1>7
    <2>3. \A v \in hist'[row.id].before : v \in Writers /\ wr'[v].pc = "done"
      BY <1>4, <1>5, <1>9
    <2>4. QED BY <1>5, <2>1, <2>2, <2>3 DEF Written
  <1>11. QED BY <1>1, <1>2, <1>3, <1>4, <1>5, <1>6, <1>10

\* The rows a commit leaves: those that were there, and one that follows them all.
LEMMA CommitKeeps ==
  ASSUME NEW w \in Writers, IInv, CarriesPayload, EvidenceInv, hist = [v \in Writers |-> hist[v]],
         engine = "postgres", Commit(w)
  PROVE  EvidenceInv'
  <1>1. PICK row : row = Entry(w, wr[w].seq, wr[w].prev, wr[w].payload)
    OBVIOUS
  <1>2. /\ log' = log \cup {row}
        /\ row.id = w /\ row.seq = wr[w].seq /\ row.prev = wr[w].prev
        /\ Written(row)'
        /\ hist'[w].before = {e.id : e \in log}
        /\ \A v \in Writers : v # w => hist'[v] = hist[v] /\ wr'[v] = wr[v] /\ wr[v].pc # "hashed"
        /\ wr[w].pc = "hashed" /\ wr'[w].pc = "done"
    BY <1>1, CommitShape
  <1>3. Knows(w) /\ (\A e \in log : Written(e)) /\ (\A e, f \in log : InOrder(e, f)) /\ Complete
    BY <1>2 DEF EvidenceInv
  <1>4. ASSUME NEW e \in log
        PROVE  /\ e.id \in Writers /\ e.id # w /\ hist'[e.id] = hist[e.id] /\ e.seq \in Nat
               /\ \A v \in hist[e.id].before : v \in Writers /\ v # w /\ hist'[v] = hist[v]
    BY <1>2, <1>3 DEF Written
  <1>5. ASSUME NEW e \in log PROVE Written(e)'
    <2>1. Written(e)
      BY <1>3
    <2>2. e.id # w /\ hist'[e.id] = hist[e.id] /\ wr'[e.id] = wr[e.id]
      BY <1>2, <1>4
    <2>3. ASSUME NEW v \in hist[e.id].before PROVE v \in Writers /\ wr'[v].pc = "done"
      <3>1. v \in Writers /\ v # w /\ wr[v].pc = "done"
        BY <1>4, <2>1, <2>3 DEF Written
      <3>2. QED BY <1>2, <3>1
    <2>4. QED BY <2>1, <2>2, <2>3 DEF Written
  <1>6. row.seq \in Nat /\ \A e \in log : e.seq < row.seq
    BY <1>2, <1>3 DEF Knows
  <1>7. ASSUME NEW e \in log', NEW f \in log' PROVE InOrder(e, f)'
    <2>1. CASE e \in log /\ f \in log
      BY <1>3, <1>4, <2>1 DEF InOrder
    <2>2. CASE e \in log /\ f = row
      BY <1>2, <1>4, <1>6, <2>2 DEF InOrder
    <2>3. CASE e = row /\ f \in log
      BY <1>4, <1>6, <2>3 DEF InOrder
    <2>4. CASE e = row /\ f = row
      BY <1>6, <2>4 DEF InOrder
    <2>5. QED BY <1>2, <2>1, <2>2, <2>3, <2>4
  <1>8. ASSUME NEW rows \in SUBSET log', verify_chain(rows),
               NEW e \in rows, NEW v \in hist'[e.id].before
        PROVE  hist'[v].row \subseteq rows
    <2>1. CASE row \notin rows
      <3>1. rows \in SUBSET log /\ e \in log
        BY <1>2, <2>1
      <3>2. v \in hist[e.id].before /\ hist'[v] = hist[v]
        BY <1>4, <1>8, <3>1
      <3>3. QED BY <1>3, <1>8, <3>1, <3>2 DEF Complete
    <2>2. CASE row \in rows
      <3> DEFINE rest == rows \ {row}
      <3>1. rest \in SUBSET log
        BY <1>2
      <3>2. \A f \in rest : f.seq < row.seq
        BY <1>6, <3>1
      <3>3. \A f \in rows : f.seq \in Nat
        BY <1>2, <1>4, <1>6
      <3>4. verify_chain(rest) /\ (row.prev = Genesis \/ \E f \in rest : row.prev = f.hash)
        BY <1>8, <2>2, <3>2, <3>3, WithoutLast
      <3>5. ASSUME NEW f \in rest, NEW u \in hist[f.id].before
            PROVE  hist'[u].row \subseteq rest
        <4>1. hist[u].row \subseteq rest
          BY <1>3, <3>1, <3>4 DEF Complete
        <4>2. hist'[u] = hist[u]
          BY <1>4, <3>1
        <4>3. QED BY <4>1, <4>2
      <3>6. CASE e # row
        <4>1. e \in rest /\ hist'[e.id] = hist[e.id]
          BY <1>4, <3>1, <3>6
        <4>2. QED BY <1>8, <3>5, <4>1
      <3>7. CASE e = row
        <4>1. PICK g \in log : g.id = v
          BY <1>2, <1>8, <3>7
        <4>2. row.prev # Genesis
          BY <1>2, <1>3, <4>1 DEF Knows
        <4>3. PICK f \in rest : row.prev = f.hash
          BY <3>4, <4>2
        <4>4. g = f \/ v \in hist[f.id].before
          BY <1>2, <1>3, <3>1, <4>1, <4>3 DEF Knows
        <4>5. CASE v \in hist[f.id].before
          BY <3>5, <4>5
        <4>6. CASE g = f
          <5>1. Written(f) /\ f.hash = compute_entry_hash(f.seq, f.prev, f.payload)
            BY <1>3, <3>1, <3>4 DEF verify_chain
          <5>2. PICK p \in Payloads : /\ f.hash = compute_entry_hash(f.seq, f.prev, p)
                                      /\ hist[f.id].row = {Entry(f.id, f.seq, f.prev, p)}
            BY <5>1 DEF Written
          <5>3. p = f.payload
            BY <5>1, <5>2 DEF compute_entry_hash
          <5>4. f = Entry(f.id, f.seq, f.prev, f.payload)
            BY <5>1 DEF Written, Entry
          <5>5. hist[v].row = {f} /\ f \in rows
            BY <4>1, <4>6, <5>2, <5>3, <5>4
          <5>6. hist'[v] = hist[v]
            BY <1>4, <4>1
          <5>7. QED BY <5>5, <5>6
        <4>7. QED BY <4>4, <4>5, <4>6
      <3>8. QED BY <3>6, <3>7
    <2>3. QED BY <2>1, <2>2
  <1>9. \A v \in Writers : wr'[v].pc # "hashed"
    BY <1>2
  <1>10. QED
    BY <1>2, <1>5, <1>7, <1>8, <1>9 DEF EvidenceInv, Complete

\* Rows that somebody altered do not verify, and rows that somebody removed are
\* fewer: what is left was covered before.
LEMMA TamperKeeps ==
  ASSUME EvidenceInv, engine = "postgres", Tamper, UNCHANGED <<engine, wr, hist>>
  PROVE  EvidenceInv'
  <1>1. (\A e \in log : Written(e)) /\ (\A e, f \in log : InOrder(e, f)) /\ Complete
    BY DEF EvidenceInv
  <1>2. PICK x \in log : Remove(x) \/ Alter(x)
    BY DEF Tamper
  <1>3. PICK y : y = [x EXCEPT !.payload = Altered]
    OBVIOUS
  <1>4. log' \subseteq (log \ {x}) \cup {y}
    BY <1>2, <1>3 DEF Remove, Alter
  <1>5. y = [id |-> x.id, seq |-> x.seq, prev |-> x.prev, payload |-> Altered, hash |-> x.hash]
    BY <1>1, <1>3 DEF Written
  <1>6. ASSUME NEW e \in log' PROVE Written(e)'
    <2>1. CASE e \in log
      BY <1>1, <2>1 DEF Written
    <2>2. CASE e = y
      <3>1. Written(y)
        BY <1>1, <1>5 DEF Written
      <3>2. QED BY <2>2, <3>1 DEF Written
    <2>3. QED BY <1>4, <2>1, <2>2
  <1>7. ASSUME NEW e \in log', NEW f \in log' PROVE InOrder(e, f)'
    <2>1. ASSUME NEW g \in log', g # y PROVE g \in log /\ g # x
      BY <1>4, <2>1
    <2>2. CASE e # y /\ f # y
      BY <1>1, <2>1, <2>2 DEF InOrder
    <2>3. CASE e # y /\ f = y
      BY <1>1, <1>5, <2>1, <2>3 DEF InOrder
    <2>4. CASE e = y /\ f # y
      BY <1>1, <1>5, <2>1, <2>4 DEF InOrder
    <2>5. CASE e = y /\ f = y
      BY <1>1, <1>5, <2>5 DEF InOrder, Written
    <2>6. QED BY <2>2, <2>3, <2>4, <2>5
  <1>8. ASSUME NEW w \in Writers, wr'[w].pc = "hashed" PROVE Knows(w)'
    <2>1. Knows(w)
      BY <1>8 DEF EvidenceInv
    <2>2. ASSUME NEW g \in log'
          PROVE  \E h \in log : /\ h.id = g.id /\ h.seq = g.seq /\ h.hash = g.hash
                                /\ (g # y => h = g) /\ (g = y => h = x)
      BY <1>4, <1>5
    <2>3. \A f \in log' : f.seq < wr[w].seq
      BY <2>1, <2>2 DEF Knows
    <2>4. wr[w].prev = Genesis => log' = {}
      BY <2>1, <2>2 DEF Knows
    <2>5. ASSUME NEW f \in log', NEW g \in log', f.hash = wr[w].prev
          PROVE  g = f \/ g.id \in hist[f.id].before
      <3>1. PICK fo \in log : /\ fo.id = f.id /\ fo.hash = f.hash
                              /\ (f # y => fo = f) /\ (f = y => fo = x)
        BY <2>2
      <3>2. PICK go \in log : /\ go.id = g.id /\ (g # y => go = g) /\ (g = y => go = x)
        BY <2>2
      <3>3. go = fo \/ go.id \in hist[fo.id].before
        BY <2>1, <2>5, <3>1 DEF Knows
      <3>4. go = fo => g = f
        <4>1. \A h \in log' : h # y => h # x
          BY <1>4
        <4>2. QED BY <3>1, <3>2, <4>1
      <3>5. QED BY <3>1, <3>2, <3>3, <3>4
    <2>6. QED BY <2>1, <2>3, <2>4, <2>5 DEF Knows
  <1>9. ASSUME NEW rows \in SUBSET log', verify_chain(rows) PROVE rows \in SUBSET log
    <2>1. y \notin rows
      <3>1. SUFFICES ASSUME y \in rows PROVE FALSE
        OBVIOUS
      <3>2. y.hash = compute_entry_hash(y.seq, y.prev, Altered)
        BY <1>5, <1>9, <3>1 DEF verify_chain
      <3>3. PICK p \in Payloads : x.hash = compute_entry_hash(x.seq, x.prev, p)
        BY <1>1 DEF Written
      <3>4. p = Altered
        BY <1>5, <3>2, <3>3, HashesDiffer
      <3>5. QED BY <3>4, ChainAssumption
    <2>2. QED BY <1>4, <2>1
  <1>10. Complete'
    BY <1>1, <1>9 DEF Complete
  <1>11. QED
    BY <1>6, <1>7, <1>8, <1>10 DEF EvidenceInv

\* Every step keeps what the log shows.
LEMMA EvidenceKeeps ==
  ASSUME IInv, CarriesPayload, EvidenceInv, hist = [v \in Writers |-> hist[v]], [Next]_vars
  PROVE  EvidenceInv'
  <1> SUFFICES ASSUME engine' = "postgres" PROVE EvidenceInv'
    BY DEF EvidenceInv
  <1>1. engine = "postgres"
    BY DEF Next, vars, Write, Client, Tamper, Local, Forward, Arrive, Lock,
       LockTimeout, ReadLast, Commit, Unlock, Answer, GiveUp, LoseConnection,
       Restart, Alter, Remove
  <1>2. (\A e \in log : Written(e)) /\ (\A e, f \in log : InOrder(e, f)) /\ Complete
    BY <1>1 DEF EvidenceInv
  <1>3. ASSUME UNCHANGED <<log, hist>>,
               \A v \in Writers : wr[v].pc = "done" => wr'[v].pc = "done"
        PROVE  /\ \A e \in log' : Written(e)'
               /\ \A e, f \in log' : InOrder(e, f)'
               /\ Complete'
    <2>1. ASSUME NEW e \in log PROVE Written(e)'
      BY <1>2, <1>3 DEF Written
    <2>2. QED BY <1>2, <1>3, <2>1 DEF InOrder, Complete
  <1>4. CASE Elsewhere
    <2>1. \A v \in Writers : wr'[v].pc = "hashed" => wr[v].pc = "hashed" /\ Knows(v)'
      BY <1>1, <1>4 DEF Elsewhere, EvidenceInv, Knows
    <2>2. QED BY <1>3, <1>4, <2>1 DEF Elsewhere, EvidenceInv
  <1>5. ASSUME NEW w \in Writers, ReadLast(w) PROVE EvidenceInv'
    <2>1. Moves(w, "hashed") /\ UNCHANGED <<log, hist>> /\ wr[w].pc = "inside"
      BY <1>5, Steps DEF IInv, ReadLast
    <2>2. \A v \in Writers : wr[v].pc = "done" => wr'[v].pc = "done"
      BY <2>1 DEF Moves
    <2>3. \A v \in Writers : wr'[v].pc = "hashed" => Knows(v)'
      <3>1. Knows(w)'
        BY <1>1, <1>5, ReaderKnows
      <3>2. \A v \in Writers : v # w /\ wr'[v].pc = "hashed" => Knows(v)'
        BY <1>1, <2>1 DEF Moves, EvidenceInv, Knows
      <3>3. QED BY <3>1, <3>2
    <2>4. QED BY <1>3, <2>1, <2>2, <2>3 DEF EvidenceInv
  <1>6. QED
    BY <1>1, <1>4, <1>5, LogSteps, CommitKeeps, TamperKeeps

\* The history has an entry per writer.
LEMMA HistKeeps ==
  ASSUME hist = [v \in Writers |-> hist[v]], [Next]_vars
  PROVE  hist' = [v \in Writers |-> hist'[v]]
  <1>1. UNCHANGED hist \/ \E w \in Writers : AppendRow(w)
    BY DEF Next, vars, Write, Client, Tamper, Local, Forward, Arrive, Lock,
       LockTimeout, ReadLast, Commit, Unlock, Answer, GiveUp, LoseConnection,
       Restart, Alter, Remove
  <1>2. QED BY <1>1 DEF AppendRow

\* audithash.verify_chain over what log_action wrote: on Postgres, however many
\* rows were altered or removed behind the application, a log that verifies has,
\* unaltered, every row that was there when one of its rows was written.
THEOREM EvidenceSafe == Spec => []EvidenceComplete
  <1> DEFINE Evident == /\ CarriesPayload /\ EvidenceInv
                        /\ hist = [v \in Writers |-> hist[v]]
  <1>1. Init => Evident
    BY DEF Init, Left, CarriesPayload, EvidenceInv, Complete
  <1>2. IInv /\ Evident /\ [Next]_vars => Evident'
    BY PayloadKeeps, EvidenceKeeps, HistKeeps
  <1>3. Evident => EvidenceComplete
    BY DEF EvidenceInv, Complete, EvidenceComplete
  <1> HIDE DEF Evident
  <1>4. QED BY <1>1, <1>2, <1>3, InitInv, InvKeeps, PTL DEF Spec
=============================================================================
