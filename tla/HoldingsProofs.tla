--------------------------- MODULE HoldingsProofs ---------------------------
(***************************************************************************)
(* Proofs about what the services keep, for any number of requests, runs,  *)
(* hosts, zones, sessions, targets, streams and rules, and any bounds:     *)
(* secrets are kept (Vault, Accounts), the inventory agrees (Assets,       *)
(* Zones), data arrives (Recordings, LogShipper), the quarantined services *)
(* hold (PlaybookJob, IdlePool, AlertRules, LaunchToken).  The ten take    *)
(* their steps one beside the other, as MCHoldings composes them.          *)
(***************************************************************************)
EXTENDS MCHoldings, Sequences, FiniteSetTheorems, TLAPS

(***************************************************************************)
(* Vault                                                                   *)
(***************************************************************************)
PutRecords == [phase : {"off", "read", "stale", "gone"}, was : VA!Rows]

\* An envelope's ciphertext is under its own data key.
Sealed(r) == r.dek # 0 => r.sealed = r.dek

RowsTyped ==
  /\ DOMAIN va_rows \subseteq 1..(va_writes + 2)
  /\ \A i \in DOMAIN va_rows : va_rows[i] \in VA!Rows

ReadTyped ==
  va_tool.phase = "read" =>
    /\ DOMAIN va_tool.rows \subseteq 1..(va_writes + 2)
    /\ \A i \in DOMAIN va_tool.rows : va_tool.rows[i] \in VA!Rows

VaultTyped ==
  /\ RowsTyped /\ ReadTyped
  /\ va_key \in {1, 2} /\ va_writes \in 0..MaxPuts
  /\ va_tool = [phase |-> va_tool.phase, rows |-> va_tool.rows]
  /\ va_tool.phase \in VA!ToolPhases
  /\ va_put \in [Caller -> PutRecords]
  /\ va_dropped \in [secret : 0..MaxPuts, crossed : BOOLEAN]

\* A rotation that no write has crossed holds the row as it is.
PutFollows(p) ==
  /\ va_put[p].phase \in {"read", "stale"} => 1 \in DOMAIN va_rows
  /\ va_put[p].phase = "read" => va_put[p].was = va_rows[1]

\* Until the tool writes, every envelope is whole.
SoundUntilWritten ==
  va_tool.phase \in {"off", "read"} =>
    /\ \A i \in DOMAIN va_rows : Sealed(va_rows[i])
    /\ \A p \in Caller : Sealed(va_put[p].was)

\* What the tool has read is what is stored, but for the strays; an archived
\* row is never written again.
ToolSees ==
  va_tool.phase = "read" =>
    /\ \A i \in DOMAIN va_tool.rows : Sealed(va_tool.rows[i])
    /\ \A i \in DOMAIN va_rows \ va_strays : i \in DOMAIN va_tool.rows /\ va_rows[i] = va_tool.rows[i]
    /\ \A i \in DOMAIN va_rows \cap DOMAIN va_tool.rows :
         i \notin {1, 2} => va_rows[i] = va_tool.rows[i]

Readable ==
  va_tool.phase \in {"written", "complete"} =>
    \A i \in DOMAIN va_rows \ va_strays : VA!Opens(va_rows[i], 2)

PriorKept ==
  ~va_dropped.crossed =>
    \E i \in DOMAIN va_rows : i \notin {1, 2} /\ va_rows[i].secret = va_dropped.secret

VaultInv ==
  /\ VaultTyped
  /\ \A p \in Caller : PutFollows(p)
  /\ SoundUntilWritten /\ ToolSees /\ Readable /\ PriorKept

LEMMA VaultBounds == MaxPuts \in Nat /\ MaxPuts # 0 /\ Keep \in Nat /\ Keep # 0
  BY HoldingsAssumption

LEMMA RowShapes ==
  /\ \A r \in VA!Rows : /\ r.secret \in 0..MaxPuts /\ r.sealed \in 1..(MaxPuts + 2)
                        /\ r.dek \in 0..(MaxPuts + 2) /\ r.under \in 0..2
  /\ VA!LegacyRow(0) \in VA!Rows /\ VA!LegacyRow(0).dek = 0
  BY VaultBounds DEF VA!Rows, VA!LegacyRow, VA!OldKey

LEMMA EnvelopeShape ==
  ASSUME VaultTyped, NEW s \in 0..MaxPuts, NEW n \in 0..MaxPuts
  PROVE  LET r == VA!Envelope(s, n)
         IN r \in VA!Rows /\ Sealed(r) /\ r.secret = s /\ (va_key = 2 => VA!Opens(r, 2))
  BY VaultBounds DEF VaultTyped, VA!Envelope, VA!Rows, Sealed, VA!Opens

LEMMA VaultInit == VA!Init => VaultInv
  <1> SUFFICES ASSUME VA!Init PROVE VaultInv
    OBVIOUS
  <1>1. /\ DOMAIN va_rows = {1, 2} /\ va_rows[1] = VA!LegacyRow(0)
        /\ va_rows[2] = [secret |-> 1, sealed |-> 3, dek |-> 3, under |-> 1]
        /\ va_writes = 1 /\ va_key = 1
    BY DEF VA!Init, VA!Cred, VA!Tmpl, VA!OldKey
  <1>2. va_rows[2] \in VA!Rows
    BY <1>1, VaultBounds DEF VA!Rows
  <1>3. /\ va_tool = [phase |-> "off", rows |-> <<>>] /\ va_tool.phase = "off"
        /\ va_put = [p \in Caller |-> [phase |-> "off", was |-> VA!LegacyRow(0)]]
        /\ va_dropped = [secret |-> 0, crossed |-> TRUE]
    BY DEF VA!Init
  <1>4. va_put \in [Caller -> PutRecords] /\ va_dropped \in [secret : 0..MaxPuts, crossed : BOOLEAN]
    BY <1>3, RowShapes, VaultBounds DEF PutRecords
  <1>5. va_tool = [phase |-> va_tool.phase, rows |-> va_tool.rows]
    BY <1>3
  <1>6. VaultTyped
    BY <1>1, <1>2, <1>3, <1>4, <1>5, RowShapes, VaultBounds
       DEF VaultTyped, RowsTyped, ReadTyped, VA!ToolPhases
  <1>7. \A p \in Caller : PutFollows(p) /\ Sealed(va_put[p].was)
    BY <1>3, RowShapes DEF PutFollows, Sealed
  <1>8. SoundUntilWritten
    BY <1>1, <1>7, RowShapes DEF SoundUntilWritten, Sealed
  <1>9. ToolSees /\ Readable /\ PriorKept
    BY <1>3 DEF ToolSees, Readable, PriorKept
  <1>10. QED BY <1>6, <1>7, <1>8, <1>9 DEF VaultInv

\* What is marked, and what is not.
LEMMA MarkedShape ==
  ASSUME VaultInv, NEW ids
  PROVE  /\ \A i \in ids : i \notin VA!Marked(ids) =>
              va_tool.phase # "read" /\ (va_tool.phase # "off" => va_key = 2)
         /\ \A i : i \notin ids => (i \in VA!Marked(ids) <=> i \in va_strays)
  BY DEF VA!Marked, VA!OldKey, VaultInv, VaultTyped

\* The service writes some rows, which it marks for the tool, or leaves readable.
LEMMA ServiceWrites ==
  ASSUME VaultInv, NEW ids, RowsTyped', va_tool' = va_tool, va_key' = va_key,
         va_writes' \in 0..MaxPuts, va_writes <= va_writes',
         \A i \in DOMAIN va_rows' : i \notin ids => i \in DOMAIN va_rows /\ va_rows'[i] = va_rows[i],
         \A i \in ids : i \in {1, 2} \/ i \notin 1..(va_writes + 2),
         \A i \in ids : i \in DOMAIN va_rows' /\ va_tool.phase \in {"off", "read"} => Sealed(va_rows'[i]),
         \A i \in ids : i \in DOMAIN va_rows' /\ i \notin va_strays' =>
           /\ va_tool.phase # "read"
           /\ va_tool.phase \in {"written", "complete"} => VA!Opens(va_rows'[i], 2),
         \A i \in DOMAIN va_rows' : i \notin ids /\ i \notin va_strays' => i \notin va_strays,
         va_put' \in [Caller -> PutRecords],
         \A p \in Caller : va_put'[p].was = va_put[p].was \/ va_put'[p].was.dek = 0
                           \/ (va_tool.phase \in {"off", "read"} => Sealed(va_put'[p].was)),
         va_dropped' \in [secret : 0..MaxPuts, crossed : BOOLEAN]
  PROVE  VaultTyped' /\ SoundUntilWritten' /\ ToolSees' /\ Readable'
  <1>1. VaultTyped'
    <2>1. ReadTyped'
      <3>1. \A i \in 1..(va_writes + 2) : i \in 1..(va_writes' + 2)
        BY DEF VaultInv, VaultTyped
      <3>2. QED BY <3>1 DEF VaultInv, VaultTyped, ReadTyped
    <2>2. QED BY <2>1 DEF VaultInv, VaultTyped
  <1>2. SoundUntilWritten'
    BY DEF VaultInv, SoundUntilWritten, Sealed
  <1>3. ToolSees'
    <2>1. SUFFICES ASSUME va_tool.phase = "read"
                   PROVE  /\ \A i \in DOMAIN va_tool.rows : Sealed(va_tool.rows[i])
                          /\ \A i \in DOMAIN va_rows' \ va_strays' :
                               i \in DOMAIN va_tool.rows /\ va_rows'[i] = va_tool.rows[i]
                          /\ \A i \in DOMAIN va_rows' \cap DOMAIN va_tool.rows :
                               i \notin {1, 2} => va_rows'[i] = va_tool.rows[i]
      BY DEF ToolSees
    <2>2. /\ \A i \in DOMAIN va_tool.rows : Sealed(va_tool.rows[i])
          /\ \A i \in DOMAIN va_rows \ va_strays :
               i \in DOMAIN va_tool.rows /\ va_rows[i] = va_tool.rows[i]
          /\ \A i \in DOMAIN va_rows \cap DOMAIN va_tool.rows :
               i \notin {1, 2} => va_rows[i] = va_tool.rows[i]
      BY <2>1 DEF VaultInv, ToolSees
    <2>3. DOMAIN va_tool.rows \subseteq 1..(va_writes + 2)
      BY <2>1 DEF VaultInv, VaultTyped, ReadTyped
    <2>4. \A i \in DOMAIN va_rows' \ va_strays' :
            i \in DOMAIN va_tool.rows /\ va_rows'[i] = va_tool.rows[i]
      BY <2>1, <2>2
    <2>5. ASSUME NEW i \in DOMAIN va_rows', i \in DOMAIN va_tool.rows, i \notin {1, 2}
          PROVE  va_rows'[i] = va_tool.rows[i]
      BY <2>2, <2>3, <2>5
    <2>6. QED BY <2>2, <2>4, <2>5
  <1>4. Readable'
    BY DEF VaultInv, Readable
  <1>5. QED BY <1>1, <1>2, <1>3, <1>4

\* The archive stays, and so does the secret the last rotation replaced.
LEMMA PriorStays ==
  ASSUME VaultInv,
         va_dropped'.crossed
           \/ /\ va_dropped' = va_dropped
              /\ \A i \in DOMAIN va_rows : i \notin {1, 2} =>
                   i \in DOMAIN va_rows' /\ va_rows'[i].secret = va_rows[i].secret
  PROVE  PriorKept'
  BY DEF VaultInv, PriorKept

LEMMA OneWritten ==
  ASSUME VaultInv, NEW id \in {1, 2}, NEW s \in 0..MaxPuts, va_writes < MaxPuts,
         va_writes' = va_writes + 1, va_rows' = VA!With(id, VA!Envelope(s, va_writes + 1)),
         va_strays' = VA!Marked({id}), va_tool' = va_tool, va_key' = va_key,
         va_put' \in [Caller -> PutRecords],
         \A p \in Caller : va_put'[p].was = va_put[p].was,
         va_dropped' \in [secret : 0..MaxPuts, crossed : BOOLEAN],
         va_dropped'.crossed \/ va_dropped' = va_dropped
  PROVE  /\ VaultTyped' /\ SoundUntilWritten' /\ ToolSees' /\ Readable' /\ PriorKept'
         /\ id \in DOMAIN va_rows' /\ DOMAIN va_rows \subseteq DOMAIN va_rows'
         /\ \A i \in DOMAIN va_rows : i # id => va_rows'[i] = va_rows[i]
  <1>1. PICK n \in 0..MaxPuts : n = va_writes + 1
    BY VaultBounds DEF VaultInv, VaultTyped
  <1>2. PICK r : r = VA!Envelope(s, n)
    OBVIOUS
  <1>3. r \in VA!Rows /\ Sealed(r) /\ (va_key = 2 => VA!Opens(r, 2))
    BY <1>2, EnvelopeShape DEF VaultInv
  <1>4. /\ DOMAIN va_rows' = DOMAIN va_rows \cup {id} /\ va_rows'[id] = r
        /\ \A i \in DOMAIN va_rows : i # id => va_rows'[i] = va_rows[i]
    BY <1>1, <1>2 DEF VA!With
  <1>5. RowsTyped'
    <2>1. DOMAIN va_rows' \subseteq 1..(va_writes' + 2)
      BY <1>1, <1>4 DEF VaultInv, VaultTyped, RowsTyped
    <2>2. \A i \in DOMAIN va_rows' : va_rows'[i] \in VA!Rows
      BY <1>3, <1>4 DEF VaultInv, VaultTyped, RowsTyped
    <2>3. QED BY <2>1, <2>2 DEF RowsTyped
  <1>6. /\ id \notin va_strays' => va_tool.phase # "read" /\ (va_tool.phase # "off" => va_key = 2)
        /\ \A i : i # id => (i \in va_strays' <=> i \in va_strays)
    BY MarkedShape
  <1>7. VaultTyped' /\ SoundUntilWritten' /\ ToolSees' /\ Readable'
    <2>1. PICK ids : ids = {id}
      OBVIOUS
    <2>2. va_writes' \in 0..MaxPuts /\ va_writes <= va_writes'
      BY <1>1 DEF VaultInv, VaultTyped
    <2>3. \A i \in DOMAIN va_rows' : i \notin ids => i \in DOMAIN va_rows /\ va_rows'[i] = va_rows[i]
      BY <1>4, <2>1
    <2>4. \A i \in ids : /\ i \in {1, 2}
                         /\ Sealed(va_rows'[i])
                         /\ i \notin va_strays' => /\ va_tool.phase # "read"
                                                   /\ va_tool.phase \in {"written", "complete"} =>
                                                        VA!Opens(va_rows'[i], 2)
      BY <1>3, <1>4, <1>6, <2>1
    <2>5. \A i : i \notin ids /\ i \notin va_strays' => i \notin va_strays
      BY <1>6, <2>1
    <2>6. QED BY <1>5, <2>2, <2>3, <2>4, <2>5, ServiceWrites
  <1>8. PriorKept'
    BY <1>4, PriorStays
  <1>9. QED BY <1>4, <1>7, <1>8

\* Rotations that have read the row are crossed.
LEMMA CrossedShape ==
  ASSUME VaultInv
  PROVE  /\ VA!Crossed \in [Caller -> PutRecords]
         /\ \A p \in Caller : /\ VA!Crossed[p].was = va_put[p].was
                              /\ VA!Crossed[p].phase # "read"
                              /\ VA!Crossed[p].phase = "stale" => va_put[p].phase \in {"read", "stale"}
  <1>1. ASSUME NEW p \in Caller
        PROVE  LET k == IF va_put[p].phase = "read" THEN [va_put[p] EXCEPT !.phase = "stale"] ELSE va_put[p]
               IN /\ k \in PutRecords /\ k.was = va_put[p].was /\ k.phase # "read"
                  /\ k.phase = "stale" => va_put[p].phase \in {"read", "stale"}
    <2>1. va_put[p] \in PutRecords
      BY DEF VaultInv, VaultTyped
    <2>2. QED BY <2>1 DEF PutRecords
  <1>2. QED BY <1>1 DEF VA!Crossed

LEMMA CredentialsKeep ==
  ASSUME VaultInv, VA!CreateCredential \/ VA!CreateFromTemplate
  PROVE  VaultInv'
  <1>1. /\ 1 \notin DOMAIN va_rows /\ va_writes < MaxPuts /\ va_writes' = va_writes + 1
        /\ va_strays' = VA!Marked({1}) /\ va_tool' = va_tool /\ va_key' = va_key
        /\ va_put' = va_put /\ va_dropped' = va_dropped
    BY DEF VA!CreateCredential, VA!CreateFromTemplate, VA!Write, VA!Cred
  <1>2. PICK s \in 0..MaxPuts : va_rows' = VA!With(1, VA!Envelope(s, va_writes + 1))
    <2>1. CASE VA!CreateCredential
      <3>1. va_writes + 1 \in 0..MaxPuts
        BY <1>1, VaultBounds DEF VaultInv, VaultTyped
      <3>2. QED BY <2>1, <3>1 DEF VA!CreateCredential, VA!Write, VA!Cred
    <2>2. CASE VA!CreateFromTemplate
      <3>1. va_rows[2].secret \in 0..MaxPuts
        BY <2>2, RowShapes DEF VA!CreateFromTemplate, VA!Tmpl, VaultInv, VaultTyped, RowsTyped
      <3>2. QED BY <2>2, <3>1 DEF VA!CreateFromTemplate, VA!Tmpl, VA!Cred
    <2>3. QED BY <2>1, <2>2
  <1>3. VaultTyped' /\ SoundUntilWritten' /\ ToolSees' /\ Readable' /\ PriorKept'
    <2>1. va_put' \in [Caller -> PutRecords] /\ va_dropped' \in [secret : 0..MaxPuts, crossed : BOOLEAN]
      BY <1>1 DEF VaultInv, VaultTyped
    <2>2. QED BY <1>1, <1>2, <2>1, OneWritten
  <1>4. \A p \in Caller : PutFollows(p)'
    BY <1>1 DEF VaultInv, PutFollows
  <1>5. QED BY <1>3, <1>4 DEF VaultInv

LEMMA TemplatesKeep ==
  ASSUME VaultInv, VA!WriteTemplate
  PROVE  VaultInv'
  <1>1. /\ va_writes < MaxPuts /\ va_writes' = va_writes + 1
        /\ va_rows' = VA!With(2, VA!Envelope(va_writes + 1, va_writes + 1))
        /\ va_strays' = VA!Marked({2}) /\ va_tool' = va_tool /\ va_key' = va_key
        /\ va_put' = va_put /\ va_dropped' = va_dropped
    BY DEF VA!WriteTemplate, VA!Write, VA!Tmpl
  <1>2. PICK s \in 0..MaxPuts : s = va_writes + 1
    BY <1>1, VaultBounds DEF VaultInv, VaultTyped
  <1>3. va_put' \in [Caller -> PutRecords] /\ va_dropped' \in [secret : 0..MaxPuts, crossed : BOOLEAN]
    BY <1>1 DEF VaultInv, VaultTyped
  <1>4. /\ VaultTyped' /\ SoundUntilWritten' /\ ToolSees' /\ Readable' /\ PriorKept'
        /\ DOMAIN va_rows \subseteq DOMAIN va_rows'
        /\ \A i \in DOMAIN va_rows : i # 2 => va_rows'[i] = va_rows[i]
    BY <1>1, <1>2, <1>3, OneWritten
  <1>5. \A p \in Caller : PutFollows(p)'
    BY <1>1, <1>4 DEF VaultInv, PutFollows
  <1>6. QED BY <1>4, <1>5 DEF VaultInv

LEMMA CredentialEditsKeep ==
  ASSUME VaultInv, VA!UpdateCredential
  PROVE  VaultInv'
  <1>1. /\ va_writes < MaxPuts /\ va_writes' = va_writes + 1
        /\ va_rows' = VA!With(1, VA!Envelope(va_writes + 1, va_writes + 1))
        /\ va_strays' = VA!Marked({1}) /\ va_tool' = va_tool /\ va_key' = va_key
        /\ va_put' = VA!Crossed /\ va_dropped' = [va_dropped EXCEPT !.crossed = TRUE]
    BY DEF VA!UpdateCredential, VA!Write, VA!Cred
  <1>2. PICK s \in 0..MaxPuts : s = va_writes + 1
    BY <1>1, VaultBounds DEF VaultInv, VaultTyped
  <1>3. va_dropped' \in [secret : 0..MaxPuts, crossed : BOOLEAN] /\ va_dropped'.crossed
    BY <1>1 DEF VaultInv, VaultTyped
  <1>4. /\ VaultTyped' /\ SoundUntilWritten' /\ ToolSees' /\ Readable' /\ PriorKept'
        /\ 1 \in DOMAIN va_rows'
    BY <1>1, <1>2, <1>3, CrossedShape, OneWritten
  <1>5. \A p \in Caller : PutFollows(p)'
    BY <1>1, <1>4, CrossedShape DEF PutFollows
  <1>6. QED BY <1>4, <1>5 DEF VaultInv

\* Rows are deleted, others stay.
LEMMA RowsGo ==
  ASSUME VaultInv, NEW ids, va_rows' = VA!Without(ids), va_strays' = va_strays,
         va_tool' = va_tool, va_key' = va_key, va_writes' = va_writes,
         va_put' \in [Caller -> PutRecords], \A p \in Caller : va_put'[p].was = va_put[p].was,
         va_dropped' \in [secret : 0..MaxPuts, crossed : BOOLEAN]
  PROVE  /\ VaultTyped' /\ SoundUntilWritten' /\ ToolSees' /\ Readable'
         /\ DOMAIN va_rows' = DOMAIN va_rows \ ids
         /\ \A i \in DOMAIN va_rows \ ids : va_rows'[i] = va_rows[i]
  <1>1. /\ DOMAIN va_rows' = DOMAIN va_rows \ ids
        /\ \A i \in DOMAIN va_rows \ ids : va_rows'[i] = va_rows[i]
    BY DEF VA!Without
  <1>2. RowsTyped'
    BY <1>1 DEF VaultInv, VaultTyped, RowsTyped
  <1>3. VaultTyped' /\ SoundUntilWritten' /\ ToolSees' /\ Readable'
    <2>1. PICK none : none = {}
      OBVIOUS
    <2>2. va_writes' \in 0..MaxPuts /\ va_writes <= va_writes'
      BY DEF VaultInv, VaultTyped
    <2>3. \A i \in DOMAIN va_rows' : i \in DOMAIN va_rows /\ va_rows'[i] = va_rows[i]
      BY <1>1
    <2>4. \A i : i \notin none
      BY <2>1
    <2>5. QED BY <1>2, <2>2, <2>3, <2>4, ServiceWrites
  <1>4. QED BY <1>1, <1>3

LEMMA DeletesKeep ==
  ASSUME VaultInv, VA!DeleteCredential
  PROVE  VaultInv'
  <1>1. PICK ids : ids = {1} \cup VA!Archived
    OBVIOUS
  <1>2. /\ va_rows' = VA!Without(ids) /\ va_strays' = va_strays
        /\ va_tool' = va_tool /\ va_key' = va_key /\ va_writes' = va_writes
        /\ va_put' = [p \in Caller |-> [va_put[p] EXCEPT
                        !.phase = IF va_put[p].phase = "off" THEN va_put[p].phase ELSE "gone"]]
        /\ va_dropped' = [va_dropped EXCEPT !.crossed = TRUE]
    BY <1>1 DEF VA!DeleteCredential, VA!Cred
  <1>3. ASSUME NEW p \in Caller
        PROVE  va_put'[p] \in PutRecords /\ va_put'[p].was = va_put[p].was
               /\ va_put'[p].phase \in {"off", "gone"}
    <2>1. va_put[p] \in PutRecords
      BY DEF VaultInv, VaultTyped
    <2>2. PICK phase \in {"off", "gone"} :
            phase = IF va_put[p].phase = "off" THEN va_put[p].phase ELSE "gone"
      OBVIOUS
    <2>3. va_put'[p] = [va_put[p] EXCEPT !.phase = phase]
      BY <1>2, <2>2
    <2>4. QED BY <2>1, <2>3 DEF PutRecords
  <1>4. va_put' \in [Caller -> PutRecords]
    <2>1. va_put' = [p \in Caller |-> va_put'[p]]
      BY <1>2
    <2>2. QED BY <1>3, <2>1
  <1>5. va_dropped' \in [secret : 0..MaxPuts, crossed : BOOLEAN] /\ va_dropped'.crossed
    BY <1>2 DEF VaultInv, VaultTyped
  <1>6. VaultTyped' /\ SoundUntilWritten' /\ ToolSees' /\ Readable'
    BY <1>2, <1>3, <1>4, <1>5, RowsGo
  <1>7. PriorKept'
    BY <1>5 DEF PriorKept
  <1>8. \A p \in Caller : PutFollows(p)'
    BY <1>3 DEF PutFollows
  <1>9. QED BY <1>6, <1>7, <1>8 DEF VaultInv

LEMMA TemplateDeletesKeep ==
  ASSUME VaultInv, VA!DeleteTemplate
  PROVE  VaultInv'
  <1>1. PICK ids : ids = {2}
    OBVIOUS
  <1>2. /\ va_rows' = VA!Without(ids) /\ va_strays' = va_strays
        /\ va_tool' = va_tool /\ va_key' = va_key /\ va_writes' = va_writes
        /\ va_put' = va_put /\ va_dropped' = va_dropped
    BY <1>1 DEF VA!DeleteTemplate, VA!Tmpl
  <1>3. va_put' \in [Caller -> PutRecords] /\ va_dropped' \in [secret : 0..MaxPuts, crossed : BOOLEAN]
    BY <1>2 DEF VaultInv, VaultTyped
  <1>4. /\ VaultTyped' /\ SoundUntilWritten' /\ ToolSees' /\ Readable'
        /\ DOMAIN va_rows' = DOMAIN va_rows \ ids
        /\ \A i \in DOMAIN va_rows \ ids : va_rows'[i] = va_rows[i]
    BY <1>2, <1>3, RowsGo
  <1>5. PriorKept'
    BY <1>1, <1>2, <1>4, PriorStays
  <1>6. \A p \in Caller : PutFollows(p)'
    BY <1>1, <1>2, <1>4 DEF VaultInv, PutFollows
  <1>7. QED BY <1>4, <1>5, <1>6 DEF VaultInv

\* A rotation reads the row, or gives up; what it holds is whole.
LEMMA PutsChange ==
  ASSUME VaultInv, NEW p \in Caller, NEW k \in PutRecords, va_put' = [va_put EXCEPT ![p] = k],
         k.was.dek = 0 \/ (1 \in DOMAIN va_rows /\ k.was = va_rows[1]),
         k.phase = "read" => 1 \in DOMAIN va_rows /\ k.was = va_rows[1], k.phase # "stale",
         va_rows' = va_rows, va_strays' = va_strays, va_dropped' = va_dropped,
         va_tool' = va_tool, va_key' = va_key, va_writes' = va_writes
  PROVE  VaultInv'
  <1>1. /\ va_put' \in [Caller -> PutRecords] /\ va_put'[p] = k
        /\ \A q \in Caller \ {p} : va_put'[q] = va_put[q]
    BY DEF VaultInv, VaultTyped
  <1>2. VaultTyped'
    BY <1>1 DEF VaultInv, VaultTyped, RowsTyped, ReadTyped
  <1>3. SoundUntilWritten'
    BY <1>1 DEF VaultInv, SoundUntilWritten, Sealed
  <1>4. ToolSees' /\ Readable' /\ PriorKept'
    BY DEF VaultInv, ToolSees, Readable, PriorKept
  <1>5. \A q \in Caller : PutFollows(q)'
    BY <1>1 DEF VaultInv, PutFollows
  <1>6. QED BY <1>2, <1>3, <1>4, <1>5 DEF VaultInv

LEMMA PutsReadKeep ==
  ASSUME VaultInv, NEW p \in Caller, VA!ReadForPut(p) \/ VA!FailPut(p)
  PROVE  VaultInv'
  <1>1. /\ va_rows' = va_rows /\ va_strays' = va_strays /\ va_dropped' = va_dropped
        /\ va_tool' = va_tool /\ va_key' = va_key /\ va_writes' = va_writes
    BY DEF VA!ReadForPut, VA!FailPut
  <1>2. CASE VA!ReadForPut(p)
    <2>1. PICK k : k = [phase |-> "read", was |-> va_rows[1]]
      OBVIOUS
    <2>2. 1 \in DOMAIN va_rows /\ va_put' = [va_put EXCEPT ![p] = k]
      BY <1>2, <2>1 DEF VA!ReadForPut, VA!Cred
    <2>3. k \in PutRecords /\ k.was = va_rows[1] /\ k.phase = "read"
      BY <2>1, <2>2 DEF PutRecords, VaultInv, VaultTyped, RowsTyped
    <2>4. QED BY <1>1, <2>2, <2>3, PutsChange
  <1>3. CASE VA!FailPut(p)
    <2>1. PICK k : k = [phase |-> "off", was |-> VA!LegacyRow(0)]
      OBVIOUS
    <2>2. va_put' = [va_put EXCEPT ![p] = k]
      BY <1>3, <2>1 DEF VA!FailPut
    <2>3. k \in PutRecords /\ k.was.dek = 0 /\ k.phase = "off"
      BY <2>1, RowShapes DEF PutRecords
    <2>4. QED BY <1>1, <2>2, <2>3, PutsChange
  <1>4. QED BY <1>2, <1>3

\* The prune keeps the row that has just been archived.
LEMMA NewestIsKept ==
  ASSUME NEW S, NEW id \in S, \A j \in S : ~(j > id)
  PROVE  id \in VA!Kept(S)
  <1>1. {j \in S : j > id} = {}
    OBVIOUS
  <1>2. VA!Cardinality({j \in S : j > id}) = 0
    BY <1>1, FS_EmptySet DEF VA!Cardinality, Cardinality
  <1>3. VA!Cardinality({j \in S : j > id}) < Keep
    BY <1>2, VaultBounds
  <1>4. QED BY <1>3 DEF VA!Kept

\* A rotation's rows: the credential is new, what it read is archived under id.
LEMMA RotatedRows ==
  ASSUME VaultInv, NEW p \in Caller, VA!FinishPut(p), NEW id, id = va_writes + 3
  PROVE  /\ 1 \in DOMAIN va_rows /\ 1 \in DOMAIN va_rows' /\ va_rows'[1] = VA!Envelope(va_writes + 1, va_writes + 1)
         /\ id \in DOMAIN va_rows' /\ va_rows'[id] = va_put[p].was
         /\ id \notin DOMAIN va_rows /\ id \in Nat /\ id \notin {1, 2}
         /\ \A i \in DOMAIN va_rows' : i \notin {1, id} => i \in DOMAIN va_rows /\ va_rows'[i] = va_rows[i]
  <1>1. PICK S : S = VA!Archived \cup {id}
    OBVIOUS
  <1>2. PICK kept : kept = VA!Kept(S)
    OBVIOUS
  <1>3. va_rows' = [i \in (DOMAIN va_rows \ VA!Archived) \cup kept |->
                      CASE i = 1 -> VA!Envelope(va_writes + 1, va_writes + 1)
                        [] i = id -> va_put[p].was
                        [] OTHER -> va_rows[i]]
    BY <1>1, <1>2 DEF VA!FinishPut, VA!Cred
  <1>4. /\ DOMAIN va_rows \subseteq 1..(va_writes + 2) /\ va_writes \in Nat
        /\ id \in Nat /\ id \notin {1, 2} /\ id \notin DOMAIN va_rows
    BY VaultBounds DEF VaultInv, VaultTyped, RowsTyped
  <1>5. id \in S /\ \A j \in S : ~(j > id)
    BY <1>1, <1>4 DEF VA!Archived
  <1>6. id \in kept /\ kept \subseteq S
    <2>1. kept \subseteq S
      BY <1>2 DEF VA!Kept
    <2>2. QED BY <1>2, <1>5, <2>1, NewestIsKept
  <1>7. 1 \in DOMAIN va_rows
    BY DEF VA!FinishPut, VaultInv, PutFollows
  <1>8. DOMAIN va_rows' = (DOMAIN va_rows \ VA!Archived) \cup kept
    BY <1>3
  <1>9. 1 \in DOMAIN va_rows'
    BY <1>7, <1>8 DEF VA!Archived, VA!Cred, VA!Tmpl
  <1>10. \A i \in DOMAIN va_rows' : i # id => i \in DOMAIN va_rows
    BY <1>1, <1>6, <1>8 DEF VA!Archived
  <1>11. /\ va_rows'[1] = VA!Envelope(va_writes + 1, va_writes + 1)
         /\ va_rows'[id] = va_put[p].was
         /\ \A i \in DOMAIN va_rows' : i \notin {1, id} => va_rows'[i] = va_rows[i]
    BY <1>3, <1>4, <1>6, <1>8, <1>9
  <1>12. QED BY <1>4, <1>6, <1>7, <1>8, <1>9, <1>10, <1>11

\* A rotation archives what it has read and overwrites the credential.
LEMMA PutsFinishKeep ==
  ASSUME VaultInv, NEW p \in Caller, VA!FinishPut(p)
  PROVE  VaultInv'
  <1>1. PICK id : id = va_writes + 3
    OBVIOUS
  <1>2. /\ va_put[p].phase \in {"read", "stale"} /\ va_writes < MaxPuts /\ va_writes' = va_writes + 1
        /\ va_strays' = VA!Marked({1, id}) \cup
                          (IF va_put[p].phase = "stale" \/ 1 \in va_strays THEN {id} ELSE {})
        /\ va_dropped' = [secret |-> va_rows[1].secret, crossed |-> va_put[p].phase = "stale"]
        /\ va_put' = [VA!Crossed EXCEPT ![p] = [phase |-> "off", was |-> VA!LegacyRow(0)]]
        /\ va_key' = va_key /\ va_tool' = va_tool
    BY <1>1 DEF VA!FinishPut, VA!Cred
  <1>3. /\ 1 \in DOMAIN va_rows /\ 1 \in DOMAIN va_rows' /\ va_rows'[1] = VA!Envelope(va_writes + 1, va_writes + 1)
        /\ id \in DOMAIN va_rows' /\ va_rows'[id] = va_put[p].was
        /\ id \notin DOMAIN va_rows /\ id \in Nat /\ id \notin {1, 2}
        /\ \A i \in DOMAIN va_rows' : i \notin {1, id} => i \in DOMAIN va_rows /\ va_rows'[i] = va_rows[i]
    BY <1>1, RotatedRows
  <1>4. PICK n \in 0..MaxPuts : n = va_writes + 1
    BY <1>2, VaultBounds DEF VaultInv, VaultTyped
  <1>5. va_rows'[1] \in VA!Rows /\ Sealed(va_rows'[1]) /\ (va_key = 2 => VA!Opens(va_rows'[1], 2))
    BY <1>3, <1>4, EnvelopeShape DEF VaultInv
  <1>6. va_put[p] \in PutRecords /\ va_put[p].was \in VA!Rows
    BY DEF VaultInv, VaultTyped, PutRecords
  <1>7. RowsTyped'
    <2>1. DOMAIN va_rows' \subseteq 1..(va_writes' + 2)
      <3>1. \A i \in DOMAIN va_rows' : i \in 1..(va_writes + 2) \/ i = id \/ i = 1
        BY <1>3 DEF VaultInv, VaultTyped, RowsTyped
      <3>2. QED BY <1>1, <1>2, <1>4, <3>1 DEF VaultInv, VaultTyped
    <2>2. \A i \in DOMAIN va_rows' : va_rows'[i] \in VA!Rows
      BY <1>3, <1>5, <1>6 DEF VaultInv, VaultTyped, RowsTyped
    <2>3. QED BY <2>1, <2>2 DEF RowsTyped
  <1>8. /\ va_put' \in [Caller -> PutRecords]
        /\ \A q \in Caller : /\ va_put'[q].was = va_put[q].was \/ va_put'[q].was.dek = 0
                             /\ va_put'[q].phase # "read"
    <2>1. PICK k : k = [phase |-> "off", was |-> VA!LegacyRow(0)]
      OBVIOUS
    <2>2. k \in PutRecords /\ k.was.dek = 0 /\ k.phase = "off"
      BY <2>1, RowShapes DEF PutRecords
    <2>3. PICK f : f = VA!Crossed
      OBVIOUS
    <2>4. f \in [Caller -> PutRecords] /\ \A q \in Caller : f[q].was = va_put[q].was /\ f[q].phase # "read"
      BY <2>3, CrossedShape
    <2>5. va_put' = [f EXCEPT ![p] = k]
      BY <1>2, <2>1, <2>3
    <2>6. QED BY <2>2, <2>4, <2>5
  <1>9. va_dropped' \in [secret : 0..MaxPuts, crossed : BOOLEAN]
    <2>1. va_rows[1].secret \in 0..MaxPuts
      BY <1>3, RowShapes DEF VaultInv, VaultTyped, RowsTyped
    <2>2. PICK b \in BOOLEAN : b <=> (va_put[p].phase = "stale")
      OBVIOUS
    <2>3. b = (va_put[p].phase = "stale")
      BY <2>2
    <2>4. va_dropped' = [secret |-> va_rows[1].secret, crossed |-> b]
      BY <1>2, <2>3
    <2>5. QED BY <2>1, <2>2, <2>4
  <1>10. PICK ids : ids = {1, id}
    OBVIOUS
  <1>11. /\ \A i \in ids : i \notin VA!Marked(ids) =>
               va_tool.phase # "read" /\ (va_tool.phase # "off" => va_key = 2)
         /\ \A i : i \notin ids => (i \in VA!Marked(ids) <=> i \in va_strays)
    BY MarkedShape
  <1>12. VA!Marked(ids) \subseteq va_strays' /\ (id \notin va_strays' => va_put[p].phase = "read" /\ 1 \notin va_strays)
    BY <1>2, <1>10
  <1>13. ASSUME id \notin va_strays', va_tool.phase \in {"written", "complete"}
         PROVE  VA!Opens(va_rows'[id], 2)
    <2>1. va_put[p].was = va_rows[1] /\ 1 \notin va_strays
      BY <1>12, <1>13 DEF VaultInv, PutFollows
    <2>2. VA!Opens(va_rows[1], 2)
      BY <1>3, <1>13, <2>1 DEF VaultInv, Readable
    <2>3. QED BY <1>3, <2>1, <2>2
  <1>14. VaultTyped' /\ SoundUntilWritten' /\ ToolSees' /\ Readable'
    <2>1. va_writes' \in 0..MaxPuts /\ va_writes <= va_writes'
      BY <1>2, <1>4 DEF VaultInv, VaultTyped
    <2>2. \A i \in DOMAIN va_rows' : i \notin ids => i \in DOMAIN va_rows /\ va_rows'[i] = va_rows[i]
      BY <1>3, <1>10
    <2>3. \A i \in ids : i \in {1, 2} \/ i \notin 1..(va_writes + 2)
      BY <1>1, <1>10 DEF VaultInv, VaultTyped
    <2>4. \A i \in ids : i \in DOMAIN va_rows' /\ va_tool.phase \in {"off", "read"} => Sealed(va_rows'[i])
      BY <1>3, <1>5, <1>10 DEF VaultInv, SoundUntilWritten
    <2>5. \A i \in ids : i \in DOMAIN va_rows' /\ i \notin va_strays' =>
            /\ va_tool.phase # "read"
            /\ va_tool.phase \in {"written", "complete"} => VA!Opens(va_rows'[i], 2)
      BY <1>5, <1>10, <1>11, <1>12, <1>13
    <2>6. \A i \in DOMAIN va_rows' : i \notin ids /\ i \notin va_strays' => i \notin va_strays
      BY <1>11, <1>12
    <2>7. QED BY <1>2, <1>7, <1>8, <1>9, <2>1, <2>2, <2>3, <2>4, <2>5, <2>6, ServiceWrites
  <1>15. PriorKept'
    <2>1. ASSUME ~va_dropped'.crossed
          PROVE  va_rows'[id].secret = va_dropped'.secret
      BY <1>2, <1>3, <2>1 DEF VaultInv, PutFollows
    <2>2. QED BY <1>3, <2>1 DEF PriorKept
  <1>16. \A q \in Caller : PutFollows(q)'
    BY <1>3, <1>8 DEF PutFollows
  <1>17. QED BY <1>14, <1>15, <1>16 DEF VaultInv

LEMMA ReadersKeep ==
  ASSUME VaultInv, VA!IssueSecret \/ VA!RevealTemplate \/ VA!RevealCredential
  PROVE  VaultInv'
  <1>1. /\ va_rows' = va_rows /\ va_strays' = va_strays /\ va_dropped' = va_dropped
        /\ va_tool' = va_tool /\ va_key' = va_key /\ va_writes' = va_writes /\ va_put' = va_put
    BY DEF VA!IssueSecret, VA!RevealTemplate, VA!RevealCredential, VA!Leave
  <1>2. QED BY <1>1 DEF VaultInv, VaultTyped, RowsTyped, ReadTyped, PutFollows, SoundUntilWritten,
                       ToolSees, Readable, PriorKept

LEMMA ToolReadsKeep ==
  ASSUME VaultInv, VA!ToolRead
  PROVE  VaultInv'
  <1>1. /\ va_rows' = va_rows /\ va_strays' = va_strays /\ va_dropped' = va_dropped
        /\ va_key' = va_key /\ va_writes' = va_writes /\ va_put' = va_put
        /\ va_tool.phase = "off" /\ va_tool' = [phase |-> "read", rows |-> va_rows]
    BY DEF VA!ToolRead
  <1>2. va_tool'.phase = "read" /\ va_tool'.rows = va_rows
    BY <1>1
  <1>3. VaultTyped'
    BY <1>1, <1>2 DEF VaultInv, VaultTyped, RowsTyped, ReadTyped, VA!ToolPhases
  <1>4. SoundUntilWritten' /\ ToolSees' /\ Readable' /\ PriorKept'
    BY <1>1, <1>2 DEF VaultInv, SoundUntilWritten, ToolSees, Readable, PriorKept
  <1>5. \A q \in Caller : PutFollows(q)'
    BY <1>1 DEF VaultInv, PutFollows
  <1>6. QED BY <1>3, <1>4, <1>5 DEF VaultInv

\* A row the tool has re-keyed keeps its type, and is readable if it was whole.
LEMMA RekeyedShape ==
  ASSUME NEW r \in VA!Rows, NEW read \in VA!Rows
  PROVE  /\ VA!Rekeyed(r, read) \in VA!Rows
         /\ r = read /\ Sealed(read) => VA!Opens(VA!Rekeyed(r, read), 2)
         /\ r = read => VA!Rekeyed(r, read).secret = r.secret
  <1> DEFINE D1 == 0..MaxPuts
             D2 == 1..(MaxPuts + 2)
             D3 == 0..(MaxPuts + 2)
             D4 == 0..2
  <1>0. /\ VA!Rows = [secret : D1, sealed : D2, dek : D3, under : D4]
        /\ 2 \in D2 /\ 2 \in D4
    BY VaultBounds DEF VA!Rows
  <1> HIDE DEF D1, D2, D3, D4
  <1>1. CASE read.dek # 0
    <2>1. PICK k : k = [r EXCEPT !.dek = read.dek, !.under = 2]
      OBVIOUS
    <2>2. k \in VA!Rows
      BY <1>0, <2>1
    <2>3. k.sealed = r.sealed /\ k.dek = read.dek /\ k.under = 2 /\ k.secret = r.secret
      BY <1>0, <2>1
    <2>4. VA!Rekeyed(r, read) = k
      BY <1>1, <2>1 DEF VA!Rekeyed, VA!NewKey
    <2>5. QED BY <1>1, <2>2, <2>3, <2>4 DEF VA!Opens, Sealed
  <1>2. CASE read.dek = 0
    <2>1. PICK k : k = [r EXCEPT !.sealed = 2, !.secret = read.secret]
      OBVIOUS
    <2>2. k \in VA!Rows
      BY <1>0, <2>1
    <2>3. k.sealed = 2 /\ k.dek = r.dek /\ k.secret = read.secret
      BY <1>0, <2>1
    <2>4. VA!Rekeyed(r, read) = k
      BY <1>2, <2>1 DEF VA!Rekeyed, VA!NewKey
    <2>5. QED BY <1>2, <2>2, <2>3, <2>4 DEF VA!Opens
  <1>3. QED BY <1>1, <1>2

LEMMA ToolWritesKeep ==
  ASSUME VaultInv, VA!ToolWrite
  PROVE  VaultInv'
  <1>1. /\ va_strays' = va_strays /\ va_dropped' = va_dropped
        /\ va_key' = va_key /\ va_writes' = va_writes /\ va_tool.phase = "read"
    BY DEF VA!ToolWrite
  <1>2. CASE va_tool' = [va_tool EXCEPT !.phase = "failed"] /\ va_rows' = va_rows /\ va_put' = va_put
    <2>1. va_tool'.phase = "failed" /\ va_tool' = [phase |-> va_tool'.phase, rows |-> va_tool'.rows]
      BY <1>2 DEF VaultInv, VaultTyped
    <2>2. VaultTyped'
      BY <1>1, <1>2, <2>1 DEF VaultInv, VaultTyped, RowsTyped, ReadTyped, VA!ToolPhases
    <2>3. SoundUntilWritten' /\ ToolSees' /\ Readable' /\ PriorKept'
      BY <1>1, <1>2, <2>1 DEF VaultInv, SoundUntilWritten, ToolSees, Readable, PriorKept
    <2>4. \A q \in Caller : PutFollows(q)'
      BY <1>2 DEF VaultInv, PutFollows
    <2>5. QED BY <2>2, <2>3, <2>4 DEF VaultInv
  <1>3. CASE /\ va_tool' = [va_tool EXCEPT !.phase = "written"] /\ va_put' = VA!Crossed
             /\ va_rows' = [i \in DOMAIN va_rows |->
                              IF i \in VA!Rewrapped(va_tool.rows)
                              THEN VA!Rekeyed(va_rows[i], va_tool.rows[i]) ELSE va_rows[i]]
    <2>1. va_tool'.phase = "written" /\ va_tool' = [phase |-> va_tool'.phase, rows |-> va_tool'.rows]
      BY <1>3 DEF VaultInv, VaultTyped
    <2>2. /\ DOMAIN va_rows' = DOMAIN va_rows
          /\ \A i \in DOMAIN va_rows : va_rows'[i] = IF i \in DOMAIN va_tool.rows
                                                     THEN VA!Rekeyed(va_rows[i], va_tool.rows[i]) ELSE va_rows[i]
      BY <1>3 DEF VA!Rewrapped
    <2>3. \A i \in DOMAIN va_rows : va_rows[i] \in VA!Rows
      BY DEF VaultInv, VaultTyped, RowsTyped
    <2>4. \A i \in DOMAIN va_tool.rows : va_tool.rows[i] \in VA!Rows /\ Sealed(va_tool.rows[i])
      BY <1>1 DEF VaultInv, VaultTyped, ReadTyped, ToolSees
    <2>5. \A i \in DOMAIN va_rows : va_rows'[i] \in VA!Rows
      BY <2>2, <2>3, <2>4, RekeyedShape
    <2>6. /\ va_put' \in [Caller -> PutRecords]
          /\ \A p \in Caller : va_put'[p].phase # "read"
                               /\ (va_put'[p].phase = "stale" => va_put[p].phase \in {"read", "stale"})
      BY <1>3, CrossedShape
    <2>7. RowsTyped'
      BY <1>1, <2>2, <2>5 DEF VaultInv, VaultTyped, RowsTyped
    <2>8. VaultTyped'
      BY <1>1, <2>1, <2>6, <2>7 DEF VaultInv, VaultTyped, ReadTyped, VA!ToolPhases
    <2>9. Readable'
      <3>1. ASSUME NEW i \in DOMAIN va_rows \ va_strays
            PROVE  VA!Opens(va_rows'[i], 2)
        <4>1. i \in DOMAIN va_tool.rows /\ va_rows[i] = va_tool.rows[i]
          BY <1>1, <3>1 DEF VaultInv, ToolSees
        <4>2. VA!Opens(VA!Rekeyed(va_rows[i], va_tool.rows[i]), 2)
          BY <2>3, <2>4, <4>1, RekeyedShape
        <4>3. QED BY <2>2, <4>1, <4>2
      <3>2. QED BY <1>1, <2>2, <3>1 DEF Readable
    <2>10. SoundUntilWritten' /\ ToolSees'
      BY <2>1 DEF SoundUntilWritten, ToolSees
    <2>11. PriorKept'
      <3>1. ASSUME NEW i \in DOMAIN va_rows, i \notin {1, 2}
            PROVE  va_rows'[i].secret = va_rows[i].secret
        <4>1. CASE i \in DOMAIN va_tool.rows
          <5>1. va_rows[i] = va_tool.rows[i]
            BY <1>1, <3>1, <4>1 DEF VaultInv, ToolSees
          <5>2. VA!Rekeyed(va_rows[i], va_tool.rows[i]).secret = va_rows[i].secret
            BY <2>3, <2>4, <4>1, <5>1, RekeyedShape
          <5>3. QED BY <2>2, <4>1, <5>2
        <4>2. QED BY <2>2, <4>1
      <3>2. QED BY <1>1, <2>2, <3>1, PriorStays
    <2>12. \A q \in Caller : PutFollows(q)'
      BY <2>2, <2>6 DEF VaultInv, PutFollows
    <2>13. QED BY <2>8, <2>9, <2>10, <2>11, <2>12 DEF VaultInv
  <1>4. QED BY <1>2, <1>3 DEF VA!ToolWrite

LEMMA ToolVerifiesKeep ==
  ASSUME VaultInv, VA!ToolVerify
  PROVE  VaultInv'
  <1>1. /\ va_rows' = va_rows /\ va_strays' = va_strays /\ va_dropped' = va_dropped
        /\ va_key' = va_key /\ va_writes' = va_writes /\ va_put' = va_put
        /\ va_tool.phase = "written"
    BY DEF VA!ToolVerify
  <1>2. PICK ph \in {"complete", "failed"} : va_tool' = [phase |-> ph, rows |-> <<>>]
    BY DEF VA!ToolVerify
  <1>3. va_tool'.phase = ph /\ va_tool'.rows = <<>>
    BY <1>2
  <1>4. VaultTyped'
    BY <1>1, <1>2, <1>3 DEF VaultInv, VaultTyped, RowsTyped, ReadTyped, VA!ToolPhases
  <1>5. SoundUntilWritten' /\ ToolSees' /\ Readable' /\ PriorKept'
    BY <1>1, <1>3 DEF VaultInv, SoundUntilWritten, ToolSees, Readable, PriorKept
  <1>6. \A q \in Caller : PutFollows(q)'
    BY <1>1 DEF VaultInv, PutFollows
  <1>7. QED BY <1>4, <1>5, <1>6 DEF VaultInv

LEMMA VaultRestartsKeep ==
  ASSUME VaultInv, VA!RestartService
  PROVE  VaultInv'
  <1>1. /\ va_rows' = va_rows /\ va_strays' = va_strays /\ va_dropped' = va_dropped
        /\ va_tool' = va_tool /\ va_key' = 2 /\ va_writes' = va_writes
        /\ va_put' = [p \in Caller |-> [phase |-> "off", was |-> VA!LegacyRow(0)]]
    BY DEF VA!RestartService, VA!NewKey
  <1>2. /\ va_put' \in [Caller -> PutRecords]
        /\ \A q \in Caller : va_put'[q].phase = "off" /\ va_put'[q].was.dek = 0
    BY <1>1, RowShapes DEF PutRecords
  <1>3. VaultTyped'
    BY <1>1, <1>2 DEF VaultInv, VaultTyped, RowsTyped, ReadTyped
  <1>4. SoundUntilWritten' /\ ToolSees' /\ Readable' /\ PriorKept'
    BY <1>1, <1>2 DEF VaultInv, SoundUntilWritten, Sealed, ToolSees, Readable, PriorKept
  <1>5. \A q \in Caller : PutFollows(q)'
    BY <1>2 DEF PutFollows
  <1>6. QED BY <1>3, <1>4, <1>5 DEF VaultInv

LEMMA VaultKeep == VaultInv /\ [VA!Next]_(VA!vars) => VaultInv'
  <1> SUFFICES ASSUME VaultInv, [VA!Next]_(VA!vars) PROVE VaultInv'
    OBVIOUS
  <1>1. CASE VA!CreateCredential \/ VA!CreateFromTemplate
    BY <1>1, CredentialsKeep
  <1>2. CASE VA!UpdateCredential
    BY <1>2, CredentialEditsKeep
  <1>3. CASE VA!DeleteCredential
    BY <1>3, DeletesKeep
  <1>4. CASE VA!WriteTemplate
    BY <1>4, TemplatesKeep
  <1>5. CASE VA!DeleteTemplate
    BY <1>5, TemplateDeletesKeep
  <1>6. CASE \E p \in Caller : VA!ReadForPut(p) \/ VA!FailPut(p)
    BY <1>6, PutsReadKeep
  <1>7. CASE \E p \in Caller : VA!FinishPut(p)
    BY <1>7, PutsFinishKeep
  <1>8. CASE VA!IssueSecret \/ VA!RevealTemplate \/ VA!RevealCredential
    BY <1>8, ReadersKeep
  <1>9. CASE VA!ToolRead
    BY <1>9, ToolReadsKeep
  <1>10. CASE VA!ToolWrite
    BY <1>10, ToolWritesKeep
  <1>11. CASE VA!ToolVerify
    BY <1>11, ToolVerifiesKeep
  <1>12. CASE VA!RestartService
    BY <1>12, VaultRestartsKeep
  <1>13. CASE UNCHANGED VA!vars
    <2>1. /\ va_rows' = va_rows /\ va_strays' = va_strays /\ va_dropped' = va_dropped
          /\ va_tool' = va_tool /\ va_key' = va_key /\ va_writes' = va_writes /\ va_put' = va_put
      BY <1>13 DEF VA!vars
    <2>2. QED BY <2>1 DEF VaultInv, VaultTyped, RowsTyped, ReadTyped, PutFollows, SoundUntilWritten,
                         ToolSees, Readable, PriorKept
  <1>14. QED BY <1>1, <1>2, <1>3, <1>4, <1>5, <1>6, <1>7, <1>8, <1>9, <1>10, <1>11, <1>12, <1>13
            DEF VA!Next

LEMMA VaultSafe ==
  ASSUME VaultInv
  PROVE  VA!TypeOK /\ VA!RekeyingLosesNothing /\ VA!PriorSecretIsKept
  <1>1. VA!TypeOK
    BY DEF VaultInv, VaultTyped, RowsTyped, VA!TypeOK, VA!OldKey, VA!NewKey
  <1>2. VA!RekeyingLosesNothing
    BY DEF VaultInv, Readable, VA!RekeyingLosesNothing, VA!NewKey
  <1>3. VA!PriorSecretIsKept
    BY DEF VaultInv, PriorKept, VA!PriorSecretIsKept, VA!Archived, VA!Cred, VA!Tmpl
  <1>4. QED BY <1>1, <1>2, <1>3

(***************************************************************************)
(* Accounts                                                                *)
(***************************************************************************)
RunRecords == [kind : AccountKinds \cup {"rotate"},
               phase : {"off", "queued", "working", "done", "failed"},
               targets : SUBSET Machine, todo : SUBSET Machine, skipped : SUBSET Machine,
               failed : BOOLEAN, secret : 0..MaxSecret, tries : Nat]
HostRecords == [pw : 0..MaxSecret, login : {"on", "off", "gone"}]

Rotating(r) == ac_run[r].phase = "working" /\ ac_run[r].kind = "rotate"

\* The host is on the secret of the vault, or of a rotation at work.
HostOpens(h) ==
  h \in ac_links \ ac_excused =>
    \/ ac_host[h].login = "gone"
    \/ ac_host[h].pw = ac_vault
    \/ \E r \in Caller : Rotating(r) /\ ac_host[h].pw = ac_run[r].secret

\* A rotation that has failed nowhere has its secret on every host it has told.
ToldHas(r, h) ==
  /\ Rotating(r) /\ ~ac_run[r].failed
  /\ h \in ac_run[r].targets \ (ac_run[r].todo \cup ac_run[r].skipped)
  => h \in ac_excused \/ ac_host[h].pw = ac_run[r].secret

AccountsTyped ==
  /\ ac_vault \in 0..MaxSecret /\ ac_fresh \in 0..MaxSecret
  /\ ac_links \subseteq Machine /\ ac_excused \subseteq Machine
  /\ ac_host \in [Machine -> HostRecords]
  /\ ac_run \in [Caller -> RunRecords]

AccountsInv ==
  AccountsTyped /\ \A h \in Machine : HostOpens(h) /\ \A r \in Caller : ToldHas(r, h)

LEMMA SecretBound == MaxSecret \in Nat /\ 0 \in 0..MaxSecret
  <1>1. MaxSecret \in Nat
    BY HoldingsAssumption
  <1>2. QED BY <1>1

LEMMA NoRunTyped ==
  /\ AC!NoRun \in RunRecords /\ AC!NoRun.phase = "off" /\ AC!NoRun.targets = {}
  /\ \A kind \in AccountKinds \cup {"rotate"}, hs \in SUBSET Machine :
       LET k == [AC!NoRun EXCEPT !.kind = kind, !.phase = "queued", !.targets = hs]
       IN k \in RunRecords /\ k.phase = "queued"
  /\ \A phase \in {"done", "failed"} :
       LET k == [AC!NoRun EXCEPT !.phase = phase] IN k \in RunRecords /\ k.phase = phase
  BY SecretBound DEF AC!NoRun, RunRecords

LEMMA AccountsInit == AC!Init => AccountsInv
  <1> SUFFICES ASSUME AC!Init PROVE AccountsInv
    OBVIOUS
  <1>1. AccountsTyped
    BY SecretBound, NoRunTyped DEF AC!Init, AccountsTyped, HostRecords
  <1>2. \A r \in Caller : ac_run[r].phase = "off"
    BY NoRunTyped DEF AC!Init
  <1>3. \A h \in Machine : ac_host[h].pw = 0 /\ ac_vault = 0
    BY DEF AC!Init
  <1>4. QED BY <1>1, <1>2, <1>3 DEF AccountsInv, HostOpens, ToldHas, Rotating

\* One run changes.
LEMMA RunChanges ==
  ASSUME AccountsInv, NEW r \in Caller, NEW k \in RunRecords, ac_run' = [ac_run EXCEPT ![r] = k]
  PROVE  /\ ac_run' \in [Caller -> RunRecords] /\ ac_run'[r] = k
         /\ \A q \in Caller \ {r} : ac_run'[q] = ac_run[q]
  BY DEF AccountsInv, AccountsTyped

\* A run comes or goes: a rotation that leaves its work leaves its secret on no
\* host that is not excused, and one that begins has told no host yet.
LEMMA RunsPass ==
  ASSUME AccountsInv, NEW r \in Caller, NEW k \in RunRecords, ac_run' = [ac_run EXCEPT ![r] = k],
         ac_host' = ac_host, ac_vault' = ac_vault, ac_links' = ac_links, ac_fresh' \in 0..MaxSecret,
         ac_excused \subseteq ac_excused', ac_excused' \subseteq Machine,
         k.phase = "working" => k.targets \subseteq k.todo \cup k.skipped,
         Rotating(r) => \A h \in Machine : ac_host[h].pw = ac_run[r].secret => h \in ac_excused'
  PROVE  AccountsInv'
  <1>1. /\ ac_run' \in [Caller -> RunRecords] /\ ac_run'[r] = k
        /\ \A q \in Caller \ {r} : ac_run'[q] = ac_run[q]
    BY RunChanges
  <1>2. AccountsTyped'
    BY <1>1 DEF AccountsInv, AccountsTyped
  <1>3. ASSUME NEW h \in Machine PROVE HostOpens(h)'
    <2>1. SUFFICES ASSUME h \in ac_links \ ac_excused'
                   PROVE  \/ ac_host[h].login = "gone"
                          \/ ac_host[h].pw = ac_vault
                          \/ \E q \in Caller : Rotating(q)' /\ ac_host[h].pw = ac_run'[q].secret
      BY DEF HostOpens
    <2>2. HostOpens(h)
      BY DEF AccountsInv
    <2>3. ASSUME NEW q \in Caller, Rotating(q), ac_host[h].pw = ac_run[q].secret
          PROVE  Rotating(q)' /\ ac_host[h].pw = ac_run'[q].secret
      BY <1>1, <2>1, <2>3 DEF Rotating
    <2>4. QED BY <2>1, <2>2, <2>3 DEF HostOpens
  <1>4. ASSUME NEW h \in Machine, NEW q \in Caller PROVE ToldHas(q, h)'
    <2>1. ToldHas(q, h)
      BY DEF AccountsInv
    <2>2. CASE q = r
      BY <1>1, <2>2 DEF ToldHas, Rotating
    <2>3. CASE q # r
      BY <1>1, <2>1, <2>3 DEF ToldHas, Rotating
    <2>4. QED BY <2>2, <2>3
  <1>5. QED BY <1>2, <1>3, <1>4 DEF AccountsInv

LEMMA QueuesKeep ==
  ASSUME AccountsInv, NEW r \in Caller, NEW kind, NEW targets \in SUBSET Machine,
         AC!Queue(r, kind, targets), kind \in AccountKinds,
         UNCHANGED <<ac_vault, ac_fresh, ac_links, ac_host, ac_excused>>
  PROVE  AccountsInv'
  <1>1. PICK k : k = [AC!NoRun EXCEPT !.kind = kind, !.phase = "queued", !.targets = targets]
    OBVIOUS
  <1>2. k \in RunRecords /\ k.phase = "queued"
    BY <1>1, NoRunTyped
  <1>3. ac_run' = [ac_run EXCEPT ![r] = k] /\ ac_run[r].phase = "off"
    BY <1>1 DEF AC!Queue
  <1>4. ac_fresh' \in 0..MaxSecret /\ ac_excused' \subseteq Machine
    BY DEF AccountsInv, AccountsTyped
  <1>5. QED BY <1>2, <1>3, <1>4, RunsPass DEF Rotating

\* A run that ends without work, or whose end excuses the hosts on its secret.
LEMMA EndsPass ==
  ASSUME AccountsInv, NEW r \in Caller, NEW phase \in {"done", "failed"},
         ac_run' = AC!Ended(r, phase), ac_excused \subseteq ac_excused', ac_excused' \subseteq Machine,
         Rotating(r) => \A h \in Machine : ac_host[h].pw = ac_run[r].secret => h \in ac_excused',
         UNCHANGED <<ac_vault, ac_fresh, ac_links, ac_host>>
  PROVE  AccountsInv'
  <1>1. PICK k : k = [AC!NoRun EXCEPT !.phase = phase]
    OBVIOUS
  <1>2. k \in RunRecords /\ k.phase = phase
    BY <1>1, NoRunTyped
  <1>3. ac_run' = [ac_run EXCEPT ![r] = k]
    BY <1>1 DEF AC!Ended
  <1>4. ac_fresh' \in 0..MaxSecret
    BY DEF AccountsInv, AccountsTyped
  <1>5. QED BY <1>2, <1>3, <1>4, RunsPass

LEMMA StartsKeep ==
  ASSUME AccountsInv, NEW r \in Caller, NEW skipped \in SUBSET Machine, AC!Start(r, skipped)
  PROVE  AccountsInv'
  <1>1. PICK secret : secret = IF ac_run[r].kind = "rotate" THEN ac_fresh + 1 ELSE ac_vault
    OBVIOUS
  <1>2. PICK failed \in BOOLEAN :
          failed <=> (skipped # {} /\ ac_run[r].kind \in {"disable", "remove"})
    OBVIOUS
  <1>3. PICK todo : todo = ac_run[r].targets \ skipped
    OBVIOUS
  <1>4. PICK k : k = [ac_run[r] EXCEPT !.phase = "working", !.todo = todo, !.skipped = skipped,
                                       !.failed = failed, !.secret = secret]
    OBVIOUS
  <1>5. /\ ac_run[r].phase = "queued"
        /\ ac_run[r].kind = "rotate" => ac_fresh < MaxSecret
        /\ ac_fresh' = IF ac_run[r].kind = "rotate" THEN ac_fresh + 1 ELSE ac_fresh
        /\ ac_run' = [ac_run EXCEPT ![r] = k]
        /\ ac_vault' = ac_vault /\ ac_links' = ac_links /\ ac_host' = ac_host /\ ac_excused' = ac_excused
    <2>1. failed = (skipped # {} /\ ac_run[r].kind \in {"disable", "remove"})
      BY <1>2
    <2>2. QED BY <1>1, <1>3, <1>4, <2>1 DEF AC!Start
  <1>6. /\ ac_run[r] \in RunRecords /\ ac_vault \in 0..MaxSecret /\ ac_fresh \in 0..MaxSecret
        /\ ac_excused \subseteq Machine
    BY DEF AccountsInv, AccountsTyped
  <1>7. secret \in 0..MaxSecret /\ ac_fresh' \in 0..MaxSecret
    BY <1>1, <1>5, <1>6, SecretBound
  <1>8. todo \in SUBSET Machine
    BY <1>3, <1>6 DEF RunRecords
  <1>9. k \in RunRecords
    BY <1>4, <1>6, <1>7, <1>8 DEF RunRecords
  <1>10. k.targets = ac_run[r].targets /\ k.todo = todo /\ k.skipped = skipped
    BY <1>4, <1>6 DEF RunRecords
  <1>11. k.targets \subseteq k.todo \cup k.skipped
    BY <1>3, <1>10
  <1>12. QED BY <1>5, <1>6, <1>7, <1>9, <1>11, RunsPass DEF Rotating

\* The hosts on a secret that is discarded are excused.
LEMMA DiscardExcuses ==
  ASSUME AccountsInv, NEW r \in Caller, ac_excused' = ac_excused \cup AC!Discarded(r)
  PROVE  /\ ac_excused \subseteq ac_excused' /\ ac_excused' \subseteq Machine
         /\ Rotating(r) => \A h \in Machine : ac_host[h].pw = ac_run[r].secret => h \in ac_excused'
  BY DEF AC!Discarded, AccountsInv, AccountsTyped, Rotating

LEMMA GivingUpKeeps ==
  ASSUME AccountsInv, NEW r \in Caller, AC!GiveUp(r)
  PROVE  AccountsInv'
  <1>1. /\ ac_excused' = ac_excused \cup AC!Discarded(r)
        /\ ac_vault' = ac_vault /\ ac_fresh' = ac_fresh /\ ac_links' = ac_links /\ ac_host' = ac_host
    BY DEF AC!GiveUp
  <1>2. /\ ac_excused \subseteq ac_excused' /\ ac_excused' \subseteq Machine
        /\ Rotating(r) => \A h \in Machine : ac_host[h].pw = ac_run[r].secret => h \in ac_excused'
    BY <1>1, DiscardExcuses
  <1>3. PICK k : k = [ac_run[r] EXCEPT !.tries = ac_run[r].tries + 1, !.phase = "queued"]
    OBVIOUS
  <1>4. ac_run[r] \in RunRecords /\ ac_fresh \in 0..MaxSecret
    BY DEF AccountsInv, AccountsTyped
  <1>5. k \in RunRecords
    <2>1. PICK n \in Nat : n = ac_run[r].tries + 1
      BY <1>4 DEF RunRecords
    <2>2. k = [ac_run[r] EXCEPT !.tries = n, !.phase = "queued"]
      BY <1>3, <2>1
    <2>3. QED BY <1>4, <2>2 DEF RunRecords
  <1>6. k.phase = "queued"
    BY <1>3, <1>4 DEF RunRecords
  <1>7. CASE ac_run' = [ac_run EXCEPT ![r] = k]
    BY <1>1, <1>2, <1>4, <1>5, <1>6, <1>7, RunsPass
  <1>8. CASE ac_run' = AC!Ended(r, "failed")
    BY <1>1, <1>2, <1>8, EndsPass
  <1>9. ac_run' = [ac_run EXCEPT ![r] = k] \/ ac_run' = AC!Ended(r, "failed")
    BY <1>3 DEF AC!GiveUp
  <1>10. QED BY <1>7, <1>8, <1>9

LEMMA RefusalsKeep ==
  ASSUME AccountsInv, NEW r \in Caller, AC!CommitRefused(r)
  PROVE  AccountsInv'
  <1>1. /\ ac_excused' = ac_excused \cup AC!Discarded(r) /\ ac_run' = AC!Ended(r, "done")
        /\ ac_vault' = ac_vault /\ ac_fresh' = ac_fresh /\ ac_links' = ac_links /\ ac_host' = ac_host
    BY DEF AC!CommitRefused
  <1>2. QED BY <1>1, DiscardExcuses, EndsPass

LEMMA CommitsStore ==
  ASSUME AccountsInv, NEW r \in Caller, AC!Commit(r)
  PROVE  AccountsInv'
  <1>1. PICK k : k = [AC!NoRun EXCEPT !.phase = "done"]
    OBVIOUS
  <1>2. k \in RunRecords /\ k.phase = "done"
    BY <1>1, NoRunTyped
  <1>3. /\ ac_run' = [ac_run EXCEPT ![r] = k] /\ ac_vault' = ac_run[r].secret
        /\ Rotating(r) /\ ac_run[r].todo = {} /\ ~ac_run[r].failed
        /\ ac_fresh' = ac_fresh /\ ac_links' = ac_links /\ ac_host' = ac_host
    BY <1>1 DEF AC!Commit, AC!Ended, AC!Working, AC!AllSucceeded, Rotating
  <1>4. ac_excused' = (ac_excused \ {h \in ac_run[r].targets :
                                        ac_host[h].pw = ac_run[r].secret /\ ~AC!Contended(r, h)})
                        \cup (ac_links \ ac_run[r].targets) \cup ac_run[r].skipped
    BY DEF AC!Commit
  <1>5. /\ ac_run' \in [Caller -> RunRecords] /\ ac_run'[r] = k
        /\ \A q \in Caller \ {r} : ac_run'[q] = ac_run[q]
    BY <1>2, <1>3, RunChanges
  <1>6. ac_run[r] \in RunRecords
    BY DEF AccountsInv, AccountsTyped
  <1>7. ac_run[r].secret \in 0..MaxSecret /\ ac_run[r].skipped \subseteq Machine
    BY <1>6 DEF RunRecords
  <1>8. AccountsTyped'
    BY <1>3, <1>4, <1>5, <1>7 DEF AccountsInv, AccountsTyped
  <1>9. ASSUME NEW h \in Machine PROVE HostOpens(h)'
    <2>1. SUFFICES ASSUME h \in ac_links, h \notin ac_excused'
                   PROVE  ac_host[h].pw = ac_run[r].secret
      BY <1>3 DEF HostOpens
    <2>2. h \in ac_run[r].targets /\ h \notin ac_run[r].skipped
      BY <1>4, <2>1
    <2>3. h \in ac_excused => ac_host[h].pw = ac_run[r].secret
      BY <1>4, <2>1
    <2>4. ToldHas(r, h)
      BY DEF AccountsInv
    <2>5. QED BY <1>3, <2>2, <2>3, <2>4 DEF ToldHas
  <1>10. ASSUME NEW h \in Machine, NEW q \in Caller PROVE ToldHas(q, h)'
    <2>1. CASE q = r
      BY <1>2, <1>5, <2>1 DEF ToldHas, Rotating
    <2>2. CASE q # r
      <3>1. ac_run'[q] = ac_run[q] /\ ToldHas(q, h)
        BY <1>5, <2>2 DEF AccountsInv
      <3>2. Rotating(q) /\ h \in ac_run[q].targets => AC!Contended(r, h)
        BY <2>2 DEF AC!Contended, AC!Working, Rotating
      <3>3. AC!Contended(r, h) /\ h \in ac_excused => h \in ac_excused'
        BY <1>4
      <3>4. QED BY <1>3, <3>1, <3>2, <3>3 DEF ToldHas, Rotating
    <2>3. QED BY <2>1, <2>2
  <1>11. QED BY <1>8, <1>9, <1>10 DEF AccountsInv

LEMMA EditsOfCredentialKeep ==
  ASSUME AccountsInv, NEW secret \in 0..MaxSecret, NEW hosts \in SUBSET Machine,
         AC!EditCredential(secret, hosts)
  PROVE  AccountsInv'
  <1>1. /\ ac_vault' = secret /\ ac_fresh' = (IF secret = ac_vault THEN ac_fresh ELSE secret)
        /\ ac_links' = hosts
        /\ ac_excused' = IF secret = ac_vault THEN ac_excused \cup (hosts \ ac_links)
                         ELSE ac_excused \cup hosts
        /\ ac_host' = ac_host /\ ac_run' = ac_run
    BY DEF AC!EditCredential
  <1>2. AccountsTyped'
    BY <1>1 DEF AccountsInv, AccountsTyped
  <1>3. \A h \in Machine : HostOpens(h)'
    BY <1>1 DEF AccountsInv, HostOpens, Rotating
  <1>4. \A h \in Machine, r \in Caller : ToldHas(r, h)'
    BY <1>1 DEF AccountsInv, ToldHas, Rotating
  <1>5. QED BY <1>2, <1>3, <1>4 DEF AccountsInv

\* What a run does to the account of a host.
LEMMA AfterChange ==
  ASSUME NEW r \in Caller, ac_run[r] \in RunRecords, NEW a \in HostRecords
  PROVE  LET b == AC!After(r, a)
         IN /\ b \in HostRecords
            /\ ac_run[r].kind \in {"rotate", "push"} => b.pw = ac_run[r].secret
            /\ ac_run[r].kind \notin {"rotate", "push"} =>
                 b.pw = a.pw /\ (a.login = "gone" => b.login = "gone")
  <1>1. ac_run[r].kind \in {"rotate", "push", "disable", "remove"} /\ ac_run[r].secret \in 0..MaxSecret
    BY HoldingsAssumption DEF RunRecords
  <1>2. a.pw \in 0..MaxSecret /\ a.login \in {"on", "off", "gone"}
    BY DEF HostRecords
  <1>3. CASE ac_run[r].kind = "rotate"
    BY <1>1, <1>2, <1>3 DEF AC!After, HostRecords
  <1>4. CASE ac_run[r].kind = "push"
    BY <1>1, <1>2, <1>4 DEF AC!After, HostRecords
  <1>5. CASE ac_run[r].kind = "disable"
    BY <1>1, <1>2, <1>5 DEF AC!After, HostRecords
  <1>6. CASE ac_run[r].kind = "remove"
    BY <1>1, <1>2, <1>6 DEF AC!After, HostRecords
  <1>7. QED BY <1>1, <1>3, <1>4, <1>5, <1>6

LEMMA ChangesKeep ==
  ASSUME AccountsInv, NEW r \in Caller, NEW h \in Machine,
         NEW way \in {"yes", "no", "half", "lost", "blind"}, AC!Change(r, h, way)
  PROVE  AccountsInv'
  <1>1. PICK effect \in BOOLEAN : effect <=> way \in {"yes", "half", "lost"}
    OBVIOUS
  <1>2. PICK sets \in BOOLEAN : sets <=> (effect /\ ac_run[r].kind \in {"rotate", "push"})
    OBVIOUS
  <1>3. ac_run[r] \in RunRecords /\ ac_host[h] \in HostRecords /\ DOMAIN ac_host = Machine
    BY DEF AccountsInv, AccountsTyped
  <1>4. PICK new : new = IF effect THEN AC!After(r, ac_host[h]) ELSE ac_host[h]
    OBVIOUS
  <1>5. /\ new \in HostRecords
        /\ sets => new.pw = ac_run[r].secret
        /\ ~sets => new.pw = ac_host[h].pw /\ (ac_host[h].login = "gone" => new.login = "gone")
    BY <1>2, <1>3, <1>4, AfterChange
  <1>6. ac_host' = [ac_host EXCEPT ![h] = new]
    <2>1. ac_host' = IF way \in {"yes", "half", "lost"}
                     THEN [ac_host EXCEPT ![h] = AC!After(r, ac_host[h])] ELSE ac_host
      BY DEF AC!Change
    <2>2. ac_host = [ac_host EXCEPT ![h] = ac_host[h]]
      BY DEF AccountsInv, AccountsTyped
    <2>3. CASE effect
      BY <1>1, <1>4, <2>1, <2>3
    <2>4. CASE ~effect
      BY <1>1, <1>4, <2>1, <2>2, <2>4
    <2>5. QED BY <2>3, <2>4
  <1>7. /\ sets /\ AC!Contended(r, h) => ac_excused' = ac_excused \cup {h}
        /\ sets /\ ac_run[r].kind = "push" /\ ac_run[r].secret # ac_vault =>
             ac_excused' = ac_excused \cup {h}
        /\ way = "blind" /\ ac_run[r].kind = "rotate" => ac_excused' = ac_excused \cup {h}
        /\ \/ ac_excused' = ac_excused \cup {h} \/ ac_excused' = ac_excused
           \/ sets /\ ac_excused' = ac_excused \ {h}
    BY <1>1, <1>2 DEF AC!Change
  <1>8. PICK todo : todo = ac_run[r].todo \ {h}
    OBVIOUS
  <1>9. PICK failed \in BOOLEAN : failed <=> (ac_run[r].failed \/ way \in {"no", "half"})
    OBVIOUS
  <1>10. PICK k : k = [ac_run[r] EXCEPT !.todo = todo, !.failed = failed]
    OBVIOUS
  <1>11. /\ ac_run[r].phase = "working" /\ h \in ac_run[r].todo
         /\ ac_run' = [ac_run EXCEPT ![r] = k]
         /\ ac_vault' = ac_vault /\ ac_fresh' = ac_fresh /\ ac_links' = ac_links
    <2>1. failed = (ac_run[r].failed \/ way \in {"no", "half"})
      BY <1>9
    <2>2. ac_run' = [ac_run EXCEPT ![r].todo = todo,
                                   ![r].failed = ac_run[r].failed \/ way \in {"no", "half"}]
      BY <1>3, <1>8 DEF AC!Change, AccountsInv, AccountsTyped, RunRecords
    <2>3. ac_run' = [ac_run EXCEPT ![r] = k]
      BY <1>3, <1>10, <2>1, <2>2 DEF AccountsInv, AccountsTyped, RunRecords
    <2>4. QED BY <2>3 DEF AC!Change, AC!Working
  <1>12. k \in RunRecords
    BY <1>3, <1>8, <1>10 DEF RunRecords
  <1>13. /\ k.phase = "working" /\ k.kind = ac_run[r].kind /\ k.secret = ac_run[r].secret
         /\ k.targets = ac_run[r].targets /\ k.skipped = ac_run[r].skipped
         /\ k.todo = todo /\ k.failed = failed
    BY <1>3, <1>10, <1>11 DEF RunRecords
  <1>14. /\ ac_run' \in [Caller -> RunRecords] /\ ac_run'[r] = k
         /\ \A q \in Caller \ {r} : ac_run'[q] = ac_run[q]
    BY <1>11, <1>12, RunChanges
  <1>15. /\ ac_host'[h] = new /\ \A g \in Machine \ {h} : ac_host'[g] = ac_host[g]
         /\ ac_host' \in [Machine -> HostRecords]
         /\ \A g \in Machine \ {h} : g \in ac_excused' <=> g \in ac_excused
    BY <1>3, <1>5, <1>6, <1>7 DEF AccountsInv, AccountsTyped
  <1>16. \A q \in Caller : /\ Rotating(q)' <=> Rotating(q)
                           /\ ac_run'[q].secret = ac_run[q].secret
    BY <1>11, <1>13, <1>14 DEF Rotating
  <1>17. AccountsTyped'
    <2>1. ac_excused' \subseteq Machine
      BY <1>7 DEF AccountsInv, AccountsTyped
    <2>2. QED BY <1>11, <1>14, <1>15, <2>1 DEF AccountsInv, AccountsTyped
  <1>18. \A g \in Machine \ {h} : HostOpens(g)'
    BY <1>11, <1>15, <1>16 DEF AccountsInv, HostOpens
  <1>19. HostOpens(h)'
    <2>1. SUFFICES ASSUME h \in ac_links, h \notin ac_excused'
                   PROVE  \/ new.login = "gone" \/ new.pw = ac_vault
                          \/ \E q \in Caller : Rotating(q) /\ new.pw = ac_run[q].secret
      BY <1>11, <1>15, <1>16 DEF HostOpens
    <2>2. CASE sets /\ ac_run[r].kind = "rotate"
      BY <1>5, <1>11, <2>2 DEF Rotating
    <2>3. CASE sets /\ ac_run[r].kind # "rotate"
      BY <1>2, <1>5, <1>7, <2>1, <2>3
    <2>4. CASE ~sets
      <3>1. h \notin ac_excused
        BY <1>7, <2>1, <2>4
      <3>2. HostOpens(h)
        BY DEF AccountsInv
      <3>3. QED BY <1>5, <2>1, <2>4, <3>1, <3>2 DEF HostOpens
    <2>5. QED BY <2>2, <2>3, <2>4
  <1>20. ASSUME NEW g \in Machine \ {h}, NEW q \in Caller PROVE ToldHas(q, g)'
    <2>1. ToldHas(q, g)
      BY DEF AccountsInv
    <2>2. CASE q = r
      BY <1>8, <1>9, <1>11, <1>13, <1>14, <1>15, <2>1, <2>2 DEF ToldHas, Rotating
    <2>3. CASE q # r
      BY <1>14, <1>15, <2>1, <2>3 DEF ToldHas, Rotating
    <2>4. QED BY <2>2, <2>3
  <1>21. ASSUME NEW q \in Caller PROVE ToldHas(q, h)'
    <2>1. SUFFICES ASSUME Rotating(q), ~ac_run'[q].failed,
                          h \in ac_run'[q].targets \ (ac_run'[q].todo \cup ac_run'[q].skipped)
                   PROVE  h \in ac_excused' \/ new.pw = ac_run[q].secret
      BY <1>15, <1>16 DEF ToldHas
    <2>2. CASE q = r
      <3>1. way \in {"yes", "lost", "blind"} /\ ac_run[r].kind = "rotate"
        BY <1>9, <1>13, <1>14, <2>1, <2>2 DEF Rotating
      <3>2. way = "blind" \/ sets
        BY <1>1, <1>2, <3>1
      <3>3. QED BY <1>5, <1>7, <2>2, <3>1, <3>2
    <2>3. CASE q # r
      <3>1. ac_run'[q] = ac_run[q] /\ ToldHas(q, h)
        BY <1>14, <2>3 DEF AccountsInv
      <3>2. h \in ac_excused \/ ac_host[h].pw = ac_run[q].secret
        BY <2>1, <3>1 DEF ToldHas
      <3>3. AC!Contended(r, h)
        BY <2>1, <2>3, <3>1 DEF AC!Contended, AC!Working, Rotating
      <3>4. sets => h \in ac_excused'
        BY <1>7, <3>3
      <3>5. ~sets => ac_excused \subseteq ac_excused'
        BY <1>7
      <3>6. QED BY <1>5, <3>2, <3>4, <3>5
    <2>4. QED BY <2>2, <2>3
  <1>22. QED BY <1>17, <1>18, <1>19, <1>20, <1>21 DEF AccountsInv

LEMMA AccountsKeep == AccountsInv /\ [AC!Next]_(AC!vars) => AccountsInv'
  <1> SUFFICES ASSUME AccountsInv, [AC!Next]_(AC!vars) PROVE AccountsInv'
    OBVIOUS
  <1>1. CASE UNCHANGED AC!vars
    BY <1>1 DEF AC!vars, AccountsInv, AccountsTyped, HostOpens, ToldHas, Rotating
  <1>2. ASSUME NEW r \in Caller, AC!Dispatch(r) PROVE AccountsInv'
    <2>1. AC!Queue(r, "rotate", ac_links) /\ "rotate" \in AccountKinds
      BY <1>2 DEF AC!Dispatch, AC!Queue
    <2>2. PICK links \in SUBSET Machine : links = ac_links
      BY DEF AccountsInv, AccountsTyped
    <2>3. /\ ac_vault' = ac_vault /\ ac_fresh' = ac_fresh /\ ac_links' = ac_links
          /\ ac_host' = ac_host /\ ac_excused' = ac_excused
      BY <1>2 DEF AC!Dispatch
    <2>4. AC!Queue(r, "rotate", links)
      BY <2>1, <2>2
    <2>5. QED BY <2>1, <2>3, <2>4, QueuesKeep
  <1>3. ASSUME NEW r \in Caller, NEW kind \in AccountKinds, NEW hs \in SUBSET Machine,
               AC!RunTemplate(r, kind, hs)
        PROVE  AccountsInv'
    <2>1. /\ AC!Queue(r, kind, hs)
          /\ ac_vault' = ac_vault /\ ac_fresh' = ac_fresh /\ ac_links' = ac_links
          /\ ac_host' = ac_host /\ ac_excused' = ac_excused
      BY <1>3 DEF AC!RunTemplate
    <2>2. QED BY <2>1, QueuesKeep
  <1>4. ASSUME NEW r \in Caller, AC!StartFails(r) PROVE AccountsInv'
    <2>1. /\ ac_run[r].phase = "queued" /\ ac_run' = AC!Ended(r, "failed")
          /\ ac_vault' = ac_vault /\ ac_fresh' = ac_fresh /\ ac_links' = ac_links
          /\ ac_host' = ac_host /\ ac_excused' = ac_excused
      BY <1>4 DEF AC!StartFails
    <2>2. ac_excused' \subseteq Machine /\ ~Rotating(r)
      BY <2>1 DEF AccountsInv, AccountsTyped, Rotating
    <2>3. QED BY <2>1, <2>2, EndsPass
  <1>5. ASSUME NEW r \in Caller, AC!Finish(r) PROVE AccountsInv'
    <2>1. /\ ac_run[r].kind # "rotate" /\ ac_run' = AC!Ended(r, "done")
          /\ ac_vault' = ac_vault /\ ac_fresh' = ac_fresh /\ ac_links' = ac_links
          /\ ac_host' = ac_host /\ ac_excused' = ac_excused
      BY <1>5 DEF AC!Finish
    <2>2. ac_excused' \subseteq Machine /\ ~Rotating(r)
      BY <2>1 DEF AccountsInv, AccountsTyped, Rotating
    <2>3. QED BY <2>1, <2>2, EndsPass
  <1>6. ASSUME NEW r \in Caller, AC!Abort(r) \/ AC!Fail(r) PROVE AccountsInv'
    BY <1>6, GivingUpKeeps DEF AC!Abort, AC!Fail
  <1>7. CASE AC!Next
    BY <1>2, <1>3, <1>4, <1>5, <1>6, <1>7, CommitsStore, RefusalsKeep, StartsKeep, ChangesKeep,
       EditsOfCredentialKeep DEF AC!Next
  <1>8. QED BY <1>1, <1>7

LEMMA AccountsSafe == AccountsInv => AC!TypeOK /\ AC!VaultOpensHosts
  <1> SUFFICES ASSUME AccountsInv PROVE AC!TypeOK /\ AC!VaultOpensHosts
    OBVIOUS
  <1>1. AC!TypeOK
    BY DEF AccountsInv, AccountsTyped, RunRecords, HostRecords, AC!TypeOK
  <1>2. AC!VaultOpensHosts
    BY DEF AccountsInv, AccountsTyped, HostOpens, Rotating, AC!VaultOpensHosts, AC!Working
  <1>3. QED BY <1>1, <1>2

(***************************************************************************)
(* Assets                                                                  *)
(***************************************************************************)
EditRecords == [pc : {"none", "save", "over"}, host : Machine \cup {None},
                groups : SUBSET Team, zid : ZabbixHosts \cup {None}, members : SUBSET Team]
SyncRecords == [pc : {"none", "walk", "over", "failed"},
                list : [ZabbixHosts -> AS!ZbxHosts], todo : SUBSET ZabbixHosts,
                made : [ZabbixHosts -> Machine \cup {None}],
                took : [ZabbixHosts -> Machine \cup {None}]]

AssetsTyped ==
  /\ as_host \in [Machine -> AS!Hosts]
  /\ as_zbx \in [ZabbixHosts -> AS!ZbxHosts]
  /\ as_edit \in [Edits -> EditRecords]
  /\ as_sync \in [Caller -> SyncRecords]
  /\ as_changes \in 0..MaxChanges

\* A row made or named for a host of Zabbix still is its row.
RowLinked(h) == as_host[h].at = "there" => as_host[h].origin \in {None, as_host[h].zid}

\* An update is of a row.
EditOfRow(e) == as_edit[e].pc = "save" => as_edit[e].host \in Machine

OneRow(h, g) ==
  /\ as_host[h].at = "there" /\ as_host[g].at = "there"
  /\ as_host[h].zid = as_host[g].zid /\ as_host[h].zid # None
  => h = g

\* A row that an open transaction has inserted is nobody else's.
MadeAlone(s, z) ==
  as_sync[s].made[z] # None =>
    /\ as_host[as_sync[s].made[z]].at = "none"
    /\ \A t \in Caller, y \in ZabbixHosts : as_sync[t].made[y] = as_sync[s].made[z] => t = s /\ y = z

RowsAgree ==
  /\ \A h \in Machine : RowLinked(h)
  /\ \A e \in Edits : EditOfRow(e)
  /\ \A h, g \in Machine : OneRow(h, g)
  /\ \A s \in Caller, z \in ZabbixHosts : MadeAlone(s, z)

AssetsInv == AssetsTyped /\ RowsAgree

LEMMA NoneApart == None \notin Machine /\ None \notin ZabbixHosts /\ MaxChanges \in Nat
  BY HoldingsAssumption

LEMMA AssetsInit == AS!Init => AssetsInv
  <1> SUFFICES ASSUME AS!Init PROVE AssetsInv
    OBVIOUS
  <1>1. \A h \in Machine : as_host[h] = AS!Nowhere
    BY DEF AS!Init
  <1>2. as_zbx \in [ZabbixHosts -> AS!ZbxHosts]
    BY DEF AS!Init, AS!ZbxHosts
  <1>3. /\ \A e \in Edits : as_edit[e].pc = "none"
        /\ \A s \in Caller, z \in ZabbixHosts : as_sync[s].made[z] = None
    BY DEF AS!Init
  <1>4. AssetsTyped
    <2>1. as_host \in [Machine -> AS!Hosts]
      BY DEF AS!Init, AS!Nowhere, AS!Hosts
    <2>2. as_edit \in [Edits -> EditRecords]
      BY DEF AS!Init, EditRecords
    <2>3. as_sync \in [Caller -> SyncRecords]
      BY <1>2 DEF AS!Init, SyncRecords
    <2>4. as_changes \in 0..MaxChanges
      BY NoneApart DEF AS!Init
    <2>5. QED BY <1>2, <2>1, <2>2, <2>3, <2>4 DEF AssetsTyped
  <1>5. \A h \in Machine : as_host[h].at = "none"
    BY <1>1 DEF AS!Nowhere
  <1>6. RowsAgree
    BY <1>3, <1>5 DEF RowsAgree, RowLinked, EditOfRow, OneRow, MadeAlone
  <1>7. QED BY <1>4, <1>6 DEF AssetsInv

\* The links of the rows stay, and what the updates and the synchronisations
\* hold of them; a row without link may go.
LEMMA LinksRest ==
  ASSUME AssetsInv,
         \A h \in Machine : /\ as_host'[h].zid = as_host[h].zid /\ as_host'[h].origin = as_host[h].origin
                            /\ \/ as_host'[h].at = as_host[h].at
                               \/ as_host[h].at = "there" /\ as_host[h].zid = None /\ as_host'[h].at = "gone",
         \A e \in Edits : as_edit'[e].pc = "save" =>
           as_edit'[e] = as_edit[e] \/ as_edit'[e].host \in Machine,
         \A s \in Caller : as_sync'[s].made = as_sync[s].made
  PROVE  RowsAgree'
  <1>1. \A h \in Machine : RowLinked(h)'
    BY DEF AssetsInv, RowsAgree, RowLinked
  <1>2. \A e \in Edits : EditOfRow(e)'
    BY DEF AssetsInv, RowsAgree, EditOfRow
  <1>3. \A h, g \in Machine : OneRow(h, g)'
    BY DEF AssetsInv, RowsAgree, OneRow
  <1>4. ASSUME NEW s \in Caller, NEW z \in ZabbixHosts PROVE MadeAlone(s, z)'
    <2>1. MadeAlone(s, z)
      BY DEF AssetsInv, RowsAgree
    <2>2. as_sync[s].made[z] \in Machine \cup {None}
      BY DEF AssetsInv, AssetsTyped, SyncRecords
    <2>3. QED BY <2>1, <2>2 DEF MadeAlone
  <1>5. QED BY <1>1, <1>2, <1>3, <1>4 DEF RowsAgree

\* A link that the database accepts is of no other row.
LEMMA LinkIsFree ==
  ASSUME NEW h \in Machine, NEW z \in ZabbixHosts, AS!MayHave(h, z)
  PROVE  \A g \in Machine : as_host[g].at = "there" /\ as_host[g].zid = z => g = h
  BY NoneApart DEF AS!MayHave, AS!RowOf, AS!There

LEMMA CreationsKeep ==
  ASSUME AssetsInv, NEW h \in Machine, AS!CreateHost(h)
  PROVE  AssetsInv'
  <1>1. PICK gs \in SUBSET Team, z \in ZabbixHosts \cup {None} :
          /\ AS!MayHave(h, z)
          /\ as_host' = [as_host EXCEPT ![h] = [at |-> "there", zid |-> z, groups |-> gs, origin |-> z]]
    BY DEF AS!CreateHost
  <1>2. PICK k : k = [at |-> "there", zid |-> z, groups |-> gs, origin |-> z]
    OBVIOUS
  <1>3. k \in AS!Hosts /\ k.zid = z /\ k.origin = z /\ k.at = "there"
    BY <1>2 DEF AS!Hosts
  <1>4. /\ as_host'[h] = k /\ \A g \in Machine \ {h} : as_host'[g] = as_host[g]
        /\ as_host' \in [Machine -> AS!Hosts]
    BY <1>1, <1>2, <1>3 DEF AssetsInv, AssetsTyped
  <1>5. as_zbx' = as_zbx /\ as_edit' = as_edit /\ as_sync' = as_sync /\ as_changes' = as_changes
    BY DEF AS!CreateHost
  <1>6. AssetsTyped'
    BY <1>4, <1>5 DEF AssetsInv, AssetsTyped
  <1>7. as_host[h].at = "none"
    BY DEF AS!CreateHost, AS!Free
  <1>8. \A s \in Caller, y \in ZabbixHosts : as_sync[s].made[y] # h
    BY NoneApart DEF AS!CreateHost, AS!Free, AS!Inserted
  <1>9. \A g \in Machine : RowLinked(g)'
    BY <1>3, <1>4 DEF AssetsInv, RowsAgree, RowLinked
  <1>10. \A e \in Edits : EditOfRow(e)'
    BY <1>4, <1>5, <1>7 DEF AssetsInv, RowsAgree, EditOfRow
  <1>11. ASSUME NEW f \in Machine, NEW g \in Machine PROVE OneRow(f, g)'
    <2>1. z # None => \A x \in Machine : as_host[x].at = "there" /\ as_host[x].zid = z => x = h
      BY <1>1, LinkIsFree
    <2>2. QED BY <1>3, <1>4, <2>1 DEF AssetsInv, RowsAgree, OneRow
  <1>12. ASSUME NEW s \in Caller, NEW y \in ZabbixHosts PROVE MadeAlone(s, y)'
    <2>1. MadeAlone(s, y) /\ as_sync[s].made[y] \in Machine \cup {None}
      BY DEF AssetsInv, AssetsTyped, RowsAgree, SyncRecords
    <2>2. QED BY <1>4, <1>5, <1>8, <2>1 DEF MadeAlone
  <1>13. QED BY <1>6, <1>9, <1>10, <1>11, <1>12 DEF AssetsInv, RowsAgree

LEMMA DeletionsKeep ==
  ASSUME AssetsInv, NEW h \in Machine, AS!DeleteHost(h)
  PROVE  AssetsInv'
  <1>1. PICK k : k = [as_host[h] EXCEPT !.at = "gone", !.groups = {}]
    OBVIOUS
  <1>2. as_host[h] \in AS!Hosts /\ DOMAIN as_host = Machine
    BY DEF AssetsInv, AssetsTyped
  <1>3. k \in AS!Hosts /\ k.zid = as_host[h].zid /\ k.origin = as_host[h].origin /\ k.at = "gone"
    BY <1>1, <1>2 DEF AS!Hosts
  <1>4. as_host' = [as_host EXCEPT ![h] = k]
    BY <1>1, <1>2 DEF AS!DeleteHost
  <1>5. /\ as_host'[h] = k /\ \A g \in Machine \ {h} : as_host'[g] = as_host[g]
        /\ as_host' \in [Machine -> AS!Hosts]
    BY <1>3, <1>4 DEF AssetsInv, AssetsTyped
  <1>6. /\ as_host[h].at = "there" /\ as_host[h].zid = None
        /\ as_zbx' = as_zbx /\ as_edit' = as_edit /\ as_sync' = as_sync /\ as_changes' = as_changes
    BY DEF AS!DeleteHost, AS!There
  <1>7. AssetsTyped'
    BY <1>5, <1>6 DEF AssetsInv, AssetsTyped
  <1>8. RowsAgree'
    BY <1>3, <1>5, <1>6, LinksRest
  <1>9. QED BY <1>7, <1>8 DEF AssetsInv

LEMMA UpdatesRead ==
  ASSUME AssetsInv, NEW e \in Edits, AS!ReadForUpdate(e)
  PROVE  AssetsInv'
  <1>1. PICK h \in Machine, gs \in SUBSET Team, z \in ZabbixHosts \cup {None} :
          as_edit' = [as_edit EXCEPT ![e] = [pc |-> "save", host |-> h, groups |-> gs, zid |-> z,
                                             members |-> as_host[h].groups]]
    BY DEF AS!ReadForUpdate
  <1>2. as_host' = as_host /\ as_zbx' = as_zbx /\ as_sync' = as_sync /\ as_changes' = as_changes
    BY DEF AS!ReadForUpdate
  <1>3. as_host[h].groups \in SUBSET Team
    BY DEF AssetsInv, AssetsTyped, AS!Hosts
  <1>4. PICK k : k = [pc |-> "save", host |-> h, groups |-> gs, zid |-> z, members |-> as_host[h].groups]
    OBVIOUS
  <1>5. k \in EditRecords /\ k.host = h /\ k.zid = z
    BY <1>3, <1>4 DEF EditRecords
  <1>6. as_edit' = [as_edit EXCEPT ![e] = k]
    BY <1>1, <1>4
  <1>7. /\ as_edit' \in [Edits -> EditRecords] /\ as_edit'[e] = k
        /\ \A d \in Edits \ {e} : as_edit'[d] = as_edit[d]
    BY <1>5, <1>6 DEF AssetsInv, AssetsTyped
  <1>8. AssetsTyped'
    BY <1>2, <1>7 DEF AssetsInv, AssetsTyped
  <1>9. RowsAgree'
    BY <1>1, <1>2, <1>5, <1>7, LinksRest
  <1>10. QED BY <1>8, <1>9 DEF AssetsInv

LEMMA UpdatesSave ==
  ASSUME AssetsInv, NEW e \in Edits, AS!SaveUpdate(e)
  PROVE  AssetsInv'
  <1>1. PICK h : h = as_edit[e].host
    OBVIOUS
  <1>2. PICK groups : groups = (as_host[h].groups \ as_edit[e].members) \cup as_edit[e].groups
    OBVIOUS
  <1>3. PICK zid, origin : /\ zid = AS!LinkAfter(as_edit[e].zid, as_host[h].zid)
                           /\ origin = IF as_edit[e].zid = None THEN as_host[h].origin
                                       ELSE as_edit[e].zid
    OBVIOUS
  <1>4. /\ as_edit[e].pc = "save" /\ as_edit' = [as_edit EXCEPT ![e].pc = "over"]
        /\ \/ as_host' = as_host
           \/ /\ as_host[h].at = "there" /\ AS!MayHave(h, zid)
              /\ as_host' = [as_host EXCEPT ![h].groups = groups, ![h].zid = zid, ![h].origin = origin]
        /\ as_zbx' = as_zbx /\ as_sync' = as_sync /\ as_changes' = as_changes
    BY <1>1, <1>2, <1>3 DEF AS!SaveUpdate, AS!There
  <1>5. as_edit[e] \in EditRecords /\ EditOfRow(e)
    BY DEF AssetsInv, AssetsTyped, RowsAgree
  <1>6. h \in Machine /\ as_host[h] \in AS!Hosts
    BY <1>1, <1>4, <1>5 DEF EditOfRow, AssetsInv, AssetsTyped
  <1>7. /\ zid \in ZabbixHosts \cup {None} /\ origin \in ZabbixHosts \cup {None}
        /\ as_host[h].at = "there" => origin \in {None, zid}
    <2>1. RowLinked(h) /\ as_edit[e].zid \in ZabbixHosts \cup {None}
      BY <1>5, <1>6 DEF AssetsInv, RowsAgree, EditRecords
    <2>2. QED BY <1>3, <1>6, <2>1 DEF RowLinked, AS!LinkAfter, AS!Hosts
  <1>8. groups \in SUBSET Team
    BY <1>2, <1>5, <1>6 DEF EditRecords, AS!Hosts
  <1>9. PICK k : k = [as_host[h] EXCEPT !.groups = groups, !.zid = zid, !.origin = origin]
    OBVIOUS
  <1>10. k \in AS!Hosts /\ k.zid = zid /\ k.origin = origin /\ k.at = as_host[h].at
    BY <1>6, <1>7, <1>8, <1>9 DEF AS!Hosts
  <1>11. \/ as_host' = as_host
         \/ as_host[h].at = "there" /\ AS!MayHave(h, zid) /\ as_host' = [as_host EXCEPT ![h] = k]
    BY <1>4, <1>6, <1>9 DEF AssetsInv, AssetsTyped
  <1>12. as_host' \in [Machine -> AS!Hosts]
    BY <1>10, <1>11 DEF AssetsInv, AssetsTyped
  <1>13. /\ as_edit' \in [Edits -> EditRecords]
         /\ \A d \in Edits : as_edit'[d].pc = "save" => as_edit'[d] = as_edit[d]
    <2>1. PICK o : o = [as_edit[e] EXCEPT !.pc = "over"]
      OBVIOUS
    <2>2. o \in EditRecords /\ o.pc = "over"
      BY <1>5, <2>1 DEF EditRecords
    <2>3. as_edit' = [as_edit EXCEPT ![e] = o]
      BY <1>4, <2>1 DEF AssetsInv, AssetsTyped
    <2>4. QED BY <2>2, <2>3 DEF AssetsInv, AssetsTyped
  <1>14. AssetsTyped'
    BY <1>4, <1>12, <1>13 DEF AssetsInv, AssetsTyped
  <1>15. RowsAgree'
    <2>1. CASE as_host' = as_host
      BY <1>4, <1>13, <2>1, LinksRest
    <2>2. CASE as_host[h].at = "there" /\ AS!MayHave(h, zid) /\ as_host' = [as_host EXCEPT ![h] = k]
      <3>1. /\ as_host'[h] = k /\ k.at = "there" /\ k.zid = zid /\ k.origin \in {None, zid}
            /\ \A g \in Machine \ {h} : as_host'[g] = as_host[g]
        BY <1>6, <1>7, <1>10, <2>2 DEF AssetsInv, AssetsTyped
      <3>2. \A g \in Machine : RowLinked(g)'
        BY <3>1 DEF AssetsInv, RowsAgree, RowLinked
      <3>3. \A d \in Edits : EditOfRow(d)'
        BY <1>13 DEF AssetsInv, RowsAgree, EditOfRow
      <3>4. ASSUME NEW f \in Machine, NEW g \in Machine PROVE OneRow(f, g)'
        <4>1. zid # None => \A x \in Machine : as_host[x].at = "there" /\ as_host[x].zid = zid => x = h
          BY <1>6, <1>7, <2>2, LinkIsFree
        <4>2. QED BY <3>1, <4>1 DEF AssetsInv, RowsAgree, OneRow
      <3>5. ASSUME NEW s \in Caller, NEW z \in ZabbixHosts PROVE MadeAlone(s, z)'
        <4>1. MadeAlone(s, z) /\ as_sync[s].made[z] \in Machine \cup {None}
          BY DEF AssetsInv, AssetsTyped, RowsAgree, SyncRecords
        <4>2. as_sync[s].made[z] # None => as_sync[s].made[z] # h
          BY <2>2, <4>1 DEF MadeAlone
        <4>3. QED BY <1>4, <3>1, <4>1, <4>2 DEF MadeAlone
      <3>6. QED BY <3>2, <3>3, <3>4, <3>5 DEF RowsAgree
    <2>3. QED BY <1>11, <2>1, <2>2
  <1>16. QED BY <1>14, <1>15 DEF AssetsInv

LEMMA ZabbixKeeps ==
  ASSUME AssetsInv, NEW z \in ZabbixHosts, AS!ZabbixChanges(z)
  PROVE  AssetsInv'
  <1>1. PICK row \in AS!ZbxHosts : as_zbx' = [as_zbx EXCEPT ![z] = row]
    BY DEF AS!ZabbixChanges
  <1>2. /\ as_changes < MaxChanges /\ as_changes' = as_changes + 1
        /\ as_host' = as_host /\ as_edit' = as_edit /\ as_sync' = as_sync
    BY DEF AS!ZabbixChanges
  <1>3. as_changes' \in 0..MaxChanges
    BY <1>2, NoneApart DEF AssetsInv, AssetsTyped
  <1>4. AssetsTyped'
    BY <1>1, <1>2, <1>3 DEF AssetsInv, AssetsTyped
  <1>5. RowsAgree'
    BY <1>2, LinksRest
  <1>6. QED BY <1>4, <1>5 DEF AssetsInv

\* One synchronisation changes.
LEMMA SyncChanges ==
  ASSUME AssetsInv, NEW s \in Caller, NEW k \in SyncRecords, as_sync' = [as_sync EXCEPT ![s] = k]
  PROVE  /\ as_sync' \in [Caller -> SyncRecords] /\ as_sync'[s] = k
         /\ \A t \in Caller \ {s} : as_sync'[t] = as_sync[t]
  BY DEF AssetsInv, AssetsTyped

LEMMA FetchesKeep ==
  ASSUME AssetsInv, NEW s \in Caller, AS!FetchHosts(s)
  PROVE  AssetsInv'
  <1>1. PICK todo : todo = {z \in ZabbixHosts : as_zbx[z].at = "on"}
    OBVIOUS
  <1>2. PICK k : k = [as_sync[s] EXCEPT !.pc = "walk", !.list = as_zbx, !.todo = todo]
    OBVIOUS
  <1>3. as_sync[s] \in SyncRecords /\ as_zbx \in [ZabbixHosts -> AS!ZbxHosts] /\ DOMAIN as_sync = Caller
    BY DEF AssetsInv, AssetsTyped
  <1>4. k \in SyncRecords
    BY <1>1, <1>2, <1>3 DEF SyncRecords
  <1>5. k.made = as_sync[s].made
    BY <1>2, <1>3 DEF SyncRecords
  <1>6. /\ as_sync' = [as_sync EXCEPT ![s] = k]
        /\ as_host' = as_host /\ as_zbx' = as_zbx /\ as_edit' = as_edit /\ as_changes' = as_changes
    BY <1>1, <1>2, <1>3 DEF AS!FetchHosts
  <1>7. /\ as_sync' \in [Caller -> SyncRecords] /\ as_sync'[s] = k
        /\ \A t \in Caller \ {s} : as_sync'[t] = as_sync[t]
    BY <1>4, <1>6, SyncChanges
  <1>8. AssetsTyped'
    BY <1>6, <1>7 DEF AssetsInv, AssetsTyped
  <1>9. RowsAgree'
    BY <1>5, <1>6, <1>7, LinksRest
  <1>10. QED BY <1>8, <1>9 DEF AssetsInv

LEMMA UpsertsKeep ==
  ASSUME AssetsInv, NEW s \in Caller, NEW z \in ZabbixHosts, AS!UpsertHost(s, z)
  PROVE  AssetsInv'
  <1>1. PICK todo : todo = as_sync[s].todo \ {z}
    OBVIOUS
  <1>2. /\ as_sync[s] \in SyncRecords /\ DOMAIN as_sync = Caller
        /\ as_host' = as_host /\ as_zbx' = as_zbx /\ as_edit' = as_edit /\ as_changes' = as_changes
    BY DEF AssetsInv, AssetsTyped, AS!UpsertHost
  <1>3. ASSUME NEW h \in Machine, as_sync' = [as_sync EXCEPT ![s].todo = todo, ![s].took[z] = h]
        PROVE  AssetsInv'
    <2>1. PICK took : took = [as_sync[s].took EXCEPT ![z] = h]
      OBVIOUS
    <2>2. PICK k : k = [as_sync[s] EXCEPT !.todo = todo, !.took = took]
      OBVIOUS
    <2>a. took \in [ZabbixHosts -> Machine \cup {None}]
      BY <1>2, <2>1 DEF SyncRecords
    <2>b. k \in SyncRecords /\ k.made = as_sync[s].made
      BY <1>1, <1>2, <2>2, <2>a DEF SyncRecords
    <2>3. as_sync' = [as_sync EXCEPT ![s] = k]
      <3>1. as_sync[s] = [pc |-> as_sync[s].pc, list |-> as_sync[s].list, todo |-> as_sync[s].todo,
                          made |-> as_sync[s].made, took |-> as_sync[s].took]
        BY <1>2 DEF SyncRecords
      <3>2. QED BY <1>2, <1>3, <2>1, <2>2, <3>1
    <2>4. /\ as_sync' \in [Caller -> SyncRecords] /\ as_sync'[s] = k
          /\ \A t \in Caller \ {s} : as_sync'[t] = as_sync[t]
      BY <2>b, <2>3, SyncChanges
    <2>5. AssetsTyped'
      BY <1>2, <2>4 DEF AssetsInv, AssetsTyped
    <2>6. RowsAgree'
      BY <1>2, <2>b, <2>4, LinksRest
    <2>7. QED BY <2>5, <2>6 DEF AssetsInv
  <1>4. ASSUME NEW h \in AS!Free, as_sync' = [as_sync EXCEPT ![s].todo = todo, ![s].made[z] = h]
        PROVE  AssetsInv'
    <2>1. PICK made : made = [as_sync[s].made EXCEPT ![z] = h]
      OBVIOUS
    <2>2. PICK k : k = [as_sync[s] EXCEPT !.todo = todo, !.made = made]
      OBVIOUS
    <2>3. /\ h \in Machine /\ as_host[h].at = "none"
          /\ \A t \in Caller, y \in ZabbixHosts : as_sync[t].made[y] # h
      BY NoneApart DEF AS!Free, AS!Inserted
    <2>4. /\ made \in [ZabbixHosts -> Machine \cup {None}] /\ made[z] = h
          /\ \A y \in ZabbixHosts \ {z} : made[y] = as_sync[s].made[y]
      BY <1>2, <2>1, <2>3 DEF SyncRecords
    <2>5. k \in SyncRecords
      BY <1>1, <1>2, <2>2, <2>4 DEF SyncRecords
    <2>a. k.made = made
      BY <1>2, <2>2 DEF SyncRecords
    <2>6. as_sync' = [as_sync EXCEPT ![s] = k]
      <3>1. as_sync[s] = [pc |-> as_sync[s].pc, list |-> as_sync[s].list, todo |-> as_sync[s].todo,
                          made |-> as_sync[s].made, took |-> as_sync[s].took]
        BY <1>2 DEF SyncRecords
      <3>2. QED BY <1>2, <1>4, <2>1, <2>2, <3>1
    <2>7. /\ as_sync' \in [Caller -> SyncRecords] /\ as_sync'[s] = k
          /\ \A t \in Caller \ {s} : as_sync'[t] = as_sync[t]
      BY <2>5, <2>6, SyncChanges
    <2>8. AssetsTyped'
      BY <1>2, <2>7 DEF AssetsInv, AssetsTyped
    <2>9. ASSUME NEW t \in Caller, NEW y \in ZabbixHosts PROVE MadeAlone(t, y)'
      <3>1. /\ as_sync'[s].made[z] = h
            /\ \A u \in Caller, x \in ZabbixHosts :
                 ~(u = s /\ x = z) => as_sync'[u].made[x] = as_sync[u].made[x]
        BY <2>4, <2>a, <2>7
      <3>2. MadeAlone(t, y)
        BY DEF AssetsInv, RowsAgree
      <3>3. CASE t = s /\ y = z
        BY <1>2, <2>3, <3>1, <3>3 DEF MadeAlone
      <3>4. CASE ~(t = s /\ y = z)
        BY <1>2, <2>3, <3>1, <3>2, <3>4 DEF MadeAlone
      <3>5. QED BY <3>3, <3>4
    <2>10. /\ \A g \in Machine : RowLinked(g)' /\ \A f \in Machine : OneRow(g, f)'
           /\ \A e \in Edits : EditOfRow(e)'
      BY <1>2 DEF AssetsInv, RowsAgree, RowLinked, OneRow, EditOfRow
    <2>11. QED BY <2>8, <2>9, <2>10 DEF AssetsInv, RowsAgree
  <1>5. \A h \in AS!RowOf(z) : h \in Machine
    BY DEF AS!RowOf
  <1>6. QED BY <1>1, <1>3, <1>4, <1>5 DEF AS!UpsertHost

\* What a commit leaves of a row: one that it has inserted is the row of its host,
\* and of no other that is there; the link of every other one rests.
LEMMA WrittenRow ==
  ASSUME AssetsInv, NEW s \in Caller, AS!CommitSync(s), NEW h \in Machine
  PROVE  /\ as_host'[h] \in AS!Hosts
         /\ \/ /\ as_host'[h].at = as_host[h].at /\ as_host'[h].zid = as_host[h].zid
               /\ as_host'[h].origin = as_host[h].origin
            \/ \E z \in ZabbixHosts :
                 /\ as_sync[s].made[z] = h /\ as_host[h].at = "none" /\ AS!RowOf(z) = {}
                 /\ as_host'[h].at = "there" /\ as_host'[h].zid = z /\ as_host'[h].origin = z
  <1> DEFINE made == as_sync[s].made
             listed == {z \in ZabbixHosts : as_sync[s].list[z].at = "on"}
             named(g) == UNION {as_sync[s].list[z].groups :
                                  z \in {y \in listed : g \in {made[y], as_sync[s].took[y]}}}
             accepted == \A z \in listed : made[z] # None => AS!RowOf(z) = {}
             mine == \E z \in listed : made[z] = h
  <1>1. as_sync[s] \in SyncRecords /\ as_host[h] \in AS!Hosts /\ DOMAIN as_host = Machine
    BY DEF AssetsInv, AssetsTyped
  <1>2. named(h) \in SUBSET Team
    BY <1>1 DEF SyncRecords, AS!ZbxHosts
  <1>3. PICK z : z = CHOOSE y \in listed : made[y] = h
    BY Zenon
  <1>4. PICK k : k = [as_host[h] EXCEPT !.groups = as_host[h].groups \cup named(h)]
    OBVIOUS
  <1>5. as_host'[h] = IF ~accepted THEN as_host[h]
                      ELSE IF mine THEN [at |-> "there", zid |-> z, origin |-> z, groups |-> named(h)]
                      ELSE k
    BY <1>1, <1>3, <1>4 DEF AS!CommitSync
  <1>6. CASE accepted /\ mine
    <2>1. z \in listed /\ made[z] = h
      <3> HIDE DEF listed, made
      <3> QED BY <1>3, <1>6
    <2>2. MadeAlone(s, z) /\ z \in ZabbixHosts
      BY <2>1 DEF AssetsInv, RowsAgree
    <2>3. as_host[h].at = "none" /\ AS!RowOf(z) = {}
      BY <1>6, <2>1, <2>2, NoneApart DEF MadeAlone
    <2> HIDE DEF named
    <2>4. as_host'[h] \in AS!Hosts
      BY <1>2, <1>5, <1>6, <2>2 DEF AS!Hosts
    <2>5. QED BY <1>5, <1>6, <2>1, <2>2, <2>3, <2>4
  <1>7. CASE accepted /\ ~mine
    <2> HIDE DEF named
    <2>1. k \in AS!Hosts /\ k.at = as_host[h].at /\ k.zid = as_host[h].zid /\ k.origin = as_host[h].origin
      BY <1>1, <1>2, <1>4 DEF AS!Hosts
    <2>2. QED BY <1>5, <1>7, <2>1
  <1>8. CASE ~accepted
    BY <1>1, <1>5, <1>8
  <1>9. QED BY <1>6, <1>7, <1>8

LEMMA SyncsCommit ==
  ASSUME AssetsInv, NEW s \in Caller, AS!CommitSync(s)
  PROVE  AssetsInv'
  <1> DEFINE Rests(h) == /\ as_host'[h].at = as_host[h].at /\ as_host'[h].zid = as_host[h].zid
                         /\ as_host'[h].origin = as_host[h].origin
             Made(h, z) == /\ as_sync[s].made[z] = h /\ as_host[h].at = "none" /\ AS!RowOf(z) = {}
                           /\ as_host'[h].at = "there" /\ as_host'[h].zid = z /\ as_host'[h].origin = z
  <1>1. /\ as_zbx' = as_zbx /\ as_edit' = as_edit /\ as_changes' = as_changes
        /\ as_sync[s] \in SyncRecords /\ DOMAIN as_sync = Caller
    BY DEF AS!CommitSync, AssetsInv, AssetsTyped
  <1>2. \A h \in Machine : Rests(h) \/ \E z \in ZabbixHosts : Made(h, z)
    BY WrittenRow
  <1>3. as_host' \in [Machine -> AS!Hosts]
    <2>1. as_host' = [h \in Machine |-> as_host'[h]]
      BY DEF AS!CommitSync, AssetsInv, AssetsTyped
    <2>2. \A h \in Machine : as_host'[h] \in AS!Hosts
      BY WrittenRow
    <2>3. QED BY <2>1, <2>2, SMTT(30)
  <1>6. PICK none : none = [z \in ZabbixHosts |-> None]
    OBVIOUS
  <1>7. PICK pc \in {"over", "failed"} :
          as_sync' = [as_sync EXCEPT ![s].pc = pc, ![s].made = none, ![s].took = none]
    BY <1>6 DEF AS!CommitSync
  <1>8. PICK k : k = [as_sync[s] EXCEPT !.pc = pc, !.made = none, !.took = none]
    OBVIOUS
  <1>9. k \in SyncRecords
    BY <1>1, <1>6, <1>8 DEF SyncRecords
  <1>10. k.made = none
    BY <1>1, <1>8 DEF SyncRecords
  <1>11. as_sync' = [as_sync EXCEPT ![s] = k]
    BY <1>1, <1>7, <1>8 DEF SyncRecords
  <1>12. /\ as_sync' \in [Caller -> SyncRecords] /\ as_sync'[s] = k
         /\ \A t \in Caller \ {s} : as_sync'[t] = as_sync[t]
    BY <1>9, <1>11, SyncChanges
  <1>13. AssetsTyped'
    BY <1>1, <1>3, <1>12 DEF AssetsInv, AssetsTyped
  <1>14. ASSUME NEW h \in Machine PROVE RowLinked(h)'
    <2>1. RowLinked(h)
      BY DEF AssetsInv, RowsAgree
    <2>2. QED BY <1>2, <2>1 DEF RowLinked
  <1>15. \A e \in Edits : EditOfRow(e)'
    BY <1>1 DEF AssetsInv, RowsAgree, EditOfRow
  <1>16. ASSUME NEW h \in Machine, NEW g \in Machine PROVE OneRow(h, g)'
    <2>1. OneRow(h, g)
      BY DEF AssetsInv, RowsAgree
    <2>2. SUFFICES ASSUME as_host'[h].at = "there", as_host'[g].at = "there",
                          as_host'[h].zid = as_host'[g].zid, as_host'[h].zid # None
                   PROVE  h = g
      BY DEF OneRow
    <2>3. \A f \in Machine, z \in ZabbixHosts :
            AS!RowOf(z) = {} => ~(as_host[f].at = "there" /\ as_host[f].zid = z)
      BY DEF AS!RowOf, AS!There
    <2>4. CASE Rests(h) /\ Rests(g)
      BY <2>1, <2>2, <2>4 DEF OneRow
    <2>5. ASSUME NEW z \in ZabbixHosts, Made(h, z), Rests(g) PROVE FALSE
      BY <2>2, <2>3, <2>5
    <2>6. ASSUME NEW z \in ZabbixHosts, Made(g, z), Rests(h) PROVE FALSE
      BY <2>2, <2>3, <2>6
    <2>7. ASSUME NEW y \in ZabbixHosts, NEW z \in ZabbixHosts, Made(h, y), Made(g, z) PROVE h = g
      BY <2>2, <2>7
    <2> HIDE DEF Rests, Made
    <2>8. QED BY <1>2, <2>4, <2>5, <2>6, <2>7
  <1>17. ASSUME NEW t \in Caller, NEW y \in ZabbixHosts PROVE MadeAlone(t, y)'
    <2>1. as_sync'[s].made[y] = None
      BY <1>6, <1>10, <1>12
    <2>2. CASE t = s
      BY <2>1, <2>2 DEF MadeAlone
    <2>3. CASE t # s
      <3>1. as_sync'[t] = as_sync[t] /\ MadeAlone(t, y)
        BY <1>12, <2>3 DEF AssetsInv, RowsAgree
      <3>2. SUFFICES ASSUME as_sync[t].made[y] # None
                     PROVE  /\ as_host'[as_sync[t].made[y]].at = "none"
                            /\ \A u \in Caller, x \in ZabbixHosts :
                                 as_sync'[u].made[x] = as_sync[t].made[y] => u = t /\ x = y
        BY <3>1 DEF MadeAlone
      <3>3. /\ as_host[as_sync[t].made[y]].at = "none"
            /\ \A u \in Caller, x \in ZabbixHosts :
                 as_sync[u].made[x] = as_sync[t].made[y] => u = t /\ x = y
        BY <3>1, <3>2 DEF MadeAlone
      <3>4. as_sync[t].made[y] \in Machine
        BY <3>2 DEF AssetsInv, AssetsTyped, SyncRecords
      <3>5. as_host'[as_sync[t].made[y]].at = "none"
        BY <1>2, <2>3, <3>3, <3>4
      <3>6. \A x \in ZabbixHosts : as_sync'[s].made[x] = None
        BY <1>6, <1>10, <1>12
      <3>7. QED BY <1>12, <3>2, <3>3, <3>5, <3>6
    <2>4. QED BY <2>2, <2>3
  <1>18. QED BY <1>13, <1>14, <1>15, <1>16, <1>17 DEF AssetsInv, RowsAgree

LEMMA AssetsKeep == AssetsInv /\ [AS!Next]_(AS!vars) => AssetsInv'
  <1> SUFFICES ASSUME AssetsInv, [AS!Next]_(AS!vars) PROVE AssetsInv'
    OBVIOUS
  <1>1. CASE UNCHANGED AS!vars
    BY <1>1 DEF AS!vars, AssetsInv, AssetsTyped, RowsAgree, RowLinked, EditOfRow, OneRow, MadeAlone
  <1>2. CASE AS!Next
    BY <1>2, CreationsKeep, DeletionsKeep, UpdatesRead, UpdatesSave, ZabbixKeeps, FetchesKeep,
       UpsertsKeep, SyncsCommit DEF AS!Next
  <1>3. QED BY <1>1, <1>2

\* A set all whose members are equal has at most one.
LEMMA AtMostOne ==
  ASSUME NEW S, \A x, y \in S : x = y
  PROVE  Cardinality(S) <= 1
  <1>1. CASE S = {}
    BY <1>1, FS_EmptySet
  <1>2. CASE S # {}
    <2>1. PICK x : x \in S
      BY <1>2
    <2>2. S = {x}
      BY <2>1
    <2>3. QED BY <2>2, FS_Singleton
  <1>3. QED BY <1>1, <1>2

LEMMA AssetsSafe == AssetsInv => AS!TypeOK /\ AS!ZabbixHostHasOneRow
  <1> SUFFICES ASSUME AssetsInv PROVE AS!TypeOK /\ AS!ZabbixHostHasOneRow
    OBVIOUS
  <1>1. AS!TypeOK
    BY DEF AssetsInv, AssetsTyped, EditRecords, SyncRecords, AS!TypeOK
  <1>2. ASSUME NEW z \in ZabbixHosts
        PROVE  AS!Cardinality({h \in Machine : AS!There(h) /\ as_host[h].origin = z}) <= 1
    <2> DEFINE S == {h \in Machine : AS!There(h) /\ as_host[h].origin = z}
    <2>1. \A h \in S : h \in Machine /\ as_host[h].at = "there" /\ as_host[h].zid = z /\ z # None
      BY NoneApart DEF AS!There, AssetsInv, RowsAgree, RowLinked
    <2>2. \A h, g \in S : h = g
      BY <2>1 DEF AssetsInv, RowsAgree, OneRow
    <2>3. AS!Cardinality(S) = Cardinality(S)
      BY DEF AS!Cardinality, Cardinality
    <2> HIDE DEF S
    <2>4. Cardinality(S) <= 1
      BY <2>2, AtMostOne
    <2>5. AS!Cardinality(S) <= 1
      BY <2>3, <2>4
    <2>6. QED BY <2>5 DEF S
  <1>3. QED BY <1>1, <1>2 DEF AS!ZabbixHostHasOneRow

(***************************************************************************)
(* Zones                                                                   *)
(***************************************************************************)
\* A path climbs no zone twice and a chain has no hop twice.
PathInv ==
  /\ zo_zone \in [Zone -> ZO!Zones] /\ zo_move \in [Caller -> ZO!Moves] /\ zo_ask \in [Queries -> ZO!Asks]
  /\ \A a \in Queries :
       /\ \A i, j \in 1..Len(zo_ask[a].path) : zo_ask[a].path[i] = zo_ask[a].path[j] => i = j
       /\ \A i, j \in 1..Len(zo_ask[a].chain) : zo_ask[a].chain[i] = zo_ask[a].chain[j] => i = j

LEMMA PathInit == ZO!Init => PathInv
  <1> SUFFICES ASSUME ZO!Init PROVE PathInv
    OBVIOUS
  <1>1. zo_zone \in [Zone -> ZO!Zones]
    <2>1. PICK there \in SUBSET Zone, hosts \in [Zone -> SUBSET Endpoints], legacy \in [Zone -> SUBSET Endpoints] :
            zo_zone = [z \in Zone |->
                         [at |-> IF z \in there THEN "there" ELSE "none", parent |-> None,
                          hosts |-> IF z \in there THEN hosts[z] ELSE {},
                          legacy |-> IF z \in there THEN legacy[z] ELSE {}]]
      BY DEF ZO!Init
    <2>2. ASSUME NEW z \in Zone
          PROVE  [at |-> IF z \in there THEN "there" ELSE "none", parent |-> None,
                  hosts |-> IF z \in there THEN hosts[z] ELSE {},
                  legacy |-> IF z \in there THEN legacy[z] ELSE {}] \in ZO!Zones
      <3>1. hosts[z] \in SUBSET Endpoints /\ legacy[z] \in SUBSET Endpoints
        OBVIOUS
      <3>2. QED BY <3>1 DEF ZO!Zones
    <2>3. QED BY <2>1, <2>2
  <1>2. zo_move \in [Caller -> ZO!Moves]
    BY DEF ZO!Init, ZO!Moves
  <1>3. PICK k : k = [pc |-> "none", current |-> None, path |-> <<>>, chain |-> <<>>]
    OBVIOUS
  <1>4. k \in ZO!Asks /\ Len(k.path) = 0 /\ Len(k.chain) = 0
    BY <1>3 DEF ZO!Asks
  <1>5. zo_ask = [a \in Queries |-> k]
    BY <1>3 DEF ZO!Init
  <1>6. QED BY <1>1, <1>2, <1>4, <1>5 DEF PathInv

\* Only the requests of administrators have changed, or the zones.
LEMMA MovesKeep ==
  ASSUME PathInv, zo_ask' = zo_ask, zo_zone' \in [Zone -> ZO!Zones], zo_move' \in [Caller -> ZO!Moves]
  PROVE  PathInv'
  BY DEF PathInv

\* One question is changed.
LEMMA AsksKeep ==
  ASSUME PathInv, NEW a \in Queries, NEW k \in ZO!Asks, zo_zone' = zo_zone, zo_move' = zo_move,
         zo_ask' = [zo_ask EXCEPT ![a] = k],
         \A i, j \in 1..Len(k.path) : k.path[i] = k.path[j] => i = j,
         \A i, j \in 1..Len(k.chain) : k.chain[i] = k.chain[j] => i = j
  PROVE  PathInv'
  <1>1. /\ zo_ask' \in [Queries -> ZO!Asks] /\ zo_ask'[a] = k
        /\ \A b \in Queries : b # a => zo_ask'[b] = zo_ask[b]
    BY DEF PathInv
  <1>2. ASSUME NEW b \in Queries
        PROVE  /\ \A i, j \in 1..Len(zo_ask'[b].path) : zo_ask'[b].path[i] = zo_ask'[b].path[j] => i = j
               /\ \A i, j \in 1..Len(zo_ask'[b].chain) : zo_ask'[b].chain[i] = zo_ask'[b].chain[j] => i = j
    <2>1. CASE b = a
      BY <1>1, <2>1
    <2>2. CASE b # a
      BY <1>1, <2>2 DEF PathInv
    <2>3. QED BY <2>1, <2>2
  <1>3. QED BY <1>1, <1>2 DEF PathInv

LEMMA ZoneShape ==
  ASSUME PathInv, NEW z \in Zone
  PROVE  /\ zo_zone[z] \in ZO!Zones /\ zo_zone[z].parent \in Zone \cup {None}
         /\ zo_zone[z].hosts \in SUBSET Endpoints /\ zo_zone[z].legacy \in SUBSET Endpoints
  BY DEF PathInv, ZO!Zones

LEMMA MoveShape ==
  ASSUME PathInv, NEW m \in Caller
  PROVE  /\ zo_move[m] \in ZO!Moves /\ zo_move[m].current \in Zone \cup {None}
         /\ zo_move[m].parent \in Zone \cup {None} /\ zo_move[m].zone \in Zone \cup {None}
         /\ zo_move[m].seen \in SUBSET Zone
  BY DEF PathInv, ZO!Moves

LEMMA AskedMovesKeep ==
  ASSUME PathInv, NEW m \in Caller, ZO!CreateZone(m) \/ ZO!UpdateZone(m)
  PROVE  PathInv'
  <1>1. zo_zone' = zo_zone /\ zo_ask' = zo_ask
    BY DEF ZO!CreateZone, ZO!UpdateZone
  <1>2. PICK z \in Zone, p \in Zone \cup {None}, q \in {"save", "over", "walk"}, b \in BOOLEAN :
          zo_move' = [zo_move EXCEPT ![m] = [zo_move[m] EXCEPT !.pc = q, !.zone = z, !.new = b,
                                                               !.parent = p, !.current = p]]
    <2>1. CASE ZO!CreateZone(m)
      <3>1. PICK z \in Zone, p \in Zone \cup {None} :
              zo_move' = [zo_move EXCEPT ![m] = [@ EXCEPT !.pc = ZO!StartPc(None, p), !.zone = z,
                            !.new = TRUE, !.parent = p, !.current = p]]
        BY <2>1 DEF ZO!CreateZone
      <3>2. ZO!StartPc(None, p) \in {"save", "over", "walk"}
        BY DEF ZO!StartPc
      <3>3. QED BY <3>1, <3>2
    <2>2. CASE ZO!UpdateZone(m)
      <3>1. PICK z \in Zone, p \in Zone \cup {None} :
              zo_move' = [zo_move EXCEPT ![m] = [@ EXCEPT !.pc = ZO!StartPc(z, p), !.zone = z,
                            !.parent = p, !.current = p]]
        BY <2>2 DEF ZO!UpdateZone
      <3>2. ZO!StartPc(z, p) \in {"save", "over", "walk"}
        BY DEF ZO!StartPc
      <3>3. PICK b \in BOOLEAN : b = zo_move[m].new
        BY MoveShape DEF ZO!Moves
      <3>4. [zo_move[m] EXCEPT !.pc = ZO!StartPc(z, p), !.zone = z, !.parent = p, !.current = p]
              = [zo_move[m] EXCEPT !.pc = ZO!StartPc(z, p), !.zone = z, !.new = b, !.parent = p, !.current = p]
        BY <3>3, MoveShape DEF ZO!Moves
      <3>5. QED BY <3>1, <3>2, <3>4
    <2>3. QED BY <2>1, <2>2
  <1>3. PICK k : k = [zo_move[m] EXCEPT !.pc = q, !.zone = z, !.new = b, !.parent = p, !.current = p]
    OBVIOUS
  <1>4. k \in ZO!Moves
    BY <1>3, MoveShape DEF ZO!Moves
  <1>5. zo_move' = [zo_move EXCEPT ![m] = k]
    BY <1>2, <1>3
  <1>6. zo_move' \in [Caller -> ZO!Moves]
    BY <1>4, <1>5 DEF PathInv
  <1>7. QED BY <1>1, <1>6, MovesKeep DEF PathInv

LEMMA ValidatedMovesKeep ==
  ASSUME PathInv, NEW m \in Caller, ZO!ValidateParent(m)
  PROVE  PathInv'
  <1>1. zo_zone' = zo_zone /\ zo_ask' = zo_ask
    BY DEF ZO!ValidateParent
  <1>2. PICK c : c = zo_move[m].current
    OBVIOUS
  <1>3. c \in Zone \cup {None}
    BY <1>2, MoveShape
  <1>4. PICK k \in ZO!Moves : zo_move' = [zo_move EXCEPT ![m] = k]
    <2>1. CASE ~ZO!GoesOn(c, zo_move[m].seen)
      <3>1. zo_move' = [zo_move EXCEPT ![m] = [@ EXCEPT !.pc = "save"]]
        BY <1>2, <2>1 DEF ZO!ValidateParent
      <3>2. [zo_move[m] EXCEPT !.pc = "save"] \in ZO!Moves
        BY MoveShape DEF ZO!Moves
      <3>3. QED BY <3>1, <3>2
    <2>2. CASE ZO!GoesOn(c, zo_move[m].seen) /\ c = zo_move[m].zone /\ ~zo_move[m].new
      <3>1. zo_move' = [zo_move EXCEPT ![m] = [@ EXCEPT !.pc = "over"]]
        BY <1>2, <2>2 DEF ZO!ValidateParent
      <3>2. [zo_move[m] EXCEPT !.pc = "over"] \in ZO!Moves
        BY MoveShape DEF ZO!Moves
      <3>3. QED BY <3>1, <3>2
    <2>3. CASE ZO!GoesOn(c, zo_move[m].seen) /\ ~(c = zo_move[m].zone /\ ~zo_move[m].new)
      <3>1. PICK d : d = IF ZO!Exists(c) THEN zo_zone[c].parent ELSE None
        OBVIOUS
      <3>2. d \in Zone \cup {None}
        BY <3>1, ZoneShape DEF ZO!Exists
      <3>3. zo_move' = [zo_move EXCEPT ![m] = [zo_move[m] EXCEPT !.seen = zo_move[m].seen \cup {c}, !.current = d]]
        BY <1>2, <2>3, <3>1 DEF ZO!ValidateParent
      <3>4. PICK k : k = [zo_move[m] EXCEPT !.seen = zo_move[m].seen \cup {c}, !.current = d]
        OBVIOUS
      <3>5. c \in Zone
        BY <1>3, <2>3 DEF ZO!GoesOn
      <3>6. zo_move[m].seen \cup {c} \in SUBSET Zone
        BY <3>5, MoveShape
      <3>7. k \in ZO!Moves
        BY <3>2, <3>4, <3>6, MoveShape DEF ZO!Moves
      <3>8. QED BY <3>3, <3>4, <3>7
    <2>4. QED BY <2>1, <2>2, <2>3
  <1>5. zo_move' \in [Caller -> ZO!Moves]
    BY <1>4 DEF PathInv
  <1>6. QED BY <1>1, <1>5, MovesKeep DEF PathInv

LEMMA ZoneSavesKeep ==
  ASSUME PathInv, NEW m \in Caller, ZO!SaveZone(m)
  PROVE  PathInv'
  <1>1. zo_ask' = zo_ask /\ zo_move' = [zo_move EXCEPT ![m].pc = "over"]
    BY DEF ZO!SaveZone
  <1>2. [zo_move[m] EXCEPT !.pc = "over"] \in ZO!Moves
    BY MoveShape DEF ZO!Moves
  <1>3. zo_move' \in [Caller -> ZO!Moves]
    BY <1>1, <1>2 DEF PathInv
  <1>4. PICK z, p : z = zo_move[m].zone /\ p = zo_move[m].parent
    OBVIOUS
  <1>5. zo_zone' \in [Zone -> ZO!Zones]
    <2>1. zo_zone' = zo_zone \/ zo_zone' = [zo_zone EXCEPT ![z].at = "there", ![z].parent = p]
      BY <1>4 DEF ZO!SaveZone
    <2>2. CASE zo_zone' = [zo_zone EXCEPT ![z].at = "there", ![z].parent = p]
      <3>1. p \in Zone \cup {None}
        BY <1>4, MoveShape
      <3>2. PICK f : f = [zo_zone EXCEPT ![z].at = "there"]
        OBVIOUS
      <3>3. zo_zone' = [f EXCEPT ![z].parent = p]
        BY <2>2, <3>2
      <3>4. \A y \in Zone : [zo_zone[y] EXCEPT !.at = "there"] \in ZO!Zones
        BY ZoneShape DEF ZO!Zones
      <3>5. f \in [Zone -> ZO!Zones]
        BY <3>2, <3>4 DEF PathInv
      <3>6. \A y \in Zone : [f[y] EXCEPT !.parent = p] \in ZO!Zones
        BY <3>1, <3>5 DEF ZO!Zones
      <3>7. QED BY <3>3, <3>5, <3>6
    <2>3. QED BY <2>1, <2>2 DEF PathInv
  <1>6. QED BY <1>1, <1>3, <1>5, MovesKeep

LEMMA ZoneEditsKeep ==
  ASSUME PathInv, NEW z \in Zone, ZO!DeleteZone(z) \/ ZO!EditGateways(z) \/ ZO!EditGatewayHosts(z)
  PROVE  PathInv'
  <1>1. zo_ask' = zo_ask /\ zo_move' = zo_move
    BY DEF ZO!DeleteZone, ZO!EditGateways, ZO!EditGatewayHosts
  <1>2. zo_zone' \in [Zone -> ZO!Zones]
    <2>1. CASE ZO!DeleteZone(z)
      <3>1. zo_zone' = [y \in Zone |->
              IF y = z THEN [at |-> "gone", parent |-> None, hosts |-> {}, legacy |-> {}]
              ELSE [zo_zone[y] EXCEPT !.parent = IF @ = z THEN None ELSE @]]
        BY <2>1 DEF ZO!DeleteZone
      <3>2. [at |-> "gone", parent |-> None, hosts |-> {}, legacy |-> {}] \in ZO!Zones
        BY DEF ZO!Zones
      <3>3. ASSUME NEW y \in Zone
            PROVE  [zo_zone[y] EXCEPT !.parent = IF @ = z THEN None ELSE @] \in ZO!Zones
        <4>1. PICK d \in Zone \cup {None} : d = IF zo_zone[y].parent = z THEN None ELSE zo_zone[y].parent
          BY ZoneShape
        <4>2. [zo_zone[y] EXCEPT !.parent = d] \in ZO!Zones
          BY ZoneShape DEF ZO!Zones
        <4>3. QED BY <4>1, <4>2
      <3>4. QED BY <3>1, <3>2, <3>3
    <2>2. CASE ZO!EditGateways(z)
      <3>1. PICK es \in SUBSET Endpoints : zo_zone' = [zo_zone EXCEPT ![z].legacy = es]
        BY <2>2 DEF ZO!EditGateways
      <3>2. [zo_zone[z] EXCEPT !.legacy = es] \in ZO!Zones
        BY ZoneShape DEF ZO!Zones
      <3>3. QED BY <3>1, <3>2 DEF PathInv
    <2>3. CASE ZO!EditGatewayHosts(z)
      <3>1. PICK es \in SUBSET Endpoints : zo_zone' = [zo_zone EXCEPT ![z].hosts = es]
        BY <2>3 DEF ZO!EditGatewayHosts
      <3>2. [zo_zone[z] EXCEPT !.hosts = es] \in ZO!Zones
        BY ZoneShape DEF ZO!Zones
      <3>3. QED BY <3>1, <3>2 DEF PathInv
    <2>4. QED BY <2>1, <2>2, <2>3
  <1>3. QED BY <1>1, <1>2, MovesKeep DEF PathInv

LEMMA AskShape ==
  ASSUME PathInv, NEW a \in Queries
  PROVE  /\ zo_ask[a] \in ZO!Asks /\ zo_ask[a].current \in Zone \cup {None}
         /\ zo_ask[a].path \in Seq(Zone) /\ zo_ask[a].chain \in Seq(Endpoints)
         /\ \A i, j \in 1..Len(zo_ask[a].path) : zo_ask[a].path[i] = zo_ask[a].path[j] => i = j
         /\ \A i, j \in 1..Len(zo_ask[a].chain) : zo_ask[a].chain[i] = zo_ask[a].chain[j] => i = j
  BY DEF PathInv, ZO!Asks

LEMMA AskPut ==
  ASSUME NEW k \in ZO!Asks, NEW s \in Seq(Zone)
  PROVE  /\ \A z \in Zone \cup {None} : [k EXCEPT !.path = s, !.current = z] \in ZO!Asks
         /\ \A h \in Seq(Endpoints) : [k EXCEPT !.path = s, !.chain = h] \in ZO!Asks
  BY DEF ZO!Asks

LEMMA AskedKeep ==
  ASSUME PathInv, NEW a \in Queries, ZO!AskChain(a)
  PROVE  PathInv'
  <1>1. PICK z \in Zone : zo_ask' = [zo_ask EXCEPT ![a].pc = "up", ![a].current = z]
    BY DEF ZO!AskChain
  <1>2. zo_zone' = zo_zone /\ zo_move' = zo_move
    BY DEF ZO!AskChain
  <1>3. PICK k : k = [zo_ask[a] EXCEPT !.pc = "up", !.current = z]
    OBVIOUS
  <1>4. k \in ZO!Asks
    BY <1>3, AskShape DEF ZO!Asks
  <1>5. k.path = zo_ask[a].path /\ k.chain = zo_ask[a].chain
    BY <1>3, AskShape DEF ZO!Asks
  <1>6. zo_ask' = [zo_ask EXCEPT ![a] = k]
    <2>1. PICK f : f = [zo_ask EXCEPT ![a].pc = "up"]
      OBVIOUS
    <2>2. f = [zo_ask EXCEPT ![a] = [zo_ask[a] EXCEPT !.pc = "up"]] /\ DOMAIN f = Queries
          /\ f[a] = [zo_ask[a] EXCEPT !.pc = "up"]
      BY <2>1 DEF PathInv
    <2>3. zo_ask' = [f EXCEPT ![a] = [f[a] EXCEPT !.current = z]]
      BY <1>1, <2>1
    <2>4. k = [f[a] EXCEPT !.current = z]
      BY <1>3, <2>2
    <2>5. QED BY <2>2, <2>3, <2>4
  <1>7. QED BY <1>2, <1>4, <1>5, <1>6, AskShape, AsksKeep

\* A zone that a path has not passed goes in front of it.
LEMMA Prefixed ==
  ASSUME NEW S, NEW s \in Seq(S), NEW c \in S,
         \A i, j \in 1..Len(s) : s[i] = s[j] => i = j, \A i \in 1..Len(s) : s[i] # c
  PROVE  /\ <<c>> \o s \in Seq(S)
         /\ \A i, j \in 1..Len(<<c>> \o s) : (<<c>> \o s)[i] = (<<c>> \o s)[j] => i = j
  <1>1. PICK t : t = <<c>> \o s
    OBVIOUS
  <1>2. t \in Seq(S) /\ Len(t) = Len(s) + 1 /\ t[1] = c
    BY <1>1
  <1>3. \A i \in 1..Len(t) : i # 1 => t[i] = s[i - 1] /\ i - 1 \in 1..Len(s)
    BY <1>1, <1>2
  <1>4. ASSUME NEW i \in 1..Len(t), NEW j \in 1..Len(t), t[i] = t[j]
        PROVE  i = j
    <2>1. CASE i = 1
      BY <1>2, <1>3, <1>4, <2>1
    <2>2. CASE j = 1
      BY <1>2, <1>3, <1>4, <2>2
    <2>3. CASE i # 1 /\ j # 1
      <3>1. s[i - 1] = s[j - 1]
        BY <1>3, <1>4, <2>3
      <3>2. i - 1 = j - 1
        BY <1>3, <2>3, <3>1
      <3>3. QED BY <3>2
    <2>4. QED BY <2>1, <2>2, <2>3
  <1>5. QED BY <1>1, <1>2, <1>4

\* New hops go behind a chain.
LEMMA Chained ==
  ASSUME NEW S, NEW s \in Seq(S), NEW t \in Seq(S),
         \A i, j \in 1..Len(s) : s[i] = s[j] => i = j,
         \A i, j \in 1..Len(t) : t[i] = t[j] => i = j,
         \A i \in 1..Len(s), j \in 1..Len(t) : s[i] # t[j]
  PROVE  /\ s \o t \in Seq(S)
         /\ \A i, j \in 1..Len(s \o t) : (s \o t)[i] = (s \o t)[j] => i = j
  <1>1. PICK u : u = s \o t
    OBVIOUS
  <1>2. u \in Seq(S) /\ Len(u) = Len(s) + Len(t)
    BY <1>1
  <1>3. \A i \in 1..Len(s) : i \in 1..Len(u) /\ u[i] = s[i]
    BY <1>1, <1>2
  <1>4. \A i \in 1..Len(u) : i \notin 1..Len(s) => u[i] = t[i - Len(s)] /\ i - Len(s) \in 1..Len(t)
    BY <1>1, <1>2
  <1>5. ASSUME NEW i \in 1..Len(u), NEW j \in 1..Len(u), u[i] = u[j]
        PROVE  i = j
    <2>1. CASE i \in 1..Len(s) /\ j \in 1..Len(s)
      BY <1>3, <1>5, <2>1
    <2>2. CASE i \notin 1..Len(s) /\ j \notin 1..Len(s)
      <3>1. t[i - Len(s)] = t[j - Len(s)]
        BY <1>4, <1>5, <2>2
      <3>2. i - Len(s) = j - Len(s)
        BY <1>4, <2>2, <3>1
      <3>3. QED BY <3>2
    <2>3. CASE i \in 1..Len(s) /\ j \notin 1..Len(s)
      BY <1>3, <1>4, <1>5, <2>3
    <2>4. CASE i \notin 1..Len(s) /\ j \in 1..Len(s)
      BY <1>3, <1>4, <1>5, <2>4
    <2>5. QED BY <2>1, <2>2, <2>3, <2>4
  <1>6. QED BY <1>1, <1>2, <1>5

\* A finite set in some order.
LEMMA Listed ==
  ASSUME NEW S, NEW T \in SUBSET S, IsFiniteSet(S)
  PROVE  LET t == ZO!SetToSeq(T)
         IN /\ t \in Seq(S)
            /\ \A i \in 1..Len(t) : t[i] \in T
            /\ \A i, j \in 1..Len(t) : t[i] = t[j] => i = j
  <1>1. PICK n : n = Cardinality(T)
    OBVIOUS
  <1>2. n \in Nat /\ ExistsBijection(1..n, T)
    <2>1. IsFiniteSet(T)
      BY FS_Subset
    <2>2. QED BY <1>1, <2>1, FS_CardinalityType
  <1>3. \E f \in [1..n -> T] : ZO!IsInjective(f)
    BY <1>2 DEF ExistsBijection, Bijection, Injection, IsInjective, ZO!IsInjective
  <1>4. ZO!Cardinality(T) = n
    BY <1>1 DEF ZO!Cardinality, Cardinality
  <1>5. PICK t : t = ZO!SetToSeq(T)
    OBVIOUS
  <1>6. t \in [1..n -> T] /\ ZO!IsInjective(t)
    BY <1>3, <1>4, <1>5 DEF ZO!SetToSeq
  <1>7. t \in Seq(S) /\ Len(t) = n
    BY <1>2, <1>6
  <1>8. QED BY <1>5, <1>6, <1>7 DEF ZO!IsInjective

LEMMA ClimbsKeep ==
  ASSUME PathInv, NEW a \in Queries, ZO!ClimbZone(a)
  PROVE  PathInv'
  <1>1. zo_zone' = zo_zone /\ zo_move' = zo_move
    BY DEF ZO!ClimbZone
  <1>2. PICK c, s : c = zo_ask[a].current /\ s = zo_ask[a].path
    OBVIOUS
  <1>3. s \in Seq(Zone) /\ \A i, j \in 1..Len(s) : s[i] = s[j] => i = j
    BY <1>2, AskShape
  <1>4. CASE ZO!GoesOn(c, ZO!ToSet(s)) /\ ZO!Exists(c)
    <2>1. PICK d : d = zo_zone[c].parent
      OBVIOUS
    <2>2. c \in Zone /\ d \in Zone \cup {None}
      BY <1>4, <2>1, ZoneShape DEF ZO!Exists
    <2>3. \A i \in 1..Len(s) : s[i] # c
      BY <1>3, <1>4 DEF ZO!GoesOn, ZO!ToSet
    <2>4. PICK u : u = <<c>> \o s
      OBVIOUS
    <2>5. u \in Seq(Zone) /\ \A i, j \in 1..Len(u) : u[i] = u[j] => i = j
      BY <1>3, <2>2, <2>3, <2>4, Prefixed
    <2>6. PICK k : k = [zo_ask[a] EXCEPT !.path = u, !.current = d]
      OBVIOUS
    <2>7. k \in ZO!Asks
      <3>1. u \in Seq(Zone) /\ zo_ask[a] \in ZO!Asks
        BY <2>5, AskShape
      <3>2. [zo_ask[a] EXCEPT !.path = u, !.current = d] \in ZO!Asks
        BY <2>2, <3>1, AskPut
      <3>3. QED BY <2>6, <3>2
    <2>8. k.path = u /\ k.chain = zo_ask[a].chain
      BY <2>6, AskShape DEF ZO!Asks
    <2>9. zo_ask' = [zo_ask EXCEPT ![a] = k]
      BY <1>2, <1>4, <2>1, <2>4, <2>6 DEF ZO!ClimbZone
    <2>10. \A i, j \in 1..Len(k.chain) : k.chain[i] = k.chain[j] => i = j
      BY <2>8, AskShape
    <2>11. QED BY <1>1, <2>5, <2>7, <2>8, <2>9, <2>10, AsksKeep
  <1>5. CASE ~(ZO!GoesOn(c, ZO!ToSet(s)) /\ ZO!Exists(c))
    <2>1. PICK k : k = [zo_ask[a] EXCEPT !.pc = "down"]
      OBVIOUS
    <2>2. k \in ZO!Asks
      BY <2>1, AskShape DEF ZO!Asks
    <2>3. k.path = s /\ k.chain = zo_ask[a].chain
      BY <1>2, <2>1, AskShape DEF ZO!Asks
    <2>4. zo_ask' = [zo_ask EXCEPT ![a] = k]
      BY <1>2, <1>5, <2>1 DEF ZO!ClimbZone
    <2>5. \A i, j \in 1..Len(k.chain) : k.chain[i] = k.chain[j] => i = j
      BY <2>3, AskShape
    <2>6. QED BY <1>1, <1>3, <2>2, <2>3, <2>4, <2>5, AsksKeep
  <1>6. QED BY <1>4, <1>5

LEMMA CollectsKeep ==
  ASSUME PathInv, NEW a \in Queries, ZO!CollectHops(a)
  PROVE  PathInv'
  <1>1. zo_zone' = zo_zone /\ zo_move' = zo_move
    BY DEF ZO!CollectHops
  <1>2. PICK s, h : s = zo_ask[a].path /\ h = zo_ask[a].chain
    OBVIOUS
  <1>3. /\ s \in Seq(Zone) /\ \A i, j \in 1..Len(s) : s[i] = s[j] => i = j
        /\ h \in Seq(Endpoints) /\ \A i, j \in 1..Len(h) : h[i] = h[j] => i = j
    BY <1>2, AskShape
  <1>4. CASE s = <<>>
    <2>1. PICK k : k = [zo_ask[a] EXCEPT !.pc = "over"]
      OBVIOUS
    <2>2. k \in ZO!Asks
      BY <2>1, AskShape DEF ZO!Asks
    <2>3. k.path = s /\ k.chain = h
      BY <1>2, <2>1, AskShape DEF ZO!Asks
    <2>4. zo_ask' = [zo_ask EXCEPT ![a] = k]
      BY <1>2, <1>4, <2>1 DEF ZO!CollectHops
    <2>5. QED BY <1>1, <1>3, <2>2, <2>3, <2>4, AsksKeep
  <1>5. CASE s # <<>>
    <2>1. PICK T : T = ZO!Candidates(Head(s)) \ ZO!ToSet(h)
      OBVIOUS
    <2>2. T \in SUBSET Endpoints
      <3>1. Head(s) \in Zone
        BY <1>3, <1>5
      <3>2. QED BY <2>1, <3>1, ZoneShape DEF ZO!Candidates
    <2>3. PICK t : t = ZO!SetToSeq(T)
      OBVIOUS
    <2>4. /\ t \in Seq(Endpoints) /\ \A i \in 1..Len(t) : t[i] \in T
          /\ \A i, j \in 1..Len(t) : t[i] = t[j] => i = j
      <3>1. IsFiniteSet(Endpoints)
        BY HoldingsAssumption
      <3>2. QED BY <2>2, <2>3, <3>1, Listed
    <2>5. \A i \in 1..Len(h), j \in 1..Len(t) : h[i] # t[j]
      <3>1. \A i \in 1..Len(h) : h[i] \in ZO!ToSet(h)
        BY <1>3 DEF ZO!ToSet
      <3>2. QED BY <2>1, <2>4, <3>1
    <2>6. PICK u : u = h \o t
      OBVIOUS
    <2>7. u \in Seq(Endpoints) /\ \A i, j \in 1..Len(u) : u[i] = u[j] => i = j
      BY <1>3, <2>4, <2>5, <2>6, Chained
    <2>8. PICK r : r = Tail(s)
      OBVIOUS
    <2>9. r \in Seq(Zone) /\ \A i, j \in 1..Len(r) : r[i] = r[j] => i = j
      <3>1. r \in Seq(Zone) /\ Len(r) = Len(s) - 1 /\ \A i \in 1..Len(r) : r[i] = s[i + 1]
        BY <1>3, <1>5, <2>8
      <3>2. \A i \in 1..Len(r) : i + 1 \in 1..Len(s)
        BY <1>3, <3>1
      <3>3. ASSUME NEW i \in 1..Len(r), NEW j \in 1..Len(r), r[i] = r[j]
            PROVE  i = j
        <4>1. i + 1 = j + 1
          BY <1>3, <3>1, <3>2, <3>3
        <4>2. QED BY <4>1
      <3>4. QED BY <3>1, <3>3
    <2>10. PICK k : k = [zo_ask[a] EXCEPT !.path = r, !.chain = u]
      OBVIOUS
    <2>11. k \in ZO!Asks
      <3>1. u \in Seq(Endpoints) /\ r \in Seq(Zone) /\ zo_ask[a] \in ZO!Asks
        BY <2>7, <2>9, AskShape
      <3>2. [zo_ask[a] EXCEPT !.path = r, !.chain = u] \in ZO!Asks
        BY <3>1, AskPut
      <3>3. QED BY <2>10, <3>2
    <2>12. k.path = r /\ k.chain = u
      BY <2>10, AskShape DEF ZO!Asks
    <2>13. zo_ask' = [zo_ask EXCEPT ![a] = k]
      BY <1>2, <1>5, <2>1, <2>3, <2>6, <2>8, <2>10 DEF ZO!CollectHops
    <2>14. QED BY <1>1, <2>7, <2>9, <2>11, <2>12, <2>13, AsksKeep
  <1>6. QED BY <1>4, <1>5

LEMMA PathKeep == PathInv /\ [ZO!Next]_(ZO!vars) => PathInv'
  <1> SUFFICES ASSUME PathInv, [ZO!Next]_(ZO!vars) PROVE PathInv'
    OBVIOUS
  <1>1. CASE \E m \in Caller : ZO!CreateZone(m) \/ ZO!UpdateZone(m)
    BY <1>1, AskedMovesKeep
  <1>2. CASE \E m \in Caller : ZO!ValidateParent(m)
    BY <1>2, ValidatedMovesKeep
  <1>3. CASE \E m \in Caller : ZO!SaveZone(m)
    BY <1>3, ZoneSavesKeep
  <1>4. CASE \E z \in Zone : ZO!DeleteZone(z) \/ ZO!EditGateways(z) \/ ZO!EditGatewayHosts(z)
    BY <1>4, ZoneEditsKeep
  <1>5. CASE \E a \in Queries : ZO!AskChain(a)
    BY <1>5, AskedKeep
  <1>6. CASE \E a \in Queries : ZO!ClimbZone(a)
    BY <1>6, ClimbsKeep
  <1>7. CASE \E a \in Queries : ZO!CollectHops(a)
    BY <1>7, CollectsKeep
  <1>8. CASE UNCHANGED ZO!vars
    BY <1>8, MovesKeep DEF ZO!vars, PathInv
  <1>9. QED BY <1>1, <1>2, <1>3, <1>4, <1>5, <1>6, <1>7, <1>8 DEF ZO!Next

LEMMA PathSafe == PathInv => ZO!TypeOK /\ ZO!ChainIsPath
  <1> SUFFICES ASSUME PathInv PROVE ZO!TypeOK /\ ZO!ChainIsPath
    OBVIOUS
  <1>1. ZO!TypeOK
    BY DEF PathInv, ZO!TypeOK
  <1>2. \A a \in Queries : DOMAIN zo_ask[a].path = 1..Len(zo_ask[a].path)
                        /\ DOMAIN zo_ask[a].chain = 1..Len(zo_ask[a].chain)
    BY AskShape
  <1>3. ZO!ChainIsPath
    BY <1>2, AskShape DEF ZO!ChainIsPath, ZO!IsInjective
  <1>4. QED BY <1>1, <1>3

(***************************************************************************)
(* Recordings                                                              *)
(***************************************************************************)
FramesTyped ==
  /\ RE!TypeOK
  /\ re_last \in [Sessions -> 0..MaxPosts]
  /\ re_tier = [t \in Tiers |-> [read |-> re_tier[t].read, to |-> re_tier[t].to,
                                 up |-> re_tier[t].up]]
  /\ \A t \in Tiers : /\ re_tier[t].up \subseteq DOMAIN re_tier[t].read
                      /\ \A s \in DOMAIN re_tier[t].read : re_tier[t].read[s] \in 0..MaxPosts

\* The last frames of a session are in its row, or in one of the two S3 once the
\* row says so; whoever tiers it has read them, and has uploaded what it says.
FramesKept(s) ==
  /\ re_row[s].at = "local" => re_row[s].frames = re_last[s]
  /\ re_row[s].at = "s3" => \E p \in RE!Places : re_bucket[p][s] = re_last[s]
  /\ re_row[s].at = "s3" => re_row[s].age # "new"

FramesMoved(s, t) ==
  s \in DOMAIN re_tier[t].read =>
    /\ re_row[s].age # "new"
    /\ re_tier[t].read[s] = re_last[s]
    /\ s \in re_tier[t].up => re_bucket[re_tier[t].to][s] = re_last[s]

FramesInv ==
  /\ FramesTyped
  /\ \A s \in Sessions \ re_strays : FramesKept(s) /\ \A t \in Tiers : FramesMoved(s, t)

LEMMA FramesInit == RE!Init => FramesInv
  <1> SUFFICES ASSUME RE!Init PROVE FramesInv
    OBVIOUS
  <1>1. 0 \in 0..MaxPosts
    BY HoldingsAssumption
  <1>2. \A t \in Tiers : re_tier[t].read = <<>> /\ re_tier[t].up = {} /\ re_tier[t].to = "admin"
    BY DEF RE!Init, RE!Idle
  <1>3. DOMAIN <<>> = {}
    OBVIOUS
  <1>4. FramesTyped
    BY <1>1, <1>2, <1>3 DEF RE!Init, FramesTyped, RE!TypeOK, RE!Rows, RE!NoRow, RE!Idle,
                            RE!Places, RE!Ages
  <1>5. ASSUME NEW s \in Sessions, NEW t \in Tiers PROVE FramesKept(s) /\ FramesMoved(s, t)
    BY <1>2, <1>3 DEF RE!Init, FramesKept, FramesMoved, RE!NoRow
  <1>6. ASSUME NEW s \in Sessions PROVE FramesKept(s)
    BY DEF RE!Init, FramesKept, RE!NoRow
  <1>7. QED BY <1>4, <1>5, <1>6 DEF FramesInv

\* What a step leaves of the rows, the objects and the tierings.
LEMMA FramesRest ==
  ASSUME FramesInv, NEW s \in Sessions, s \notin re_strays,
         re_row'[s].at = re_row[s].at, re_row'[s].frames = re_row[s].frames,
         re_row[s].age # "new" => re_row'[s].age # "new", re_last'[s] = re_last[s],
         \A p \in RE!Places : re_bucket'[p][s] = re_bucket[p][s]
  PROVE  /\ FramesKept(s)'
         /\ \A t \in Tiers : re_tier'[t] = re_tier[t] => FramesMoved(s, t)'
  <1>1. FramesKept(s) /\ \A t \in Tiers : FramesMoved(s, t)
    BY DEF FramesInv
  <1>2. \A t \in Tiers : re_tier[t].to \in RE!Places
    BY DEF FramesInv, FramesTyped, RE!TypeOK
  <1>3. QED BY <1>1, <1>2 DEF FramesKept, FramesMoved

\* A row of its type.
LEMMA RowShape ==
  \A r \in RE!Rows : /\ r.there \in BOOLEAN /\ r.frames \in 0..MaxPosts /\ r.digest \in 0..MaxPosts
                     /\ r.purged \in BOOLEAN /\ r.at \in {"local", "s3"} /\ r.age \in RE!Ages
  BY DEF RE!Rows

LEMMA WritesKeep ==
  ASSUME FramesInv, NEW s \in Sessions, RE!WriteRecording(s)
  PROVE  FramesInv'
  <1>1. PICK n : n = re_writes + 1
    OBVIOUS
  <1>2. PICK new : new = [re_row[s] EXCEPT !.there = TRUE, !.frames = n, !.digest = n, !.purged = FALSE]
    OBVIOUS
  <1>3. /\ re_writes' = n /\ n \in 0..MaxPosts
        /\ re_row' = [re_row EXCEPT ![s] = new] /\ re_last' = [re_last EXCEPT ![s] = n]
        /\ re_bucket' = re_bucket /\ re_tier' = re_tier
        /\ s \notin re_strays' => re_row[s].age = "new"
        /\ re_strays' \subseteq Sessions /\ re_strays \subseteq re_strays'
    <2>1. MaxPosts \in Nat /\ re_writes \in 0..MaxPosts /\ re_writes < MaxPosts
      BY HoldingsAssumption DEF RE!WriteRecording, FramesInv, FramesTyped, RE!TypeOK
    <2>2. n \in 0..MaxPosts
      BY <1>1, <2>1
    <2>3. \/ re_row[s].age = "new" /\ re_strays' = re_strays
          \/ re_row[s].age # "new" /\ re_strays' = re_strays \cup {s}
      BY DEF RE!WriteRecording
    <2>4. re_strays \subseteq Sessions
      BY DEF FramesInv, FramesTyped, RE!TypeOK
    <2>5. QED BY <1>1, <1>2, <2>2, <2>3, <2>4 DEF RE!WriteRecording
  <1>4. re_row[s] \in RE!Rows
    BY DEF FramesInv, FramesTyped, RE!TypeOK
  <1>5. new \in RE!Rows /\ new.at = re_row[s].at /\ new.frames = n /\ new.age = re_row[s].age
    BY <1>2, <1>3, <1>4 DEF RE!Rows
  <1>6. /\ re_row'[s] = new /\ re_last'[s] = n
        /\ \A r \in Sessions \ {s} : re_row'[r] = re_row[r] /\ re_last'[r] = re_last[r]
    BY <1>3 DEF FramesInv, FramesTyped, RE!TypeOK
  <1>7. FramesTyped'
    BY <1>3, <1>5 DEF FramesInv, FramesTyped, RE!TypeOK
  <1>8. s \notin re_strays' => FramesKept(s)' /\ \A t \in Tiers : FramesMoved(s, t)'
    BY <1>3, <1>5, <1>6 DEF FramesInv, FramesKept, FramesMoved
  <1>9. \A r \in Sessions \ {s} : r \notin re_strays' =>
          FramesKept(r)' /\ \A t \in Tiers : FramesMoved(r, t)'
    BY <1>3, <1>6, FramesRest
  <1>10. QED BY <1>7, <1>8, <1>9 DEF FramesInv

LEMMA AgingKeeps ==
  ASSUME FramesInv, NEW s \in Sessions, RE!GrowOld(s)
  PROVE  FramesInv'
  <1>1. PICK age \in {"tierable", "expired"} :
          re_row' = [re_row EXCEPT ![s] = [re_row[s] EXCEPT !.age = age]]
    BY DEF RE!GrowOld
  <1>2. /\ re_bucket' = re_bucket /\ re_tier' = re_tier /\ re_last' = re_last
        /\ re_strays' = re_strays /\ re_writes' = re_writes
    BY DEF RE!GrowOld
  <1>3. PICK new : new = [re_row[s] EXCEPT !.age = age]
    OBVIOUS
  <1>4. re_row[s] \in RE!Rows
    BY DEF FramesInv, FramesTyped, RE!TypeOK
  <1>5. new \in RE!Rows /\ new.at = re_row[s].at /\ new.frames = re_row[s].frames /\ new.age = age
    BY <1>3, <1>4 DEF RE!Rows, RE!Ages
  <1>6. re_row'[s] = new /\ \A r \in Sessions \ {s} : re_row'[r] = re_row[r]
    BY <1>1, <1>3 DEF FramesInv, FramesTyped, RE!TypeOK
  <1>7. FramesTyped'
    BY <1>1, <1>2, <1>3, <1>5 DEF FramesInv, FramesTyped, RE!TypeOK
  <1>8. \A r \in Sessions : r \notin re_strays' =>
          FramesKept(r)' /\ \A t \in Tiers : FramesMoved(r, t)'
    BY <1>2, <1>5, <1>6, FramesRest
  <1>9. QED BY <1>7, <1>8 DEF FramesInv

LEMMA PurgeKeeps ==
  ASSUME FramesInv, RE!Purge
  PROVE  FramesInv'
  <1>1. PICK gone \in SUBSET Sessions :
          /\ re_row' = [s \in Sessions |-> IF s \in gone THEN [re_row[s] EXCEPT !.frames = 0, !.purged = TRUE]
                                            ELSE re_row[s]]
          /\ re_strays' = re_strays \cup gone
    BY DEF RE!Purge
  <1>2. re_bucket' = re_bucket /\ re_tier' = re_tier /\ re_last' = re_last /\ re_writes' = re_writes
    BY DEF RE!Purge
  <1>3. 0 \in 0..MaxPosts
    BY HoldingsAssumption
  <1>4. \A r \in RE!Rows : [r EXCEPT !.frames = 0, !.purged = TRUE] \in RE!Rows
    BY <1>3 DEF RE!Rows
  <1>5. \A s \in Sessions : re_row[s] \in RE!Rows
    BY DEF FramesInv, FramesTyped, RE!TypeOK
  <1>6. re_row' \in [Sessions -> RE!Rows]
    BY <1>1, <1>4, <1>5
  <1>7. FramesTyped'
    BY <1>1, <1>2, <1>6 DEF FramesInv, FramesTyped, RE!TypeOK
  <1>8. \A r \in Sessions : r \notin re_strays' =>
          FramesKept(r)' /\ \A t \in Tiers : FramesMoved(r, t)'
    <2> SUFFICES ASSUME NEW r \in Sessions, r \notin re_strays'
                 PROVE  FramesKept(r)' /\ \A t \in Tiers : FramesMoved(r, t)'
      OBVIOUS
    <2>1. /\ r \notin re_strays /\ re_row'[r] = re_row[r] /\ re_last'[r] = re_last[r]
          /\ \A p \in RE!Places : re_bucket'[p][r] = re_bucket[p][r]
      BY <1>1, <1>2
    <2>2. /\ FramesKept(r)'
          /\ \A t \in Tiers : re_tier'[t] = re_tier[t] => FramesMoved(r, t)'
      BY <2>1, FramesRest, SMTT(30)
    <2>3. QED BY <1>2, <2>2
  <1>9. QED BY <1>7, <1>8 DEF FramesInv

\* One tiering changes what it has read and uploaded.
LEMMA TierTyped ==
  ASSUME FramesInv, NEW t \in Tiers, NEW read, NEW to \in RE!Places, NEW up,
         re_tier' = [re_tier EXCEPT ![t] = [read |-> read, to |-> to, up |-> up]],
         DOMAIN read \subseteq Sessions, up \subseteq DOMAIN read,
         \A s \in DOMAIN read : read[s] \in 0..MaxPosts,
         re_row' \in [Sessions -> RE!Rows],
         re_bucket' \in [RE!Places -> [Sessions -> 0..MaxPosts]],
         UNCHANGED <<re_writes, re_last, re_strays>>
  PROVE  /\ FramesTyped'
         /\ re_tier'[t].read = read /\ re_tier'[t].to = to /\ re_tier'[t].up = up
         /\ \A u \in Tiers \ {t} : re_tier'[u] = re_tier[u]
  <1>1. /\ re_tier'[t] = [read |-> read, to |-> to, up |-> up]
        /\ \A u \in Tiers \ {t} : re_tier'[u] = re_tier[u]
    BY DEF FramesInv, FramesTyped
  <1>2. DOMAIN re_tier' = Tiers
    BY DEF FramesInv, FramesTyped
  <1>3. re_tier' = [u \in Tiers |-> [read |-> re_tier'[u].read, to |-> re_tier'[u].to,
                                     up |-> re_tier'[u].up]]
    <2>1. \A u \in Tiers : re_tier[u] = [read |-> re_tier[u].read, to |-> re_tier[u].to,
                                          up |-> re_tier[u].up]
      BY DEF FramesInv, FramesTyped
    <2>2. \A u \in Tiers : re_tier'[u] = [read |-> re_tier'[u].read, to |-> re_tier'[u].to,
                                           up |-> re_tier'[u].up]
      BY <1>1, <2>1
    <2>3. re_tier' = [u \in Tiers |-> re_tier'[u]]
      BY <1>2 DEF FramesInv, FramesTyped
    <2>4. QED BY <2>2, <2>3
  <1>4. \A u \in Tiers : /\ DOMAIN re_tier'[u].read \subseteq Sessions /\ re_tier'[u].up \subseteq DOMAIN re_tier'[u].read
                         /\ re_tier'[u].to \in RE!Places
                         /\ \A s \in DOMAIN re_tier'[u].read : re_tier'[u].read[s] \in 0..MaxPosts
    BY <1>1 DEF FramesInv, FramesTyped, RE!TypeOK
  <1>5. QED BY <1>1, <1>3, <1>4 DEF FramesInv, FramesTyped, RE!TypeOK

\* What has read nothing has nothing to lose.
LEMMA NothingRead == DOMAIN <<>> = {}
  OBVIOUS

LEMMA ReadsKeep ==
  ASSUME FramesInv, NEW t \in Tiers, RE!TierRead(t)
  PROVE  FramesInv'
  <1>1. PICK some \in SUBSET Sessions : some = {r \in Sessions : RE!Tierable(r)}
    OBVIOUS
  <1>2. PICK read : read = [s \in some |-> re_row[s].frames]
    OBVIOUS
  <1>3. PICK p \in RE!Places :
          re_tier' = [re_tier EXCEPT ![t] = [re_tier[t] EXCEPT !.read = read, !.to = p]]
    BY <1>1, <1>2 DEF RE!TierRead
  <1>4. /\ re_row' = re_row /\ re_bucket' = re_bucket /\ re_writes' = re_writes
        /\ re_last' = re_last /\ re_strays' = re_strays
    BY DEF RE!TierRead
  <1>5. re_tier[t].read = <<>> /\ re_tier[t].up = {}
    BY NothingRead DEF RE!TierRead, FramesInv, FramesTyped
  <1>b. PICK to : to = re_tier[t].to
    OBVIOUS
  <1>6. re_tier[t] = [read |-> <<>>, to |-> to, up |-> {}]
    BY <1>5, <1>b DEF FramesInv, FramesTyped
  <1>7. re_tier' = [re_tier EXCEPT ![t] = [read |-> read, to |-> p, up |-> {}]]
    <2>1. [re_tier[t] EXCEPT !.read = read, !.to = p] = [read |-> read, to |-> p, up |-> {}]
      <3>1. PICK old : old = re_tier[t]
        OBVIOUS
      <3>2. PICK none : none = <<>>
        OBVIOUS
      <3>3. PICK up : up = {}
        OBVIOUS
      <3>4. old = [read |-> none, to |-> to, up |-> up]
        BY <1>6, <3>1, <3>2, <3>3
      <3>5. PICK new : new = [old EXCEPT !.read = read, !.to = p]
        OBVIOUS
      <3>a. new.read = read /\ new.to = p /\ new.up = up
        BY <3>4, <3>5
      <3>b. DOMAIN new = {"read", "to", "up"} /\ new = [i \in DOMAIN new |-> new[i]]
        BY <3>4, <3>5
      <3>c. new = [read |-> new.read, to |-> new.to, up |-> new.up]
        BY <3>b
      <3>6. QED BY <3>1, <3>3, <3>5, <3>a, <3>c
    <2>2. QED BY <1>3, <2>1
  <1>8. DOMAIN read = some /\ \A s \in some : read[s] = re_row[s].frames
    BY <1>2
  <1>9. \A s \in Sessions : re_row[s].frames \in 0..MaxPosts
    BY RowShape DEF FramesInv, FramesTyped, RE!TypeOK
  <1>10. \A s \in some : s \in Sessions /\ re_row[s].at = "local" /\ re_row[s].age # "new"
    BY <1>1 DEF RE!Tierable
  <1>11. /\ re_row' \in [Sessions -> RE!Rows]
         /\ re_bucket' \in [RE!Places -> [Sessions -> 0..MaxPosts]]
    BY <1>4 DEF FramesInv, FramesTyped, RE!TypeOK
  <1>12. /\ FramesTyped'
         /\ re_tier'[t].read = read /\ re_tier'[t].to = p /\ re_tier'[t].up = {}
         /\ \A u \in Tiers \ {t} : re_tier'[u] = re_tier[u]
    <2>1. \A s \in DOMAIN read : read[s] \in 0..MaxPosts
      BY <1>8, <1>9, <1>10
    <2>2. DOMAIN read \subseteq Sessions /\ {} \subseteq DOMAIN read
      BY <1>8
    <2>3. QED BY <1>4, <1>7, <1>11, <2>1, <2>2, TierTyped
  <1>13. ASSUME NEW s \in Sessions, s \notin re_strays
         PROVE  FramesKept(s)' /\ \A u \in Tiers : FramesMoved(s, u)'
    <2>1. FramesKept(s)' /\ \A u \in Tiers \ {t} : FramesMoved(s, u)'
      BY <1>4, <1>12, <1>13, FramesRest
    <2>2. FramesKept(s)
      BY <1>13 DEF FramesInv
    <2>3. FramesMoved(s, t)'
      BY <1>4, <1>8, <1>10, <1>12, <2>2 DEF FramesMoved, FramesKept
    <2>4. QED BY <2>1, <2>3
  <1>14. QED BY <1>4, <1>12, <1>13 DEF FramesInv

LEMMA UploadsKeep ==
  ASSUME FramesInv, NEW t \in Tiers, NEW s \in Sessions, RE!Upload(t, s)
  PROVE  FramesInv'
  <1>1. PICK p : p = re_tier[t].to
    OBVIOUS
  <1>2. PICK read : read = re_tier[t].read
    OBVIOUS
  <1>3. PICK up : up = re_tier[t].up
    OBVIOUS
  <1>4. /\ re_tier[t] = [read |-> read, to |-> p, up |-> up]
        /\ p \in RE!Places /\ up \subseteq DOMAIN read /\ DOMAIN read \subseteq Sessions
        /\ \A r \in DOMAIN read : read[r] \in 0..MaxPosts
    BY <1>1, <1>2, <1>3 DEF FramesInv, FramesTyped, RE!TypeOK
  <1>5. /\ s \in DOMAIN read
        /\ re_bucket' = [re_bucket EXCEPT ![p][s] = read[s]]
        /\ re_tier' = [re_tier EXCEPT ![t] = [re_tier[t] EXCEPT !.up = up \cup {s}]]
        /\ re_row' = re_row /\ re_writes' = re_writes /\ re_last' = re_last /\ re_strays' = re_strays
    BY <1>1, <1>2, <1>3 DEF RE!Upload, RE!Put
  <1>6. re_tier' = [re_tier EXCEPT ![t] = [read |-> read, to |-> p, up |-> up \cup {s}]]
    <2>1. [re_tier[t] EXCEPT !.up = up \cup {s}] = [read |-> read, to |-> p, up |-> up \cup {s}]
      BY <1>4
    <2>2. QED BY <1>5, <2>1
  <1>7. /\ re_bucket' \in [RE!Places -> [Sessions -> 0..MaxPosts]]
        /\ re_bucket'[p][s] = read[s]
        /\ \A q \in RE!Places, r \in Sessions :
             q # p \/ r # s => re_bucket'[q][r] = re_bucket[q][r]
    BY <1>4, <1>5 DEF FramesInv, FramesTyped, RE!TypeOK
  <1>8. re_row' \in [Sessions -> RE!Rows]
    BY <1>5 DEF FramesInv, FramesTyped, RE!TypeOK
  <1>9. /\ FramesTyped'
        /\ re_tier'[t].read = read /\ re_tier'[t].to = p /\ re_tier'[t].up = up \cup {s}
        /\ \A u \in Tiers \ {t} : re_tier'[u] = re_tier[u]
    <2>1. up \cup {s} \subseteq DOMAIN read
      BY <1>4, <1>5
    <2>2. re_writes' = re_writes /\ re_last' = re_last /\ re_strays' = re_strays
      BY <1>5
    <2>3. QED BY <1>4, <1>6, <1>7, <1>8, <2>1, <2>2, TierTyped
  <1>10. ASSUME NEW r \in Sessions, r \notin re_strays
         PROVE  FramesKept(r)' /\ \A u \in Tiers : FramesMoved(r, u)'
    <2>1. FramesKept(r) /\ \A u \in Tiers : FramesMoved(r, u)
      BY <1>10 DEF FramesInv
    <2>2. r = s => read[s] = re_last[s]
      BY <1>2, <1>5, <2>1 DEF FramesMoved
    <2>3. \A q \in RE!Places : re_bucket[q][r] = re_last[r] => re_bucket'[q][r] = re_last[r]
      BY <1>7, <2>2
    <2>4. FramesKept(r)'
      BY <1>5, <2>1, <2>3 DEF FramesKept
    <2>5. \A u \in Tiers : re_tier[u].to \in RE!Places
      BY DEF FramesInv, FramesTyped, RE!TypeOK
    <2>6. \A u \in Tiers \ {t} : FramesMoved(r, u)'
      BY <1>5, <1>9, <2>1, <2>3, <2>5 DEF FramesMoved
    <2>7. FramesMoved(r, t)'
      BY <1>1, <1>2, <1>3, <1>4, <1>5, <1>7, <1>9, <2>1, <2>2, <2>3 DEF FramesMoved
    <2>8. QED BY <2>4, <2>6, <2>7
  <1>11. QED BY <1>5, <1>9, <1>10 DEF FramesInv

\* A tiering that is over, committed or not, has nothing read.
LEMMA TierEnds ==
  ASSUME FramesInv, NEW t \in Tiers, NEW read, NEW to \in RE!Places, NEW up, DOMAIN read = {}, up = {},
         re_tier' = [re_tier EXCEPT ![t] = [read |-> read, to |-> to, up |-> up]],
         re_row' \in [Sessions -> RE!Rows],
         UNCHANGED <<re_bucket, re_writes, re_last, re_strays>>
  PROVE  /\ FramesTyped' /\ \A s \in Sessions : FramesMoved(s, t)'
         /\ \A u \in Tiers \ {t} : re_tier'[u] = re_tier[u]
  <1>1. re_bucket' \in [RE!Places -> [Sessions -> 0..MaxPosts]]
    BY DEF FramesInv, FramesTyped, RE!TypeOK
  <1>2. DOMAIN read \subseteq Sessions /\ up \subseteq DOMAIN read
    OBVIOUS
  <1>3. \A s \in DOMAIN read : read[s] \in 0..MaxPosts
    OBVIOUS
  <1>4. /\ FramesTyped' /\ re_tier'[t].read = read
        /\ \A u \in Tiers \ {t} : re_tier'[u] = re_tier[u]
    BY <1>1, <1>2, <1>3, TierTyped
  <1>5. QED BY <1>4 DEF FramesMoved

\* What such a tiering is.
LEMMA IdleTier ==
  \E read, to, up : /\ RE!Idle = [read |-> read, to |-> to, up |-> up]
                    /\ to \in RE!Places /\ DOMAIN read = {} /\ up = {}
  BY NothingRead DEF RE!Idle, RE!Places

LEMMA CommitsKeep ==
  ASSUME FramesInv, NEW t \in Tiers, RE!TierCommit(t)
  PROVE  FramesInv'
  <1>1. PICK some : some = DOMAIN re_tier[t].read
    OBVIOUS
  <1>2. /\ re_tier[t].up = some
        /\ re_row' = [s \in Sessions |-> IF s \in some THEN [re_row[s] EXCEPT !.frames = 0, !.at = "s3"]
                                          ELSE re_row[s]]
        /\ re_tier' = [re_tier EXCEPT ![t] = RE!Idle]
        /\ re_bucket' = re_bucket /\ re_writes' = re_writes /\ re_last' = re_last /\ re_strays' = re_strays
    BY <1>1 DEF RE!TierCommit, RE!Uploaded
  <1>3. \A r \in RE!Rows : LET n == [r EXCEPT !.frames = 0, !.at = "s3"]
                          IN n \in RE!Rows /\ n.at = "s3" /\ n.age = r.age
    <2>1. 0 \in 0..MaxPosts
      BY HoldingsAssumption
    <2>2. QED BY <2>1 DEF RE!Rows
  <1>4. \A s \in Sessions : re_row[s] \in RE!Rows
    BY DEF FramesInv, FramesTyped, RE!TypeOK
  <1>5. /\ re_row' \in [Sessions -> RE!Rows]
        /\ \A s \in Sessions : /\ s \in some => re_row'[s].at = "s3" /\ re_row'[s].age = re_row[s].age
                               /\ s \notin some => re_row'[s] = re_row[s]
    BY <1>2, <1>3, <1>4
  <1>6. /\ FramesTyped' /\ \A s \in Sessions : FramesMoved(s, t)'
        /\ \A u \in Tiers \ {t} : re_tier'[u] = re_tier[u]
    <2>1. PICK read, to, up : /\ RE!Idle = [read |-> read, to |-> to, up |-> up]
                              /\ to \in RE!Places /\ DOMAIN read = {} /\ up = {}
      BY IdleTier
    <2>2. re_tier' = [re_tier EXCEPT ![t] = [read |-> read, to |-> to, up |-> up]]
      BY <1>2, <2>1
    <2>3. re_bucket' = re_bucket /\ re_writes' = re_writes /\ re_last' = re_last /\ re_strays' = re_strays
      BY <1>2
    <2>4. QED BY <1>5, <2>1, <2>2, <2>3, TierEnds
  <1>7. ASSUME NEW s \in Sessions, s \notin re_strays
        PROVE  FramesKept(s)' /\ \A u \in Tiers : FramesMoved(s, u)'
    <2>1. FramesKept(s) /\ \A u \in Tiers : FramesMoved(s, u)
      BY <1>7 DEF FramesInv
    <2>2. re_tier[t].to \in RE!Places
      BY DEF FramesInv, FramesTyped, RE!TypeOK
    <2>a. re_bucket' = re_bucket /\ re_last' = re_last /\ re_strays' = re_strays /\ re_tier[t].up = some
      BY <1>2
    <2>b. CASE s \in some
      <3>1. re_row'[s].at = "s3" /\ re_row'[s].age = re_row[s].age
        BY <1>5, <2>b
      <3>2. re_row[s].age # "new" /\ re_bucket[re_tier[t].to][s] = re_last[s]
        BY <1>1, <2>1, <2>a, <2>b DEF FramesMoved
      <3>3. FramesKept(s)'
        BY <2>2, <2>a, <3>1, <3>2 DEF FramesKept
      <3>4. \A u \in Tiers \ {t} : FramesMoved(s, u)'
        BY <1>6, <2>1, <2>a, <3>1 DEF FramesMoved
      <3>5. QED BY <1>6, <3>3, <3>4
    <2>c. CASE s \notin some
      <3>1. re_row'[s] = re_row[s]
        BY <1>5, <2>c
      <3>2. FramesKept(s)' /\ \A u \in Tiers \ {t} : FramesMoved(s, u)'
        BY <1>6, <1>7, <2>a, <3>1, FramesRest
      <3>3. QED BY <1>6, <3>2
    <2>3. QED BY <2>b, <2>c
  <1>8. QED BY <1>2, <1>6, <1>7 DEF FramesInv

LEMMA FailuresKeep ==
  ASSUME FramesInv, NEW t \in Tiers, RE!TierFails(t)
  PROVE  FramesInv'
  <1>1. /\ re_tier' = [re_tier EXCEPT ![t] = RE!Idle] /\ re_row' = re_row
        /\ re_bucket' = re_bucket /\ re_writes' = re_writes /\ re_last' = re_last /\ re_strays' = re_strays
    BY DEF RE!TierFails
  <1>2. re_row' \in [Sessions -> RE!Rows]
    BY <1>1 DEF FramesInv, FramesTyped, RE!TypeOK
  <1>3. /\ FramesTyped' /\ \A s \in Sessions : FramesMoved(s, t)'
        /\ \A u \in Tiers \ {t} : re_tier'[u] = re_tier[u]
    <2>1. PICK read, to, up : /\ RE!Idle = [read |-> read, to |-> to, up |-> up]
                              /\ to \in RE!Places /\ DOMAIN read = {} /\ up = {}
      BY IdleTier
    <2>2. re_tier' = [re_tier EXCEPT ![t] = [read |-> read, to |-> to, up |-> up]]
      BY <1>1, <2>1
    <2>3. re_bucket' = re_bucket /\ re_writes' = re_writes /\ re_last' = re_last /\ re_strays' = re_strays
      BY <1>1
    <2>4. QED BY <1>2, <2>1, <2>2, <2>3, TierEnds
  <1>4. \A s \in Sessions : s \notin re_strays =>
          FramesKept(s)' /\ \A u \in Tiers \ {t} : FramesMoved(s, u)'
    BY <1>1, <1>3, FramesRest
  <1>5. QED BY <1>1, <1>3, <1>4 DEF FramesInv

LEMMA FramesKeep == FramesInv /\ [RE!Next]_(RE!vars) => FramesInv'
  <1> SUFFICES ASSUME FramesInv, [RE!Next]_(RE!vars) PROVE FramesInv'
    OBVIOUS
  <1>1. CASE UNCHANGED RE!vars
    <2>1. FramesTyped'
      BY <1>1 DEF RE!vars, FramesInv, FramesTyped, RE!TypeOK
    <2>2. \A s \in Sessions : s \notin re_strays =>
            FramesKept(s)' /\ \A u \in Tiers : FramesMoved(s, u)'
      BY <1>1, FramesRest DEF RE!vars
    <2>3. QED BY <1>1, <2>1, <2>2 DEF RE!vars, FramesInv
  <1>2. CASE RE!Next
    BY <1>2, WritesKeep, AgingKeeps, PurgeKeeps, ReadsKeep, UploadsKeep, CommitsKeep, FailuresKeep
       DEF RE!Next
  <1>3. QED BY <1>1, <1>2

LEMMA FramesSafe == FramesInv => RE!TypeOK /\ RE!TieringKeepsFrames
  BY DEF FramesInv, FramesTyped, FramesKept, RE!TypeOK, RE!Rows, RE!TieringKeepsFrames, RE!Kept,
         RE!Get, RE!Places

(***************************************************************************)
(* LogShipper                                                              *)
(***************************************************************************)
Ticks == [pc : {"sleep", "walk", "write", "save"}, config : LS!Configs,
          offsets : LS!Offsets, todo : SUBSET Targets, target : Targets,
          batch : SUBSET LS!Lines, new : 0..MaxLines]
Useds == [lines : 0..MaxLines, edits : Nat, rotations : Nat, faults : Nat]

\* The lines of the file that are written to their end.
Ended == IF ls_partial THEN Len(ls_file) - 1 ELSE Len(ls_file)

\* Line i of the file has reached target t or was passed over.
Through(t, i) ==
  \/ <<t, ls_file[i].id>> \in ls_shipped
  \/ <<"other", t, ls_file[i].id>> \in ls_passed
  \/ <<"void", t, ls_file[i].id>> \in ls_passed

SavedThrough(t) ==
  ls_saved[t] <= Ended /\ \A i \in 1..ls_saved[t] : Through(t, i)
OffsetThrough(t) ==
  ls_tick.offsets[t] <= Ended /\ \A i \in 1..ls_tick.offsets[t] : Through(t, i)
BatchThrough(t) ==
  /\ ls_tick.new <= Ended
  /\ \A i \in (ls_tick.offsets[t] + 1)..ls_tick.new :
       ls_file[i] \in ls_tick.batch \/ Through(t, i)

\* What the shipper holds of the file, saved or in this tick, is through; of the
\* batch it writes only what the batch holds is not.
ShipperThrough ==
  \A t \in Targets :
    /\ SavedThrough(t)
    /\ ls_tick.pc # "sleep" => OffsetThrough(t)
    /\ ls_tick.pc = "write" /\ ls_tick.target = t => BatchThrough(t)

LogsTyped ==
  /\ LS!TypeOK
  /\ ls_used \in Useds
  /\ Len(ls_file) <= ls_used.lines
  /\ ls_partial => ls_file # <<>>

LogsInv == LogsTyped /\ (ls_used.rotations = 0 => ShipperThrough)

LEMMA LogBounds == MaxLines \in Nat /\ MaxBatch \in Nat
  BY HoldingsAssumption

LEMMA LogsInit == LS!Init => LogsInv
  <1> SUFFICES ASSUME LS!Init PROVE LogsInv
    OBVIOUS
  <1>1. PICK some : some = CHOOSE t \in Targets : TRUE
    OBVIOUS
  <1>2. some \in Targets
    BY <1>1, HoldingsAssumption
  <1>3. 0 \in 0..MaxLines
    BY LogBounds
  <1>4. ls_tick = [pc |-> "sleep", config |-> ls_config, offsets |-> ls_saved, todo |-> {},
                   target |-> some, batch |-> {}, new |-> 0]
    BY <1>1 DEF LS!Init
  <1>5. ls_saved \in LS!Offsets /\ ls_config \in LS!Configs /\ \A t \in Targets : ls_saved[t] = 0
    BY <1>3 DEF LS!Init, LS!Offsets
  <1>6. ls_tick \in Ticks
    BY <1>2, <1>3, <1>4, <1>5 DEF Ticks
  <1>7. ls_used \in Useds /\ ls_used.lines = 0
    BY <1>3 DEF LS!Init, Useds
  <1>8. ls_file \in Seq(LS!Lines) /\ Len(ls_file) = 0 /\ ~ls_partial
    BY DEF LS!Init
  <1>9. LogsTyped
    <2>1. ls_shipped = {} /\ ls_passed = {} /\ ls_file = <<>> /\ ls_partial = FALSE
      BY DEF LS!Init
    <2>2. LS!TypeOK
      BY <1>5, <1>6, <1>8, <2>1 DEF LS!TypeOK, Ticks
    <2>3. QED BY <1>7, <1>8, <2>2 DEF LogsTyped
  <1>10. ls_tick.pc = "sleep"
    BY <1>4
  <1>11. ShipperThrough
    BY <1>5, <1>8, <1>10 DEF ShipperThrough, SavedThrough, Ended
  <1>12. QED BY <1>9, <1>11 DEF LogsInv

\* The lengths and offsets are numbers.
LEMMA LogsShape ==
  ASSUME LogsTyped
  PROVE  /\ ls_tick \in Ticks /\ ls_used \in Useds
         /\ Len(ls_file) \in Nat /\ Ended \in Nat /\ Ended <= Len(ls_file) /\ Len(ls_file) <= MaxLines
         /\ \A i \in 1..Len(ls_file) : ls_file[i] \in LS!Lines
         /\ \A t \in Targets : ls_saved[t] \in 0..MaxLines /\ ls_tick.offsets[t] \in 0..MaxLines
         /\ ls_tick.new \in 0..MaxLines
  <1>1. ls_tick \in Ticks /\ ls_used \in Useds /\ ls_file \in Seq(LS!Lines) /\ ls_partial \in BOOLEAN
    BY DEF LogsTyped, LS!TypeOK, Ticks
  <1>2. Len(ls_file) \in Nat /\ (ls_file # <<>> => Len(ls_file) # 0)
    BY <1>1
  <1>3. ls_used.lines \in 0..MaxLines
    BY <1>1 DEF Useds
  <1>4. Len(ls_file) <= MaxLines
    BY <1>2, <1>3, LogBounds DEF LogsTyped
  <1>5. Ended \in Nat /\ Ended <= Len(ls_file)
    BY <1>1, <1>2 DEF Ended, LogsTyped
  <1>6. ls_tick.offsets \in LS!Offsets /\ ls_tick.new \in 0..MaxLines /\ ls_saved \in LS!Offsets
    BY <1>1 DEF Ticks, LogsTyped, LS!TypeOK
  <1>7. \A t \in Targets : ls_saved[t] \in 0..MaxLines /\ ls_tick.offsets[t] \in 0..MaxLines
    BY <1>6 DEF LS!Offsets
  <1>8. \A i \in 1..Len(ls_file) : ls_file[i] \in LS!Lines
    BY <1>1
  <1>9. QED BY <1>1, <1>2, <1>4, <1>5, <1>6, <1>7, <1>8

\* What is through stays through while the file only grows.
LEMMA ThroughStays ==
  ASSUME LogsTyped, Ended <= Ended', Ended' \in Nat,
         \A i \in 1..Ended : ls_file'[i] = ls_file[i],
         ls_shipped \subseteq ls_shipped', ls_passed \subseteq ls_passed'
  PROVE  /\ \A t \in Targets, i \in 1..Ended : Through(t, i) => Through(t, i)'
         /\ \A t \in Targets : SavedThrough(t) /\ ls_saved'[t] = ls_saved[t] => SavedThrough(t)'
         /\ \A t \in Targets : OffsetThrough(t) /\ ls_tick'.offsets[t] = ls_tick.offsets[t] => OffsetThrough(t)'
         /\ \A t \in Targets : BatchThrough(t) /\ ls_tick' = ls_tick => BatchThrough(t)'
  <1>1. Ended \in Nat /\ \A t \in Targets : ls_saved[t] \in Nat /\ ls_tick.offsets[t] \in Nat
    BY LogsShape, LogBounds
  <1>2. ASSUME NEW t \in Targets, NEW i \in 1..Ended, Through(t, i) PROVE Through(t, i)'
    <2>1. ls_file'[i] = ls_file[i]
      OBVIOUS
    <2>2. QED BY <1>2, <2>1 DEF Through
  <1>3. ASSUME NEW t \in Targets, SavedThrough(t), ls_saved'[t] = ls_saved[t] PROVE SavedThrough(t)'
    <2>1. ls_saved'[t] <= Ended'
      BY <1>1, <1>3 DEF SavedThrough
    <2>2. \A i \in 1..ls_saved'[t] : i \in 1..Ended /\ Through(t, i)
      BY <1>1, <1>3 DEF SavedThrough
    <2>3. QED BY <1>2, <2>1, <2>2 DEF SavedThrough
  <1>4. ASSUME NEW t \in Targets, OffsetThrough(t), ls_tick'.offsets[t] = ls_tick.offsets[t]
        PROVE  OffsetThrough(t)'
    <2>1. ls_tick'.offsets[t] <= Ended'
      BY <1>1, <1>4 DEF OffsetThrough
    <2>2. \A i \in 1..ls_tick'.offsets[t] : i \in 1..Ended /\ Through(t, i)
      BY <1>1, <1>4 DEF OffsetThrough
    <2>3. QED BY <1>2, <2>1, <2>2 DEF OffsetThrough
  <1>5. ASSUME NEW t \in Targets, BatchThrough(t), ls_tick' = ls_tick PROVE BatchThrough(t)'
    <2>0. ls_tick.new \in Nat
      BY LogsShape, LogBounds
    <2>1. ls_tick'.new <= Ended'
      BY <1>1, <1>5, <2>0 DEF BatchThrough
    <2>2. ASSUME NEW i \in (ls_tick'.offsets[t] + 1)..ls_tick'.new
          PROVE  ls_file'[i] \in ls_tick'.batch \/ Through(t, i)'
      <3>1. i \in 1..Ended
        BY <1>1, <1>5, <2>0 DEF BatchThrough
      <3>2. ls_file[i] \in ls_tick.batch \/ Through(t, i)
        BY <1>5 DEF BatchThrough
      <3>3. QED BY <1>2, <1>5, <3>1, <3>2
    <2>3. QED BY <2>1, <2>2 DEF BatchThrough
  <1>6. QED BY <1>2, <1>3, <1>4, <1>5

LEMMA LinesKeep ==
  ASSUME LogsInv, NEW c \in Categories, LS!BeginLine(c)
  PROVE  LogsInv'
  <1> DEFINE l == [id |-> ls_used.lines + 1, category |-> c]
  <1>1. LogsTyped /\ ls_used \in Useds /\ ls_file \in Seq(LS!Lines)
    BY DEF LogsInv, LogsTyped, LS!TypeOK
  <1>2. ls_used.lines < MaxLines /\ ls_used.lines \in 0..MaxLines /\ ls_used.rotations \in Nat
    BY <1>1 DEF LS!BeginLine, Useds
  <1>3. l \in LS!Lines
    BY <1>2, LogBounds DEF LS!Lines
  <1>4. /\ ls_file' = Append(ls_file, l) /\ ~ls_partial /\ ls_partial' = TRUE
        /\ ls_used' = [ls_used EXCEPT !.lines = ls_used.lines + 1]
        /\ ls_config' = ls_config /\ ls_saved' = ls_saved /\ ls_tick' = ls_tick
        /\ ls_shipped' = ls_shipped /\ ls_passed' = ls_passed
    BY DEF LS!BeginLine
  <1> HIDE DEF l
  <1>5. /\ ls_file' \in Seq(LS!Lines) /\ Len(ls_file') = Len(ls_file) + 1
        /\ \A i \in 1..Len(ls_file) : ls_file'[i] = ls_file[i]
    BY <1>1, <1>3, <1>4
  <1>6. ls_used' \in Useds /\ ls_used'.lines = ls_used.lines + 1 /\ ls_used'.rotations = ls_used.rotations
    BY <1>1, <1>2, <1>4, LogBounds DEF Useds
  <1>7. Len(ls_file) \in Nat /\ Len(ls_file) <= ls_used.lines
    BY <1>1, LogsShape DEF LogsTyped
  <1>8. Len(ls_file') <= ls_used'.lines /\ ls_file' # <<>>
    <2>1. Len(ls_file') # 0
      BY <1>5, <1>7
    <2>2. Len(<<>>) = 0
      OBVIOUS
    <2>3. QED BY <1>2, <1>5, <1>6, <1>7, <2>1, <2>2
  <1>9. LogsTyped'
    BY <1>1, <1>4, <1>5, <1>6, <1>8 DEF LogsTyped, LS!TypeOK
  <1>10. Ended = Len(ls_file) /\ Ended' = Len(ls_file)
    BY <1>4, <1>5, <1>7 DEF Ended
  <1>11. ls_used'.rotations = 0 => ShipperThrough'
    <2>1. SUFFICES ASSUME ShipperThrough PROVE ShipperThrough'
      BY <1>6 DEF LogsInv
    <2>2. QED BY <1>1, <1>4, <1>5, <1>7, <1>10, <2>1, ThroughStays DEF ShipperThrough
  <1>12. QED BY <1>9, <1>11 DEF LogsInv

LEMMA EndsKeep ==
  ASSUME LogsInv, LS!EndLine
  PROVE  LogsInv'
  <1>1. LogsTyped /\ Len(ls_file) \in Nat
    BY LogsShape DEF LogsInv
  <1>2. /\ ls_partial /\ ls_partial' = FALSE /\ ls_file' = ls_file /\ ls_used' = ls_used
        /\ ls_config' = ls_config /\ ls_saved' = ls_saved /\ ls_tick' = ls_tick
        /\ ls_shipped' = ls_shipped /\ ls_passed' = ls_passed
    BY DEF LS!EndLine
  <1>3. LogsTyped'
    BY <1>1, <1>2 DEF LogsTyped, LS!TypeOK
  <1>4. Ended <= Ended' /\ Ended' \in Nat
    BY <1>1, <1>2 DEF Ended
  <1>5. ls_used'.rotations = 0 => ShipperThrough'
    <2>1. SUFFICES ASSUME ShipperThrough PROVE ShipperThrough'
      BY <1>2 DEF LogsInv
    <2>2. QED BY <1>1, <1>2, <1>4, <2>1, ThroughStays DEF ShipperThrough
  <1>6. QED BY <1>3, <1>5 DEF LogsInv

LEMMA RotationsKeep ==
  ASSUME LogsInv, LS!Rotate
  PROVE  LogsInv'
  <1>1. LogsTyped /\ ls_used \in Useds
    BY DEF LogsInv, LogsTyped
  <1>2. /\ ls_file' = <<>> /\ ~ls_partial /\ ls_partial' = ls_partial
        /\ ls_used' = [ls_used EXCEPT !.rotations = ls_used.rotations + 1]
        /\ ls_config' = ls_config /\ ls_saved' = ls_saved /\ ls_tick' = ls_tick
        /\ ls_shipped' = ls_shipped /\ ls_passed' = ls_passed
    BY DEF LS!Rotate
  <1>3. /\ ls_used' \in Useds /\ ls_used'.rotations # 0 /\ 0 <= ls_used'.lines
    BY <1>1, <1>2, LogBounds DEF Useds
  <1>4. ls_file' \in Seq(LS!Lines) /\ Len(ls_file') = 0
    BY <1>2
  <1>5. LogsTyped'
    BY <1>1, <1>2, <1>3, <1>4 DEF LogsTyped, LS!TypeOK
  <1>6. QED BY <1>3, <1>5 DEF LogsInv

\* A step that leaves the file, and changes the shipper's tick.
LEMMA TicksTyped ==
  ASSUME LogsInv, NEW k \in Ticks, ls_tick' = k, ls_file' = ls_file, ls_partial' = ls_partial,
         ls_config' = ls_config, ls_saved' \in LS!Offsets, ls_used' \in Useds,
         ls_used'.lines = ls_used.lines, ls_used'.rotations = ls_used.rotations,
         ls_shipped' \subseteq Targets \X (1..MaxLines),
         ls_passed' \subseteq {"other", "void"} \X Targets \X (1..MaxLines)
  PROVE  LogsTyped' /\ Ended' = Ended /\ (ls_used'.rotations = 0 => ls_used.rotations = 0)
  BY DEF LogsInv, LogsTyped, LS!TypeOK, Ticks, Ended

LEMMA TicksRest ==
  ASSUME LogsInv, ls_file' = ls_file, ls_partial' = ls_partial,
         ls_shipped \subseteq ls_shipped', ls_passed \subseteq ls_passed'
  PROVE  /\ \A t \in Targets, i \in 1..Ended : Through(t, i) => Through(t, i)'
         /\ \A t \in Targets : SavedThrough(t) /\ ls_saved'[t] = ls_saved[t] => SavedThrough(t)'
         /\ \A t \in Targets : OffsetThrough(t) /\ ls_tick'.offsets[t] = ls_tick.offsets[t] => OffsetThrough(t)'
         /\ \A t \in Targets : BatchThrough(t) /\ ls_tick' = ls_tick => BatchThrough(t)'
  <1>1. Ended \in Nat /\ Ended' = Ended
    BY LogsShape DEF LogsInv, Ended
  <1>2. QED BY <1>1, ThroughStays DEF LogsInv

LEMMA ConfigKeeps ==
  ASSUME LogsInv, LS!PutConfig
  PROVE  LogsInv'
  <1>1. LogsTyped /\ ls_used \in Useds
    BY DEF LogsInv, LogsTyped
  <1>2. /\ ls_file' = ls_file /\ ls_partial' = ls_partial /\ ls_config' \in LS!Configs
        /\ ls_used' = [ls_used EXCEPT !.edits = ls_used.edits + 1]
        /\ ls_saved' = ls_saved /\ ls_tick' = ls_tick
        /\ ls_shipped' = ls_shipped /\ ls_passed' = ls_passed
    BY DEF LS!PutConfig
  <1>3. /\ ls_used' \in Useds /\ ls_used'.lines = ls_used.lines
        /\ ls_used'.rotations = ls_used.rotations
    BY <1>1, <1>2 DEF Useds
  <1>4. LogsTyped'
    BY <1>1, <1>2, <1>3 DEF LogsTyped, LS!TypeOK
  <1>5. ls_used'.rotations = 0 => ShipperThrough'
    <2>1. SUFFICES ASSUME ShipperThrough PROVE ShipperThrough'
      BY <1>3 DEF LogsInv
    <2>2. QED BY <1>2, <2>1, TicksRest DEF ShipperThrough
  <1>6. QED BY <1>4, <1>5 DEF LogsInv

LEMMA BeginKeeps ==
  ASSUME LogsInv, LS!Begin
  PROVE  LogsInv'
  <1>1. ls_tick \in Ticks /\ ls_used \in Useds /\ ls_saved \in LS!Offsets /\ ls_config \in LS!Configs
    BY LogsShape DEF LogsInv, LogsTyped, LS!TypeOK
  <1>2. PICK todo : todo = LS!InUse(ls_config.routing)
    OBVIOUS
  <1>3. PICK k : k = [ls_tick EXCEPT !.pc = "walk", !.config = ls_config, !.offsets = ls_saved,
                                     !.todo = todo]
    OBVIOUS
  <1>4. /\ ls_tick' = k
        /\ ls_file' = ls_file /\ ls_partial' = ls_partial /\ ls_config' = ls_config
        /\ ls_used' = ls_used /\ ls_saved' = ls_saved
        /\ ls_shipped' = ls_shipped /\ ls_passed' = ls_passed
    BY <1>2, <1>3 DEF LS!Begin
  <1>5. todo \subseteq Targets
    BY <1>1, <1>2 DEF LS!InUse, LS!Configs
  <1>6. k \in Ticks
    BY <1>1, <1>3, <1>5 DEF Ticks
  <1>7. k.pc = "walk" /\ k.offsets = ls_saved
    BY <1>1, <1>3 DEF Ticks
  <1>8. LogsTyped' /\ Ended' = Ended
    <2>1. /\ ls_shipped' \subseteq Targets \X (1..MaxLines)
          /\ ls_passed' \subseteq {"other", "void"} \X Targets \X (1..MaxLines)
      BY <1>4 DEF LogsInv, LogsTyped, LS!TypeOK
    <2>2. QED BY <1>1, <1>4, <1>6, <2>1, TicksTyped
  <1>9. ls_used'.rotations = 0 => ShipperThrough'
    <2>1. SUFFICES ASSUME ShipperThrough PROVE ShipperThrough'
      BY <1>4 DEF LogsInv
    <2>2. \A t \in Targets : SavedThrough(t)'
      BY <1>4, <2>1, TicksRest DEF ShipperThrough
    <2>3. \A t \in Targets : OffsetThrough(t)'
      <3>1. ls_tick'.offsets = ls_saved'
        BY <1>4, <1>7
      <3>2. QED BY <2>2, <3>1 DEF SavedThrough, OffsetThrough
    <2>4. ls_tick'.pc = "walk"
      BY <1>4, <1>7
    <2>5. QED BY <2>2, <2>3, <2>4 DEF ShipperThrough
  <1>10. QED BY <1>8, <1>9 DEF LogsInv

LEMMA BatchesKeep ==
  ASSUME LogsInv, NEW t \in Targets, LS!ReadBatch(t)
  PROVE  LogsInv'
  <1>1. PICK start : start = LS!StartOf(t)
    OBVIOUS
  <1>2. PICK end : end = LS!EndOf(t)
    OBVIOUS
  <1>3. PICK read : read = {ls_file[i] : i \in (start + 1)..end}
    OBVIOUS
  <1>4. PICK wanted : wanted = {l \in read : t \in ls_tick.config.routing[l.category]}
    OBVIOUS
  <1>5. PICK todo : todo = ls_tick.todo \ {t}
    OBVIOUS
  <1>6. PICK k : k = [ls_tick EXCEPT !.pc = "write", !.todo = todo, !.target = t,
                                     !.batch = wanted, !.new = end]
    OBVIOUS
  <1>7. /\ ls_tick.pc = "walk" /\ ls_tick' = k
        /\ ls_passed' = ls_passed \cup {<<"other", t, l.id>> : l \in read \ wanted}
        /\ ls_file' = ls_file /\ ls_partial' = ls_partial /\ ls_config' = ls_config
        /\ ls_used' = ls_used /\ ls_saved' = ls_saved /\ ls_shipped' = ls_shipped
    BY <1>1, <1>2, <1>3, <1>4, <1>5, <1>6 DEF LS!ReadBatch
  <1>8. LogsTyped /\ ls_tick \in Ticks /\ ls_used \in Useds /\ ls_saved \in LS!Offsets
    BY LogsShape DEF LogsInv, LogsTyped, LS!TypeOK
  <1>9. /\ start \in Nat /\ end \in 0..MaxLines /\ end <= Ended /\ end <= Len(ls_file)
        /\ ls_tick.offsets[t] <= Ended => start = ls_tick.offsets[t]
    <2>1. PICK n \in Nat : n = ls_tick.offsets[t]
      BY <1>8, LogsShape, LogBounds
    <2>2. start = IF n > Len(ls_file) THEN 0 ELSE n
      BY <1>1, <2>1 DEF LS!StartOf
    <2>3. end = IF start + MaxBatch < Ended THEN start + MaxBatch ELSE Ended
      BY <1>1, <1>2 DEF LS!EndOf, LS!Complete, Ended
    <2>4. Len(ls_file) \in Nat /\ Ended \in Nat /\ Ended <= Len(ls_file) /\ Len(ls_file) <= MaxLines
      BY <1>8, LogsShape
    <2>5. QED BY <2>1, <2>2, <2>3, <2>4, LogBounds
  <1>10. read \subseteq LS!Lines
    <2>1. \A i \in (start + 1)..end : i \in 1..Len(ls_file)
      BY <1>8, <1>9, LogsShape
    <2>2. QED BY <1>3, <1>8, <2>1, LogsShape
  <1>11. k \in Ticks
    <2>1. wanted \in SUBSET LS!Lines /\ todo \in SUBSET Targets
      BY <1>4, <1>5, <1>8, <1>10 DEF Ticks
    <2>2. QED BY <1>6, <1>8, <1>9, <2>1 DEF Ticks
  <1>12. k.pc = "write" /\ k.target = t /\ k.batch = wanted /\ k.new = end /\ k.offsets = ls_tick.offsets
    BY <1>6, <1>8 DEF Ticks
  <1>13. LogsTyped' /\ Ended' = Ended
    <2>1. \A l \in read : l.id \in 1..MaxLines
      BY <1>10 DEF LS!Lines
    <2>2. {<<"other", t, l.id>> : l \in read \ wanted} \subseteq {"other", "void"} \X Targets \X (1..MaxLines)
      BY <2>1
    <2>3. /\ ls_shipped' \subseteq Targets \X (1..MaxLines)
          /\ ls_passed' \subseteq {"other", "void"} \X Targets \X (1..MaxLines)
      BY <1>7, <2>2 DEF LogsInv, LogsTyped, LS!TypeOK
    <2>4. QED BY <1>7, <1>8, <1>11, <2>3, TicksTyped
  <1>14. ls_used'.rotations = 0 => ShipperThrough'
    <2>1. SUFFICES ASSUME ShipperThrough PROVE ShipperThrough'
      BY <1>7 DEF LogsInv
    <2>2. \A u \in Targets : SavedThrough(u)'
      BY <1>7, <2>1, TicksRest DEF ShipperThrough
    <2>3. \A u \in Targets : OffsetThrough(u)'
      <3>1. ls_tick'.offsets = ls_tick.offsets
        BY <1>7, <1>12
      <3>2. QED BY <1>7, <2>1, <3>1, TicksRest DEF ShipperThrough
    <2>4. BatchThrough(t)'
      <3>1. ls_tick.offsets[t] <= Ended
        BY <1>7, <2>1 DEF ShipperThrough, OffsetThrough
      <3>2. ls_tick'.new = end /\ ls_tick'.offsets[t] = start /\ ls_tick'.batch = wanted
        BY <1>7, <1>9, <1>12, <3>1
      <3>3. ASSUME NEW i \in (start + 1)..end
            PROVE  ls_file'[i] \in wanted \/ <<"other", t, ls_file'[i].id>> \in ls_passed'
        <4>1. ls_file[i] \in read
          BY <1>3
        <4>2. ls_file[i] \notin wanted => <<"other", t, ls_file[i].id>> \in ls_passed'
          BY <1>7, <4>1
        <4>3. QED BY <1>7, <4>2
      <3>4. ls_tick'.new <= Ended'
        BY <1>9, <1>13, <3>2
      <3>5. QED BY <3>2, <3>3, <3>4 DEF BatchThrough, Through
    <2>5. ls_tick'.target = t
      BY <1>7, <1>12
    <2>6. QED BY <2>2, <2>3, <2>4, <2>5 DEF ShipperThrough
  <1>15. QED BY <1>13, <1>14 DEF LogsInv

\* A step that leaves the offsets of the tick, which writes no more.
LEMMA OffsetsStay ==
  ASSUME LogsInv, NEW k \in Ticks, ls_tick' = k, k.offsets = ls_tick.offsets,
         k.pc \in {"sleep", "walk"}, k.pc = "walk" => ls_tick.pc # "sleep",
         ls_file' = ls_file, ls_partial' = ls_partial, ls_config' = ls_config,
         ls_saved' = ls_saved, ls_used' \in Useds,
         ls_used'.lines = ls_used.lines, ls_used'.rotations = ls_used.rotations,
         ls_shipped \subseteq ls_shipped', ls_shipped' \subseteq Targets \X (1..MaxLines),
         ls_passed' = ls_passed
  PROVE  LogsInv'
  <1>1. LogsTyped'
    BY TicksTyped DEF LogsInv, LogsTyped, LS!TypeOK
  <1>2. ls_used'.rotations = 0 => ShipperThrough'
    <2>1. SUFFICES ASSUME ShipperThrough PROVE ShipperThrough'
      BY DEF LogsInv
    <2>2. \A u \in Targets : SavedThrough(u)'
      BY <2>1, TicksRest DEF ShipperThrough
    <2>3. ls_tick'.pc # "sleep" => \A u \in Targets : OffsetThrough(u)'
      <3>1. ls_tick'.offsets = ls_tick.offsets
        OBVIOUS
      <3>2. QED BY <2>1, <3>1, TicksRest DEF ShipperThrough
    <2>4. ls_tick'.pc # "write"
      OBVIOUS
    <2>5. QED BY <2>2, <2>3, <2>4 DEF ShipperThrough
  <1>3. QED BY <1>1, <1>2 DEF LogsInv

LEMMA SkipsKeep ==
  ASSUME LogsInv, NEW t \in Targets, LS!NothingNew(t)
  PROVE  LogsInv'
  <1>1. LogsTyped /\ ls_tick \in Ticks /\ ls_used \in Useds
    BY LogsShape DEF LogsInv
  <1>2. PICK k : k = [ls_tick EXCEPT !.todo = ls_tick.todo \ {t}]
    OBVIOUS
  <1>3. /\ ls_tick' = k /\ ls_tick.pc = "walk"
        /\ ls_file' = ls_file /\ ls_partial' = ls_partial /\ ls_config' = ls_config
        /\ ls_used' = ls_used /\ ls_saved' = ls_saved
        /\ ls_shipped' = ls_shipped /\ ls_passed' = ls_passed
    BY <1>2 DEF LS!NothingNew
  <1>4. k \in Ticks /\ k.offsets = ls_tick.offsets /\ k.pc = "walk"
    BY <1>1, <1>2, <1>3 DEF Ticks
  <1>5. ls_shipped' \subseteq Targets \X (1..MaxLines)
    BY <1>1, <1>3 DEF LogsTyped, LS!TypeOK
  <1>6. QED BY <1>1, <1>3, <1>4, <1>5, OffsetsStay

\* What a batch sends.
LEMMA BatchTyped ==
  ASSUME LogsInv
  PROVE  /\ {<<ls_tick.target, l.id>> : l \in ls_tick.batch} \subseteq Targets \X (1..MaxLines)
         /\ {<<"void", ls_tick.target, l.id>> : l \in ls_tick.batch}
              \subseteq {"other", "void"} \X Targets \X (1..MaxLines)
  <1>1. ls_tick.target \in Targets /\ ls_tick.batch \subseteq LS!Lines
    BY LogsShape DEF LogsInv, Ticks
  <1>2. \A l \in ls_tick.batch : l.id \in 1..MaxLines
    BY <1>1 DEF LS!Lines
  <1>3. QED BY <1>1, <1>2

LEMMA FailedWritesKeep ==
  ASSUME LogsInv, LS!WriteFails
  PROVE  LogsInv'
  <1>1. LogsTyped /\ ls_tick \in Ticks /\ ls_used \in Useds
    BY LogsShape DEF LogsInv
  <1>2. PICK o : o = ls_tick.offsets
    OBVIOUS
  <1>3. PICK k : k = [ls_tick EXCEPT !.pc = "walk", !.offsets = o]
    OBVIOUS
  <1>4. /\ ls_tick' = k /\ ls_tick.pc = "write"
        /\ ls_used' = [ls_used EXCEPT !.faults = ls_used.faults + 1]
        /\ ls_file' = ls_file /\ ls_partial' = ls_partial /\ ls_config' = ls_config
        /\ ls_saved' = ls_saved /\ ls_passed' = ls_passed
        /\ \/ ls_shipped' = ls_shipped \cup {<<ls_tick.target, l.id>> : l \in ls_tick.batch}
           \/ ls_shipped' = ls_shipped
    BY <1>2, <1>3 DEF LS!WriteFails, LS!AfterFailure
  <1>5. k \in Ticks /\ k.offsets = ls_tick.offsets /\ k.pc = "walk"
    <2>1. o \in LS!Offsets
      BY <1>1, <1>2 DEF Ticks
    <2>2. QED BY <1>1, <1>2, <1>3, <2>1 DEF Ticks
  <1>6. /\ ls_used' \in Useds /\ ls_used'.lines = ls_used.lines
        /\ ls_used'.rotations = ls_used.rotations
    BY <1>1, <1>4 DEF Useds
  <1>7. ls_shipped \subseteq ls_shipped' /\ ls_shipped' \subseteq Targets \X (1..MaxLines)
    BY <1>1, <1>4, BatchTyped DEF LogsTyped, LS!TypeOK
  <1>8. QED BY <1>4, <1>5, <1>6, <1>7, OffsetsStay

LEMMA StopsKeep ==
  ASSUME LogsInv, LS!Stop
  PROVE  LogsInv'
  <1>1. LogsTyped /\ ls_tick \in Ticks /\ ls_used \in Useds
    BY LogsShape DEF LogsInv
  <1>2. PICK k : k = [ls_tick EXCEPT !.pc = "sleep"]
    OBVIOUS
  <1>3. /\ ls_tick' = k
        /\ ls_used' = [ls_used EXCEPT !.faults = ls_used.faults + 1]
        /\ ls_file' = ls_file /\ ls_partial' = ls_partial /\ ls_config' = ls_config
        /\ ls_saved' = ls_saved /\ ls_shipped' = ls_shipped /\ ls_passed' = ls_passed
    BY <1>2 DEF LS!Stop
  <1>4. k \in Ticks /\ k.offsets = ls_tick.offsets /\ k.pc = "sleep"
    BY <1>1, <1>2 DEF Ticks
  <1>5. /\ ls_used' \in Useds /\ ls_used'.lines = ls_used.lines
        /\ ls_used'.rotations = ls_used.rotations
    BY <1>1, <1>3 DEF Useds
  <1>6. ls_shipped \subseteq ls_shipped' /\ ls_shipped' \subseteq Targets \X (1..MaxLines)
    BY <1>1, <1>3 DEF LogsTyped, LS!TypeOK
  <1>7. QED BY <1>3, <1>4, <1>5, <1>6, OffsetsStay

LEMMA WrittenKeep ==
  ASSUME LogsInv, LS!WriteBatch
  PROVE  LogsInv'
  <1>1. LogsTyped /\ ls_tick \in Ticks /\ ls_used \in Useds /\ ls_saved \in LS!Offsets
    BY LogsShape DEF LogsInv, LogsTyped, LS!TypeOK
  <1>2. PICK t \in Targets : t = ls_tick.target
    BY <1>1 DEF Ticks
  <1>3. PICK n \in 0..MaxLines : n = ls_tick.new
    BY <1>1 DEF Ticks
  <1>4. PICK o : o = [ls_tick.offsets EXCEPT ![t] = n]
    OBVIOUS
  <1>5. PICK k : k = [ls_tick EXCEPT !.pc = "walk", !.offsets = o]
    OBVIOUS
  <1>6. /\ ls_tick' = k /\ ls_tick.pc = "write"
        /\ ls_file' = ls_file /\ ls_partial' = ls_partial /\ ls_config' = ls_config
        /\ ls_used' = ls_used /\ ls_saved' = ls_saved
    BY <1>2, <1>3, <1>4, <1>5 DEF LS!WriteBatch
  <1>7. \/ /\ ls_shipped' = ls_shipped \cup {<<t, l.id>> : l \in ls_tick.batch}
           /\ ls_passed' = ls_passed
        \/ /\ ls_passed' = ls_passed \cup {<<"void", t, l.id>> : l \in ls_tick.batch}
           /\ ls_shipped' = ls_shipped
    BY <1>2 DEF LS!WriteBatch
  <1>8. /\ o \in LS!Offsets /\ o[t] = n
        /\ \A u \in Targets \ {t} : o[u] = ls_tick.offsets[u]
    BY <1>1, <1>4 DEF Ticks, LS!Offsets
  <1>9. k \in Ticks
    BY <1>1, <1>5, <1>8 DEF Ticks
  <1>10. k.pc = "walk" /\ k.offsets = o
    BY <1>1, <1>5 DEF Ticks
  <1>11. LogsTyped' /\ Ended' = Ended
    <2>1. /\ ls_shipped' \subseteq Targets \X (1..MaxLines)
          /\ ls_passed' \subseteq {"other", "void"} \X Targets \X (1..MaxLines)
      BY <1>1, <1>2, <1>7, BatchTyped DEF LogsTyped, LS!TypeOK
    <2>2. QED BY <1>1, <1>6, <1>9, <2>1, TicksTyped
  <1>12. ls_used'.rotations = 0 => ShipperThrough'
    <2>1. SUFFICES ASSUME ShipperThrough PROVE ShipperThrough'
      BY <1>6 DEF LogsInv
    <2>a. /\ \A u \in Targets, i \in 1..Ended : Through(u, i) => Through(u, i)'
          /\ \A u \in Targets : SavedThrough(u) => SavedThrough(u)'
          /\ \A u \in Targets : OffsetThrough(u) /\ ls_tick'.offsets[u] = ls_tick.offsets[u]
               => OffsetThrough(u)'
      BY <1>6, <1>7, TicksRest
    <2>2. \A u \in Targets : SavedThrough(u)'
      BY <2>1, <2>a DEF ShipperThrough
    <2>3. \A u \in Targets \ {t} : OffsetThrough(u)'
      BY <1>6, <1>8, <1>10, <2>1, <2>a DEF ShipperThrough
    <2>4. OffsetThrough(t)'
      <3>1. ls_tick'.offsets[t] = n
        BY <1>6, <1>8, <1>10
      <3>2. PICK m \in Nat : m = ls_tick.offsets[t]
        BY <1>1, LogsShape, LogBounds
      <3>3. /\ m <= Ended /\ \A i \in 1..m : Through(t, i)
            /\ n <= Ended /\ \A i \in (m + 1)..n : ls_file[i] \in ls_tick.batch \/ Through(t, i)
        BY <1>2, <1>3, <1>6, <2>1, <3>2 DEF ShipperThrough, OffsetThrough, BatchThrough
      <3>4. Ended \in Nat /\ n \in Nat
        BY <1>1, LogsShape, LogBounds
      <3>5. ASSUME NEW i \in 1..n PROVE Through(t, i)'
        <4>1. i \in 1..Ended /\ (i \in 1..m \/ i \in (m + 1)..n)
          BY <3>2, <3>3, <3>4
        <4>2. CASE Through(t, i)
          BY <2>a, <4>1, <4>2
        <4>3. CASE ls_file[i] \in ls_tick.batch
          <5>1. <<t, ls_file[i].id>> \in ls_shipped' \/ <<"void", t, ls_file[i].id>> \in ls_passed'
            BY <1>7, <4>3
          <5>2. QED BY <1>6, <5>1 DEF Through
        <4>4. QED BY <3>3, <4>1, <4>2, <4>3
      <3>6. n <= Ended'
        BY <1>11, <3>3
      <3>7. QED BY <3>1, <3>5, <3>6 DEF OffsetThrough
    <2>5. ls_tick'.pc = "walk"
      BY <1>6, <1>10
    <2>6. QED BY <2>2, <2>3, <2>4, <2>5 DEF ShipperThrough
  <1>13. QED BY <1>11, <1>12 DEF LogsInv

LEMMA SavesKeep ==
  ASSUME LogsInv, LS!SaveOffsets
  PROVE  LogsInv'
  <1>1. LogsTyped /\ ls_tick \in Ticks /\ ls_used \in Useds /\ ls_tick.offsets \in LS!Offsets
    BY LogsShape DEF LogsInv, Ticks
  <1>2. PICK k : k = [ls_tick EXCEPT !.pc = "sleep"]
    OBVIOUS
  <1>3. /\ ls_tick' = k /\ ls_tick.pc = "walk"
        /\ ls_saved' = [t \in Targets |-> IF t \in LS!InUse(ls_tick.config.routing)
                                          THEN ls_tick.offsets[t] ELSE 0]
        /\ ls_file' = ls_file /\ ls_partial' = ls_partial /\ ls_config' = ls_config
        /\ ls_used' = ls_used /\ ls_shipped' = ls_shipped /\ ls_passed' = ls_passed
    BY <1>2 DEF LS!SaveOffsets
  <1>4. k \in Ticks /\ k.pc = "sleep"
    BY <1>1, <1>2 DEF Ticks
  <1>5. /\ ls_saved' \in LS!Offsets
        /\ \A t \in Targets : ls_saved'[t] = ls_tick.offsets[t] \/ ls_saved'[t] = 0
    BY <1>1, <1>3, LogBounds DEF LS!Offsets
  <1>6. LogsTyped' /\ Ended' = Ended
    <2>1. /\ ls_shipped' \subseteq Targets \X (1..MaxLines)
          /\ ls_passed' \subseteq {"other", "void"} \X Targets \X (1..MaxLines)
      BY <1>1, <1>3 DEF LogsTyped, LS!TypeOK
    <2>2. QED BY <1>1, <1>3, <1>4, <1>5, <2>1, TicksTyped
  <1>7. ls_used'.rotations = 0 => ShipperThrough'
    <2>1. SUFFICES ASSUME ShipperThrough PROVE ShipperThrough'
      BY <1>3 DEF LogsInv
    <2>2. ASSUME NEW t \in Targets PROVE SavedThrough(t)'
      <3>1. ls_tick.offsets[t] <= Ended /\ \A i \in 1..ls_tick.offsets[t] : Through(t, i)
        BY <1>3, <2>1 DEF ShipperThrough, OffsetThrough
      <3>2. \A i : Through(t, i) => Through(t, i)'
        BY <1>3 DEF Through
      <3>3. Ended \in Nat
        BY <1>1, LogsShape
      <3>4. QED BY <1>5, <1>6, <3>1, <3>2, <3>3 DEF SavedThrough
    <2>3. ls_tick'.pc = "sleep"
      BY <1>3, <1>4
    <2>4. QED BY <2>2, <2>3 DEF ShipperThrough
  <1>8. QED BY <1>6, <1>7 DEF LogsInv

LEMMA LogsKeep == LogsInv /\ [LS!Next]_(LS!vars) => LogsInv'
  <1> SUFFICES ASSUME LogsInv, [LS!Next]_(LS!vars) PROVE LogsInv'
    OBVIOUS
  <1>1. CASE UNCHANGED LS!vars
    <2>1. LogsTyped'
      BY <1>1 DEF LS!vars, LogsInv, LogsTyped, LS!TypeOK
    <2>2. ls_used'.rotations = 0 => ShipperThrough'
      <3>1. SUFFICES ASSUME ShipperThrough PROVE ShipperThrough'
        BY <1>1 DEF LS!vars, LogsInv
      <3>2. QED BY <1>1, <3>1, TicksRest DEF LS!vars, ShipperThrough
    <2>3. QED BY <2>1, <2>2 DEF LogsInv
  <1>2. CASE LS!Next
    BY <1>2, LinesKeep, EndsKeep, RotationsKeep, ConfigKeeps, BeginKeeps, BatchesKeep, SkipsKeep,
       WrittenKeep, FailedWritesKeep, SavesKeep, StopsKeep DEF LS!Next
  <1>3. QED BY <1>1, <1>2

LEMMA LogsSafe == LogsInv => LS!TypeOK /\ LS!OffsetIsShipped
  BY DEF LogsInv, LogsTyped, ShipperThrough, SavedThrough, Through, LS!OffsetIsShipped, LS!Arrived

(***************************************************************************)
(* PlaybookJob                                                             *)
(***************************************************************************)
\* What is published: a line, or the end.
EndKinds == {"done", "error"}
Messages == ({"line"} \X PJ!Line) \cup (EndKinds \X {0})
StreamRecords == [at : {"off", "subscribed", "flushed", "live", "over"}, queue : Seq(Messages),
                  sent : SUBSET PJ!Line, twice : BOOLEAN, told : PJ!Told,
                  missed : BOOLEAN]

JobTyped ==
  /\ pj_row \in PJ!Statuses \cup {"absent"} /\ pj_cancel \in BOOLEAN
  /\ pj_stored \subseteq PJ!Line /\ pj_out \in 0..MaxLines /\ pj_lost \in 0..MaxLost
  /\ pj_task \in {"none", "created", "bridge", "polling", "direct", "process", "finish", "publish", "over"}
  /\ pj_result \in {"none", "done", "error"} \X {"none", "success", "failed"}
  /\ pj_process \in BOOLEAN /\ pj_bridge \in {"none", "pending", "dead"} /\ pj_ended \in PJ!Told
  /\ pj_stream \in [Streams -> StreamRecords]

\* A task that works for the job has its row, and its end is in the row before
\* it is published.
TaskFollows ==
  /\ pj_task \in {"bridge", "polling", "direct", "process", "finish"} => pj_row # "absent"
  /\ pj_task \in {"finish", "publish"} => pj_result[1] \in EndKinds /\ pj_result[2] # "none"
  /\ pj_task = "publish" => pj_row \in PJ!Ends
  /\ pj_ended # "none" => pj_task = "over" /\ pj_row \in PJ!Ends

\* Who has read the stored state has been told of the end or will read it; who
\* has not read it yet has nothing in its queue, or the end.
HasEnd(q) == \E i \in 1..Len(q) : q[i][1] \in EndKinds

Hears(s) ==
  /\ pj_stream[s].at \in {"flushed", "live"} =>
       pj_stream[s].told # "none" \/ pj_stream[s].missed \/ HasEnd(pj_stream[s].queue)
  /\ pj_stream[s].at \in {"off", "subscribed"} =>
       pj_stream[s].queue = <<>> \/ HasEnd(pj_stream[s].queue)

JobInv ==
  /\ JobTyped /\ TaskFollows
  /\ \A s \in Streams : pj_stream[s].at = "off" => pj_stream[s].queue = <<>>
  /\ pj_ended # "none" => \A s \in Streams : Hears(s)

LEMMA JobBounds == MaxLines \in Nat /\ MaxLost \in Nat
  BY HoldingsAssumption

LEMMA JobInit == PJ!Init => JobInv
  <1> SUFFICES ASSUME PJ!Init PROVE JobInv
    OBVIOUS
  <1>1. pj_stream = [s \in Streams |-> [at |-> "off", queue |-> <<>>, sent |-> {}, twice |-> FALSE, told |-> "none",
                                    missed |-> FALSE]]
    BY DEF PJ!Init, PJ!Idle
  <1>2. pj_stream \in [Streams -> StreamRecords]
    BY <1>1 DEF StreamRecords, PJ!Told
  <1>3. /\ pj_row = "absent" /\ pj_cancel = FALSE /\ pj_stored = {} /\ pj_task = "none" /\ pj_out = 0
        /\ pj_result = <<"none", "none">> /\ pj_process = FALSE /\ pj_bridge = "none"
        /\ pj_ended = "none" /\ pj_lost = 0
    BY DEF PJ!Init
  <1>4. pj_result \in {"none", "done", "error"} \X {"none", "success", "failed"}
    BY <1>3, Zenon
  <1>5. JobTyped
    <2>1. /\ pj_row \in PJ!Statuses \cup {"absent"} /\ pj_cancel \in BOOLEAN /\ pj_stored \subseteq PJ!Line
          /\ pj_task \in {"none", "created", "bridge", "polling", "direct", "process", "finish", "publish", "over"}
          /\ pj_process \in BOOLEAN /\ pj_bridge \in {"none", "pending", "dead"} /\ pj_ended \in PJ!Told
      BY <1>3 DEF PJ!Told
    <2>2. pj_out \in 0..MaxLines /\ pj_lost \in 0..MaxLost
      BY <1>3, JobBounds
    <2>3. QED BY <1>2, <1>4, <2>1, <2>2 DEF JobTyped
  <1>6. TaskFollows
    BY <1>3 DEF TaskFollows
  <1>7. \A s \in Streams : pj_stream[s].queue = <<>>
    BY <1>1
  <1>8. QED BY <1>3, <1>5, <1>6, <1>7 DEF JobInv

\* The requests move the row, and no stream.
LEMMA RowsKeep ==
  ASSUME JobInv, PJ!Execute \/ PJ!Commit \/ PJ!ReadForCancel \/ PJ!Cancel
  PROVE  JobInv'
  <1>1. /\ pj_stored' = pj_stored /\ pj_out' = pj_out /\ pj_lost' = pj_lost /\ pj_result' = pj_result
        /\ pj_process' = pj_process /\ pj_bridge' = pj_bridge /\ pj_ended' = pj_ended /\ pj_stream' = pj_stream
    BY DEF PJ!Execute, PJ!Commit, PJ!ReadForCancel, PJ!Cancel, PJ!job, PJ!run, PJ!said
  <1>2. /\ pj_row' \in PJ!Statuses \cup {"absent"} /\ pj_cancel' \in BOOLEAN
        /\ pj_task' \in {"none", "created", "bridge", "polling", "direct", "process", "finish", "publish", "over"}
    BY DEF JobInv, JobTyped, PJ!Execute, PJ!Commit, PJ!ReadForCancel, PJ!Cancel, PJ!job, PJ!run, PJ!Statuses, PJ!Ends
  <1>3. TaskFollows'
    BY <1>1 DEF JobInv, TaskFollows, PJ!Execute, PJ!Commit, PJ!ReadForCancel, PJ!Cancel, PJ!job, PJ!run, PJ!Ends
  <1>4. QED BY <1>1, <1>2, <1>3 DEF JobInv, JobTyped, Hears

\* The task moves on without a word to the streams.
LEMMA TasksKeep ==
  ASSUME JobInv,
         \/ PJ!ViaBridge \/ PJ!Refused \/ PJ!Accepted \/ PJ!BridgeExecutes \/ PJ!PollEnds
         \/ PJ!Direct \/ PJ!ProcessEnds("success") \/ PJ!ProcessEnds("failed") \/ PJ!Breaks \/ PJ!Finish
  PROVE  JobInv'
  <1> USE DEF PJ!Goto, PJ!job, PJ!run, PJ!said
  <1>1. pj_lost' = pj_lost /\ pj_ended' = pj_ended /\ pj_stream' = pj_stream /\ pj_cancel' = pj_cancel
    BY DEF PJ!ViaBridge, PJ!Refused, PJ!Accepted, PJ!BridgeExecutes, PJ!PollEnds, PJ!Direct,
           PJ!ProcessEnds, PJ!Breaks, PJ!Finish
  <1>2. CASE PJ!ViaBridge \/ PJ!Refused \/ PJ!Accepted \/ PJ!BridgeExecutes \/ PJ!PollEnds \/ PJ!Direct
    <2>1. pj_stored' = pj_stored /\ pj_out' = pj_out /\ pj_result' = pj_result
      BY <1>2 DEF PJ!ViaBridge, PJ!Refused, PJ!Accepted, PJ!BridgeExecutes, PJ!PollEnds, PJ!Direct
    <2>2. /\ pj_row' \in PJ!Statuses \cup {"absent"} /\ pj_process' \in BOOLEAN
          /\ pj_bridge' \in {"none", "pending", "dead"}
          /\ pj_task' \in {"none", "created", "bridge", "polling", "direct", "process", "finish", "publish", "over"}
      BY <1>2 DEF JobInv, JobTyped, PJ!Starts, PJ!Statuses, PJ!ViaBridge, PJ!Refused, PJ!Accepted,
                  PJ!BridgeExecutes, PJ!PollEnds, PJ!Direct
    <2>3. TaskFollows'
      BY <1>1, <1>2, <2>1 DEF JobInv, TaskFollows, PJ!Starts, PJ!ViaBridge, PJ!Refused, PJ!Accepted,
                  PJ!BridgeExecutes, PJ!PollEnds, PJ!Direct
    <2>4. QED BY <1>1, <2>1, <2>2, <2>3 DEF JobInv, JobTyped, Hears
  <1>3. CASE PJ!ProcessEnds("success") \/ PJ!ProcessEnds("failed") \/ PJ!Breaks
    <2>1. PICK k \in EndKinds, st \in {"success", "failed"} :
            pj_task = "process" /\ pj_task' = "finish" /\ pj_result' = <<k, st>>
      BY <1>3 DEF PJ!ProcessEnds, PJ!Breaks, EndKinds
    <2>2. /\ pj_stored' = pj_stored /\ pj_row' = pj_row /\ pj_bridge' = pj_bridge
          /\ pj_out' \in 0..MaxLines /\ pj_process' \in BOOLEAN
      <3>1. pj_out \in 0..MaxLines /\ 0 \in 0..MaxLines /\ pj_process \in BOOLEAN
        BY JobBounds DEF JobInv, JobTyped
      <3>2. CASE PJ!ProcessEnds("success") \/ PJ!ProcessEnds("failed")
        BY <3>1, <3>2 DEF PJ!ProcessEnds
      <3>3. CASE PJ!Breaks
        BY <3>1, <3>3 DEF PJ!Breaks
      <3>4. QED BY <1>3, <3>2, <3>3
    <2>3. /\ pj_result' \in {"none", "done", "error"} \X {"none", "success", "failed"}
          /\ pj_result'[1] \in EndKinds /\ pj_result'[2] # "none"
      <3>1. k \in {"none", "done", "error"} /\ st \in {"none", "success", "failed"}
        BY DEF EndKinds
      <3>2. <<k, st>> \in {"none", "done", "error"} \X {"none", "success", "failed"}
        BY <3>1, Zenon
      <3>3. pj_result'[1] = k /\ pj_result'[2] = st
        BY <2>1, Zenon
      <3>4. QED BY <2>1, <3>2, <3>3
    <2>4. TaskFollows'
      BY <1>1, <2>1, <2>2, <2>3 DEF JobInv, TaskFollows
    <2>5. QED BY <1>1, <2>1, <2>2, <2>3, <2>4 DEF JobInv, JobTyped, Hears
  <1>4. CASE PJ!Finish
    <2>1. /\ pj_task = "finish" /\ pj_task' = "publish" /\ pj_out' = pj_out /\ pj_result' = pj_result
          /\ pj_process' = pj_process /\ pj_bridge' = pj_bridge /\ pj_stored' = 1..pj_out
          /\ pj_row' = (IF pj_row = "absent" THEN pj_row ELSE pj_result[2])
      BY <1>4 DEF PJ!Finish
    <2>2. pj_result[2] \in {"none", "success", "failed"}
      BY DEF JobInv, JobTyped
    <2>3. pj_row' \in {"success", "failed"}
      BY <2>1, <2>2 DEF JobInv, TaskFollows
    <2>4. pj_stored' \subseteq PJ!Line
      BY <2>1, JobBounds DEF JobInv, JobTyped, PJ!Line
    <2>5. TaskFollows'
      BY <1>1, <2>1, <2>3 DEF JobInv, TaskFollows, PJ!Ends
    <2>6. QED BY <1>1, <2>1, <2>3, <2>4, <2>5 DEF JobInv, JobTyped, Hears, PJ!Statuses, PJ!Ends
  <1>5. QED BY <1>2, <1>3, <1>4

LEMMA StreamShape ==
  ASSUME JobInv, NEW s \in Streams
  PROVE  /\ pj_stream[s] \in StreamRecords /\ pj_stream[s].queue \in Seq(Messages)
         /\ pj_stream[s].sent \in SUBSET PJ!Line /\ pj_stream[s].told \in PJ!Told
         /\ pj_stream[s].twice \in BOOLEAN /\ pj_stream[s].missed \in BOOLEAN
         /\ pj_stream[s].at \in {"off", "subscribed", "flushed", "live", "over"}
  BY DEF JobInv, JobTyped, StreamRecords

\* A message goes to everyone who has subscribed, or Redis does not take it.
LEMMA PublishedShape ==
  ASSUME JobInv, NEW kind, NEW n, <<kind, n>> \in Messages, PJ!Publish(kind, n)
  PROVE  /\ pj_stream' \in [Streams -> StreamRecords] /\ pj_lost' \in 0..MaxLost
         /\ \A s \in Streams : pj_stream'[s].at = "off" => pj_stream'[s].queue = <<>>
         /\ pj_lost' = pj_lost /\ kind \in EndKinds => \A s \in Streams : Hears(s)'
  <1>1. CASE pj_lost < MaxLost /\ pj_lost' = pj_lost + 1 /\ pj_stream' = pj_stream
    BY <1>1, JobBounds DEF JobInv, JobTyped
  <1>2. CASE /\ pj_stream' = [s \in Streams |->
                  IF s \in PJ!Hearers
                  THEN [pj_stream[s] EXCEPT !.queue = Append(@, <<kind, n>>)] ELSE pj_stream[s]]
             /\ pj_lost' = pj_lost
    <2>1. ASSUME NEW s \in Streams
          PROVE  /\ pj_stream'[s] \in StreamRecords
                 /\ pj_stream'[s].at = "off" => pj_stream'[s].queue = <<>>
                 /\ kind \in EndKinds => Hears(s)'
      <3>1. CASE s \in PJ!Hearers
        <4>1. PICK q : q = Append(pj_stream[s].queue, <<kind, n>>)
          OBVIOUS
        <4>2. q \in Seq(Messages) /\ Len(q) \in 1..Len(q) /\ q[Len(q)] = <<kind, n>>
          BY <4>1, StreamShape
        <4>3. PICK k : k = [pj_stream[s] EXCEPT !.queue = q]
          OBVIOUS
        <4>4. k \in StreamRecords
          BY <4>2, <4>3, StreamShape DEF StreamRecords
        <4>5. k.queue = q /\ k.at = pj_stream[s].at /\ k.at # "off"
          BY <3>1, <4>3, StreamShape DEF StreamRecords, PJ!Hearers
        <4>6. pj_stream'[s] = k
          BY <1>2, <3>1, <4>1, <4>3
        <4>7. kind \in EndKinds => HasEnd(q)
          BY <4>2 DEF HasEnd
        <4>8. QED BY <4>4, <4>5, <4>6, <4>7 DEF Hears
      <3>2. CASE s \notin PJ!Hearers
        <4>1. pj_stream'[s] = pj_stream[s] /\ pj_stream[s].at \in {"off", "over"}
          BY <1>2, <3>2, StreamShape DEF PJ!Hearers
        <4>2. QED BY <4>1, StreamShape DEF JobInv, Hears
      <3>3. QED BY <3>1, <3>2
    <2>2. QED BY <1>2, <2>1 DEF JobInv, JobTyped
  <1>3. QED BY <1>1, <1>2 DEF PJ!Publish

LEMMA JobLinesKeep ==
  ASSUME JobInv, PJ!Write
  PROVE  JobInv'
  <1>1. /\ pj_task = "process" /\ pj_out < MaxLines /\ pj_out' = pj_out + 1 /\ pj_task' = pj_task
        /\ pj_row' = pj_row /\ pj_cancel' = pj_cancel /\ pj_stored' = pj_stored
        /\ pj_result' = pj_result /\ pj_process' = pj_process /\ pj_bridge' = pj_bridge /\ pj_ended' = pj_ended
        /\ PJ!Publish("line", pj_out + 1)
    BY DEF PJ!Write, PJ!job
  <1>2. pj_out' \in 0..MaxLines /\ pj_out + 1 \in PJ!Line
    BY <1>1, JobBounds DEF JobInv, JobTyped, PJ!Line
  <1>3. <<"line", pj_out + 1>> \in Messages
    BY <1>2 DEF Messages
  <1>4. /\ pj_stream' \in [Streams -> StreamRecords] /\ pj_lost' \in 0..MaxLost
        /\ \A s \in Streams : pj_stream'[s].at = "off" => pj_stream'[s].queue = <<>>
    BY <1>1, <1>3, PublishedShape
  <1>5. pj_ended' = "none"
    BY <1>1 DEF JobInv, TaskFollows
  <1>6. TaskFollows'
    BY <1>1, <1>5 DEF JobInv, TaskFollows
  <1>7. QED BY <1>1, <1>2, <1>4, <1>5, <1>6 DEF JobInv, JobTyped

LEMMA JobEndsKeep ==
  ASSUME JobInv, PJ!PublishEnd
  PROVE  JobInv'
  <1>1. /\ pj_task = "publish" /\ pj_task' = "over" /\ pj_out' = pj_out
        /\ pj_row' = pj_row /\ pj_cancel' = pj_cancel /\ pj_stored' = pj_stored
        /\ pj_result' = pj_result /\ pj_process' = pj_process /\ pj_bridge' = pj_bridge
        /\ pj_ended' = (IF pj_lost' = pj_lost THEN pj_result[1] ELSE pj_ended)
        /\ PJ!Publish(pj_result[1], 0)
    BY DEF PJ!PublishEnd, PJ!Goto, PJ!job
  <1>2. pj_result[1] \in EndKinds /\ pj_row \in PJ!Ends /\ pj_ended = "none"
    BY <1>1 DEF JobInv, TaskFollows
  <1>3. <<pj_result[1], 0>> \in Messages
    BY <1>2 DEF Messages
  <1>4. PICK k : k = pj_result[1]
    OBVIOUS
  <1>5. /\ pj_stream' \in [Streams -> StreamRecords] /\ pj_lost' \in 0..MaxLost
        /\ \A s \in Streams : pj_stream'[s].at = "off" => pj_stream'[s].queue = <<>>
        /\ pj_lost' = pj_lost => \A s \in Streams : Hears(s)'
    BY <1>1, <1>2, <1>3, <1>4, PublishedShape
  <1>6. pj_ended' \in PJ!Told
    BY <1>1, <1>2 DEF EndKinds, PJ!Told
  <1>7. pj_ended' # "none" => pj_lost' = pj_lost
    BY <1>1, <1>2
  <1>8. TaskFollows'
    BY <1>1, <1>2 DEF TaskFollows
  <1>9. QED BY <1>1, <1>5, <1>6, <1>7, <1>8 DEF JobInv, JobTyped

\* One stream has moved.
LEMMA StreamsChange ==
  ASSUME JobInv, NEW s \in Streams, NEW k \in StreamRecords,
         pj_stream' = [pj_stream EXCEPT ![s] = k], pj_row' = pj_row, pj_cancel' = pj_cancel,
         pj_stored' = pj_stored, pj_task' = pj_task, pj_out' = pj_out, pj_result' = pj_result,
         pj_process' = pj_process, pj_bridge' = pj_bridge, pj_ended' = pj_ended, pj_lost' = pj_lost,
         k.at = "off" => k.queue = <<>>,
         pj_ended # "none" /\ k.at \in {"flushed", "live"} =>
           k.told # "none" \/ k.missed \/ HasEnd(k.queue),
         pj_ended # "none" /\ k.at = "subscribed" => k.queue = <<>> \/ HasEnd(k.queue)
  PROVE  JobInv'
  <1>1. /\ pj_stream' \in [Streams -> StreamRecords] /\ pj_stream'[s] = k
        /\ \A r \in Streams : r # s => pj_stream'[r] = pj_stream[r]
    BY DEF JobInv, JobTyped
  <1>2. JobTyped' /\ TaskFollows'
    BY <1>1 DEF JobInv, JobTyped, TaskFollows
  <1>3. ASSUME pj_ended # "none", NEW r \in Streams
        PROVE  Hears(r)'
    <2>1. CASE r = s
      BY <1>1, <1>3, <2>1 DEF Hears
    <2>2. CASE r # s
      BY <1>1, <1>3, <2>2 DEF JobInv, Hears
    <2>3. QED BY <2>1, <2>2
  <1>4. \A r \in Streams : pj_stream'[r].at = "off" => pj_stream'[r].queue = <<>>
    BY <1>1 DEF JobInv
  <1>5. QED BY <1>2, <1>3, <1>4 DEF JobInv

LEMMA ReadersJoin ==
  ASSUME JobInv, NEW s \in Streams,
         PJ!Subscribe(s) \/ PJ!Flush(s) \/ PJ!FlushFails(s) \/ PJ!Listen(s)
  PROVE  JobInv'
  <1>1. /\ pj_row' = pj_row /\ pj_cancel' = pj_cancel
        /\ pj_stored' = pj_stored /\ pj_task' = pj_task /\ pj_out' = pj_out /\ pj_result' = pj_result
        /\ pj_process' = pj_process /\ pj_bridge' = pj_bridge /\ pj_ended' = pj_ended /\ pj_lost' = pj_lost
    BY DEF PJ!Subscribe, PJ!Flush, PJ!FlushFails, PJ!Listen, PJ!job, PJ!run
  <1>2. CASE PJ!Subscribe(s)
    <2>1. PICK k : k = [pj_stream[s] EXCEPT !.at = "subscribed"]
      OBVIOUS
    <2>2. k \in StreamRecords /\ k.at = "subscribed" /\ k.queue = pj_stream[s].queue
      BY <2>1, StreamShape DEF StreamRecords
    <2>3. pj_stream' = [pj_stream EXCEPT ![s] = k] /\ pj_stream[s].queue = <<>>
      BY <1>2, <2>1 DEF PJ!Subscribe, JobInv
    <2>4. QED BY <1>1, <2>2, <2>3, StreamsChange
  <1>3. CASE PJ!Flush(s)
    <2>1. PICK t : t = IF pj_row \in PJ!Ends THEN "done" ELSE pj_stream[s].told
      OBVIOUS
    <2>2. t \in PJ!Told /\ (pj_ended # "none" => t # "none")
      BY <2>1, StreamShape DEF JobInv, TaskFollows, PJ!Told
    <2>3. PICK k : k = [pj_stream[s] EXCEPT !.at = "flushed", !.sent = pj_stream[s].sent \cup pj_stored, !.told = t]
      OBVIOUS
    <2>4. pj_stream[s].sent \cup pj_stored \in SUBSET PJ!Line
      BY StreamShape DEF JobInv, JobTyped
    <2>5. k \in StreamRecords /\ k.told = t /\ k.at = "flushed"
      BY <2>2, <2>3, <2>4, StreamShape DEF StreamRecords
    <2>6. pj_stream' = [pj_stream EXCEPT ![s] = k]
      BY <1>3, <2>1, <2>3 DEF PJ!Flush
    <2>7. QED BY <1>1, <2>2, <2>5, <2>6, StreamsChange
  <1>4. CASE PJ!Listen(s)
    <2>1. PICK k : k = [pj_stream[s] EXCEPT !.at = "live"]
      OBVIOUS
    <2>2. /\ k \in StreamRecords /\ k.told = pj_stream[s].told /\ k.queue = pj_stream[s].queue
          /\ k.missed = pj_stream[s].missed /\ k.at = "live"
      BY <2>1, StreamShape DEF StreamRecords
    <2>3. pj_stream' = [pj_stream EXCEPT ![s] = k] /\ pj_stream[s].at = "flushed"
      BY <1>4, <2>1 DEF PJ!Listen
    <2>4. pj_ended # "none" => k.told # "none" \/ k.missed \/ HasEnd(k.queue)
      BY <2>2, <2>3 DEF JobInv, Hears
    <2>5. QED BY <1>1, <2>2, <2>3, <2>4, StreamsChange
  <1>5. CASE PJ!FlushFails(s)
    <2>1. PICK n \in 0..MaxLines :
            /\ pj_stream[s].at = "subscribed"
            /\ pj_stream' = [pj_stream EXCEPT ![s] =
                 [pj_stream[s] EXCEPT !.at = "flushed",
                                      !.sent = pj_stream[s].sent \cup {i \in pj_stored : i <= n},
                                      !.missed = (pj_ended # "none" /\ pj_stream[s].queue = <<>>)]]
      BY <1>5 DEF PJ!FlushFails
    <2>2. PICK b \in BOOLEAN : b <=> (pj_ended # "none" /\ pj_stream[s].queue = <<>>)
      OBVIOUS
    <2>3. b = (pj_ended # "none" /\ pj_stream[s].queue = <<>>)
      BY <2>2
    <2>4. PICK z : z = pj_stream[s].sent \cup {i \in pj_stored : i <= n}
      OBVIOUS
    <2>5. z \in SUBSET PJ!Line
      BY <2>4, StreamShape DEF JobInv, JobTyped
    <2>6. PICK k : k = [pj_stream[s] EXCEPT !.at = "flushed", !.sent = z, !.missed = b]
      OBVIOUS
    <2>7. k \in StreamRecords /\ k.at = "flushed" /\ k.missed = b /\ k.queue = pj_stream[s].queue
      BY <2>5, <2>6, StreamShape DEF StreamRecords
    <2>8. pj_stream' = [pj_stream EXCEPT ![s] = k]
      BY <2>1, <2>3, <2>4, <2>6
    <2>9. pj_ended # "none" => k.missed \/ HasEnd(k.queue)
      BY <2>1, <2>2, <2>7 DEF JobInv, Hears
    <2>10. QED BY <1>1, <2>7, <2>8, <2>9, StreamsChange
  <1>6. QED BY <1>2, <1>3, <1>4, <1>5

\* What is left of a queue whose head was a line still has the end.
LEMMA TailEnds ==
  ASSUME NEW q \in Seq(Messages), q # <<>>
  PROVE  /\ Tail(q) \in Seq(Messages) /\ Head(q) \in Messages
         /\ Head(q)[1] = "line" /\ HasEnd(q) => HasEnd(Tail(q))
  <1>1. PICK r : r = Tail(q)
    OBVIOUS
  <1>2. /\ r \in Seq(Messages) /\ Len(q) = Len(r) + 1 /\ \A i \in 1..Len(r) : r[i] = q[i + 1]
        /\ Head(q) \in Messages /\ Head(q) = q[1]
    BY <1>1
  <1>3. ASSUME Head(q)[1] = "line", NEW i \in 1..Len(q), q[i][1] \in EndKinds
        PROVE  \E j \in 1..Len(r) : r[j][1] \in EndKinds
    <2>1. i # 1
      BY <1>2, <1>3 DEF EndKinds
    <2>2. i - 1 \in 1..Len(r) /\ r[i - 1] = q[i]
      BY <1>2, <2>1
    <2>3. QED BY <1>3, <2>2
  <1>4. QED BY <1>1, <1>2, <1>3 DEF HasEnd

LEMMA ForwardsKeep ==
  ASSUME JobInv, NEW s \in Streams, PJ!Forward(s)
  PROVE  JobInv'
  <1>1. /\ pj_row' = pj_row /\ pj_cancel' = pj_cancel
        /\ pj_stored' = pj_stored /\ pj_task' = pj_task /\ pj_out' = pj_out /\ pj_result' = pj_result
        /\ pj_process' = pj_process /\ pj_bridge' = pj_bridge /\ pj_ended' = pj_ended /\ pj_lost' = pj_lost
    BY DEF PJ!Forward, PJ!job, PJ!run
  <1>2. PICK x, q, m : x = pj_stream[s] /\ q = pj_stream[s].queue /\ m = Head(pj_stream[s].queue)
    OBVIOUS
  <1>3. /\ q # <<>> /\ x.at = "live" /\ x.queue = q
        /\ pj_stream' = [pj_stream EXCEPT ![s] =
             [x EXCEPT !.queue = IF m[1] = "done" THEN <<>> ELSE Tail(q),
                       !.at = IF m[1] = "done" THEN "over" ELSE "live",
                       !.sent = IF m[1] = "line" THEN x.sent \cup {m[2]} ELSE x.sent,
                       !.twice = x.twice \/ (m[1] = "line" /\ m[2] \in x.sent),
                       !.told = IF m[1] = "line" THEN x.told ELSE m[1]]]
    BY <1>2 DEF PJ!Forward
  <1>4. /\ x \in StreamRecords /\ q \in Seq(Messages) /\ x.sent \in SUBSET PJ!Line
        /\ x.told \in PJ!Told /\ x.twice \in BOOLEAN
    BY <1>2, StreamShape
  <1>5. /\ m \in Messages /\ Tail(q) \in Seq(Messages)
        /\ m[1] = "line" /\ HasEnd(q) => HasEnd(Tail(q))
    BY <1>2, <1>3, <1>4, TailEnds
  <1>6. m[1] \in {"line"} \cup EndKinds /\ (m[1] = "line" => m[2] \in PJ!Line)
    BY <1>5 DEF Messages, EndKinds
  <1>7. PICK q2 : q2 = IF m[1] = "done" THEN <<>> ELSE Tail(q)
    OBVIOUS
  <1>8. PICK a2 : a2 = IF m[1] = "done" THEN "over" ELSE "live"
    OBVIOUS
  <1>9. PICK s2 : s2 = IF m[1] = "line" THEN x.sent \cup {m[2]} ELSE x.sent
    OBVIOUS
  <1>10. PICK t2 : t2 = IF m[1] = "line" THEN x.told ELSE m[1]
    OBVIOUS
  <1>11. PICK b2 \in BOOLEAN : b2 <=> (x.twice \/ (m[1] = "line" /\ m[2] \in x.sent))
    OBVIOUS
  <1>12. b2 = (x.twice \/ (m[1] = "line" /\ m[2] \in x.sent))
    BY <1>4, <1>11
  <1>13. q2 \in Seq(Messages) /\ a2 \in {"over", "live"} /\ s2 \in SUBSET PJ!Line /\ t2 \in PJ!Told
    <2>1. q2 \in Seq(Messages)
      BY <1>5, <1>7
    <2>2. s2 \in SUBSET PJ!Line
      BY <1>4, <1>6, <1>9
    <2>3. t2 \in PJ!Told
      BY <1>4, <1>6, <1>10 DEF PJ!Told, EndKinds
    <2>4. QED BY <1>8, <2>1, <2>2, <2>3
  <1>14. PICK k : k = [x EXCEPT !.queue = q2, !.at = a2, !.sent = s2, !.twice = b2, !.told = t2]
    OBVIOUS
  <1>15. k \in StreamRecords
    BY <1>4, <1>13, <1>14 DEF StreamRecords
  <1>16. k.queue = q2 /\ k.at = a2 /\ k.told = t2 /\ k.missed = x.missed
    BY <1>4, <1>14 DEF StreamRecords
  <1>17. pj_stream' = [pj_stream EXCEPT ![s] = k]
    BY <1>3, <1>7, <1>8, <1>9, <1>10, <1>12, <1>14
  <1>18. ASSUME pj_ended # "none", k.at \in {"flushed", "live"}
         PROVE  k.told # "none" \/ k.missed \/ HasEnd(k.queue)
    <2>1. x.told # "none" \/ x.missed \/ HasEnd(q)
      BY <1>2, <1>3, <1>18 DEF JobInv, Hears
    <2>2. CASE m[1] = "line"
      <3>1. q2 = Tail(q) /\ t2 = x.told
        BY <1>7, <1>10, <2>2
      <3>2. QED BY <1>5, <1>16, <2>1, <2>2, <3>1
    <2>3. CASE m[1] # "line"
      BY <1>6, <1>10, <1>16, <2>3 DEF EndKinds
    <2>4. QED BY <2>2, <2>3
  <1>19. k.at \in {"over", "live"}
    BY <1>13, <1>16
  <1>20. QED BY <1>1, <1>15, <1>17, <1>18, <1>19, StreamsChange

LEMMA JobKeep == JobInv /\ [PJ!Next]_(PJ!vars) => JobInv'
  <1> SUFFICES ASSUME JobInv, [PJ!Next]_(PJ!vars) PROVE JobInv'
    OBVIOUS
  <1>1. CASE PJ!Execute \/ PJ!Commit \/ PJ!ReadForCancel \/ PJ!Cancel
    BY <1>1, RowsKeep
  <1>2. CASE \/ PJ!ViaBridge \/ PJ!Refused \/ PJ!Accepted \/ PJ!BridgeExecutes \/ PJ!PollEnds
             \/ PJ!Direct \/ PJ!ProcessEnds("success") \/ PJ!ProcessEnds("failed") \/ PJ!Breaks \/ PJ!Finish
    BY <1>2, TasksKeep
  <1>3. CASE PJ!Write
    BY <1>3, JobLinesKeep
  <1>4. CASE PJ!PublishEnd
    BY <1>4, JobEndsKeep
  <1>5. CASE \E s \in Streams : PJ!Subscribe(s) \/ PJ!Flush(s) \/ PJ!FlushFails(s) \/ PJ!Listen(s)
    BY <1>5, ReadersJoin
  <1>6. CASE \E s \in Streams : PJ!Forward(s)
    BY <1>6, ForwardsKeep
  <1>7. CASE UNCHANGED PJ!vars
    <2>1. /\ pj_row' = pj_row /\ pj_cancel' = pj_cancel /\ pj_stream' = pj_stream
          /\ pj_stored' = pj_stored /\ pj_task' = pj_task /\ pj_out' = pj_out /\ pj_result' = pj_result
          /\ pj_process' = pj_process /\ pj_bridge' = pj_bridge /\ pj_ended' = pj_ended /\ pj_lost' = pj_lost
      BY <1>7 DEF PJ!vars
    <2>2. QED BY <2>1 DEF JobInv, JobTyped, TaskFollows, Hears
  <1>8. QED BY <1>1, <1>2, <1>3, <1>4, <1>5, <1>6, <1>7 DEF PJ!Next

LEMMA JobSafe == JobInv => PJ!TypeOK /\ PJ!EndIsHeard
  <1> SUFFICES ASSUME JobInv PROVE PJ!TypeOK /\ PJ!EndIsHeard
    OBVIOUS
  <1>1. PJ!TypeOK
    BY StreamShape DEF JobInv, JobTyped, PJ!TypeOK
  <1>2. ASSUME pj_ended # "none", NEW s \in Streams, pj_stream[s].at = "live", pj_stream[s].queue = <<>>
        PROVE  pj_stream[s].told # "none" \/ pj_stream[s].missed
    <2>1. ~HasEnd(pj_stream[s].queue)
      BY <1>2 DEF HasEnd
    <2>2. QED BY <1>2, <2>1 DEF JobInv, Hears
  <1>3. QED BY <1>1, <1>2 DEF PJ!EndIsHeard

(***************************************************************************)
(* IdlePool                                                                *)
(***************************************************************************)
Holds(w) == ip_ws[w].at \in {"resume", "replay", "forward"}

SocketRecords ==
  [at : {"off", "new", "claim", "connect", "resume", "replay", "forward", "leaving",
         "closing", "over"},
   conn : IP!Conn \cup {0}, new : BOOLEAN]

\* A connection that is held was made, waits nowhere and has one holder; those
\* that wait were made too, so a new connection is none of them.
HolderInv ==
  /\ IP!TypeOK
  /\ \A w \in Socket : Holds(w) =>
       LET k == ip_ws[w].conn
       IN k # 0 /\ ip_conn[k] # "none" /\ k # ip_pool /\ k \notin ip_timer
  /\ \A w, v \in Socket : Holds(w) /\ Holds(v) /\ ip_ws[w].conn = ip_ws[v].conn => w = v
  /\ ip_pool # 0 => ip_conn[ip_pool] # "none"
  /\ \A k \in ip_timer : ip_conn[k] # "none"

LEMMA HolderInit == IP!Init => HolderInv
  BY HoldingsAssumption DEF IP!Init, HolderInv, IP!TypeOK, Holds, IP!Off, IP!Conn, IP!Statuses

\* A socket whose record becomes k, holding nothing it did not hold.
LEMMA SocketMoves ==
  ASSUME HolderInv, NEW w \in Socket, NEW k \in SocketRecords,
         ip_ws' = [ip_ws EXCEPT ![w] = k],
         k.at \in {"resume", "replay", "forward"} => Holds(w) /\ k.conn = ip_ws[w].conn,
         UNCHANGED <<ip_row, ip_conn, ip_pool, ip_timer, ip_active>>
  PROVE  HolderInv'
  <1>1. IP!TypeOK /\ ip_ws \in [Socket -> SocketRecords]
    BY DEF HolderInv, IP!TypeOK, SocketRecords
  <1>2. ip_ws'[w] = k /\ \A v \in Socket \ {w} : ip_ws'[v] = ip_ws[v]
    BY <1>1
  <1>3. IP!TypeOK'
    <2>1. ip_ws' \in [Socket -> SocketRecords]
      BY <1>1
    <2>2. QED BY <1>1, <2>1 DEF IP!TypeOK, SocketRecords
  <1>4. \A v \in Socket : Holds(v)' => Holds(v) /\ ip_ws'[v].conn = ip_ws[v].conn
    BY <1>2 DEF Holds
  <1>5. QED BY <1>3, <1>4 DEF HolderInv

LEMMA HolderKeep == HolderInv /\ [IP!Next]_(IP!vars) => HolderInv'
  <1> SUFFICES ASSUME HolderInv, [IP!Next]_(IP!vars) PROVE HolderInv'
    OBVIOUS
  <1>0. 0 \notin IP!Conn
    BY HoldingsAssumption DEF IP!Conn
  <1> USE <1>0 DEF HolderInv, IP!TypeOK, Holds, IP!Statuses, IP!At, IP!Goto, IP!Close,
                   IP!Take, IP!PutAside
  <1>1. ASSUME NEW w \in Socket, IP!Resume(w) PROVE HolderInv'
    BY <1>1 DEF IP!Resume
  <1>2. ASSUME NEW w \in Socket, IP!MarkResumed(w) PROVE HolderInv'
    BY <1>2 DEF IP!MarkResumed
  <1>3. ASSUME NEW w \in Socket, IP!Replay(w) PROVE HolderInv'
    <2>1. PICK at \in {"forward", "over"} : ip_ws' = [ip_ws EXCEPT ![w] = [ip_ws[w] EXCEPT !.at = at]]
      BY <1>3 DEF IP!Replay
    <2>2. Holds(w) /\ UNCHANGED <<ip_row, ip_conn, ip_pool, ip_timer, ip_active>>
      BY <1>3 DEF IP!Replay
    <2>3. PICK k : k = [ip_ws[w] EXCEPT !.at = at]
      OBVIOUS
    <2>4. k \in SocketRecords /\ k.conn = ip_ws[w].conn
      BY <2>3 DEF SocketRecords
    <2> HIDE DEF HolderInv
    <2>5. QED BY <2>1, <2>2, <2>3, <2>4, SocketMoves
  <1>4. ASSUME NEW w \in Socket, IP!Enter(w) PROVE HolderInv'
    <2>1. PICK k : k = [ip_ws[w] EXCEPT !.at = "new", !.new = TRUE]
      OBVIOUS
    <2>2. k \in SocketRecords /\ k.at = "new"
      BY <2>1 DEF SocketRecords
    <2>3. /\ ip_ws' = [ip_ws EXCEPT ![w] = k]
          /\ UNCHANGED <<ip_row, ip_conn, ip_pool, ip_timer, ip_active>>
      BY <1>4, <2>1 DEF IP!Enter
    <2> HIDE DEF HolderInv
    <2>4. QED BY <2>2, <2>3, SocketMoves
  <1>5. ASSUME NEW w \in Socket, IP!ReadRow(w) PROVE HolderInv'
    BY <1>5 DEF IP!ReadRow
  <1>6. ASSUME NEW w \in Socket, IP!Claim(w) PROVE HolderInv'
    BY <1>6 DEF IP!Claim
  <1>7. ASSUME NEW w \in Socket, IP!Connect(w) PROVE HolderInv'
    <2>1. PICK k \in IP!Conn :
            /\ ip_conn[k] = "none"
            /\ ip_conn' = [ip_conn EXCEPT ![k] = "open"] /\ ip_active' = k
            /\ ip_ws' = [ip_ws EXCEPT ![w] = [ip_ws[w] EXCEPT !.at = "forward", !.conn = k]]
            /\ ip_row' = ip_row /\ ip_pool' = ip_pool /\ ip_timer' = ip_timer
      BY <1>7 DEF IP!Connect
    <2>2. /\ ip_ws'[w].at = "forward" /\ ip_ws'[w].conn = k /\ ip_ws'[w].new = ip_ws[w].new
          /\ \A v \in Socket \ {w} : ip_ws'[v] = ip_ws[v]
      BY <2>1
    <2>3. IP!TypeOK'
      <3>1. ip_ws' \in [Socket -> SocketRecords]
        <4>1. ip_ws \in [Socket -> SocketRecords]
          BY DEF SocketRecords
        <4> HIDE DEF HolderInv
        <4>2. PICK q : q = [ip_ws[w] EXCEPT !.at = "forward", !.conn = k]
          OBVIOUS
        <4>3. q \in SocketRecords
          BY <4>1, <4>2 DEF SocketRecords
        <4>4. ip_ws' = [ip_ws EXCEPT ![w] = q]
          BY <2>1, <4>2
        <4>5. QED BY <4>1, <4>3, <4>4
      <3>2. ip_conn' \in [IP!Conn -> {"none", "open", "closed"}] /\ ip_active' \in IP!Conn \cup {0}
        BY <2>1
      <3>3. QED BY <2>1, <3>1, <3>2 DEF SocketRecords
    <2>4. \A v \in Socket : Holds(v) => ip_ws[v].conn # k
      BY <2>1
    <2>5. QED BY <2>1, <2>2, <2>3, <2>4
  <1>8. ASSUME NEW w \in Socket, IP!ConnectFails(w) PROVE HolderInv'
    BY <1>8 DEF IP!ConnectFails
  <1>9. ASSUME NEW w \in Socket, IP!BrowserLeaves(w) PROVE HolderInv'
    BY <1>9 DEF IP!BrowserLeaves
  <1>10. ASSUME NEW w \in Socket, IP!MarkIdle(w) PROVE HolderInv'
    BY <1>10 DEF IP!MarkIdle
  <1>11. ASSUME NEW w \in Socket, IP!ShellEnds(w) PROVE HolderInv'
    BY <1>11 DEF IP!ShellEnds
  <1>12. ASSUME NEW w \in Socket, IP!MarkClosed(w) PROVE HolderInv'
    BY <1>12 DEF IP!MarkClosed
  <1>13. ASSUME NEW k \in IP!Conn, IP!Expire(k) PROVE HolderInv'
    BY <1>13 DEF IP!Expire
  <1>14. CASE IP!Terminate
    BY <1>14 DEF IP!Terminate, IP!Disconnect
  <1>15. CASE UNCHANGED IP!vars
    BY <1>15 DEF IP!vars
  <1>16. QED
    BY <1>1, <1>2, <1>3, <1>4, <1>5, <1>6, <1>7, <1>8, <1>9, <1>10, <1>11, <1>12,
       <1>13, <1>14, <1>15 DEF IP!Next

LEMMA PoolCardinality == \A S : IP!Cardinality(S) = Cardinality(S)
  BY DEF IP!Cardinality, Cardinality

LEMMA HolderSafe == HolderInv => IP!TypeOK /\ IP!OneHolder
  <1> SUFFICES ASSUME HolderInv PROVE IP!TypeOK /\ IP!OneHolder
    OBVIOUS
  <1>1. ASSUME NEW k \in IP!Conn
        PROVE  IP!Cardinality(IP!Holders(k)) <= 1
    <2> DEFINE S == IP!Holders(k)
    <2>1. \A w, v \in S : w = v
      BY DEF HolderInv, Holds, IP!Holders
    <2>2. S = {} \/ \E w : S = {w}
      BY <2>1
    <2> HIDE DEF S
    <2>3. Cardinality(S) \in {0, 1}
      BY <2>2, FS_EmptySet, FS_Singleton
    <2>4. Cardinality(S) <= 1
      BY <2>3
    <2>5. IP!Cardinality(S) <= 1
      BY <2>4, PoolCardinality, Zenon
    <2>6. QED BY <2>5, Zenon DEF S
  <1>2. ASSUME NEW k \in IP!Conn, IP!Holders(k) # {}
        PROVE  ip_pool # k /\ k \notin ip_timer
    BY <1>2 DEF HolderInv, Holds, IP!Holders
  <1>3. QED BY <1>1, <1>2, Zenon DEF IP!OneHolder, HolderInv

(***************************************************************************)
(* AlertRules                                                              *)
(***************************************************************************)
\* The copy the evaluation e has read asks for an alert of rule r.
Asked(e, r) ==
  LET row == ar_eval[e].copy[r]
  IN row.at = "on" /\ row.channels # {} /\ AR!Matches(ar_eval[e], row)

Got(e, r) == \E c \in Channel : <<e, r, c>> \in ar_sent

\* The row h of the history says how the channels of rule r took the alert.
Tells(e, r, h) ==
  /\ h.eval = e /\ h.rule = r /\ h.tried = ar_eval[e].copy[r].channels
  /\ h.status = "delivered" <=> Got(e, r)

Flushed(e, r) == \E h \in ar_eval[e].flushed : Tells(e, r, h)
Recorded(e, r) == \E h \in ar_history : Tells(e, r, h)

\* Every rule asked for is still to do, being dispatched, or told in a flushed
\* row; nothing is sent for a rule before it is dispatched or after its row.
Walks(e) ==
  /\ \A r \in ar_eval[e].todo : ~Got(e, r)
  /\ \A h \in ar_eval[e].flushed : h.rule \notin ar_eval[e].todo
  /\ \A r \in Caller : Asked(e, r) =>
       \/ r \in ar_eval[e].todo
       \/ ar_eval[e].pc = "channels" /\ ar_eval[e].at = r
       \/ Flushed(e, r)

Dispatches(e) ==
  /\ ar_eval[e].at \in Caller \ ar_eval[e].todo
  /\ ar_eval[e].good <=> Got(e, ar_eval[e].at)
  /\ \A h \in ar_eval[e].flushed : h.rule # ar_eval[e].at

EvaluationInv(e) ==
  /\ ar_eval[e].pc \in {"none", "read"} => ar_eval[e].flushed = {} /\ \A r \in Caller : ~Got(e, r)
  /\ ar_eval[e].pc \in {"walk", "channels"} => Walks(e)
  /\ ar_eval[e].pc = "channels" => Dispatches(e)
  /\ ar_eval[e].pc = "over" /\ ar_eval[e].failed =>
       \A r \in Caller : Asked(e, r) => Recorded(e, r)

AlertsInv == AR!TypeOK /\ \A e \in JobEvents : EvaluationInv(e)

LEMMA AlertsInit == AR!Init => AlertsInv
  <1> SUFFICES ASSUME AR!Init PROVE AlertsInv
    OBVIOUS
  <1>1. AR!TypeOK
    BY HoldingsAssumption DEF AR!Init, AR!TypeOK, AR!Rows, AR!Evaluations
  <1>2. \A e \in JobEvents : EvaluationInv(e)
    BY DEF AR!Init, EvaluationInv, Got
  <1>3. QED BY <1>1, <1>2 DEF AlertsInv

\* An evaluation that is not touched, and for which nothing is sent, stays.
LEMMA EvaluationRests ==
  ASSUME AlertsInv, NEW e \in JobEvents, ar_eval'[e] = ar_eval[e],
         \A r \in Caller, c \in Channel : <<e, r, c>> \in ar_sent' <=> <<e, r, c>> \in ar_sent,
         ar_history \subseteq ar_history'
  PROVE  EvaluationInv(e)'
  <1>1. \A r \in Caller : Got(e, r)' <=> Got(e, r)
    BY DEF Got
  <1>2. \A r \in Caller : Asked(e, r)' <=> Asked(e, r)
    BY DEF Asked, AR!Matches
  <1>3. \A r \in Caller : /\ Flushed(e, r) => Flushed(e, r)'
                          /\ Recorded(e, r) => Recorded(e, r)'
    BY <1>1 DEF Tells, Flushed, Recorded
  <1>4. EvaluationInv(e)
    BY DEF AlertsInv
  <1>5. \A r \in ar_eval[e].todo : r \in Caller
    BY DEF AlertsInv, AR!TypeOK, AR!Evaluations
  <1>6. Walks(e) => Walks(e)'
    <2> SUFFICES ASSUME Walks(e) PROVE Walks(e)'
      OBVIOUS
    <2>1. \A r \in Caller : Asked(e, r)' =>
            \/ r \in ar_eval[e].todo
            \/ ar_eval[e].pc = "channels" /\ ar_eval[e].at = r
            \/ Flushed(e, r)'
      BY <1>2, <1>3, Zenon DEF Walks
    <2>2. \A r \in ar_eval[e].todo : ~Got(e, r)'
      BY <1>1, <1>5 DEF Walks
    <2>3. \A h \in ar_eval[e].flushed : h.rule \notin ar_eval[e].todo
      BY DEF Walks
    <2>4. QED BY <2>1, <2>2, <2>3 DEF Walks
  <1>7. Dispatches(e) => Dispatches(e)'
    BY <1>1 DEF Dispatches, Got
  <1>a. PICK k : k = ar_eval[e]
    OBVIOUS
  <1>b. k = ar_eval'[e]
    BY <1>a
  <1>8. QED BY <1>1, <1>2, <1>3, <1>4, <1>6, <1>7, <1>a, <1>b DEF EvaluationInv

LEMMA EvaluationShape ==
  \A k \in AR!Evaluations :
    /\ k.pc \in {"none", "read", "walk", "channels", "over", "broken", "lost"}
    /\ k.failed \in BOOLEAN /\ k.slow \in BOOLEAN /\ k.good \in BOOLEAN
    /\ k.todo \subseteq Caller /\ k.copy \in [Caller -> AR!Rows]
    /\ k.at \in Caller \cup {None} /\ k.tried \subseteq Channel
    /\ k.flushed \subseteq AR!Histories
    /\ k = [pc |-> k.pc, failed |-> k.failed, slow |-> k.slow, todo |-> k.todo, copy |-> k.copy,
            at |-> k.at, tried |-> k.tried, good |-> k.good, flushed |-> k.flushed]
  BY DEF AR!Evaluations

\* One evaluation gets another record of its type.
LEMMA EvaluationTyped ==
  ASSUME AR!TypeOK, NEW e \in JobEvents, NEW k \in AR!Evaluations,
         ar_eval' = [ar_eval EXCEPT ![e] = k], UNCHANGED <<ar_rule, ar_edits>>,
         ar_sent' \subseteq JobEvents \X Caller \X Channel, ar_history' \subseteq AR!Histories
  PROVE  AR!TypeOK' /\ ar_eval'[e] = k /\ \A d \in JobEvents \ {e} : ar_eval'[d] = ar_eval[d]
  BY DEF AR!TypeOK

LEMMA RulesKeep ==
  ASSUME AlertsInv, NEW r \in Caller,
         AR!Create(r) \/ AR!Update(r) \/ AR!Patch(r) \/ AR!Delete(r)
  PROVE  AlertsInv'
  <1>1. ar_eval' = ar_eval /\ ar_sent' = ar_sent /\ ar_history' = ar_history
    BY DEF AR!Create, AR!Update, AR!Patch, AR!Delete
  <1>2. ar_rule' \in [Caller -> AR!Rows] /\ ar_edits' \in 0..MaxEdits
    BY HoldingsAssumption DEF AlertsInv, AR!TypeOK, AR!Rows, AR!Create, AR!Update, AR!Patch, AR!Delete
  <1>3. AR!TypeOK'
    BY <1>1, <1>2 DEF AlertsInv, AR!TypeOK
  <1>4. \A e \in JobEvents : EvaluationInv(e)'
    BY <1>1, EvaluationRests
  <1>5. QED BY <1>3, <1>4 DEF AlertsInv

LEMMA ChannelTried ==
  ASSUME AlertsInv, NEW e \in JobEvents, NEW c \in Channel, ar_eval[e].pc = "channels",
         NEW k \in AR!Evaluations, ar_eval' = [ar_eval EXCEPT ![e] = k],
         UNCHANGED <<ar_rule, ar_edits, ar_history>>,
         k.todo = ar_eval[e].todo, k.copy = ar_eval[e].copy, k.pc = "channels",
         k.at = ar_eval[e].at, k.flushed = ar_eval[e].flushed, k.failed = ar_eval[e].failed,
         k.slow = ar_eval[e].slow,
         \/ ar_sent' = ar_sent \cup {<<e, ar_eval[e].at, c>>} /\ k.good
         \/ ar_sent' = ar_sent /\ k.good = ar_eval[e].good
  PROVE  AlertsInv'
  <1>0. PICK r : r = ar_eval[e].at
    OBVIOUS
  <1>1. Walks(e) /\ Dispatches(e)
    BY DEF AlertsInv, EvaluationInv
  <1>2. r \in Caller \ ar_eval[e].todo
    BY <1>0, <1>1 DEF Dispatches
  <1>3. /\ AR!TypeOK' /\ ar_eval'[e] = k
        /\ \A d \in JobEvents \ {e} : ar_eval'[d] = ar_eval[d]
    BY <1>0, <1>2, EvaluationTyped DEF AlertsInv, AR!TypeOK
  <1>4. \A q \in Caller : q # r => (Got(e, q)' <=> Got(e, q))
    <2> SUFFICES ASSUME NEW q \in Caller, q # r PROVE Got(e, q)' <=> Got(e, q)
      OBVIOUS
    <2>1. \A d \in Channel : <<e, q, d>> \in ar_sent' <=> <<e, q, d>> \in ar_sent
      <3>1. \A d \in Channel : <<e, q, d>> # <<e, r, c>>
        OBVIOUS
      <3>2. QED BY <3>1, <1>0
    <2>2. QED BY <2>1 DEF Got
  <1>5. (ar_eval[e].good <=> Got(e, r)) => (k.good <=> Got(e, r)')
    BY <1>0 DEF Got
  <1>6. \A q \in Caller : Asked(e, q)' <=> Asked(e, q)
    BY <1>3 DEF Asked, AR!Matches
  <1>7. \A q \in Caller : q # r =>
          (Flushed(e, q) => Flushed(e, q)')
    <2>1. ar_eval'[e].copy = ar_eval[e].copy /\ ar_eval'[e].flushed = ar_eval[e].flushed
      BY <1>3
    <2> SUFFICES ASSUME NEW q \in Caller, q # r, NEW h \in ar_eval[e].flushed, Tells(e, q, h)
                 PROVE  Flushed(e, q)'
      BY DEF Flushed
    <2>2. Got(e, q)' <=> Got(e, q)
      BY <1>4
    <2>3. Tells(e, q, h)'
      BY <2>1, <2>2 DEF Tells
    <2>4. QED BY <2>1, <2>3 DEF Flushed
  <1>8. \A q \in ar_eval[e].todo : q \in Caller
    BY EvaluationShape DEF AlertsInv, AR!TypeOK
  <1>9. Walks(e)'
    BY <1>0, <1>1, <1>2, <1>3, <1>4, <1>6, <1>7, <1>8 DEF Walks
  <1>10. Dispatches(e)'
    BY <1>0, <1>1, <1>3, <1>5 DEF Dispatches
  <1>11. EvaluationInv(e)'
    BY <1>3, <1>9, <1>10 DEF EvaluationInv
  <1>12. \A d \in JobEvents \ {e} : EvaluationInv(d)'
    BY <1>0, <1>3, EvaluationRests
  <1>13. QED BY <1>3, <1>11, <1>12 DEF AlertsInv

LEMMA AlertsKeep == AlertsInv /\ [AR!Next]_(AR!vars) => AlertsInv'
  <1> SUFFICES ASSUME AlertsInv, [AR!Next]_(AR!vars) PROVE AlertsInv'
    OBVIOUS
  <1>1. ASSUME NEW e \in JobEvents, AR!Finish(e) PROVE AlertsInv'
    <2>1. AR!TypeOK'
      BY <1>1, SMTT(30) DEF AlertsInv, AR!TypeOK, AR!Evaluations, AR!Finish
    <2>2. EvaluationInv(e)'
      BY <1>1 DEF AlertsInv, AR!TypeOK, AR!Evaluations, AR!Finish, EvaluationInv, Got
    <2>3. \A d \in JobEvents \ {e} : EvaluationInv(d)'
      BY <1>1, EvaluationRests DEF AlertsInv, AR!TypeOK, AR!Finish
    <2>4. QED BY <2>1, <2>2, <2>3 DEF AlertsInv
  <1>2. ASSUME NEW e \in JobEvents, AR!Read(e) PROVE AlertsInv'
    <2>0. ar_eval' = [ar_eval EXCEPT ![e] = [ar_eval[e] EXCEPT !.pc = "walk", !.copy = ar_rule,
                          !.todo = {r \in Caller : ar_rule[r].at = "on"}]]
      BY <1>2 DEF AR!Read
    <2>1. ar_eval[e].pc = "read" /\ UNCHANGED <<ar_rule, ar_sent, ar_history, ar_edits>>
      BY <1>2 DEF AR!Read
    <2>2. PICK on \in SUBSET Caller : on = {r \in Caller : ar_rule[r].at = "on"}
      OBVIOUS
    <2>3. PICK k : k = [ar_eval[e] EXCEPT !.pc = "walk", !.copy = ar_rule, !.todo = on]
      OBVIOUS
    <2>4. ar_eval[e] \in AR!Evaluations /\ ar_rule \in [Caller -> AR!Rows]
      BY DEF AlertsInv, AR!TypeOK
    <2>5. k \in AR!Evaluations
      BY <2>3, <2>4 DEF AR!Evaluations
    <2>6. k.pc = "walk" /\ k.copy = ar_rule /\ k.todo = on /\ k.flushed = ar_eval[e].flushed
      BY <2>3, <2>4, EvaluationShape
    <2>7. /\ AR!TypeOK' /\ ar_eval'[e] = k
          /\ \A d \in JobEvents \ {e} : ar_eval'[d] = ar_eval[d]
      BY <2>0, <2>1, <2>2, <2>3, <2>5, EvaluationTyped DEF AlertsInv, AR!TypeOK
    <2>8. ar_eval[e].flushed = {} /\ \A r \in Caller : ~Got(e, r)
      BY <2>1 DEF AlertsInv, EvaluationInv
    <2>9. \A r \in Caller : ~Got(e, r)'
      BY <2>1, <2>8 DEF Got
    <2>10. \A r \in Caller : Asked(e, r)' => r \in on
      BY <2>2, <2>6, <2>7 DEF Asked
    <2>11. Walks(e)'
      BY <2>6, <2>7, <2>8, <2>9, <2>10 DEF Walks
    <2>12. EvaluationInv(e)'
      BY <2>6, <2>7, <2>11 DEF EvaluationInv
    <2>13. \A d \in JobEvents \ {e} : EvaluationInv(d)'
      BY <2>1, <2>7, EvaluationRests
    <2>14. QED BY <2>7, <2>12, <2>13 DEF AlertsInv
  <1>3. ASSUME NEW e \in JobEvents, NEW r \in Caller, AR!Consider(e, r) PROVE AlertsInv'
    <2> DEFINE row == ar_eval[e].copy[r]
               rest == ar_eval[e].todo \ {r}
    <2>0. PICK due \in BOOLEAN : due <=> (AR!Matches(ar_eval[e], row) /\ row.channels # {})
      OBVIOUS
    <2>1. /\ ar_eval[e].pc = "walk" /\ r \in ar_eval[e].todo
          /\ ar_eval' = [ar_eval EXCEPT ![e] = [ar_eval[e] EXCEPT
               !.todo = rest, !.pc = IF due THEN "channels" ELSE "walk",
               !.at = IF due THEN r ELSE None, !.tried = {}, !.good = FALSE]]
          /\ ar_sent' = ar_sent /\ ar_history' = ar_history /\ ar_rule' = ar_rule /\ ar_edits' = ar_edits
      BY <1>3, <2>0 DEF AR!Consider
    <2>a. PICK k : k = [ar_eval[e] EXCEPT
               !.todo = rest, !.pc = IF due THEN "channels" ELSE "walk",
               !.at = IF due THEN r ELSE None, !.tried = {}, !.good = FALSE]
      OBVIOUS
    <2>b. ar_eval[e] \in AR!Evaluations
      BY DEF AlertsInv, AR!TypeOK
    <2>c. k \in AR!Evaluations
      BY <2>a, <2>b DEF AR!Evaluations
    <2>3. /\ AR!TypeOK' /\ ar_eval'[e] = k
          /\ \A d \in JobEvents \ {e} : ar_eval'[d] = ar_eval[d]
      BY <2>1, <2>a, <2>c, EvaluationTyped DEF AlertsInv, AR!TypeOK
    <2>2. /\ ar_eval'[e].todo = rest /\ ar_eval'[e].copy = ar_eval[e].copy
          /\ ar_eval'[e].pc = IF due THEN "channels" ELSE "walk"
          /\ ar_eval'[e].at = IF due THEN r ELSE None
          /\ ar_eval'[e].good = FALSE /\ ar_eval'[e].flushed = ar_eval[e].flushed
          /\ ar_eval'[e].failed = ar_eval[e].failed /\ ar_eval'[e].slow = ar_eval[e].slow
      BY <2>3, <2>a, <2>b, EvaluationShape
    <2>4. Walks(e)
      BY <2>1 DEF AlertsInv, EvaluationInv
    <2>d. \A q \in Caller : (Got(e, q)' <=> Got(e, q)) /\ (Asked(e, q)' <=> Asked(e, q))
      <3>1. \A q \in Caller : Got(e, q)' <=> Got(e, q)
        BY <2>1 DEF Got
      <3>2. \A q \in Caller : Asked(e, q)' <=> Asked(e, q)
        BY <2>2 DEF Asked, AR!Matches
      <3>3. QED BY <3>1, <3>2
    <2>f. \A q \in Caller : Flushed(e, q)' <=> Flushed(e, q)
      BY <2>2, <2>d DEF Tells, Flushed
    <2>5. \A q \in Caller : /\ Asked(e, q)' <=> Asked(e, q)
                            /\ Got(e, q)' <=> Got(e, q)
                            /\ Flushed(e, q)' <=> Flushed(e, q)
      BY <2>d, <2>f
    <2>6. Asked(e, r) => due
      BY <2>0 DEF Asked
    <2>7. Walks(e)'
      <3>1. \A q \in ar_eval'[e].todo : ~Got(e, q)'
        BY <2>2, <2>4, <2>5, <2>b DEF Walks, AR!Evaluations
      <3>2. \A h \in ar_eval'[e].flushed : h.rule \notin ar_eval'[e].todo
        BY <2>2, <2>4 DEF Walks
      <3>3. ASSUME NEW q \in Caller, Asked(e, q)'
            PROVE  \/ q \in ar_eval'[e].todo
                   \/ ar_eval'[e].pc = "channels" /\ ar_eval'[e].at = q
                   \/ Flushed(e, q)'
        <4>1. Asked(e, q)
          BY <2>5, <3>3
        <4>2. q \in ar_eval[e].todo \/ Flushed(e, q)
          BY <2>1, <2>4, <4>1 DEF Walks
        <4>3. q = r => ar_eval'[e].pc = "channels" /\ ar_eval'[e].at = q
          BY <2>2, <2>6, <4>1
        <4>4. Flushed(e, q) => Flushed(e, q)'
          BY <2>5
        <4>5. q # r /\ q \in ar_eval[e].todo => q \in ar_eval'[e].todo
          BY <2>2
        <4>6. QED BY <4>2, <4>3, <4>4, <4>5
      <3>4. QED BY <3>1, <3>2, <3>3 DEF Walks
    <2>8. due => Dispatches(e)'
      BY <2>1, <2>2, <2>4 DEF Walks, Dispatches, Got
    <2>9. EvaluationInv(e)'
      BY <2>2, <2>7, <2>8 DEF EvaluationInv
    <2>10. \A d \in JobEvents \ {e} : EvaluationInv(d)'
      BY <2>1, <2>3, EvaluationRests
    <2>11. QED BY <2>3, <2>9, <2>10 DEF AlertsInv
  <1>4. ASSUME NEW e \in JobEvents, NEW c \in Channel, AR!TryChannel(e, c) PROVE AlertsInv'
    <2>1. /\ ar_eval[e].pc = "channels" /\ ar_eval[e] \in AR!Evaluations
          /\ ar_history' = ar_history /\ ar_rule' = ar_rule /\ ar_edits' = ar_edits
      BY <1>4 DEF AR!TryChannel, AlertsInv, AR!TypeOK
    <2>2. CASE /\ ar_sent' = ar_sent \cup {<<e, ar_eval[e].at, c>>}
               /\ ar_eval' = [ar_eval EXCEPT ![e] = [ar_eval[e] EXCEPT
                    !.tried = ar_eval[e].tried \cup {c}, !.good = TRUE]]
      <3>1. PICK k : k = [ar_eval[e] EXCEPT !.tried = ar_eval[e].tried \cup {c}, !.good = TRUE]
        OBVIOUS
      <3>2. k \in AR!Evaluations
        BY <2>1, <3>1 DEF AR!Evaluations
      <3>3. /\ k.todo = ar_eval[e].todo /\ k.copy = ar_eval[e].copy /\ k.pc = "channels"
            /\ k.at = ar_eval[e].at /\ k.flushed = ar_eval[e].flushed
            /\ k.failed = ar_eval[e].failed /\ k.slow = ar_eval[e].slow /\ k.good
        BY <2>1, <3>1, EvaluationShape
      <3>4. QED BY <2>1, <2>2, <3>1, <3>2, <3>3, ChannelTried
    <2>3. CASE /\ ar_sent' = ar_sent
               /\ ar_eval' = [ar_eval EXCEPT ![e] = [ar_eval[e] EXCEPT
                    !.tried = ar_eval[e].tried \cup {c}]]
      <3>1. PICK k : k = [ar_eval[e] EXCEPT !.tried = ar_eval[e].tried \cup {c}]
        OBVIOUS
      <3>2. k \in AR!Evaluations
        BY <2>1, <3>1 DEF AR!Evaluations
      <3>3. /\ k.todo = ar_eval[e].todo /\ k.copy = ar_eval[e].copy /\ k.pc = "channels"
            /\ k.at = ar_eval[e].at /\ k.flushed = ar_eval[e].flushed
            /\ k.failed = ar_eval[e].failed /\ k.slow = ar_eval[e].slow
            /\ k.good = ar_eval[e].good
        BY <2>1, <3>1, EvaluationShape
      <3>4. QED BY <2>1, <2>3, <3>1, <3>2, <3>3, ChannelTried
    <2>4. QED BY <1>4, <2>2, <2>3 DEF AR!TryChannel, AR!Send
  <1>5. ASSUME NEW e \in JobEvents, AR!Record(e) PROVE AlertsInv'
    <2> DEFINE r == ar_eval[e].at
    <2>1. PICK new : new = [eval |-> e, rule |-> r, tried |-> ar_eval[e].tried,
                            status |-> IF ar_eval[e].good THEN "delivered" ELSE "failed"]
      OBVIOUS
    <2>2. /\ ar_eval[e].pc = "channels" /\ ar_eval[e].tried = ar_eval[e].copy[r].channels
          /\ ar_eval' = [ar_eval EXCEPT ![e] = [ar_eval[e] EXCEPT
               !.pc = "walk", !.at = None, !.flushed = ar_eval[e].flushed \cup {new}]]
          /\ ar_sent' = ar_sent /\ ar_history' = ar_history /\ ar_rule' = ar_rule /\ ar_edits' = ar_edits
      BY <1>5, <2>1 DEF AR!Record
    <2>3. /\ Walks(e) /\ Dispatches(e)
      BY <2>2 DEF AlertsInv, EvaluationInv
    <2>4. new \in AR!Histories
      BY <2>1, <2>3 DEF AlertsInv, AR!TypeOK, AR!Evaluations, AR!Histories, Dispatches
    <2>a. PICK k : k = [ar_eval[e] EXCEPT
               !.pc = "walk", !.at = None, !.flushed = ar_eval[e].flushed \cup {new}]
      OBVIOUS
    <2>b. ar_eval[e] \in AR!Evaluations
      BY DEF AlertsInv, AR!TypeOK
    <2>c. k \in AR!Evaluations
      BY <2>a, <2>b, <2>4 DEF AR!Evaluations
    <2>5. /\ AR!TypeOK' /\ ar_eval'[e] = k
          /\ \A d \in JobEvents \ {e} : ar_eval'[d] = ar_eval[d]
      BY <2>2, <2>a, <2>c, EvaluationTyped DEF AlertsInv, AR!TypeOK
    <2>6. /\ ar_eval'[e].todo = ar_eval[e].todo /\ ar_eval'[e].copy = ar_eval[e].copy
          /\ ar_eval'[e].pc = "walk" /\ ar_eval'[e].flushed = ar_eval[e].flushed \cup {new}
          /\ ar_eval'[e].failed = ar_eval[e].failed /\ ar_eval'[e].slow = ar_eval[e].slow
      BY <2>5, <2>a, <2>b, EvaluationShape
    <2>7. /\ new.eval = e /\ new.rule = r /\ new.tried = ar_eval[e].copy[r].channels
          /\ new.status = "delivered" <=> Got(e, r)
      BY <2>1, <2>2, <2>3 DEF Dispatches
    <2>d. \A q \in Caller : (Got(e, q)' <=> Got(e, q)) /\ (Asked(e, q)' <=> Asked(e, q))
      BY <2>2, <2>6 DEF Asked, Got, AR!Matches
    <2>e. \A q \in Caller :
            Flushed(e, q) \/ q = r => Flushed(e, q)'
      BY <2>3, <2>6, <2>7, <2>d DEF Tells, Flushed, Dispatches
    <2>f. \A q \in ar_eval[e].todo : q \in Caller
      BY <2>b, EvaluationShape
    <2>8. Walks(e)'
      BY <2>2, <2>3, <2>6, <2>7, <2>d, <2>e, <2>f DEF Walks, Dispatches
    <2>9. EvaluationInv(e)'
      BY <2>6, <2>8 DEF EvaluationInv
    <2>10. \A d \in JobEvents \ {e} : EvaluationInv(d)'
      BY <2>2, <2>5, EvaluationRests
    <2>11. QED BY <2>5, <2>9, <2>10 DEF AlertsInv
  <1>6. ASSUME NEW e \in JobEvents, AR!RecordRefused(e) PROVE AlertsInv'
    <2>1. PICK k : k = [ar_eval[e] EXCEPT !.pc = "broken", !.flushed = {}]
      OBVIOUS
    <2>2. ar_eval[e] \in AR!Evaluations
      BY DEF AlertsInv, AR!TypeOK
    <2>3. k \in AR!Evaluations /\ k.pc = "broken"
      BY <2>1, <2>2 DEF AR!Evaluations
    <2>4. /\ ar_eval' = [ar_eval EXCEPT ![e] = k]
          /\ ar_sent' = ar_sent /\ ar_history' = ar_history /\ ar_rule' = ar_rule /\ ar_edits' = ar_edits
      BY <1>6, <2>1 DEF AR!RecordRefused
    <2>5. /\ AR!TypeOK' /\ ar_eval'[e] = k
          /\ \A d \in JobEvents \ {e} : ar_eval'[d] = ar_eval[d]
      BY <2>3, <2>4, EvaluationTyped DEF AlertsInv, AR!TypeOK
    <2>6. EvaluationInv(e)'
      BY <2>3, <2>5 DEF EvaluationInv
    <2>7. \A d \in JobEvents \ {e} : EvaluationInv(d)'
      BY <2>4, <2>5, EvaluationRests
    <2>8. QED BY <2>5, <2>6, <2>7 DEF AlertsInv
  <1>7. ASSUME NEW e \in JobEvents, AR!Commit(e) PROVE AlertsInv'
    <2>1. /\ ar_eval[e].pc = "walk" /\ ar_eval[e].todo = {}
          /\ ar_eval' = [ar_eval EXCEPT ![e] = [ar_eval[e] EXCEPT !.pc = "over", !.flushed = {}]]
          /\ ar_sent' = ar_sent /\ ar_history' = ar_history \cup ar_eval[e].flushed
          /\ ar_rule' = ar_rule /\ ar_edits' = ar_edits
      BY <1>7 DEF AR!Commit
    <2>a. PICK k : k = [ar_eval[e] EXCEPT !.pc = "over", !.flushed = {}]
      OBVIOUS
    <2>b. ar_eval[e] \in AR!Evaluations
      BY DEF AlertsInv, AR!TypeOK
    <2>c. k \in AR!Evaluations
      BY <2>a, <2>b DEF AR!Evaluations
    <2>d. ar_history' \subseteq AR!Histories
      BY <2>1, <2>b, EvaluationShape DEF AlertsInv, AR!TypeOK
    <2>2. /\ AR!TypeOK' /\ ar_eval'[e] = k
          /\ \A d \in JobEvents \ {e} : ar_eval'[d] = ar_eval[d]
      BY <2>1, <2>a, <2>c, <2>d, EvaluationTyped DEF AlertsInv, AR!TypeOK
    <2>3. /\ ar_eval'[e].copy = ar_eval[e].copy /\ ar_eval'[e].pc = "over"
          /\ ar_eval'[e].failed = ar_eval[e].failed /\ ar_eval'[e].slow = ar_eval[e].slow
      BY <2>2, <2>a, <2>b, EvaluationShape
    <2>4. Walks(e)
      BY <2>1 DEF AlertsInv, EvaluationInv
    <2>e. \A q \in Caller : (Got(e, q)' <=> Got(e, q)) /\ (Asked(e, q)' <=> Asked(e, q))
      BY <2>1, <2>3 DEF Asked, Got, AR!Matches
    <2>f. \A q \in Caller : Flushed(e, q) => Recorded(e, q)'
      BY <2>1, <2>3, <2>e DEF Tells, Flushed, Recorded
    <2>5. EvaluationInv(e)'
      BY <2>1, <2>3, <2>4, <2>e, <2>f DEF EvaluationInv, Walks
    <2>6. \A d \in JobEvents \ {e} : EvaluationInv(d)'
      BY <2>1, <2>2, EvaluationRests
    <2>7. QED BY <2>2, <2>5, <2>6 DEF AlertsInv
  <1>8. CASE AR!Stop
    <2>0. \A k \in AR!Evaluations : /\ [k EXCEPT !.pc = "lost", !.flushed = {}] \in AR!Evaluations
                                    /\ [k EXCEPT !.pc = "lost", !.flushed = {}].pc = "lost"
      BY DEF AR!Evaluations
    <2>a. \A e \in JobEvents : ar_eval[e] \in AR!Evaluations
      BY DEF AlertsInv, AR!TypeOK
    <2>b. ar_eval' \in [JobEvents -> AR!Evaluations]
      BY <1>8, <2>0, <2>a DEF AR!Stop
    <2>1. AR!TypeOK'
      BY <1>8, <2>b DEF AlertsInv, AR!TypeOK, AR!Stop
    <2>2. ASSUME NEW e \in JobEvents PROVE EvaluationInv(e)'
      <3>1. CASE ar_eval'[e] = ar_eval[e]
        BY <1>8, <3>1, EvaluationRests DEF AR!Stop
      <3>2. CASE ar_eval'[e] = [ar_eval[e] EXCEPT !.pc = "lost", !.flushed = {}]
        BY <2>0, <2>a, <3>2 DEF EvaluationInv
      <3>3. QED BY <1>8, <3>1, <3>2 DEF AR!Stop
    <2>3. QED BY <2>1, <2>2 DEF AlertsInv
  <1>9. CASE UNCHANGED AR!vars
    <2>1. AR!TypeOK'
      BY <1>9 DEF AR!vars, AlertsInv, AR!TypeOK
    <2>2. \A e \in JobEvents : EvaluationInv(e)'
      BY <1>9, EvaluationRests DEF AR!vars
    <2>3. QED BY <2>1, <2>2 DEF AlertsInv
  <1>10. QED
    BY RulesKeep, <1>1, <1>2, <1>3, <1>4, <1>5, <1>6, <1>7, <1>8, <1>9 DEF AR!Next

LEMMA AlertsSafe == AlertsInv => AR!TypeOK /\ AR!CommittedIsComplete
  <1> SUFFICES ASSUME AlertsInv PROVE AR!TypeOK /\ AR!CommittedIsComplete
    OBVIOUS
  <1>1. ASSUME NEW e \in JobEvents, NEW r \in Caller, Asked(e, r),
               ar_eval[e].pc = "over", ar_eval[e].failed
        PROVE  Recorded(e, r)
    BY <1>1 DEF AlertsInv, EvaluationInv
  <1>2. AR!CommittedIsComplete
    BY <1>1 DEF Asked, Tells, Recorded, Got, AR!CommittedIsComplete
  <1>3. QED BY <1>2 DEF AlertsInv

(***************************************************************************)
(* LaunchToken                                                             *)
(***************************************************************************)
\* The verification holds the answer that lets it open a session.
Admitted(c) == lt_call[c].pc = "asked" /\ lt_call[c].reply = "pending"

\* A token has one right to open a session, which lies in Redis, with the
\* verification that was answered "pending", or in the count of sessions.
LaunchInv ==
  /\ LT!TypeOK
  /\ \A t \in Token :
       /\ lt_opened[t] <= 1
       /\ lt_key[t].is = "pending" => lt_opened[t] = 0
       /\ lt_token[t] = 0 => lt_key[t].is = "none" /\ lt_opened[t] = 0
  /\ \A c \in Caller :
       /\ lt_call[c].pc \in {"fresh", "asked"} => lt_token[lt_call[c].token] # 0
       /\ Admitted(c) => /\ lt_opened[lt_call[c].token] = 0
                         /\ lt_key[lt_call[c].token].is # "pending"
  /\ \A c, d \in Caller :
       Admitted(c) /\ Admitted(d) /\ lt_call[c].token = lt_call[d].token => c = d

LEMMA LaunchInit == LT!Init => LaunchInv
  BY HoldingsAssumption DEF LT!Init, LaunchInv, LT!TypeOK, LT!Forever, Admitted

LEMMA LaunchKeep == LaunchInv /\ [LT!Next]_(LT!vars) => LaunchInv'
  <1> SUFFICES ASSUME LaunchInv, [LT!Next]_(LT!vars) PROVE LaunchInv'
    OBVIOUS
  <1>0. TTL \in Nat /\ Grace \in Nat /\ MaxTime \in Nat
    BY HoldingsAssumption
  <1> USE <1>0 DEF LaunchInv, LT!TypeOK, LT!Forever, Admitted
  <1>1. CASE LT!Tick
    BY <1>1 DEF LT!Tick
  <1>2. ASSUME NEW t \in Token, LT!Mint(t) PROVE LaunchInv'
    BY <1>2 DEF LT!Mint
  <1>3. ASSUME NEW c \in Caller, LT!CheckExpiry(c) PROVE LaunchInv'
    BY <1>3 DEF LT!CheckExpiry
  <1>4. ASSUME NEW c \in Caller, LT!Swap(c) PROVE LaunchInv'
    <2> DEFINE t == lt_call[c].token
    <2>1. t \in Token /\ lt_call[c].pc = "fresh" /\ lt_token[t] # 0
      BY <1>4 DEF LT!Swap
    <2>2. PICK answer : answer = LT!Held(t)
      OBVIOUS
    <2>3. answer \in {"none", "pending", "used"} /\ (answer = "pending" => lt_key[t].is = "pending")
      BY <2>1, <2>2 DEF LT!Held
    <2>4. /\ lt_call' = [lt_call EXCEPT ![c].pc = "asked", ![c].reply = answer]
          /\ lt_key' = [lt_key EXCEPT ![t] = [is |-> "used", until |-> MaxTime + TTL + Grace + 1]]
          /\ lt_now' = lt_now /\ lt_token' = lt_token /\ lt_opened' = lt_opened
      BY <1>4, <2>2 DEF LT!Swap
    <2> HIDE DEF t
    <2>5. /\ lt_call'[c] = [lt_call[c] EXCEPT !.pc = "asked", !.reply = answer]
          /\ \A d \in Caller \ {c} : lt_call'[d] = lt_call[d]
          /\ lt_key'[t] = [is |-> "used", until |-> MaxTime + TTL + Grace + 1]
          /\ \A u \in Token \ {t} : lt_key'[u] = lt_key[u]
      BY <2>1, <2>4
    <2>6. LT!TypeOK'
      <3>1. lt_call' \in [Caller -> [pc : {"none", "fresh", "asked", "over"}, token : Token,
                                     reply : {"none", "pending", "used"}]]
        <4> DEFINE R == [pc : {"none", "fresh", "asked", "over"}, token : Token,
                         reply : {"none", "pending", "used"}]
        <4>1. lt_call \in [Caller -> R]
          OBVIOUS
        <4>2. [lt_call[c] EXCEPT !.pc = "asked", !.reply = answer] \in R
          BY <2>3, <4>1
        <4>3. lt_call' = [lt_call EXCEPT ![c] = [lt_call[c] EXCEPT !.pc = "asked", !.reply = answer]]
          BY <2>4
        <4>4. QED BY <4>1, <4>2, <4>3
      <3>2. [is |-> "used", until |-> MaxTime + TTL + Grace + 1]
              \in [is : {"none", "pending", "used"}, until : 0..(MaxTime + TTL + Grace + 1)]
        BY <1>0
      <3>3. lt_key' \in [Token -> [is : {"none", "pending", "used"},
                                   until : 0..(MaxTime + TTL + Grace + 1)]]
        BY <2>1, <2>4, <3>2
      <3>4. QED BY <2>4, <3>1, <3>3
    <2>7. lt_call'[c].token = t /\ lt_call'[c].pc = "asked" /\ lt_call'[c].reply = answer
      BY <2>5 DEF t
    <2>8. answer = "pending" =>
            lt_opened[t] = 0 /\ \A d \in Caller : Admitted(d) => lt_call[d].token # t
      BY <2>1, <2>3
    <2>9. QED
      BY <2>1, <2>4, <2>5, <2>6, <2>7, <2>8
  <1>5. ASSUME NEW c \in Caller, LT!Answer(c) PROVE LaunchInv'
    BY <1>5 DEF LT!Answer, LT!Opens
  <1>6. ASSUME NEW c \in Caller, LT!Lose(c) PROVE LaunchInv'
    BY <1>6 DEF LT!Lose
  <1>7. CASE LT!Forget
    BY <1>7 DEF LT!Forget
  <1>8. CASE UNCHANGED LT!vars
    BY <1>8 DEF LT!vars
  <1>9. QED
    BY <1>1, <1>2, <1>3, <1>4, <1>5, <1>6, <1>7, <1>8 DEF LT!Next

LEMMA LaunchSafe == LaunchInv => LT!TypeOK /\ LT!TokenOpensOnce
  BY DEF LaunchInv, LT!TokenOpensOnce

(***************************************************************************)
(* The ten side by side                                                    *)
(***************************************************************************)
PartsInv ==
  /\ part = "vault" => VaultInv
  /\ part = "accounts" => AccountsInv
  /\ part = "assets" => AssetsInv
  /\ part = "zones" => PathInv
  /\ part = "recordings" => FramesInv
  /\ part = "logs" => LogsInv
  /\ part = "playbooks" => JobInv
  /\ part = "idle" => HolderInv
  /\ part = "alerts" => AlertsInv
  /\ part = "launch" => LaunchInv

AllVars == <<part, VA!vars, AC!vars, AS!vars, ZO!vars, RE!vars, LS!vars, PJ!vars, IP!vars, AR!vars, LT!vars>>

\* Each takes its own steps, or rests.
LEMMA PartsSteps ==
  ASSUME [PartsNext]_AllVars
  PROVE  /\ part' = part
         /\ part = "vault" => [VA!Next]_(VA!vars)
         /\ part = "accounts" => [AC!Next]_(AC!vars)
         /\ part = "assets" => [AS!Next]_(AS!vars)
         /\ part = "zones" => [ZO!Next]_(ZO!vars)
         /\ part = "recordings" => [RE!Next]_(RE!vars)
         /\ part = "logs" => [LS!Next]_(LS!vars)
         /\ part = "playbooks" => [PJ!Next]_(PJ!vars)
         /\ part = "idle" => [IP!Next]_(IP!vars)
         /\ part = "alerts" => [AR!Next]_(AR!vars)
         /\ part = "launch" => [LT!Next]_(LT!vars)
  <1>1. CASE PartsNext
    BY <1>1 DEF PartsNext
  <1>2. CASE UNCHANGED AllVars
    BY <1>2 DEF AllVars
  <1>3. QED BY <1>1, <1>2

LEMMA PartsInitSound == PartsInit => PartsInv
  BY VaultInit, AccountsInit, AssetsInit, PathInit, FramesInit, LogsInit, JobInit, HolderInit, AlertsInit, LaunchInit
     DEF PartsInit, PartsInv

LEMMA PartsKeep == PartsInv /\ [PartsNext]_AllVars => PartsInv'
  <1> SUFFICES ASSUME PartsInv, [PartsNext]_AllVars PROVE PartsInv'
    OBVIOUS
  <1>1. (part = "vault" => VaultInv)'
    BY PartsSteps, VaultKeep DEF PartsInv
  <1>2. (part = "accounts" => AccountsInv)'
    BY PartsSteps, AccountsKeep DEF PartsInv
  <1>3. (part = "assets" => AssetsInv)'
    BY PartsSteps, AssetsKeep DEF PartsInv
  <1>4. (part = "zones" => PathInv)'
    BY PartsSteps, PathKeep DEF PartsInv
  <1>5. (part = "recordings" => FramesInv)'
    BY PartsSteps, FramesKeep DEF PartsInv
  <1>6. (part = "logs" => LogsInv)'
    BY PartsSteps, LogsKeep DEF PartsInv
  <1>7. (part = "playbooks" => JobInv)'
    BY PartsSteps, JobKeep DEF PartsInv
  <1>8. (part = "idle" => HolderInv)'
    BY PartsSteps, HolderKeep DEF PartsInv
  <1>9. (part = "alerts" => AlertsInv)'
    BY PartsSteps, AlertsKeep DEF PartsInv
  <1>10. (part = "launch" => LaunchInv)'
    BY PartsSteps, LaunchKeep DEF PartsInv
  <1>11. QED BY <1>1, <1>2, <1>3, <1>4, <1>5, <1>6, <1>7, <1>8, <1>9, <1>10 DEF PartsInv

LEMMA PartsInvariance == PartsSpec => []PartsInv
  BY PartsInitSound, PartsKeep, PTL DEF PartsSpec, AllVars

\* Re-keying the vault beside a working service leaves readable with the new key
\* every row but those written, or copied to the archive, since the tool read
\* (rotate_vault_key.py); a rotation archives the secret it replaces, unless
\* another write of the row crossed it, and the prune does not take it
\* (credentials.py: update_credential_secret); the secret in the vault opens
\* every host linked to it, but for those the code gives up (rotate_secret.py,
\* account_push.py, _account_ops.py).
THEOREM SecretsKept == PartsSpec => []SecretsAreKept
<1>1. PartsInv => SecretsAreKept
  BY VaultSafe, AccountsSafe DEF PartsInv, SecretsAreKept
<1> QED  BY <1>1, PartsInvariance, PTL

\* A host of Zabbix has one row in the inventory, however syncs, edits and links
\* meet (hosts.py: sync_from_zabbix, update_host); a chain of gateways passes no
\* zone and no gateway twice, whatever becomes of the zones while it is resolved
\* (zones.py: zone_gateway_chain).
THEOREM InventoryConsistent == PartsSpec => []InventoryAgrees
<1>1. PartsInv => InventoryAgrees
  BY AssetsSafe, PathSafe DEF PartsInv, InventoryAgrees
<1> QED  BY <1>1, PartsInvariance, PTL

\* Tiering leaves the frames of a recording in its row or in S3, whoever moves it
\* and whichever of the steps fail, unless the row was written again once it was
\* old enough to move, or emptied by retention (main.py: _tier_loop, internal.py:
\* housekeeping_tier); of a log file that was never rotated, every line below a
\* saved offset has reached its target or was passed over (log_shipper.py).
THEOREM DataArrived == PartsSpec => []DataArrives
<1>1. PartsInv => DataArrives
  BY FramesSafe, LogsSafe DEF PartsInv, DataArrives
<1> QED  BY <1>1, PartsInvariance, PTL

\* Who follows a job and has read all he was sent has heard its end (ws/stream.py);
\* an SSH connection has one holder, or waits in the idle pool (ws/ssh_terminal.py,
\* ssh_pool.py); an evaluation that committed has tried every channel of every rule
\* it matched (alert_evaluator.py); a launch token opens one session at most,
\* however its verifications meet (launch-token: verify_token).
THEOREM QuarantinedSafe == PartsSpec => []QuarantinedHold
<1>1. PartsInv => QuarantinedHold
  BY JobSafe, HolderSafe, AlertsSafe, LaunchSafe DEF PartsInv, QuarantinedHold
<1> QED  BY <1>1, PartsInvariance, PTL

=============================================================================
