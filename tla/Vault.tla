-------------------------------- MODULE Vault --------------------------------
(* The credential vault of inventory-service (api/credentials.py, vault.py)   *)
(* for one credential, one account template and the archive of the            *)
(* credential's prior secrets, and the operator's tool that moves all of them *)
(* to a new key-encryption key while the service may still be writing         *)
(* (ops/rotate_vault_key.py).                                                 *)
(*                                                                            *)
(* Keys are numbers: the old and the new KEK, then one data key per envelope. *)
(* A stored row is its plaintext and what it takes to read it: "sealed" is    *)
(* the key its ciphertext is under; for an envelope row "dek" is the data key *)
(* inside wrapped_dek and "under" the KEK that wraps it (both 0 on a row from *)
(* before the envelopes).  Rows live in one table here, by id: the credential,*)
(* the template, and each archived secret under the number of its insert,     *)
(* which is the order of rotated_at.                                          *)
EXTENDS Integers, FiniteSets, FiniteSetsExt

CONSTANTS
    Put,        \* the calls of PUT /internal/credentials/{id}/secret
    Keep,       \* SECRET_HISTORY_KEEP
    MaxWrites   \* bound: envelopes written by the service

VARIABLES
    rows,     \* the stored rows by id
    key,      \* the KEK the running service has derived
    writes,   \* how many envelopes have been written: the last data key, the last secret
    put,      \* the calls: what each has read of the credential
    tool,     \* the re-keying tool: its phase and the rows it has read
    strays,   \* history: rows written where the tool could not see it
    dropped,  \* history: the secret the last rotation replaced, with whether another write crossed it
    unlogged  \* history: the ways a plaintext left the vault without its record

vars == <<rows, key, writes, put, tool, strays, dropped, unlogged>>

OldKey == 1
NewKey == 2
Cred == 1
Tmpl == 2
ToolPhases == {"off", "read", "written", "complete", "failed"}

Envelope(s, n) == [secret |-> s, sealed |-> n + 2, dek |-> n + 2, under |-> key]
LegacyRow(s) == [secret |-> s, sealed |-> OldKey, dek |-> 0, under |-> 0]

\* _decrypt_secret: through the data key, or directly for a row from before.
Opens(r, k) ==
    IF r.dek # 0 THEN r.under = k /\ r.sealed = r.dek ELSE r.sealed = k

Archived == DOMAIN rows \ {Cred, Tmpl}
Without(ids) == [i \in DOMAIN rows \ ids |-> rows[i]]
With(i, r) == [j \in DOMAIN rows \cup {i} |-> IF j = i THEN r ELSE rows[j]]

\* What the service writes between the tool's read and its writes, or later
\* with the old key, is out of the tool's sight.
Marked(ids) ==
    IF tool.phase = "read" \/ (tool.phase # "off" /\ key = OldKey)
    THEN strays \cup ids ELSE strays \ ids

Rows == [secret : 0..MaxWrites, sealed : 1..(MaxWrites + 2),
         dek : 0..(MaxWrites + 2), under : 0..2]

TypeOK ==
    /\ \A i \in DOMAIN rows : rows[i] \in Rows
    /\ key \in {OldKey, NewKey}
    /\ writes \in 0..MaxWrites
    /\ tool.phase \in ToolPhases

Init ==
    /\ rows = [i \in {Cred, Tmpl} |->
                 IF i = Cred THEN LegacyRow(0)
                 ELSE [secret |-> 1, sealed |-> 3, dek |-> 3, under |-> OldKey]]
    /\ key = OldKey
    /\ writes = 1
    /\ put = [p \in Put |-> [phase |-> "off", was |-> LegacyRow(0)]]
    /\ tool = [phase |-> "off", rows |-> <<>>]
    /\ strays = {}
    /\ dropped = [secret |-> 0, crossed |-> TRUE]
    /\ unlogged = {}

-----------------------------------------------------------------------------
\* Another write of the credential's row crosses the rotations that have read it.
Crossed == [p \in Put |-> IF put[p].phase = "read" THEN [put[p] EXCEPT !.phase = "stale"] ELSE put[p]]

Write(id) ==
    /\ writes < MaxWrites
    /\ writes' = writes + 1
    /\ rows' = With(id, Envelope(writes + 1, writes + 1))
    /\ strays' = Marked({id})

\* create_credential: with its own secret, or with a copy of the template's
\* under a data key of its own, which needs the audit record.
CreateCredential ==
    /\ Cred \notin DOMAIN rows
    /\ Write(Cred)
    /\ UNCHANGED <<key, put, tool, dropped, unlogged>>

CreateFromTemplate ==
    /\ Cred \notin DOMAIN rows
    /\ Tmpl \in DOMAIN rows
    /\ Opens(rows[Tmpl], key)
    /\ writes < MaxWrites
    /\ writes' = writes + 1
    /\ rows' = With(Cred, Envelope(rows[Tmpl].secret, writes + 1))
    /\ strays' = Marked({Cred})
    /\ UNCHANGED <<key, put, tool, dropped, unlogged>>

\* update_credential with a secret: the row is overwritten, nothing is archived.
UpdateCredential ==
    /\ Cred \in DOMAIN rows
    /\ Write(Cred)
    /\ put' = Crossed
    /\ dropped' = [dropped EXCEPT !.crossed = TRUE]
    /\ UNCHANGED <<key, tool, unlogged>>

\* delete_credential; the archive goes with it.
DeleteCredential ==
    /\ Cred \in DOMAIN rows
    /\ rows' = Without({Cred} \cup Archived)
    /\ put' = [p \in Put |-> [put[p] EXCEPT !.phase = IF @ = "off" THEN @ ELSE "gone"]]
    /\ dropped' = [dropped EXCEPT !.crossed = TRUE]
    /\ UNCHANGED <<key, writes, tool, strays, unlogged>>

\* create_credential_template and update_credential_template with a secret.
WriteTemplate ==
    /\ Write(Tmpl)
    /\ UNCHANGED <<key, put, tool, dropped, unlogged>>

DeleteTemplate ==
    /\ Tmpl \in DOMAIN rows
    /\ rows' = Without({Tmpl})
    /\ UNCHANGED <<key, writes, put, tool, strays, dropped, unlogged>>

\* update_credential_secret reads the credential ...
ReadForPut(p) ==
    /\ put[p].phase = "off"
    /\ Cred \in DOMAIN rows
    /\ put' = [put EXCEPT ![p] = [phase |-> "read", was |-> rows[Cred]]]
    /\ UNCHANGED <<rows, key, writes, tool, strays, dropped, unlogged>>

\* Bug: the prune keeps the oldest rows.
KeptOldest(ids) == {i \in ids : Cardinality({j \in ids : j < i}) < Keep}

Kept(ids) == {i \in ids : Cardinality({j \in ids : j > i}) < Keep}

\* ... archives what it has read, prunes the archive and overwrites the row.
\* An archived row's id is its insert number, above those of all others.
FinishPut(p) ==
    /\ put[p].phase \in {"read", "stale"}
    /\ writes < MaxWrites
    /\ writes' = writes + 1
    /\ LET id == writes + 3
           kept == Kept(Archived \cup {id})
       IN /\ rows' = [i \in (DOMAIN rows \ Archived) \cup kept |->
                        CASE i = Cred -> Envelope(writes + 1, writes + 1)
                          [] i = id -> put[p].was
                          [] OTHER -> rows[i]]
          /\ strays' = Marked({Cred, id}) \cup
                        (IF put[p].phase = "stale" \/ Cred \in strays THEN {id} ELSE {})
    /\ dropped' = [secret |-> rows[Cred].secret, crossed |-> put[p].phase = "stale"]
    /\ put' = [Crossed EXCEPT ![p] = [phase |-> "off", was |-> LegacyRow(0)]]
    /\ UNCHANGED <<key, tool, unlogged>>

\* The row was deleted meanwhile: the UPDATE matches nothing and rolls back.
FailPut(p) ==
    /\ put[p].phase = "gone"
    /\ put' = [put EXCEPT ![p] = [phase |-> "off", was |-> LegacyRow(0)]]
    /\ UNCHANGED <<rows, key, writes, tool, strays, dropped, unlogged>>

-----------------------------------------------------------------------------
\* A plaintext leaves the vault, by one of its ways out, with its record or not.
Leave(way, id, recorded) ==
    /\ id \in DOMAIN rows
    /\ Opens(rows[id], key)
    /\ unlogged' = IF recorded THEN unlogged ELSE unlogged \cup {way}
    /\ UNCHANGED <<rows, key, writes, put, tool, strays, dropped>>

\* get_credential_secret: no record, no secret.
IssueSecret == Leave("issued", Cred, TRUE)

\* reveal_credential_template, to an elevated administrator with a reveal
\* token of this template: no record, no secret.
RevealTemplate == Leave("template", Tmpl, TRUE)

\* reveal_credential, to an administrator with a reveal token of this
\* credential and a grant or an elevation: its record is not a critical one.
RevealCredential == \E recorded \in BOOLEAN : Leave("revealed", Cred, recorded)

-----------------------------------------------------------------------------
\* rotate_vault_key.py reads every table.
ToolRead ==
    /\ tool.phase = "off"
    /\ tool' = [phase |-> "read", rows |-> rows]
    /\ UNCHANGED <<rows, key, writes, put, strays, dropped, unlogged>>

\* The pre-flight looks at what each row keeps under the KEK: the wrapped data
\* key of an envelope, the ciphertext of an older row.
UnderKek(r, k) == IF r.dek # 0 THEN r.under = k ELSE r.sealed = k

\* Bug: the archive is not among the tables.
RewrappedButArchive(read) == {Cred, Tmpl} \cap DOMAIN read

\* TABLES: the credentials, their archive and the templates.
Rewrapped(read) == DOMAIN read

\* Each row is updated by id from what was read: the wrapped key of an
\* envelope, the ciphertext of an older row, whatever the row holds by now.
Rekeyed(r, read) ==
    IF read.dek # 0
    THEN [r EXCEPT !.dek = read.dek, !.under = NewKey]
    ELSE [r EXCEPT !.sealed = NewKey, !.secret = read.secret]

ToolWrite ==
    /\ tool.phase = "read"
    /\ IF \A i \in DOMAIN tool.rows : UnderKek(tool.rows[i], OldKey)
       THEN /\ rows' = [i \in DOMAIN rows |->
                          IF i \in Rewrapped(tool.rows)
                          THEN Rekeyed(rows[i], tool.rows[i]) ELSE rows[i]]
            /\ tool' = [tool EXCEPT !.phase = "written"]
            /\ put' = Crossed
       ELSE tool' = [tool EXCEPT !.phase = "failed"] /\ UNCHANGED <<rows, put>>
    /\ UNCHANGED <<key, writes, strays, dropped, unlogged>>

\* The post-verification on a fresh session.
ToolVerify ==
    /\ tool.phase = "written"
    /\ tool' = [phase |-> IF \A i \in DOMAIN rows : UnderKek(rows[i], NewKey)
                          THEN "complete" ELSE "failed",
                rows |-> <<>>]
    /\ UNCHANGED <<rows, key, writes, put, strays, dropped, unlogged>>

\* .env holds the new key from before the tool runs: any restart takes it.
RestartService ==
    /\ key = OldKey
    /\ key' = NewKey
    /\ put' = [p \in Put |-> [phase |-> "off", was |-> LegacyRow(0)]]
    /\ UNCHANGED <<rows, writes, tool, strays, dropped, unlogged>>

Next ==
    \/ CreateCredential \/ CreateFromTemplate \/ UpdateCredential \/ DeleteCredential
    \/ WriteTemplate \/ DeleteTemplate
    \/ \E p \in Put : ReadForPut(p) \/ FinishPut(p) \/ FailPut(p)
    \/ IssueSecret \/ RevealTemplate \/ RevealCredential
    \/ ToolRead \/ ToolWrite \/ ToolVerify \/ RestartService

Spec == Init /\ [][Next]_vars

-----------------------------------------------------------------------------
\* Re-keying loses nothing (rotate_vault_key.py:37-41): once the tool has
\* written, the service can read every row with the new key, the archive and
\* the template included, but for rows written since the tool read them and
\* archived copies a rotation had read before.
RekeyingLosesNothing ==
    tool.phase \in {"written", "complete"} =>
      \A i \in DOMAIN rows \ strays : Opens(rows[i], NewKey)

\* The secret the last rotation replaced is in the archive
\* (credentials.py:694-733), unless a write of the row crossed that rotation,
\* however many rotations and edits came before.
PriorSecretIsKept ==
    ~dropped.crossed => \E i \in Archived : rows[i].secret = dropped.secret

\* rotate_vault_key.py:127-129: when the tool reports completion, every row it
\* looked at has been checked to decrypt under the new key.
CompleteIsChecked ==
    [][tool.phase = "written" /\ tool'.phase = "complete" =>
         \A i \in DOMAIN rows : Opens(rows[i], NewKey)]_vars

\* credentials.py:583-585: every read of a secret is an audited event.
ReadsAreRecorded == unlogged = {}
=============================================================================
