----------------------------- MODULE AuditChain ------------------------------
(***************************************************************************)
(* The hash chain over portal.audit_event, written by concurrent           *)
(* transactions.                                                           *)
(*                                                                         *)
(* An INSERT takes its seq from the sequence first; then its trigger looks *)
(* for the row before it, among the rows committed by then; the row is     *)
(* seen by others only when its transaction commits.  The three are        *)
(* actions of their own.  A transaction inserts one row.                   *)
(*                                                                         *)
(* A hash is the record of what it was computed from: two are equal only   *)
(* if their inputs are.  What the hash covers of a row (subject, decision, *)
(* row ids ...) is one opaque body; what it does not cover (the two orgs,  *)
(* by which the org views select, and the delegation chain) is parties.    *)
(***************************************************************************)
EXTENDS Integers

CONSTANTS
  Writers,  \* connections that append
  Bodies,   \* what a row may say in the columns that are hashed
  Parties,  \* and in chain, provider_org and grantee_org
  Keys,     \* values of PORTAL_SIGNING_KEY
  MaxSeq,   \* bound: the sequence stops here
  NULL

ASSUME ChainAssumption == MaxSeq \in Nat

VARIABLES
  rows,   \* seq -> the committed row of portal.audit_event
  next,   \* the sequence behind seq
  txn,    \* writer -> its open transaction, or NULL
  key     \* portal.signing_key, kid 'default'

vars == <<rows, next, txn, key>>

Seqs == 1 .. MaxSeq

Hash(k, prev, s, body) == [key |-> k, prev |-> prev, seq |-> s, body |-> body]

\* The prev_hash of the first row, a NULL in the table; numbered 0, below all.
Genesis == [seq |-> 0]

\* Trail operators take the committed rows t as an argument.
IsLastBefore(t, p, s) ==
  /\ p \in DOMAIN t /\ p < s
  /\ \A q \in DOMAIN t : q < s => q <= p

\* The hash stored in the row before s, Genesis when s is the first.
PrevHash(t, s) ==
  IF \E q \in DOMAIN t : q < s
  THEN t[CHOOSE p \in DOMAIN t : IsLastBefore(t, p, s)].hash
  ELSE Genesis

Idle(w) == txn[w] = NULL
Appending(w) == ~Idle(w) /\ txn[w].stage = "sequenced"
Chained(w) == ~Idle(w) /\ txn[w].stage = "chained"

\* The sequence numbers of transactions still open.
InFlight == {txn[w].seq : w \in {v \in Writers : ~Idle(v)}}

TypeOK ==
  /\ DOMAIN rows \subseteq Seqs
  /\ next \in 1 .. MaxSeq + 1
  /\ key \in Keys
  /\ \A s \in DOMAIN rows : /\ rows[s].body \in Bodies /\ rows[s].parties \in Parties
                           /\ rows[s].missed \subseteq Seqs
  /\ DOMAIN txn = Writers
  /\ \A w \in Writers : ~Idle(w) => txn[w].seq \in Seqs

Init ==
  /\ rows = [s \in {} |-> NULL]
  /\ next = 1
  /\ txn = [w \in Writers |-> NULL]
  /\ key \in Keys
-----------------------------------------------------------------------------
\* Mutant: the sequence starts one too low.
InsertBelow(w, body, parties) ==
  /\ Idle(w)
  /\ next <= MaxSeq
  /\ txn' = [txn EXCEPT ![w] =
       [stage |-> "sequenced", seq |-> next - 1, body |-> body, parties |-> parties]]
  /\ next' = next + 1
  /\ UNCHANGED <<rows, key>>

\* INSERT INTO audit_event: the default of seq is drawn.
Insert(w, body, parties) ==
  /\ Idle(w)
  /\ next <= MaxSeq
  /\ txn' = [txn EXCEPT ![w] =
       [stage |-> "sequenced", seq |-> next, body |-> body, parties |-> parties]]
  /\ next' = next + 1
  /\ UNCHANGED <<rows, key>>

\* missed is history, read by the properties only: the lower numbers whose
\* transactions were open when the trigger looked for the row before.
ChainedRow(s, body, parties) ==
  [body |-> body,
   parties |-> parties,
   prev |-> PrevHash(rows, s),
   hash |-> Hash(key, PrevHash(rows, s), s, body),
   missed |-> {q \in InFlight : q < s}]

\* The BEFORE INSERT trigger.
Chain(w) ==
  /\ Appending(w)
  /\ txn' = [txn EXCEPT ![w] =
       [stage |-> "chained", seq |-> txn[w].seq,
        row |-> ChainedRow(txn[w].seq, txn[w].body, txn[w].parties)]]
  /\ UNCHANGED <<rows, next, key>>

Commit(w) ==
  /\ Chained(w)
  /\ rows' = [s \in DOMAIN rows \cup {txn[w].seq} |->
                IF s = txn[w].seq THEN txn[w].row ELSE rows[s]]
  /\ txn' = [txn EXCEPT ![w] = NULL]
  /\ UNCHANGED <<next, key>>

\* An error, or a lost connection: the row is gone, its number is not reused.
Rollback(w) ==
  /\ ~Idle(w)
  /\ txn' = [txn EXCEPT ![w] = NULL]
  /\ UNCHANGED <<rows, next, key>>

\* plant_signing_key with another secret.
RotateKey(k) ==
  /\ key' = k
  /\ UNCHANGED <<rows, next, txn>>

\* A row rewritten with the append-only trigger switched off, or restored.
EditRow(s, body, parties) ==
  /\ s \in DOMAIN rows
  /\ rows' = [rows EXCEPT ![s].body = body, ![s].parties = parties]
  /\ UNCHANGED <<next, txn, key>>

Append(w) ==
  \/ \E b \in Bodies, p \in Parties : Insert(w, b, p)
  \/ Chain(w) \/ Commit(w) \/ Rollback(w)

Interference ==
  \/ \E k \in Keys : RotateKey(k)
  \/ \E s \in Seqs, b \in Bodies, p \in Parties : EditRow(s, b, p)

Next == (\E w \in Writers : Append(w)) \/ Interference
Spec == Init /\ [][Next]_vars

\* One transaction at a time, as the tests and the attack suite run.
SerialNext ==
  \/ \E w \in Writers : Append(w) /\ \A v \in Writers \ {w} : Idle(v)
  \/ Interference
SerialSpec == Init /\ [][SerialNext]_vars
-----------------------------------------------------------------------------
\* Mutant: each row is checked against the previous hash it stores itself.
RecomputesAlone(t, s) == t[s].hash = Hash(key, t[s].prev, s, t[s].body)

\* audit_verify recomputes every row with the key of the day and the hash
\* stored in the row before it.
Recomputes(t, s) ==
  /\ t[s].hash = Hash(key, PrevHash(t, s), s, t[s].body)
  /\ t[s].prev = PrevHash(t, s)

BadSeqs == {s \in DOMAIN rows : ~Recomputes(rows, s)}

IsFirst(s, S) == s \in S /\ \A q \in S : s <= q

\* Mutant: each bad row overwrites the one before.
LastBad ==
  IF BadSeqs = {} THEN NULL ELSE CHOOSE s \in BadSeqs : \A q \in BadSeqs : q <= s

\* What audit_verify answers in first_bad_seq.
FirstBad == IF BadSeqs = {} THEN NULL ELSE CHOOSE s \in BadSeqs : IsFirst(s, BadSeqs)

Edited == {s \in DOMAIN rows : rows[s].body # rows[s].hash.body}
OldKey == {s \in DOMAIN rows : rows[s].hash.key # key}

\* Rows that were chained past a lower number whose transaction was open, and
\* which then committed.
PrevSeq(s) == rows[s].prev.seq
Forked == {s \in DOMAIN rows : \E q \in rows[s].missed \cap DOMAIN rows : q > PrevSeq(s)}

\* audit_verify reports exactly the rows that were rewritten in a column the
\* hash covers, that an earlier key signed, or that raced a concurrent append;
\* gaps left by rollbacks and rows restored to what they said are not reported.
BadHasCause == BadSeqs = Edited \cup OldKey \cup Forked

\* As long as no append raced another, as when they come one after the other,
\* test_audit.py's "tamper at seq ... reported at ..." is right: whatever was
\* rewritten, the first row reported is the first row edited.
SerialTamperLocated ==
  Forked \cup OldKey = {} =>
    IF Edited = {} THEN FirstBad = NULL ELSE IsFirst(FirstBad, Edited)

\* Contradicted by the code.

\* RUNBOOK.md "a break means either the trigger was disabled (a privileged
\* insider) or the signing key changed".
BreakMeansTamperOrRotation == BadSeqs # {} => Edited \cup OldKey # {}
=============================================================================
