-------------------------- MODULE AuditChainProofs --------------------------
(***************************************************************************)
(* What audit_verify reports, for every number of writers, bodies, keys    *)
(* and appends.                                                            *)
(*                                                                         *)
(* BadHasCause speaks of committed rows only.  It is not inductive: a row  *)
(* is linked to the trail while its transaction is still open, and what it *)
(* missed then commits later.  The invariant therefore links the rows in   *)
(* flight too, and keeps the numbers in flight apart from those committed. *)
(***************************************************************************)
EXTENDS AuditChain, TLAPS, WellFoundedInduction

\* Row r, numbered s, names the last row of t below s but for those it missed.
Linked(t, s, r) ==
  /\ r.body \in Bodies /\ r.parties \in Parties /\ r.missed \subseteq {q \in Seqs : q < s}
  /\ r.hash = Hash(r.hash.key, r.prev, s, r.hash.body)
  /\ \/ r.prev = Genesis
     \/ /\ r.prev.seq \in DOMAIN t /\ r.prev.seq < s
        /\ r.prev = t[r.prev.seq].hash
  /\ \A q \in DOMAIN t : (q < s /\ r.prev.seq < q) => q \in r.missed

\* The open transactions below s are among those r missed.
MissedOpen(s, r) ==
  \A v \in Writers : (~Idle(v) /\ txn[v].seq < s) => txn[v].seq \in r.missed

NumbersApart ==
  /\ \A s \in DOMAIN rows : s < next
  /\ \A w \in Writers : ~Idle(w) => /\ txn[w].seq < next
                                    /\ txn[w].seq \notin DOMAIN rows
  /\ \A v, w \in Writers : (~Idle(v) /\ ~Idle(w) /\ v # w) => txn[v].seq # txn[w].seq

RowsLinked ==
  \A s \in DOMAIN rows : Linked(rows, s, rows[s]) /\ MissedOpen(s, rows[s])

OpenLinked ==
  \A w \in Writers :
    /\ Appending(w) => txn[w].body \in Bodies /\ txn[w].parties \in Parties
    /\ Chained(w) => Linked(rows, txn[w].seq, txn[w].row) /\ MissedOpen(txn[w].seq, txn[w].row)

\* The trigger's ORDER BY seq DESC LIMIT 1 finds a row whenever there is one.
LastExists ==
  \A s \in Seqs : (\E q \in DOMAIN rows : q < s)
                    => \E p \in DOMAIN rows : IsLastBefore(rows, p, s)

IInv == TypeOK /\ NumbersApart /\ RowsLinked /\ OpenLinked /\ LastExists

-----------------------------------------------------------------------------
LEMMA SeqsAreNaturals == Seqs \subseteq Nat \ {0}
  BY ChainAssumption DEF Seqs

\* A hash tells the number of the row it was stored in.
LEMMA HashTellsSeq ==
  ASSUME NEW t, NEW s, NEW r, Linked(t, s, r)
  PROVE  r.hash.seq = s
<1>1. r.hash = Hash(r.hash.key, r.prev, s, r.hash.body)
  BY DEF Linked
<1>2. \A k, p, b : Hash(k, p, s, b).seq = s
  BY DEF Hash
<1> QED BY <1>1, <1>2

LEMMA LastHash ==
  ASSUME NEW t, DOMAIN t \subseteq Seqs, NEW s \in Seqs, NEW p, IsLastBefore(t, p, s)
  PROVE  PrevHash(t, s) = t[p].hash
<1>1. ASSUME NEW x, IsLastBefore(t, x, s) PROVE x = p
  <2>1. x \in Nat /\ p \in Nat /\ x <= p /\ p <= x
    BY <1>1, SeqsAreNaturals DEF IsLastBefore
  <2> QED BY <2>1
<1>2. (CHOOSE x \in DOMAIN t : IsLastBefore(t, x, s)) = p
  BY <1>1 DEF IsLastBefore
<1> QED BY <1>2 DEF PrevHash, IsLastBefore

\* The row the trigger completes is linked to the rows committed then.
LEMMA ChainedRowLinked ==
  ASSUME IInv, NEW w \in Writers, Appending(w)
  PROVE  LET s == txn[w].seq
             r == ChainedRow(s, txn[w].body, txn[w].parties)
         IN Linked(rows, s, r) /\ MissedOpen(s, r)
<1> DEFINE s == txn[w].seq
           r == ChainedRow(s, txn[w].body, txn[w].parties)
<1>1. /\ s \in Seqs /\ DOMAIN rows \subseteq Seqs
      /\ txn[w].body \in Bodies /\ txn[w].parties \in Parties
  BY DEF IInv, TypeOK, OpenLinked, Appending
<1>2. InFlight \subseteq Seqs
  BY DEF IInv, TypeOK, InFlight
<1>3. MissedOpen(s, r)
  BY DEF MissedOpen, ChainedRow, InFlight
<1>4. /\ r.body \in Bodies /\ r.parties \in Parties
      /\ r.missed \subseteq {q \in Seqs : q < s} /\ r.prev = PrevHash(rows, s)
      /\ r.hash = Hash(r.hash.key, r.prev, s, r.hash.body)
  BY <1>1, <1>2 DEF ChainedRow, Hash
<1>5. CASE \E q \in DOMAIN rows : q < s
  <2>1. PICK p \in DOMAIN rows : IsLastBefore(rows, p, s)
    BY <1>1, <1>5 DEF IInv, LastExists
  <2>2. r.prev = rows[p].hash
    BY <1>1, <1>4, <2>1, LastHash
  <2>3. r.prev.seq = p
    BY <2>2, HashTellsSeq DEF IInv, RowsLinked
  <2>4. ASSUME NEW q \in DOMAIN rows, q < s PROVE ~(p < q)
    <3>1. q \in Nat /\ p \in Nat /\ q <= p
      BY <1>1, <2>1, <2>4, SeqsAreNaturals DEF IsLastBefore
    <3> QED BY <3>1
  <2> QED BY <1>3, <1>4, <2>1, <2>2, <2>3, <2>4 DEF Linked, IsLastBefore
<1>6. CASE ~ \E q \in DOMAIN rows : q < s
  <2>1. r.prev = Genesis
    BY <1>4, <1>6 DEF PrevHash
  <2> QED BY <1>3, <1>4, <1>6, <2>1 DEF Linked
<1> QED BY <1>5, <1>6

LEMMA InitIInv == Init => IInv
<1> SUFFICES ASSUME Init PROVE IInv
  OBVIOUS
<1>1. DOMAIN rows = {} /\ \A w \in Writers : Idle(w)
  BY DEF Init, Idle
<1>2. TypeOK
  BY <1>1, ChainAssumption DEF Init, TypeOK
<1> QED
  BY <1>1, <1>2 DEF IInv, NumbersApart, RowsLinked, OpenLinked, LastExists, Appending, Chained

LEMMA InsertStep ==
  ASSUME IInv, NEW w \in Writers, NEW b \in Bodies, NEW p \in Parties, Insert(w, b, p)
  PROVE  IInv'
<1> DEFINE new == [stage |-> "sequenced", seq |-> next, body |-> b, parties |-> p]
<1>1. /\ rows' = rows /\ next' = next + 1 /\ key' = key /\ next <= MaxSeq
      /\ txn' = [txn EXCEPT ![w] = new]
  BY DEF Insert
<1>2. DOMAIN txn' = Writers /\ txn'[w] = new /\ \A v \in Writers \ {w} : txn'[v] = txn[v]
  BY <1>1 DEF IInv, TypeOK
<1>3. new.seq = next /\ new.body = b /\ new.parties = p /\ new.stage = "sequenced"
  OBVIOUS
<1> HIDE DEF new
<1>4. /\ next \in Seqs /\ next \in Int /\ DOMAIN rows \subseteq Int
      /\ \A v \in Writers : ~Idle(v) => txn[v].seq \in Int
  BY <1>1, ChainAssumption DEF IInv, TypeOK, Seqs
<1>5. TypeOK'
  BY <1>1, <1>2, <1>3, <1>4, ChainAssumption DEF IInv, TypeOK, Idle
<1>6. NumbersApart'
  <2>1. \A s \in DOMAIN rows' : s < next'
    BY <1>1, <1>4 DEF IInv, NumbersApart
  <2>2. ASSUME NEW v \in Writers, ~Idle(v)'
        PROVE  txn'[v].seq < next' /\ txn'[v].seq \notin DOMAIN rows'
    BY <1>1, <1>2, <1>3, <1>4, <2>2 DEF IInv, NumbersApart, Idle
  <2>3. ASSUME NEW v \in Writers, NEW u \in Writers, ~Idle(v)', ~Idle(u)', v # u
        PROVE  txn'[v].seq # txn'[u].seq
    BY <1>2, <1>3, <1>4, <2>3 DEF IInv, NumbersApart, Idle
  <2> QED BY <2>1, <2>2, <2>3 DEF NumbersApart
<1>7. ASSUME NEW s \in Int, s < next, NEW r, MissedOpen(s, r) PROVE MissedOpen(s, r)'
  BY <1>2, <1>3, <1>4, <1>7 DEF MissedOpen, Idle
<1>8. RowsLinked'
  BY <1>1, <1>4, <1>7 DEF IInv, RowsLinked, NumbersApart
<1>9. OpenLinked'
  <2>1. ASSUME NEW v \in Writers, Appending(v)'
        PROVE  txn'[v].body \in Bodies /\ txn'[v].parties \in Parties
    BY <1>2, <1>3, <2>1 DEF IInv, OpenLinked, Appending, Idle
  <2>2. ASSUME NEW v \in Writers, Chained(v)'
        PROVE  /\ Linked(rows, txn[v].seq, txn[v].row) /\ MissedOpen(txn[v].seq, txn[v].row)'
               /\ txn'[v] = txn[v]
    <3>1. v # w /\ Chained(v) /\ txn'[v] = txn[v]
      BY <1>2, <1>3, <2>2 DEF Chained, Idle
    <3>2. Linked(rows, txn[v].seq, txn[v].row) /\ MissedOpen(txn[v].seq, txn[v].row)
          /\ txn[v].seq < next /\ txn[v].seq \in Int
      BY <1>4, <3>1 DEF IInv, OpenLinked, NumbersApart, Chained
    <3>3. MissedOpen(txn[v].seq, txn[v].row)'
      BY <3>1, <3>2, <1>7 DEF MissedOpen
    <3> QED BY <3>1, <3>2, <3>3
  <2> QED BY <1>1, <2>1, <2>2 DEF OpenLinked
<1>10. LastExists'
  BY <1>1 DEF IInv, LastExists
<1> QED BY <1>5, <1>6, <1>8, <1>9, <1>10 DEF IInv

LEMMA ChainStep ==
  ASSUME IInv, NEW w \in Writers, Chain(w)
  PROVE  IInv'
<1> DEFINE n == txn[w].seq
           r == ChainedRow(n, txn[w].body, txn[w].parties)
           new == [stage |-> "chained", seq |-> n, row |-> r]
<1>1. /\ rows' = rows /\ next' = next /\ key' = key
      /\ txn' = [txn EXCEPT ![w] = new] /\ Appending(w)
  BY DEF Chain
<1>2. DOMAIN txn' = Writers /\ txn'[w] = new /\ \A v \in Writers \ {w} : txn'[v] = txn[v]
  BY <1>1 DEF IInv, TypeOK
<1>3. Linked(rows, n, r) /\ MissedOpen(n, r)
  BY <1>1, ChainedRowLinked
<1>4. new.seq = n /\ new.row = r /\ new.stage = "chained"
  OBVIOUS
<1> HIDE DEF new, r
<1>5. \A v \in Writers : /\ txn'[v].seq = txn[v].seq
                         /\ Idle(v)' => v = w \/ Idle(v)
                         /\ ~Idle(v)' => ~Idle(v)
  BY <1>1, <1>2, <1>4 DEF Idle, Appending
<1>6. TypeOK'
  BY <1>1, <1>2, <1>5 DEF IInv, TypeOK
<1>7. NumbersApart'
  BY <1>1, <1>5 DEF IInv, NumbersApart
<1>8. ASSUME NEW s, NEW x, MissedOpen(s, x) PROVE MissedOpen(s, x)'
  BY <1>5, <1>8 DEF MissedOpen
<1>9. RowsLinked'
  BY <1>1, <1>8 DEF IInv, RowsLinked
<1>10. ASSUME NEW v \in Writers
       PROVE  /\ Appending(v)' => txn'[v].body \in Bodies /\ txn'[v].parties \in Parties
              /\ Chained(v)' => /\ Linked(rows', txn'[v].seq, txn'[v].row)
                                /\ MissedOpen(txn[v].seq, txn[v].row)'
  <2>1. CASE v = w
    BY <1>1, <1>2, <1>3, <1>4, <1>5, <1>8, <2>1 DEF Appending, Chained, MissedOpen
  <2>2. CASE v # w
    BY <1>1, <1>2, <1>5, <1>8, <2>2 DEF IInv, OpenLinked, Appending, Chained, Idle, MissedOpen
  <2> QED BY <2>1, <2>2
<1>11. OpenLinked'
  BY <1>5, <1>10 DEF OpenLinked, MissedOpen
<1>12. LastExists'
  BY <1>1 DEF IInv, LastExists
<1> QED BY <1>6, <1>7, <1>9, <1>11, <1>12 DEF IInv

LEMMA RollbackStep ==
  ASSUME IInv, NEW w \in Writers, Rollback(w)
  PROVE  IInv'
<1>1. rows' = rows /\ next' = next /\ key' = key /\ txn' = [txn EXCEPT ![w] = NULL]
  BY DEF Rollback
<1>2. DOMAIN txn' = Writers /\ Idle(w)' /\ \A v \in Writers \ {w} : txn'[v] = txn[v]
  BY <1>1 DEF IInv, TypeOK, Idle
<1>3. ASSUME NEW s, NEW x, MissedOpen(s, x) PROVE MissedOpen(s, x)'
  BY <1>2, <1>3 DEF MissedOpen, Idle
<1>4. TypeOK' /\ NumbersApart'
  BY <1>1, <1>2 DEF IInv, TypeOK, NumbersApart, Idle
<1>5. RowsLinked'
  BY <1>1, <1>3 DEF IInv, RowsLinked
<1>6. OpenLinked'
  BY <1>1, <1>2, <1>3 DEF IInv, OpenLinked, Appending, Chained, Idle, MissedOpen
<1>7. LastExists'
  BY <1>1 DEF IInv, LastExists
<1> QED BY <1>4, <1>5, <1>6, <1>7 DEF IInv

LEMMA RotateKeyStep ==
  ASSUME IInv, NEW k \in Keys, RotateKey(k)
  PROVE  IInv'
  BY DEF IInv, RotateKey, TypeOK, NumbersApart, RowsLinked, OpenLinked, LastExists,
         MissedOpen, Appending, Chained, Idle

\* What a row says is not what its successor links to: its stored hash is.
LEMMA EditRowStep ==
  ASSUME IInv, NEW s \in Seqs, NEW b \in Bodies, NEW p \in Parties, EditRow(s, b, p)
  PROVE  IInv'
<1>1. /\ rows' = [rows EXCEPT ![s].body = b, ![s].parties = p]
      /\ next' = next /\ txn' = txn /\ key' = key
      /\ s \in DOMAIN rows
  BY DEF EditRow
<1>2. DOMAIN rows' = DOMAIN rows
  BY <1>1
<1>3. \A q \in DOMAIN rows : /\ rows'[q].hash = rows[q].hash /\ rows'[q].prev = rows[q].prev
                             /\ rows'[q].missed = rows[q].missed
                             /\ rows'[q].body \in Bodies /\ rows'[q].parties \in Parties
  BY <1>1 DEF IInv, TypeOK
<1>4. \A q, x : Linked(rows, q, x) => Linked(rows', q, x)
  BY <1>2, <1>3 DEF Linked
<1>5. TypeOK' /\ NumbersApart'
  BY <1>1, <1>2, <1>3 DEF IInv, TypeOK, NumbersApart, Idle
<1>6. RowsLinked'
  <2>1. \A q \in DOMAIN rows : Linked(rows, q, rows'[q])
    BY <1>3 DEF IInv, RowsLinked, Linked
  <2>2. \A q \in DOMAIN rows : MissedOpen(q, rows[q])'
    BY <1>1, <1>3 DEF IInv, RowsLinked, MissedOpen, Idle
  <2> QED BY <1>2, <1>4, <2>1, <2>2 DEF RowsLinked
<1>7. OpenLinked'
  BY <1>1, <1>4 DEF IInv, OpenLinked, Appending, Chained, Idle, MissedOpen
<1>8. LastExists'
  BY <1>2 DEF IInv, LastExists, IsLastBefore
<1> QED BY <1>5, <1>6, <1>7, <1>8 DEF IInv

LEMMA CommitStep ==
  ASSUME IInv, NEW w \in Writers, Commit(w)
  PROVE  IInv'
<1> DEFINE n == txn[w].seq
           r == txn[w].row
<1>1. /\ DOMAIN rows' = DOMAIN rows \cup {n} /\ rows'[n] = r
      /\ \A s \in DOMAIN rows : s # n => rows'[s] = rows[s]
      /\ next' = next /\ key' = key /\ txn' = [txn EXCEPT ![w] = NULL] /\ Chained(w)
  BY DEF Commit
<1>2. /\ DOMAIN txn' = Writers /\ Idle(w)'
      /\ \A v \in Writers \ {w} : txn'[v] = txn[v]
  BY <1>1 DEF IInv, TypeOK, Idle
<1>3. n \in Seqs /\ n < next /\ n \notin DOMAIN rows /\ DOMAIN rows \subseteq Seqs
  BY <1>1 DEF IInv, TypeOK, NumbersApart, Chained
<1>4. Linked(rows, n, r) /\ MissedOpen(n, r)
  BY <1>1 DEF IInv, OpenLinked
<1>5. TypeOK'
  BY <1>1, <1>2, <1>3, <1>4 DEF IInv, TypeOK, Linked, Idle
<1>6. NumbersApart'
  BY <1>1, <1>2, <1>3 DEF IInv, NumbersApart, Idle, Chained
<1>7. ASSUME NEW s, NEW x, MissedOpen(s, x) PROVE MissedOpen(s, x)'
  BY <1>2, <1>7 DEF MissedOpen, Idle
\* A row that was linked past the open transaction missed its number.
<1>8. ASSUME NEW s, NEW x, Linked(rows, s, x), MissedOpen(s, x) PROVE Linked(rows', s, x)
  <2>1. n < s => n \in x.missed
    BY <1>1, <1>8 DEF MissedOpen, Chained
  <2> QED BY <1>1, <1>3, <1>8, <2>1 DEF Linked
<1>9. RowsLinked'
  <2>1. \A s \in DOMAIN rows : Linked(rows', s, rows'[s]) /\ MissedOpen(s, rows[s])'
    BY <1>1, <1>3, <1>7, <1>8 DEF IInv, RowsLinked, MissedOpen
  <2>2. Linked(rows', n, rows'[n])
    BY <1>1, <1>4, <1>8
  <2>3. \A v \in Writers : (~Idle(v)' /\ txn'[v].seq < n) => txn'[v].seq \in rows'[n].missed
    BY <1>1, <1>2, <1>4 DEF MissedOpen, Idle
  <2> QED BY <1>1, <2>1, <2>2, <2>3 DEF RowsLinked, MissedOpen
<1>10. OpenLinked'
  BY <1>2, <1>7, <1>8 DEF IInv, OpenLinked, Appending, Chained, Idle, MissedOpen
<1>11. LastExists'
  <2> SUFFICES ASSUME NEW s \in Seqs, NEW q \in DOMAIN rows', q < s
               PROVE  \E p \in DOMAIN rows' : IsLastBefore(rows', p, s)
    BY DEF LastExists
  <2>1. s \in Nat /\ DOMAIN rows' \subseteq Nat /\ DOMAIN rows \subseteq Nat /\ n \in Nat
    BY <1>1, <1>3, SeqsAreNaturals
  <2>2. CASE \E p \in DOMAIN rows : p < s
    <3>1. PICK p \in DOMAIN rows : IsLastBefore(rows, p, s)
      BY <2>2 DEF IInv, LastExists
    <3>2. CASE n < s /\ p < n
      BY <1>1, <2>1, <3>1, <3>2 DEF IsLastBefore
    <3>3. CASE ~(n < s /\ p < n)
      BY <1>1, <2>1, <3>1, <3>3 DEF IsLastBefore
    <3> QED BY <3>2, <3>3
  <2>3. CASE ~ \E p \in DOMAIN rows : p < s
    BY <1>1, <2>1, <2>3 DEF IsLastBefore
  <2> QED BY <2>2, <2>3
<1> QED BY <1>5, <1>6, <1>9, <1>10, <1>11 DEF IInv

LEMMA StepIInv == IInv /\ [Next]_vars => IInv'
<1> SUFFICES ASSUME IInv, [Next]_vars PROVE IInv'
  OBVIOUS
<1>1. CASE UNCHANGED vars
  BY <1>1 DEF vars, IInv, TypeOK, NumbersApart, RowsLinked, OpenLinked, LastExists,
              MissedOpen, Appending, Chained, Idle
<1>2. CASE Next
  BY <1>2, InsertStep, ChainStep, CommitStep, RollbackStep, RotateKeyStep, EditRowStep
     DEF Next, Append, Interference
<1> QED BY <1>1, <1>2

\* The strengthening holds of every behaviour of the trail, whatever races,
\* aborts, rotates a key or edits a row.
THEOREM Invariance == Spec => []IInv
  BY InitIInv, StepIInv, PTL DEF Spec

\* A row recomputes exactly when the trail still ends, below it, at the row it
\* was linked to, it says what it said, and the key is the one it was hashed with.
LEMMA RecomputesWhen ==
  ASSUME IInv, NEW s \in DOMAIN rows
  PROVE  Recomputes(rows, s) <=> s \notin Edited \cup OldKey \cup Forked
<1> DEFINE r == rows[s]
<1>1. /\ s \in Seqs /\ DOMAIN rows \subseteq Seqs /\ Linked(rows, s, r)
      /\ r.hash = Hash(r.hash.key, r.prev, s, r.hash.body)
  BY DEF IInv, TypeOK, RowsLinked, Linked
<1>2. Seqs \subseteq Nat \ {0}
  BY SeqsAreNaturals
<1>3. r.prev = PrevHash(rows, s) <=> s \notin Forked
  <2>1. CASE \E q \in DOMAIN rows : q < s
    <3>1. PICK p \in DOMAIN rows : IsLastBefore(rows, p, s)
      BY <1>1, <2>1 DEF IInv, LastExists
    <3>2. PrevHash(rows, s) = rows[p].hash /\ rows[p].hash.seq = p /\ p \in Nat \ {0} /\ p < s
      BY <1>1, <1>2, <3>1, LastHash, HashTellsSeq DEF IInv, RowsLinked, IsLastBefore
    <3>3. r.prev.seq = 0 \/ (r.prev.seq \in DOMAIN rows /\ r.prev.seq < s
                               /\ r.prev = rows[r.prev.seq].hash)
      BY <1>1 DEF Linked, Genesis
    <3>4. CASE r.prev.seq = p
      <4>1. r.prev = PrevHash(rows, s)
        BY <3>2, <3>3, <3>4
      <4>2. ASSUME NEW q \in DOMAIN rows, q \in r.missed, p < q PROVE FALSE
        <5>1. q < s
          BY <1>1, <4>2 DEF Linked
        <5> QED BY <3>1, <4>2, <5>1, <1>1, <1>2 DEF IsLastBefore
      <4> QED BY <3>4, <4>1, <4>2 DEF Forked, PrevSeq
    <3>5. CASE r.prev.seq # p
      <4>1. r.prev.seq < p
        BY <1>1, <1>2, <3>1, <3>2, <3>3, <3>5 DEF IsLastBefore
      <4>2. p \in r.missed
        BY <1>1, <3>2, <4>1 DEF Linked
      <4> QED BY <3>2, <3>5, <4>1, <4>2 DEF Forked, PrevSeq
    <3> QED BY <3>4, <3>5
  <2>2. CASE ~ \E q \in DOMAIN rows : q < s
    <3>1. PrevHash(rows, s) = Genesis /\ r.prev = Genesis
      BY <1>1, <2>2 DEF PrevHash, Linked
    <3> QED BY <1>1, <2>2, <3>1 DEF Forked, Linked
  <2> QED BY <2>1, <2>2
<1>4. r.hash = Hash(key, r.prev, s, r.body) <=> s \notin Edited \cup OldKey
  BY <1>1 DEF Hash, Edited, OldKey
<1> QED BY <1>3, <1>4 DEF Recomputes

\* The trail and the transactions over it keep their shape.
THEOREM TypeCorrect == Spec => []TypeOK
<1>1. IInv => TypeOK
  BY DEF IInv
<1> QED BY <1>1, Invariance, PTL

\* audit_verify reports the rows that were rewritten, that an earlier key
\* signed or that raced a concurrent append, and no others.
THEOREM BreaksHaveCauses == Spec => []BadHasCause
<1>1. ASSUME IInv PROVE BadHasCause
  <2>1. \A s \in DOMAIN rows : Recomputes(rows, s) <=> s \notin Edited \cup OldKey \cup Forked
    BY <1>1, RecomputesWhen
  <2>2. Edited \cup OldKey \cup Forked \subseteq DOMAIN rows
    BY DEF Edited, OldKey, Forked
  <2> QED BY <2>1, <2>2 DEF BadHasCause, BadSeqs
<1> QED BY <1>1, Invariance, PTL
-----------------------------------------------------------------------------
\* One transaction at a time: no row misses another.
NothingMissed ==
  /\ \A v, w \in Writers : (~Idle(v) /\ ~Idle(w)) => v = w
  /\ \A s \in DOMAIN rows : rows[s].missed = {}
  /\ \A w \in Writers : Chained(w) => txn[w].row.missed = {}

LEMMA SerialIsSpec == SerialSpec => Spec
<1>1. [SerialNext]_vars => [Next]_vars
  BY DEF SerialNext, Next
<1> QED BY <1>1, PTL DEF SerialSpec, Spec

LEMMA SerialStep == IInv /\ NothingMissed /\ [SerialNext]_vars => NothingMissed'
<1> SUFFICES ASSUME IInv, NothingMissed, [SerialNext]_vars PROVE NothingMissed'
  OBVIOUS
<1>1. DOMAIN txn = Writers /\ \A w \in Writers : ~Idle(w) => txn[w].seq \in Nat
  BY SeqsAreNaturals DEF IInv, TypeOK
<1>2. ASSUME NEW w \in Writers, \A v \in Writers \ {w} : Idle(v), Append(w) PROVE NothingMissed'
  <2>1. CASE \E b \in Bodies, p \in Parties : Insert(w, b, p)
    BY <1>1, <1>2, <2>1 DEF NothingMissed, Insert, Idle, Chained
  <2>2. CASE Chain(w)
    <3>1. InFlight = {txn[w].seq}
      BY <1>2, <2>2 DEF InFlight, Chain, Appending
    <3>2. ChainedRow(txn[w].seq, txn[w].body, txn[w].parties).missed = {}
      BY <1>1, <2>2, <3>1 DEF ChainedRow, Chain, Appending
    <3> QED BY <1>1, <1>2, <2>2, <3>2 DEF NothingMissed, Chain, Idle, Chained
  <2>3. CASE Commit(w)
    BY <1>1, <1>2, <2>3 DEF NothingMissed, Commit, Idle, Chained
  <2>4. CASE Rollback(w)
    BY <1>1, <1>2, <2>4 DEF NothingMissed, Rollback, Idle, Chained
  <2> QED BY <1>2, <2>1, <2>2, <2>3, <2>4 DEF Append
<1>3. ASSUME NEW k \in Keys, RotateKey(k) PROVE NothingMissed'
  BY <1>3 DEF NothingMissed, RotateKey, Idle, Chained
<1>4. ASSUME NEW s \in Seqs, NEW b \in Bodies, NEW p \in Parties, EditRow(s, b, p) PROVE NothingMissed'
  BY <1>4 DEF NothingMissed, EditRow, Idle, Chained
<1>5. CASE UNCHANGED vars
  BY <1>5 DEF vars, NothingMissed, Idle, Chained
<1> QED BY <1>2, <1>3, <1>4, <1>5 DEF SerialNext, Interference

\* A set of numbers that is not empty has a first.
LEMMA FirstExists ==
  ASSUME NEW S \in SUBSET Nat, S # {}
  PROVE  \E s \in S : IsFirst(s, S)
<1>1. PICK s \in S : \A q \in S : <<q, s>> \notin OpToRel(<, Nat)
  BY NatLessThanWellFounded, WFMin
<1>2. \A q \in S : ~(q < s)
  BY <1>1 DEF OpToRel
<1>3. \A q \in S : s <= q
  BY <1>2
<1> QED BY <1>3 DEF IsFirst

\* As long as no append raced another, and with one key, the first row
\* audit_verify reports is the first row rewritten.
LEMMA Locates == ASSUME IInv PROVE SerialTamperLocated
<1> SUFFICES ASSUME Forked \cup OldKey = {}
             PROVE  IF Edited = {} THEN FirstBad = NULL ELSE IsFirst(FirstBad, Edited)
  BY DEF SerialTamperLocated
<1>1. Forked = {} /\ OldKey = {}
  OBVIOUS
<1>2. BadSeqs = Edited
  BY <1>1, RecomputesWhen DEF BadSeqs, Edited
<1>3. CASE Edited # {}
  <2>1. Edited \subseteq Nat
    BY SeqsAreNaturals DEF IInv, TypeOK, Edited
  <2>2. \E s \in BadSeqs : IsFirst(s, BadSeqs)
    BY <1>2, <1>3, <2>1, FirstExists
  <2> QED BY <1>2, <1>3, <2>2 DEF FirstBad
<1> QED BY <1>2, <1>3 DEF FirstBad

\* While the chain has not forked and no key was rotated away, an edited row is
\* where verification first breaks.
THEOREM TamperLocated == Spec => []SerialTamperLocated
<1>1. IInv => SerialTamperLocated
  BY Locates
<1> QED BY <1>1, Invariance, PTL

\* And when appends come one at a time, as the tests make them, none races
\* another: the chain does not fork, so that is always so.
THEOREM SerialLocates == SerialSpec => [](Forked = {} /\ SerialTamperLocated)
<1>1. ASSUME IInv, NothingMissed PROVE Forked = {} /\ SerialTamperLocated
  BY <1>1, Locates DEF NothingMissed, Forked
<1>2. Init => NothingMissed
  BY DEF Init, NothingMissed, Idle, Chained
<1>3. SerialSpec => []NothingMissed
  BY <1>2, SerialStep, SerialIsSpec, Invariance, PTL DEF SerialSpec
<1> QED BY <1>1, <1>3, SerialIsSpec, Invariance, PTL
=============================================================================
