--------------------------- MODULE BootstrapProofs -----------------------------
(***************************************************************************)
(* Proofs about Bootstrap, for any number of initialisations, crashes,     *)
(* secrets and requests.                                                   *)
(***************************************************************************)
EXTENDS Bootstrap, TLAPS

Row == [by : Secrets \cup {NULL}, decision : {"approve", "allow", "deny"}]

\* The state, and how far an initialisation is: the key is planted between the
\* schema and the scenario.
Shape ==
  /\ key \in Secrets \cup {NULL} /\ env \in Secrets /\ tokens \subseteq Secrets
  /\ trail \in Seq(Row)
  /\ keyless \in BOOLEAN /\ rotated \in BOOLEAN
  /\ ~Idle => /\ init.stage \in {"plant", "seed"} /\ init.secret \in Secrets
              /\ init.stage = "plant" <=> key = NULL

\* With no key there is no row that a request did not leave; with a key every
\* row is its own, unless one came before it or it is not the first.
OneKey ==
  keyless \/ rotated \/ \A i \in DOMAIN trail : key # NULL /\ trail[i].by = key

\* What was served was served under a token that was minted, on the scenario.
Served ==
  /\ seeded => \E j \in DOMAIN trail : trail[j].decision = "approve"
  /\ HalfBuiltServesNothing

BootInv == Shape /\ OneKey /\ Served

SeedPart == [i \in 1 .. SeedRows |-> RowBy(key, "approve")]

LEMMA SeedRowsTyped ==
  ASSUME Shape
  PROVE  SeedPart \in Seq(Row) /\ Len(SeedPart) = SeedRows
<1>1. \A i \in 1 .. SeedRows : RowBy(key, "approve") \in Row
  BY DEF Shape, RowBy, Row
<1> QED BY <1>1, BootAssumption DEF SeedPart

\* The seed's rows are added as they are.
LEMMA Appended ==
  ASSUME Shape
  PROVE  /\ trail \o SeedPart \in Seq(Row)
         /\ DOMAIN (trail \o SeedPart) = 1 .. Len(trail) + SeedRows
         /\ \A i \in DOMAIN trail : (trail \o SeedPart)[i] = trail[i]
         /\ \A i \in Len(trail) + 1 .. Len(trail) + SeedRows :
              (trail \o SeedPart)[i] = RowBy(key, "approve")
<1>1. trail \in Seq(Row) /\ SeedPart \in Seq(Row) /\ Len(SeedPart) = SeedRows
  BY SeedRowsTyped DEF Shape
<1>2. \A i \in 1 .. SeedRows : SeedPart[i] = RowBy(key, "approve")
  BY DEF SeedPart
<1> HIDE DEF SeedPart
<1> QED BY <1>1, <1>2, BootAssumption

LEMMA RequestRow ==
  ASSUME Shape, NEW tok \in tokens, Request(tok)
  PROVE  LET row == RowBy(key, IF Verifies(tok) /\ seeded THEN "allow" ELSE "deny")
         IN /\ row \in Row /\ trail' \in Seq(Row)
            /\ DOMAIN trail' = 1 .. Len(trail) + 1
            /\ \A i \in DOMAIN trail : trail'[i] = trail[i]
            /\ trail'[Len(trail) + 1] = row
<1> DEFINE row == RowBy(key, IF Verifies(tok) /\ seeded THEN "allow" ELSE "deny")
<1>1. row \in Row /\ trail' = Append(trail, row) /\ trail \in Seq(Row)
  BY DEF Shape, RowBy, Row, Request
<1> HIDE DEF row
<1>2. /\ row \in Row /\ trail' \in Seq(Row)
      /\ DOMAIN trail' = 1 .. Len(trail) + 1
      /\ \A i \in DOMAIN trail : trail'[i] = trail[i]
      /\ trail'[Len(trail) + 1] = row
  BY <1>1
<1> QED BY <1>2 DEF row

LEMMA InitBoot == Init => BootInv
<1> SUFFICES ASSUME Init PROVE BootInv
  OBVIOUS
<1>1. trail = <<>> /\ trail \in Seq(Row) /\ DOMAIN trail = {}
  BY DEF Init
<1>2. Shape
  BY <1>1 DEF Init, Shape, Idle
<1> QED BY <1>1, <1>2 DEF Init, BootInv, OneKey, Served, HalfBuiltServesNothing

\* The trail and who signed what stand still; nothing is seeded that was not.
LEMMA TrailKept ==
  ASSUME BootInv, Shape', trail' = trail, tokens \subseteq tokens', seeded' => seeded
  PROVE  Served'
<1>1. seeded' => \E j \in DOMAIN trail : trail[j].decision = "approve"
  BY DEF BootInv, Served
<1>2. HalfBuiltServesNothing'
  BY DEF BootInv, Served, HalfBuiltServesNothing
<1> QED BY <1>1, <1>2 DEF Served

LEMMA MakeSchemaStep ==
  ASSUME BootInv, MakeSchema
  PROVE  BootInv'
<1>1. trail' = <<>> /\ trail' \in Seq(Row) /\ DOMAIN trail' = {} /\ ~seeded'
  BY DEF MakeSchema
<1>2. /\ key' = NULL /\ init' = [stage |-> "plant", secret |-> env]
      /\ UNCHANGED <<env, tokens>> /\ keyless' = FALSE /\ rotated' = FALSE
  BY DEF MakeSchema
<1>3. Shape'
  <2>1. env' \in Secrets /\ tokens' \subseteq Secrets
    BY <1>2 DEF BootInv, Shape
  <2>2. keyless' \in BOOLEAN /\ rotated' \in BOOLEAN
    BY <1>2
  <2>3. init'.stage = "plant" /\ init'.secret \in Secrets
    BY <1>2, <2>1
  <2> QED BY <1>1, <1>2, <2>1, <2>2, <2>3 DEF Shape
<1> QED BY <1>1, <1>3 DEF BootInv, OneKey, Served, HalfBuiltServesNothing

\* There was no key, so what rows there are were left by requests.
LEMMA PlantKeyStep ==
  ASSUME BootInv, PlantKey
  PROVE  BootInv'
<1>1. /\ ~Idle /\ init.stage = "plant" /\ key' = init.secret
      /\ init' = [stage |-> "seed", secret |-> init.secret]
      /\ UNCHANGED <<seeded, trail, env, tokens, keyless, rotated>>
  BY DEF PlantKey, Step
<1>2. key = NULL /\ init.secret \in Secrets /\ key' # NULL
  BY <1>1, BootAssumption DEF BootInv, Shape
<1>3. Shape'
  BY <1>1, <1>2 DEF BootInv, Shape, Idle
<1>4. OneKey'
  BY <1>1, <1>2 DEF BootInv, OneKey
<1> QED BY <1>1, <1>3, <1>4, TrailKept DEF BootInv

LEMMA SeedStep ==
  ASSUME BootInv, Seed
  PROVE  BootInv'
<1>1. /\ ~Idle /\ init.stage = "seed" /\ init' = NULL /\ key # NULL
      /\ UNCHANGED <<key, env, tokens, keyless, rotated>>
      /\ \/ seeded' = TRUE /\ trail' = trail \o SeedPart
         \/ UNCHANGED <<seeded, trail>>
  BY DEF Seed, SeedPart, BootInv, Shape
<1>2. CASE UNCHANGED <<seeded, trail>>
  <2>1. Shape' /\ OneKey'
    BY <1>1, <1>2 DEF BootInv, Shape, Idle, OneKey
  <2> QED BY <1>1, <1>2, <2>1, TrailKept DEF BootInv
<1>3. CASE seeded' = TRUE /\ trail' = trail \o SeedPart
  <2>0. trail \in Seq(Row) /\ DOMAIN trail = 1 .. Len(trail) /\ Len(trail) \in Nat
    BY DEF BootInv, Shape
  <2>1. /\ trail' \in Seq(Row) /\ DOMAIN trail' = 1 .. Len(trail) + SeedRows
        /\ \A i \in DOMAIN trail : trail'[i] = trail[i]
        /\ \A i \in Len(trail) + 1 .. Len(trail) + SeedRows :
             trail'[i].by = key /\ trail'[i].decision = "approve"
    <3>1. RowBy(key, "approve").by = key /\ RowBy(key, "approve").decision = "approve"
      BY DEF RowBy
    <3>2. /\ trail' \in Seq(Row) /\ DOMAIN trail' = 1 .. Len(trail) + SeedRows
          /\ \A i \in DOMAIN trail : trail'[i] = trail[i]
          /\ \A i \in Len(trail) + 1 .. Len(trail) + SeedRows :
               trail'[i] = RowBy(key, "approve")
      <4> HIDE DEF SeedPart
      <4> QED BY <1>3, Appended DEF BootInv
    <3> QED BY <3>1, <3>2
  <2>2. Shape'
    BY <1>1, <2>1 DEF BootInv, Shape, Idle
  <2>3. OneKey'
    <3>1. ASSUME ~keyless, ~rotated, NEW i \in DOMAIN trail'
          PROVE  trail'[i].by = key
      <4>1. CASE i \in DOMAIN trail
        BY <2>1, <3>1, <4>1 DEF BootInv, OneKey
      <4>2. CASE i \notin DOMAIN trail
        BY <2>0, <2>1, <4>2, BootAssumption
      <4> QED BY <4>1, <4>2
    <3> QED BY <1>1, <3>1 DEF OneKey
  <2>4. Served'
    <3>1. \E j \in DOMAIN trail' : trail'[j].decision = "approve"
      <4>1. Len(trail) + 1 \in Len(trail) + 1 .. Len(trail) + SeedRows
        BY <2>0, BootAssumption
      <4> QED BY <2>0, <2>1, <4>1, BootAssumption
    <3>2. ASSUME NEW i \in DOMAIN trail', trail'[i].decision = "allow"
          PROVE  /\ trail'[i].by \in tokens'
                 /\ \E j \in 1 .. i - 1 : trail'[j].decision = "approve"
      <4>1. i \in DOMAIN trail
        BY <2>0, <2>1, <3>2, BootAssumption
      <4>2. trail[i].by \in tokens /\ \E j \in 1 .. i - 1 : trail[j].decision = "approve"
        BY <2>1, <3>2, <4>1 DEF BootInv, Served, HalfBuiltServesNothing
      <4> QED BY <1>1, <2>0, <2>1, <4>1, <4>2
    <3> QED BY <3>1, <3>2 DEF Served, HalfBuiltServesNothing
  <2> QED BY <2>2, <2>3, <2>4 DEF BootInv
<1> QED BY <1>1, <1>2, <1>3

\* Only rows that another key made are lost to a rotation.
LEMMA RotateStep ==
  ASSUME BootInv, Rotate
  PROVE  BootInv'
<1>1. /\ Idle /\ key' = env /\ rotated' = (rotated \/ key \notin {NULL, env})
      /\ UNCHANGED <<seeded, trail, init, env, tokens, keyless>>
  BY DEF Rotate
<1>2. Shape'
  <2>1. rotated' \in BOOLEAN
    BY <1>1
  <2> QED BY <1>1, <2>1 DEF BootInv, Shape, Idle
<1>3. OneKey'
  <2>1. CASE keyless' \/ rotated'
    BY <2>1 DEF OneKey
  <2>2. CASE ~keyless' /\ ~rotated'
    <3>1. ~keyless /\ ~rotated /\ key \in {NULL, env}
      BY <1>1, <2>2
    <3> QED BY <1>1, <3>1 DEF BootInv, OneKey
  <2> QED BY <2>1, <2>2
<1> QED BY <1>1, <1>2, <1>3, TrailKept DEF BootInv

LEMMA RequestStep ==
  ASSUME BootInv, NEW tok \in tokens, Request(tok)
  PROVE  BootInv'
<1> DEFINE last == Len(trail) + 1
<1>1. /\ UNCHANGED <<seeded, key, init, env, tokens, rotated>>
      /\ keyless' = (keyless \/ key = NULL)
      /\ trail \in Seq(Row) /\ DOMAIN trail = 1 .. Len(trail) /\ Len(trail) \in Nat
  BY DEF Request, BootInv, Shape
<1>2. /\ trail' \in Seq(Row) /\ DOMAIN trail' = 1 .. last
      /\ \A i \in DOMAIN trail : trail'[i] = trail[i]
      /\ trail'[last].by = key
      /\ trail'[last].decision = "allow" => Verifies(tok) /\ seeded
  <2> DEFINE row == RowBy(key, IF Verifies(tok) /\ seeded THEN "allow" ELSE "deny")
  <2>1. row.by = key /\ (row.decision = "allow" => Verifies(tok) /\ seeded)
    BY DEF RowBy
  <2>2. /\ trail' \in Seq(Row) /\ DOMAIN trail' = 1 .. Len(trail) + 1
        /\ \A i \in DOMAIN trail : trail'[i] = trail[i]
        /\ trail'[Len(trail) + 1] = row
    BY RequestRow DEF BootInv
  <2> HIDE DEF row
  <2> QED BY <2>1, <2>2
<1> HIDE DEF last
<1>3. \A i \in DOMAIN trail' : i \in DOMAIN trail \/ i = last
  BY <1>1, <1>2 DEF last
<1>4. Shape'
  <2>1. keyless' \in BOOLEAN
    BY <1>1
  <2> QED BY <1>1, <1>2, <2>1 DEF BootInv, Shape, Idle
<1>5. OneKey'
  <2>1. CASE keyless' \/ rotated'
    BY <2>1 DEF OneKey
  <2>2. CASE ~keyless' /\ ~rotated'
    <3>1. ~keyless /\ ~rotated /\ key # NULL
      BY <1>1, <2>2
    <3> QED BY <1>1, <1>2, <1>3, <3>1 DEF BootInv, OneKey
  <2> QED BY <2>1, <2>2
<1>6. Served'
  <2>1. seeded' => \E j \in DOMAIN trail' : trail'[j].decision = "approve"
    <3>1. seeded' => \E j \in DOMAIN trail : trail[j].decision = "approve"
      BY <1>1 DEF BootInv, Served
    <3>2. DOMAIN trail \subseteq DOMAIN trail'
      BY <1>1, <1>2 DEF last
    <3> QED BY <1>2, <3>1, <3>2
  <2>2. ASSUME NEW i \in DOMAIN trail', trail'[i].decision = "allow"
        PROVE  /\ trail'[i].by \in tokens'
               /\ \E j \in 1 .. i - 1 : trail'[j].decision = "approve"
    <3>1. CASE i \in DOMAIN trail
      <4>1. trail[i].by \in tokens /\ \E j \in 1 .. i - 1 : trail[j].decision = "approve"
        BY <1>2, <2>2, <3>1 DEF BootInv, Served, HalfBuiltServesNothing
      <4> QED BY <1>1, <1>2, <3>1, <4>1
    <3>2. CASE i = last
      <4>1. trail'[i].by = tok /\ seeded
        BY <1>2, <2>2, <3>2 DEF Verifies
      <4>2. PICK j \in DOMAIN trail : trail[j].decision = "approve"
        BY <4>1 DEF BootInv, Served
      <4>3. j \in 1 .. i - 1 /\ trail'[j].decision = "approve"
        BY <1>1, <1>2, <3>2, <4>2 DEF last
      <4> QED BY <1>1, <4>1, <4>3
    <3> QED BY <1>3, <2>2, <3>1, <3>2
  <2> QED BY <2>1, <2>2 DEF Served, HalfBuiltServesNothing
<1> QED BY <1>4, <1>5, <1>6 DEF BootInv

LEMMA BootStep ==
  ASSUME BootInv, [Next]_vars
  PROVE  BootInv'
<1>1. CASE UNCHANGED vars
  BY <1>1 DEF vars, BootInv, Shape, Idle, OneKey, Served, HalfBuiltServesNothing
<1>2. CASE Crash
  <2>1. init' = NULL /\ UNCHANGED <<seeded, key, trail, env, tokens, keyless, rotated>>
    BY <1>2 DEF Crash
  <2>2. Shape' /\ OneKey'
    BY <2>1 DEF BootInv, Shape, Idle, OneKey
  <2> QED BY <2>1, <2>2, TrailKept DEF BootInv
<1>3. CASE \E s \in Secrets : ChangeSecret(s)
  <2>1. env' \in Secrets /\ UNCHANGED <<seeded, key, trail, init, tokens, keyless, rotated>>
    BY <1>3 DEF ChangeSecret
  <2>2. Shape' /\ OneKey'
    BY <2>1 DEF BootInv, Shape, Idle, OneKey
  <2> QED BY <2>1, <2>2, TrailKept DEF BootInv
<1>4. CASE Mint
  <2>1. tokens' = tokens \cup {env} /\ UNCHANGED <<seeded, key, trail, init, env, keyless, rotated>>
    BY <1>4 DEF Mint
  <2>2. Shape' /\ OneKey'
    BY <2>1 DEF BootInv, Shape, Idle, OneKey
  <2> QED BY <2>1, <2>2, TrailKept DEF BootInv
<1> QED
  BY <1>1, <1>2, <1>3, <1>4, MakeSchemaStep, PlantKeyStep, SeedStep, RotateStep, RequestStep
  DEF Next, Initialise

LEMMA BootInvariance == Spec => []BootInv
  BY InitBoot, BootStep, PTL DEF Spec

-----------------------------------------------------------------------------
\* init_schema's three commits, however often it dies between them and is run
\* again: a trail that does not verify has a row from before the key was
\* planted, or the key was replaced.
THEOREM TrailVerifies == Spec => []BuiltTrailVerifies
<1>1. BootInv => BuiltTrailVerifies
  BY DEF BootInv, OneKey, BuiltTrailVerifies, Bad
<1> QED BY <1>1, BootInvariance, PTL

\* And a database left half made allows nothing: the scenario is committed as a
\* whole, with the approvals that come before whatever is served under it.
THEOREM NothingServedEarly == Spec => []HalfBuiltServesNothing
<1>1. BootInv => HalfBuiltServesNothing
  BY DEF BootInv, Served
<1> QED BY <1>1, BootInvariance, PTL
=============================================================================
