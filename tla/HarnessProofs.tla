----------------------------- MODULE HarnessProofs -----------------------------
(***************************************************************************)
(* Proofs about the oracle, the answers and the harness that compares      *)
(* them, for all constants.                                                *)
(***************************************************************************)
EXTENDS Harness, GovernanceProofs, SequenceTheorems

\* One step of the oracle's walk: NULL once it has left the root.
Up(x) == IF x = NULL THEN NULL ELSE delegations[x].parent

\* The walk's hops, one from the other: the recursion of _chain, met by the
\* function that writes its nine values out.
LEMMA WalkSteps ==
  ASSUME NEW d
  PROVE  /\ Walk(d)[0] = d
         /\ \A n \in 1 .. MaxHops : Walk(d)[n] = Up(Walk(d)[n - 1])
<1> DEFINE Step(f) == [n \in 0 .. 8 |-> IF n = 0 THEN d ELSE Up(f[n - 1])]
           s1 == Up(d)
           s2 == Up(s1)
           s3 == Up(s2)
           s4 == Up(s3)
           s5 == Up(s4)
           s6 == Up(s5)
           s7 == Up(s6)
           s8 == Up(s7)
           w == [n \in 0 .. 8 |-> CASE n = 0 -> d [] n = 1 -> s1 [] n = 2 -> s2 [] n = 3 -> s3
                   [] n = 4 -> s4 [] n = 5 -> s5 [] n = 6 -> s6 [] n = 7 -> s7 [] n = 8 -> s8]
<1> HIDE DEF s8, s7, s6, s5, s4, s3, s2, s1
<1>1. /\ w[0] = d /\ w[1] = s1 /\ w[2] = s2 /\ w[3] = s3 /\ w[4] = s4
      /\ w[5] = s5 /\ w[6] = s6 /\ w[7] = s7 /\ w[8] = s8
  OBVIOUS
<1>2. w \in [0 .. 8 -> {d, s1, s2, s3, s4, s5, s6, s7, s8}]
  OBVIOUS
<1> HIDE DEF w
<1>3. /\ w[1] = Up(w[0]) /\ w[2] = Up(w[1]) /\ w[3] = Up(w[2]) /\ w[4] = Up(w[3])
      /\ w[5] = Up(w[4]) /\ w[6] = Up(w[5]) /\ w[7] = Up(w[6]) /\ w[8] = Up(w[7])
  BY <1>1 DEF s1, s2, s3, s4, s5, s6, s7, s8
<1>4. w = Step(w)
  <2>1. ASSUME NEW n \in 0 .. 8 PROVE w[n] = Step(w)[n]
    <3>1. n \in {0, 1, 2, 3, 4, 5, 6, 7, 8}
      OBVIOUS
    <3> QED BY <1>1, <1>3, <3>1
  <2> QED BY <1>2, <2>1
<1>5. Walk(d) = CHOOSE f : f = Step(f)
  BY DEF Walk, MaxHops, Up
<1> HIDE DEF Step, MaxHops
<1>6. Walk(d) = Step(Walk(d))
  BY <1>4, <1>5
<1> QED BY <1>6 DEF Step, MaxHops
\* A hop's parent is stored, or it has none; and after two steps up, a third
\* leads nowhere new: it leaves the root, or stays at a row that names itself.
LEMMA ParentStored ==
  ASSUME AuthorityTypeOK, Narrowed, NEW h \in DOMAIN delegations
  PROVE  /\ Up(h) = NULL \/ Up(h) \in DOMAIN delegations
         /\ NULL \notin DOMAIN delegations
         /\ Up(h) = delegations[h].parent
  BY NullAssumption DEF Up, AuthorityTypeOK, IsTable, Narrowed, WithinGrant

LEMMA ThirdStep ==
  ASSUME AuthorityTypeOK, Narrowed, NEW d \in DOMAIN delegations
  PROVE  Up(Up(Up(d))) \in {d, Up(d), Up(Up(d)), NULL}
<1> DEFINE depth(x) == delegations[x].depth
<1>1. ASSUME NEW x \in DOMAIN delegations
      PROVE  /\ depth(x) \in Depths
             /\ depth(x) = 1 => Up(x) = NULL
             /\ depth(x) # 1 => /\ Up(x) \in DOMAIN delegations
                                /\ Up(x) # x => depth(Up(x)) = depth(x) - 1
  BY ParentStored
  DEF AuthorityTypeOK, IsTable, DelegRow, Narrowed, WithinGrant, WithinParent
<1>2. Up(NULL) = NULL
  BY DEF Up
<1> HIDE DEF depth
<1>3. CASE Up(d) = NULL \/ Up(d) = d \/ Up(Up(d)) = NULL \/ Up(Up(d)) = Up(d)
  BY <1>2, <1>3
<1>4. CASE /\ Up(d) # NULL /\ Up(d) # d
           /\ Up(Up(d)) # NULL /\ Up(Up(d)) # Up(d)
  <2>1. Up(d) \in DOMAIN delegations /\ depth(Up(d)) = depth(d) - 1 /\ depth(d) \in Depths
    BY <1>1, <1>4
  <2>2. /\ Up(Up(d)) \in DOMAIN delegations /\ depth(Up(Up(d))) = depth(Up(d)) - 1
        /\ depth(Up(Up(d))) \in Depths
    BY <1>1, <1>4, <2>1
  <2>3. depth(Up(Up(d))) = 1
    BY <2>1, <2>2 DEF Depths
  <2> QED BY <1>1, <2>2, <2>3
<1> QED BY <1>3, <1>4

\* The oracle's loop and current_auth's visit the same hops, at most three.
Seen(d) == {Walk(d)[n] : n \in 0 .. MaxHops} \ {NULL}

LEMMA SameWalk ==
  ASSUME AuthorityTypeOK, Narrowed, NEW d \in DOMAIN delegations
  PROVE  Seen(d) = Hops(d) /\ Cardinality(Hops(d)) <= MaxHops + 1
<1> DEFINE w(n) == Walk(d)[n]
           S == {d, Up(d), Up(Up(d))} \ {NULL}
<1>1. /\ w(0) = d /\ w(1) = Up(w(0)) /\ w(2) = Up(w(1)) /\ w(3) = Up(w(2))
      /\ w(4) = Up(w(3)) /\ w(5) = Up(w(4)) /\ w(6) = Up(w(5)) /\ w(7) = Up(w(6))
      /\ w(8) = Up(w(7))
  <2>1. \A n \in 1 .. 8 : w(n) = Up(w(n - 1))
    BY WalkSteps DEF MaxHops
  <2> QED BY <2>1, WalkSteps
<1>2. Seen(d) \subseteq Hops(d)
  <2> DEFINE In(x) == x = NULL \/ x \in Hops(d)
  <2>1. ASSUME NEW x, In(x) PROVE In(Up(x))
    <3>1. CASE x = NULL
      BY <3>1 DEF Up
    <3>2. CASE x \in Hops(d)
      <4>1. x \in DOMAIN delegations
        BY <3>2 DEF Hops
      <4> QED BY <3>2, <4>1, ParentStored, HopsClosed
    <3> QED BY <2>1, <3>1, <3>2
  <2>2. In(w(0))
    BY <1>1, HopsSelf
  <2> HIDE DEF In, w
  <2>3. /\ In(w(0)) /\ In(w(1)) /\ In(w(2)) /\ In(w(3)) /\ In(w(4))
        /\ In(w(5)) /\ In(w(6)) /\ In(w(7)) /\ In(w(8))
    BY <1>1, <2>1, <2>2
  <2>4. ASSUME NEW n \in 0 .. 8 PROVE In(w(n))
    <3>1. n \in {0, 1, 2, 3, 4, 5, 6, 7, 8}
      OBVIOUS
    <3> QED BY <2>3, <3>1
  <2> QED BY <2>4 DEF Seen, In, w, MaxHops
<1>3. S \subseteq Seen(d)
  <2>1. w(0) = d /\ w(1) = Up(d) /\ w(2) = Up(Up(d))
    BY <1>1
  <2> QED BY <2>1 DEF Seen, MaxHops
<1>4. Hops(d) \subseteq S
  <2>1. S \subseteq DOMAIN delegations /\ d \in S
    <3>1. NULL \notin DOMAIN delegations /\ (Up(d) = NULL \/ Up(d) \in DOMAIN delegations)
      BY ParentStored
    <3>2. Up(Up(d)) = NULL \/ Up(Up(d)) \in DOMAIN delegations
      BY <3>1, ParentStored DEF Up
    <3> QED BY <3>1, <3>2
  <2>2. ASSUME NEW h \in S, delegations[h].parent \in DOMAIN delegations
        PROVE  delegations[h].parent \in S
    <3>1. delegations[h].parent = Up(h) /\ Up(h) # NULL
      BY <2>1, <2>2, ParentStored
    <3>2. Up(h) \in {d, Up(d), Up(Up(d)), NULL}
      BY <2>2, ThirdStep
    <3> QED BY <3>1, <3>2
  <2> HIDE DEF S
  <2> QED BY <2>1, <2>2, HopsWithin
<1>5. Cardinality(Hops(d)) \in 0 .. 3
  BY <1>4, AtMostThree
<1> QED BY <1>2, <1>3, <1>4, <1>5 DEF MaxHops

-----------------------------------------------------------------------------
\* The rows of an authority that exists are the oracle's rows of its grant.
LEMMA SameRows ==
  ASSUME AuthorityTypeOK, NEW c \in Credential, c.grant_id \in DOMAIN grants
  PROVE  /\ AuthRow(c) # NULL
         /\ Served(AuthRow(c))
              = Answer(Rows(grants[c.grant_id], AuthRow(c).region_scope), AuthRow(c).allow)
<1>1. AuthRow(c) # NULL
  BY AuthRowTyped, NullAssumption
<1>2. /\ AuthRow(c).provider_org = grants[c.grant_id].provider_org
      /\ AuthRow(c).grantee_org = grants[c.grant_id].grantee_org
      /\ AuthRow(c).max_classification = grants[c.grant_id].max_classification
  BY DEF AuthRow
<1>3. VisibleRows(AuthRow(c)) = Rows(grants[c.grant_id], AuthRow(c).region_scope)
  BY <1>1, <1>2 DEF VisibleRows, PolicyAdmits, Rows
<1> QED BY <1>1, <1>3 DEF Served

\* Any hop without a parent is a first hop, handed over by the grantee.
LEMMA RootIsFirst ==
  ASSUME AuthorityTypeOK, Narrowed, NEW h \in DOMAIN delegations, delegations[h].parent = NULL
  PROVE  /\ delegations[h].depth = 1
         /\ delegations[h].delegator = grants[delegations[h].grant_id].grantee_principal
  BY ParentStored DEF Narrowed, WithinGrant

\* What the oracle asks of a chain, in terms of the walk.
OracleHolds(subject, id, d, t) ==
  /\ delegations[d].delegatee = subject
  /\ \A h \in Hops(d) : HopAlive(delegations[h], id, t)
  /\ \E h \in Hops(d) : delegations[h].parent = NULL
  /\ grants[id].grantee_principal \notin disabled

LEMMA ExpectedOfChain ==
  ASSUME AuthorityTypeOK, Narrowed, NEW d \in DOMAIN delegations, NEW subject, NEW id, NEW t
  PROVE  ExpectDelegated(subject, id, d, t)
           = IF OracleHolds(subject, id, d, t)
             THEN Answer(Rows(grants[id], EffRegions(grants[id], d)), EffAllow(grants[id], d))
             ELSE NULL
<1> DEFINE root == CHOOSE h \in Hops(d) : delegations[h].parent = NULL
           Asked == /\ delegations[d].delegatee = subject
                    /\ \A h \in Hops(d) : HopAlive(delegations[h], id, t)
                    /\ \E h \in Hops(d) : delegations[h].parent = NULL
                    /\ delegations[root].delegator = grants[id].grantee_principal
                    /\ delegations[root].depth = 1
                    /\ grants[id].grantee_principal \notin disabled
<1>1. ExpectDelegated(subject, id, d, t)
        = IF Asked
          THEN Answer(Rows(grants[id], EffRegions(grants[id], d)), EffAllow(grants[id], d))
          ELSE NULL
  <2>1. {Walk(d)[n] : n \in 0 .. MaxHops} \ {NULL} = Hops(d)
    BY SameWalk DEF Seen
  <2> QED BY <2>1 DEF ExpectDelegated, EffRegions, EffAllow
<1>2. Asked <=> OracleHolds(subject, id, d, t)
  <2>1. ASSUME OracleHolds(subject, id, d, t)
        PROVE  /\ delegations[root].delegator = grants[id].grantee_principal
               /\ delegations[root].depth = 1
    <3>1. root \in Hops(d) /\ delegations[root].parent = NULL
      BY <2>1 DEF OracleHolds
    <3>2. root \in DOMAIN delegations /\ delegations[root].grant_id = id
      BY <2>1, <3>1 DEF OracleHolds, HopAlive, Hops
    <3> HIDE DEF root
    <3> QED BY <3>1, <3>2, RootIsFirst
  <2> HIDE DEF root
  <2> QED BY <2>1 DEF OracleHolds
<1> QED BY <1>1, <1>2

\* current_auth asks the same, but of the agents on the chain only the last is
\* looked up.
LEMMA ChainHoldsWhen ==
  ASSUME AuthorityTypeOK, Narrowed, NEW c \in Credential, c.grant_id \in DOMAIN grants,
         c.delegation_id \in DOMAIN delegations, NEW t
  PROVE  /\ OracleHolds(c.sub, c.grant_id, c.delegation_id, t) => ChainHolds(c, t)
         /\ ChainHolds(c, t) /\ ~MidChainDisabled(c.delegation_id)
              => OracleHolds(c.sub, c.grant_id, c.delegation_id, t)
         /\ MidChainDisabled(c.delegation_id)
              => ~OracleHolds(c.sub, c.grant_id, c.delegation_id, t)
<1> DEFINE d == c.delegation_id
           g == grants[c.grant_id]
<1>1. d \in Hops(d) /\ d # NULL
  BY HopsSelf, ParentStored
<1>2. ASSUME OracleHolds(c.sub, c.grant_id, d, t) PROVE ChainHolds(c, t)
  <2>1. PICK r \in Hops(d) : delegations[r].parent = NULL
    BY <1>2 DEF OracleHolds
  <2>2. r \in DOMAIN delegations /\ delegations[r].grant_id = c.grant_id
    BY <1>2, <2>1 DEF OracleHolds, HopAlive, Hops
  <2>3. r \in Roots(d) /\ delegations[r].depth = 1
        /\ delegations[r].delegator = g.grantee_principal
    BY <2>1, <2>2, SameWalk, RootIsFirst DEF Roots
  <2>4. CheckedPrincipals(g, d, r) \cap disabled = {}
    BY <1>1, <1>2, <2>3 DEF OracleHolds, HopAlive, CheckedPrincipals
  <2> QED BY <1>2, <2>3, <2>4 DEF OracleHolds, HopAlive, ChainHolds, HopIsLive
<1>3. ASSUME ChainHolds(c, t), ~MidChainDisabled(d)
      PROVE  OracleHolds(c.sub, c.grant_id, d, t)
  <2>1. PICK r \in Roots(d) : CheckedPrincipals(g, d, r) \cap disabled = {}
    BY <1>3 DEF ChainHolds
  <2>2. \A h \in Hops(d) : delegations[h].delegatee \notin disabled
    BY <1>1, <1>3, <2>1 DEF CheckedPrincipals, MidChainDisabled
  <2> QED BY <1>3, <2>1, <2>2
      DEF ChainHolds, OracleHolds, HopAlive, HopIsLive, Roots, CheckedPrincipals
<1>4. MidChainDisabled(d) => ~OracleHolds(c.sub, c.grant_id, d, t)
  BY DEF MidChainDisabled, OracleHolds, HopAlive
<1> QED BY <1>2, <1>3, <1>4

\* A disabled agent in the middle: the oracle denies.
LEMMA OracleDeniesMidChain ==
  ASSUME AuthorityTypeOK, Narrowed, NEW c \in Credential, NEW t, MidChainDisabled(c.delegation_id)
  PROVE  Expect(c.sub, c.grant_id, c.delegation_id, t) = NULL
<1> DEFINE d == c.delegation_id
<1>1. d \in DOMAIN delegations /\ d # NULL
  BY DEF MidChainDisabled, Hops
<1>2. c.grant_id \in DOMAIN grants =>
        ExpectDelegated(c.sub, c.grant_id, d, t) = NULL
  BY <1>1, ExpectedOfChain, ChainHoldsWhen
<1> QED BY <1>1, <1>2 DEF Expect

\* Hence they answer a genuine token alike, unless an agent between is disabled.
LEMMA Agreement ==
  ASSUME AuthorityTypeOK, Narrowed, NEW c \in Credential, NEW t, VerifyCredential(c, t) # NULL
  PROVE  LET expected == Expect(c.sub, c.grant_id, c.delegation_id, t)
         IN IF MidChainDisabled(c.delegation_id) THEN expected = NULL
            ELSE Served(CurrentAuth(c, t)) = expected
<1> DEFINE d == c.delegation_id
           g == grants[c.grant_id]
<1>0. VerifyCredential(c, t) = c /\ c # NULL
  BY DEF VerifyCredential
<1>1. CASE ~(c.grant_id \in DOMAIN grants /\ GrantIsLive(g, t))
  BY <1>0, <1>1 DEF Expect, CurrentAuth, Authorizes, Served
<1>2. CASE c.grant_id \in DOMAIN grants /\ GrantIsLive(g, t)
  <2>1. /\ AuthRow(c) # NULL
        /\ Served(AuthRow(c)) = Answer(Rows(g, AuthRow(c).region_scope), AuthRow(c).allow)
    BY <1>2, SameRows
  <2>2. CASE d = NULL
    <3>1. ~MidChainDisabled(d)
      BY <2>2 DEF MidChainDisabled
    <3>2. AuthRow(c).region_scope = g.region_scope /\ AuthRow(c).allow = g.allow
      BY <2>2 DEF AuthRow
    <3>3. CurrentAuth(c, t) = IF DirectHolds(c) THEN AuthRow(c) ELSE NULL
      BY <1>0, <1>2, <2>2 DEF CurrentAuth, Authorizes
    <3>4. Expect(c.sub, c.grant_id, d, t) = ExpectDirect(c.sub, g)
      BY <1>2, <2>2 DEF Expect
    <3>5. CASE DirectHolds(c)
      BY <2>1, <3>1, <3>2, <3>3, <3>4, <3>5 DEF DirectHolds, ExpectDirect
    <3>6. CASE ~DirectHolds(c)
      BY <3>1, <3>3, <3>4, <3>6 DEF DirectHolds, ExpectDirect, Served
    <3> QED BY <3>5, <3>6
  <2>3. CASE d # NULL /\ d \notin DOMAIN delegations
    <3>1. ~MidChainDisabled(d)
      BY <2>3 DEF MidChainDisabled, Hops
    <3>2. CurrentAuth(c, t) = NULL
      BY <1>0, <2>3 DEF CurrentAuth, Authorizes, ChainHolds
    <3> QED BY <1>2, <2>3, <3>1, <3>2 DEF Expect, Served
  <2>4. CASE d # NULL /\ d \in DOMAIN delegations
    <3>1. AuthRow(c).region_scope = EffRegions(g, d) /\ AuthRow(c).allow = EffAllow(g, d)
      BY <2>4 DEF AuthRow
    <3>2. CurrentAuth(c, t) = IF ChainHolds(c, t) THEN AuthRow(c) ELSE NULL
      BY <1>0, <1>2, <2>4 DEF CurrentAuth, Authorizes
    <3>3. Expect(c.sub, c.grant_id, d, t)
            = IF OracleHolds(c.sub, c.grant_id, d, t)
              THEN Answer(Rows(g, EffRegions(g, d)), EffAllow(g, d)) ELSE NULL
      BY <1>2, <2>4, ExpectedOfChain DEF Expect
    <3>4. CASE MidChainDisabled(d)
      BY <1>2, <2>4, <3>3, <3>4, ChainHoldsWhen
    <3>5. CASE ~MidChainDisabled(d)
      <4>1. ChainHolds(c, t) <=> OracleHolds(c.sub, c.grant_id, d, t)
        BY <1>2, <2>4, <3>5, ChainHoldsWhen
      <4>2. Served(NULL) = NULL
        BY DEF Served
      <4> QED BY <2>1, <3>1, <3>2, <3>3, <3>5, <4>1, <4>2
    <3> QED BY <3>4, <3>5
  <2> QED BY <2>2, <2>3, <2>4
<1> QED BY <1>1, <1>2

\* The portal and the oracle agree on every token, whatever commands and hand
\* edits of expiries the tables have been through (expected.py against
\* current_auth and the row policy).
THEOREM OracleAgreement == MaintainedSpec => []OracleAgrees
<1>1. ASSUME IInv, NEW c \in Credentials
      PROVE  LET expected == Expect(c.sub, c.grant_id, c.delegation_id, now)
             IN CASE VerifyCredential(c, now) = NULL -> CurrentAuth(c, now) = NULL
                  [] MidChainDisabled(c.delegation_id) -> expected = NULL
                  [] OTHER -> Served(CurrentAuth(c, now)) = expected
  <2>1. c \in Credential
    BY DirectoryAssumption
  <2>2. CASE VerifyCredential(c, now) = NULL
    <3>1. CurrentAuth(c, now) = NULL
      BY <2>2 DEF CurrentAuth, Authorizes
    <3> QED BY <1>1, <2>1, <2>2, <3>1, OracleDeniesMidChain DEF IInv, TypeOK
  <2>3. CASE VerifyCredential(c, now) # NULL
    BY <1>1, <2>1, <2>3, Agreement, OracleDeniesMidChain DEF IInv, TypeOK
  <2> QED BY <2>2, <2>3
<1>2. IInv => OracleAgrees
  BY <1>1 DEF OracleAgrees
<1> QED BY <1>2, Invariance, PTL

-----------------------------------------------------------------------------
\* The invariant of the harness.  Whatever scenario is under way, the tables
\* hold the fixture's rows: only its own change is in them, an expiry is no
\* earlier than the fixture's and no later than one built now, and a grant cut
\* short stays so until the schema is built again.
Underway(kind, id) ==
  stage # "idle" /\ scenario.setup.kind = kind /\ scenario.setup.id = id

IsCutShort(id) == \E s \in Scenarios : s.setup.kind = "expire_grant" /\ s.setup.id = id

GrantStands(id) ==
  LET g == grants[id]
      seed == SeedGrants[id]
  IN /\ g.provider_org = seed.provider_org /\ g.grantee_org = seed.grantee_org
     /\ g.grantee_principal = seed.grantee_principal /\ g.approved_by = seed.approved_by
     /\ g.region_scope = seed.region_scope /\ g.allow = seed.allow
     /\ g.max_classification = seed.max_classification
     /\ g.expires_at <= now + seed.expires_at
     /\ ~IsCutShort(id) => seed.expires_at <= g.expires_at
     /\ IF Underway("revoke_grant", id) THEN g.revoked = TRUE ELSE g.revoked = FALSE
     /\ Underway("expire_grant", id) => g.expires_at <= now

DelegationStands(d) ==
  LET row == delegations[d]
      seed == SeedDelegations[d]
  IN /\ row.grant_id = seed.grant_id /\ row.depth = seed.depth /\ row.parent = seed.parent
     /\ row.delegator = seed.delegator /\ row.delegatee = seed.delegatee
     /\ row.region_scope = seed.region_scope /\ row.allow = seed.allow
     /\ row.expires_at <= now + seed.expires_at
     /\ IF Underway("expire_delegation", d) THEN row.expires_at <= now
        ELSE seed.expires_at <= row.expires_at
     /\ IF Underway("revoke_delegation", d) THEN row.revoked = TRUE ELSE row.revoked = FALSE

Clocks ==
  /\ now \in 0 .. MaxTime /\ minted \in 0 .. now /\ arm \in Arms
  /\ stage \in {"idle", "insert", "read", "delete", "judge"}
  /\ stage # "idle" => scenario \in Scenarios
  /\ stage \in {"insert", "delete"} => scenario.attempt # NULL

GrantsStand ==
  /\ IsTable(grants, GrantIds, GrantRow) /\ DOMAIN grants = DOMAIN SeedGrants
  /\ \A id \in DOMAIN grants : GrantStands(id)

DelegationsStand ==
  /\ IsTable(delegations, DelegIds, DelegRow) /\ DOMAIN delegations = DOMAIN SeedDelegations
  /\ \A d \in DOMAIN delegations : DelegationStands(d)

DisabledStands ==
  disabled = IF stage # "idle" /\ scenario.setup.kind = "disable"
             THEN {scenario.setup.id} ELSE {}

HInv == Clocks /\ GrantsStand /\ DelegationsStand /\ DisabledStands

\* What the fixture's columns are.
LEMMA SeedColumns ==
  /\ \A id \in DOMAIN SeedGrants :
       SeedGrants[id] \in GrantRow /\ SeedGrants[id].expires_at \in Int /\ id \in GrantIds
  /\ \A d \in DOMAIN SeedDelegations :
       /\ SeedDelegations[d] \in DelegRow /\ SeedDelegations[d].expires_at \in Int
       /\ d \in DelegIds
  BY FixtureAssumption DEF IsTable, GrantRow, DelegRow

\* A fixture just built holds its rows, each for its whole lifetime.
FreshGrant(g, seed, t) ==
  /\ g \in GrantRow
  /\ g.provider_org = seed.provider_org /\ g.grantee_org = seed.grantee_org
  /\ g.grantee_principal = seed.grantee_principal /\ g.approved_by = seed.approved_by
  /\ g.region_scope = seed.region_scope /\ g.allow = seed.allow
  /\ g.max_classification = seed.max_classification
  /\ g.revoked = FALSE /\ g.expires_at = t + seed.expires_at

FreshDelegation(row, seed, t) ==
  /\ row \in DelegRow
  /\ row.grant_id = seed.grant_id /\ row.depth = seed.depth /\ row.parent = seed.parent
  /\ row.delegator = seed.delegator /\ row.delegatee = seed.delegatee
  /\ row.region_scope = seed.region_scope /\ row.allow = seed.allow
  /\ row.revoked = FALSE /\ row.expires_at = t + seed.expires_at

LEMMA StartedRows ==
  ASSUME NEW t \in Nat
  PROVE  /\ DOMAIN Started(SeedGrants, t) = DOMAIN SeedGrants
         /\ IsTable(Started(SeedGrants, t), GrantIds, GrantRow)
         /\ \A id \in DOMAIN SeedGrants :
              FreshGrant(Started(SeedGrants, t)[id], SeedGrants[id], t)
         /\ DOMAIN Started(SeedDelegations, t) = DOMAIN SeedDelegations
         /\ IsTable(Started(SeedDelegations, t), DelegIds, DelegRow)
         /\ \A d \in DOMAIN SeedDelegations :
              FreshDelegation(Started(SeedDelegations, t)[d], SeedDelegations[d], t)
<1>1. ASSUME NEW id \in DOMAIN SeedGrants
      PROVE  FreshGrant([SeedGrants[id] EXCEPT !.expires_at = t + @], SeedGrants[id], t)
  BY SeedColumns, FixtureAssumption DEF GrantRow, FreshGrant
<1>2. ASSUME NEW d \in DOMAIN SeedDelegations
      PROVE  FreshDelegation([SeedDelegations[d] EXCEPT !.expires_at = t + @],
                             SeedDelegations[d], t)
  BY SeedColumns, FixtureAssumption DEF DelegRow, FreshDelegation
<1>3. /\ \A id \in DOMAIN SeedGrants : FreshGrant(Started(SeedGrants, t)[id], SeedGrants[id], t)
      /\ \A d \in DOMAIN SeedDelegations :
           FreshDelegation(Started(SeedDelegations, t)[d], SeedDelegations[d], t)
  BY <1>1, <1>2 DEF Started
<1>4. /\ DOMAIN Started(SeedGrants, t) = DOMAIN SeedGrants
      /\ IsTable(Started(SeedGrants, t), GrantIds, GrantRow)
  BY <1>3, SeedColumns DEF Started, IsTable, FreshGrant
<1>5. /\ DOMAIN Started(SeedDelegations, t) = DOMAIN SeedDelegations
      /\ IsTable(Started(SeedDelegations, t), DelegIds, DelegRow)
  BY <1>3, SeedColumns DEF Started, IsTable, FreshDelegation
<1> QED BY <1>3, <1>4, <1>5

LEMMA HarnessStarts == HarnessInit => HInv
<1> SUFFICES ASSUME HarnessInit PROVE HInv
  OBVIOUS
<1>1. now = 0 /\ 0 \in Nat /\ MaxTime \in Nat
  BY RequestAssumption DEF HarnessInit
<1>2. Clocks /\ DisabledStands
  BY <1>1 DEF HarnessInit, Clocks, DisabledStands
<1>3. GrantsStand
  <2>1. ASSUME NEW id \in DOMAIN SeedGrants PROVE GrantStands(id)
    <3>1. FreshGrant(grants[id], SeedGrants[id], 0)
      BY <1>1, StartedRows DEF HarnessInit
    <3> QED BY <1>1, <3>1, SeedColumns DEF HarnessInit, FreshGrant, GrantStands, Underway
  <2> QED BY <1>1, <2>1, StartedRows DEF HarnessInit, GrantsStand
<1>4. DelegationsStand
  <2>1. ASSUME NEW d \in DOMAIN SeedDelegations PROVE DelegationStands(d)
    <3>1. FreshDelegation(delegations[d], SeedDelegations[d], 0)
      BY <1>1, StartedRows DEF HarnessInit
    <3> QED BY <1>1, <3>1, SeedColumns DEF HarnessInit, FreshDelegation, DelegationStands, Underway
  <2> QED BY <1>1, <2>1, StartedRows DEF HarnessInit, DelegationsStand
<1> QED BY <1>2, <1>3, <1>4 DEF HInv

LEMMA BuildStands ==
  ASSUME HInv, NEW which \in Arms, StartRun(which)
  PROVE  HInv'
<1>1. now \in Nat /\ now' = now /\ stage = "idle" /\ stage' = "idle" /\ minted \in Int
  BY RequestAssumption DEF HInv, Clocks, StartRun, Build
<1>2. Clocks' /\ DisabledStands'
  BY <1>1 DEF HInv, Clocks, StartRun, Build, DisabledStands
<1>3. GrantsStand'
  <2>0. grants' = Started(SeedGrants, now)
    BY DEF StartRun, Build
  <2>1. ASSUME NEW id \in DOMAIN SeedGrants PROVE GrantStands(id)'
    <3>1. FreshGrant(grants'[id], SeedGrants[id], now)
      BY <1>1, <2>0, StartedRows
    <3> QED BY <1>1, <3>1, SeedColumns DEF FreshGrant, GrantStands, Underway
  <2> QED BY <1>1, <2>0, <2>1, StartedRows DEF GrantsStand
<1>4. DelegationsStand'
  <2>0. delegations' = Started(SeedDelegations, now)
    BY DEF StartRun, Build
  <2>1. ASSUME NEW d \in DOMAIN SeedDelegations PROVE DelegationStands(d)'
    <3>1. FreshDelegation(delegations'[d], SeedDelegations[d], now)
      BY <1>1, <2>0, StartedRows
    <3> QED BY <1>1, <3>1, SeedColumns DEF FreshDelegation, DelegationStands, Underway
  <2> QED BY <1>1, <2>0, <2>1, StartedRows DEF DelegationsStand
<1> QED BY <1>2, <1>3, <1>4 DEF HInv

\* A row that a step does not touch stands as it stood.
LEMMA GrantUntouched ==
  ASSUME HInv, NEW id \in DOMAIN grants, grants'[id] = grants[id],
         now' \in Int, now <= now',
         Underway("revoke_grant", id)' <=> Underway("revoke_grant", id),
         Underway("expire_grant", id)' => grants[id].expires_at <= now'
  PROVE  GrantStands(id)'
<1>1. /\ GrantStands(id) /\ grants[id].expires_at \in Int /\ SeedGrants[id].expires_at \in Int
      /\ now \in Int
  BY SeedColumns DEF HInv, GrantsStand, IsTable, GrantRow, Clocks
<1> QED BY <1>1 DEF GrantStands

LEMMA DelegationUntouched ==
  ASSUME HInv, NEW d \in DOMAIN delegations, delegations'[d] = delegations[d],
         now' \in Int, now <= now',
         Underway("revoke_delegation", d)' <=> Underway("revoke_delegation", d),
         Underway("expire_delegation", d)' <=> Underway("expire_delegation", d)
  PROVE  DelegationStands(d)'
<1>1. /\ DelegationStands(d) /\ delegations[d].expires_at \in Int
      /\ SeedDelegations[d].expires_at \in Int /\ now \in Int
  BY SeedColumns DEF HInv, DelegationsStand, IsTable, DelegRow, Clocks
<1> QED BY <1>1 DEF DelegationStands

\* A step of the harness that leaves the tables alone and the scenario in place.
LEMMA TablesUntouched ==
  ASSUME HInv, UNCHANGED <<grants, delegations, disabled, scenario>>,
         stage # "idle" <=> stage' # "idle", Clocks', now <= now'
  PROVE  HInv'
<1>1. now' \in Int /\ now \in Int
  BY DEF HInv, Clocks
<1>2. \A id : /\ Underway("revoke_grant", id)' <=> Underway("revoke_grant", id)
              /\ Underway("expire_grant", id)' <=> Underway("expire_grant", id)
              /\ Underway("revoke_delegation", id)' <=> Underway("revoke_delegation", id)
              /\ Underway("expire_delegation", id)' <=> Underway("expire_delegation", id)
  BY DEF Underway
<1>3. ASSUME NEW id \in DOMAIN grants PROVE GrantStands(id)'
  <2>1. Underway("expire_grant", id) => grants[id].expires_at <= now'
    BY <1>1, SeedColumns DEF HInv, GrantsStand, GrantStands, IsTable, GrantRow
  <2> QED BY <1>1, <1>2, <2>1, GrantUntouched
<1>4. ASSUME NEW d \in DOMAIN delegations PROVE DelegationStands(d)'
  BY <1>1, <1>2, DelegationUntouched
<1>5. DisabledStands'
  BY DEF HInv, DisabledStands
<1> QED BY <1>3, <1>4, <1>5 DEF HInv, GrantsStand, DelegationsStand

\* One row edited, in its expiry or its revocation.
LEMMA GrantEdited ==
  ASSUME HInv, NEW id \in DOMAIN grants, NEW h \in GrantRow, now' = now,
         grants' = [grants EXCEPT ![id] = h],
         h.provider_org = grants[id].provider_org, h.grantee_org = grants[id].grantee_org,
         h.grantee_principal = grants[id].grantee_principal,
         h.approved_by = grants[id].approved_by,
         h.region_scope = grants[id].region_scope, h.allow = grants[id].allow,
         h.max_classification = grants[id].max_classification,
         h.expires_at <= now + SeedGrants[id].expires_at,
         ~IsCutShort(id) => SeedGrants[id].expires_at <= h.expires_at,
         IF Underway("revoke_grant", id)' THEN h.revoked = TRUE ELSE h.revoked = FALSE,
         Underway("expire_grant", id)' => h.expires_at <= now,
         \A k \in DOMAIN grants \ {id} :
           /\ Underway("revoke_grant", k)' <=> Underway("revoke_grant", k)
           /\ Underway("expire_grant", k)' => grants[k].expires_at <= now
  PROVE  GrantsStand'
<1>1. /\ DOMAIN grants' = DOMAIN grants /\ grants'[id] = h
      /\ \A k \in DOMAIN grants \ {id} : grants'[k] = grants[k]
      /\ IsTable(grants', GrantIds, GrantRow) /\ now \in Int
      /\ DOMAIN grants = DOMAIN SeedGrants /\ GrantStands(id)
  BY UpdateIsTable DEF HInv, GrantsStand, IsTable, Clocks
<1>2. GrantStands(id)'
  BY <1>1 DEF GrantStands
<1>3. ASSUME NEW k \in DOMAIN grants, k # id PROVE GrantStands(k)'
  BY <1>1, <1>3, GrantUntouched
<1> QED BY <1>1, <1>2, <1>3 DEF GrantsStand

LEMMA DelegationEdited ==
  ASSUME HInv, NEW d \in DOMAIN delegations, NEW h \in DelegRow, now' = now,
         delegations' = [delegations EXCEPT ![d] = h],
         h.grant_id = delegations[d].grant_id, h.depth = delegations[d].depth,
         h.parent = delegations[d].parent, h.delegator = delegations[d].delegator,
         h.delegatee = delegations[d].delegatee,
         h.region_scope = delegations[d].region_scope, h.allow = delegations[d].allow,
         h.expires_at <= now + SeedDelegations[d].expires_at,
         IF Underway("expire_delegation", d)' THEN h.expires_at <= now
         ELSE SeedDelegations[d].expires_at <= h.expires_at,
         IF Underway("revoke_delegation", d)' THEN h.revoked = TRUE ELSE h.revoked = FALSE,
         \A k \in DOMAIN delegations \ {d} :
           /\ Underway("revoke_delegation", k)' <=> Underway("revoke_delegation", k)
           /\ Underway("expire_delegation", k)' <=> Underway("expire_delegation", k)
  PROVE  DelegationsStand'
<1>1. /\ DOMAIN delegations' = DOMAIN delegations /\ delegations'[d] = h
      /\ \A k \in DOMAIN delegations \ {d} : delegations'[k] = delegations[k]
      /\ IsTable(delegations', DelegIds, DelegRow) /\ now \in Int
      /\ DOMAIN delegations = DOMAIN SeedDelegations /\ DelegationStands(d)
  BY UpdateIsTable DEF HInv, DelegationsStand, IsTable, Clocks
<1>2. DelegationStands(d)'
  BY <1>1 DEF DelegationStands
<1>3. ASSUME NEW k \in DOMAIN delegations, k # d PROVE DelegationStands(k)'
  BY <1>1, <1>3, DelegationUntouched
<1> QED BY <1>1, <1>2, <1>3 DEF DelegationsStand

\* What the two tables keep when a step edits the other, or none.
LEMMA GrantsUntouched ==
  ASSUME HInv, UNCHANGED grants, now' = now,
         \A k \in DOMAIN grants :
           /\ Underway("revoke_grant", k)' <=> Underway("revoke_grant", k)
           /\ Underway("expire_grant", k)' => grants[k].expires_at <= now
  PROVE  GrantsStand'
<1>1. now \in Int
  BY DEF HInv, Clocks
<1>2. ASSUME NEW k \in DOMAIN grants PROVE GrantStands(k)'
  BY <1>1, GrantUntouched
<1> QED BY <1>2 DEF HInv, GrantsStand

LEMMA DelegationsUntouched ==
  ASSUME HInv, UNCHANGED delegations, now' = now,
         \A k \in DOMAIN delegations :
           /\ Underway("revoke_delegation", k)' <=> Underway("revoke_delegation", k)
           /\ Underway("expire_delegation", k)' <=> Underway("expire_delegation", k)
  PROVE  DelegationsStand'
<1>1. now \in Int
  BY DEF HInv, Clocks
<1>2. ASSUME NEW k \in DOMAIN delegations PROVE DelegationStands(k)'
  BY <1>1, DelegationUntouched
<1> QED BY <1>2 DEF HInv, DelegationsStand

\* A scenario starts: its one statement, while nothing else is under way.
LEMMA EvaluateStands ==
  ASSUME HInv, NEW s \in Scenarios, Evaluate(s)
  PROVE  HInv'
<1> DEFINE c == s.setup
<1>0. /\ stage = "idle" /\ stage' \in {"insert", "read"} /\ scenario' = s
      /\ stage' = "insert" => s.attempt # NULL
      /\ UNCHANGED <<arm, minted>> /\ SetUp(c)
  BY DEF Evaluate
<1>1. now' = now /\ now \in Int
  BY <1>0
  DEF HInv, Clocks, SetUp, vars, SetGrantExpiry, RevokeGrant, RevokeDelegation,
      DisablePrincipal, SetDelegationExpiry
<1>2. Clocks'
  BY <1>0, <1>1 DEF HInv, Clocks
<1>3. \A kind, id : /\ ~Underway(kind, id)
                    /\ Underway(kind, id)' <=> c.kind = kind /\ c.id = id
  BY <1>0 DEF Underway
<1>4. disabled = {}
  BY <1>0 DEF HInv, DisabledStands
<1> HIDE DEF c
<1>5. CASE c.kind = "none"
  <2>1. UNCHANGED <<grants, delegations, disabled>>
    BY <1>0, <1>5 DEF SetUp, vars
  <2>2. GrantsStand' /\ DelegationsStand'
    BY <1>1, <1>3, <1>5, <2>1, GrantsUntouched, DelegationsUntouched
  <2> QED BY <1>0, <1>2, <1>4, <1>5, <2>1, <2>2 DEF HInv, DisabledStands, c
<1>6. CASE c.kind = "expire_grant"
  <2>1. SetGrantExpiry(c.id, now - 1)
    BY <1>0, <1>6 DEF SetUp
  <2>2. grants[c.id] \in GrantRow /\ c.id \in DOMAIN grants /\ GrantStands(c.id)
    BY <2>1 DEF SetGrantExpiry, HInv, GrantsStand, IsTable
  <2> DEFINE h == [grants[c.id] EXCEPT !.expires_at = now - 1]
  <2>3. /\ h \in GrantRow /\ h.expires_at = now - 1 /\ h.revoked = grants[c.id].revoked
        /\ h.provider_org = grants[c.id].provider_org
        /\ h.grantee_org = grants[c.id].grantee_org
        /\ h.grantee_principal = grants[c.id].grantee_principal
        /\ h.approved_by = grants[c.id].approved_by
        /\ h.region_scope = grants[c.id].region_scope /\ h.allow = grants[c.id].allow
        /\ h.max_classification = grants[c.id].max_classification
    BY <1>1, <2>2 DEF GrantRow
  <2>4. grants' = [grants EXCEPT ![c.id] = h]
    BY <2>1 DEF SetGrantExpiry
  <2> HIDE DEF h
  <2>5. IsCutShort(c.id)
    BY <1>6 DEF IsCutShort, c
  <2>6. SeedGrants[c.id].expires_at > 0 /\ SeedGrants[c.id].expires_at \in Int
    BY <2>2, SeedColumns, FixtureAssumption DEF HInv, GrantsStand
  <2>7. grants[c.id].revoked = FALSE
    BY <1>3, <2>2 DEF GrantStands
  <2>8. GrantsStand'
    <3>1. h.expires_at <= now /\ h.expires_at <= now + SeedGrants[c.id].expires_at
      BY <1>1, <2>3, <2>6
    <3> QED BY <1>1, <1>3, <1>6, <2>2, <2>3, <2>4, <2>5, <2>7, <3>1, GrantEdited
  <2>9. UNCHANGED <<delegations, disabled>>
    BY <2>1 DEF SetGrantExpiry
  <2>10. DelegationsStand'
    BY <1>1, <1>3, <1>6, <2>9, DelegationsUntouched
  <2> QED BY <1>0, <1>2, <1>4, <1>6, <2>8, <2>9, <2>10 DEF HInv, DisabledStands, c
<1>7. CASE c.kind = "revoke_grant"
  <2>1. RevokeGrant(c.id, grants[c.id].approved_by)
    BY <1>0, <1>7 DEF SetUp
  <2>2. grants[c.id] \in GrantRow /\ c.id \in DOMAIN grants /\ GrantStands(c.id)
    BY <2>1 DEF RevokeGrant, HInv, GrantsStand, IsTable
  <2> DEFINE h == [grants[c.id] EXCEPT !.revoked = TRUE]
  <2>3. /\ h \in GrantRow /\ h.expires_at = grants[c.id].expires_at /\ h.revoked = TRUE
        /\ h.provider_org = grants[c.id].provider_org
        /\ h.grantee_org = grants[c.id].grantee_org
        /\ h.grantee_principal = grants[c.id].grantee_principal
        /\ h.approved_by = grants[c.id].approved_by
        /\ h.region_scope = grants[c.id].region_scope /\ h.allow = grants[c.id].allow
        /\ h.max_classification = grants[c.id].max_classification
    BY <2>2 DEF GrantRow
  <2>4. grants' = [grants EXCEPT ![c.id] = h]
    BY <2>1 DEF RevokeGrant
  <2> HIDE DEF h
  <2>5. /\ h.expires_at <= now + SeedGrants[c.id].expires_at
        /\ ~IsCutShort(c.id) => SeedGrants[c.id].expires_at <= h.expires_at
    BY <2>2, <2>3 DEF GrantStands
  <2>6. GrantsStand'
    BY <1>1, <1>3, <1>7, <2>2, <2>3, <2>4, <2>5, GrantEdited
  <2>7. UNCHANGED <<delegations, disabled>>
    BY <2>1 DEF RevokeGrant
  <2>8. DelegationsStand'
    BY <1>1, <1>3, <1>7, <2>7, DelegationsUntouched
  <2> QED BY <1>0, <1>2, <1>4, <1>7, <2>6, <2>7, <2>8 DEF HInv, DisabledStands, c
<1>8. CASE c.kind = "revoke_delegation"
  <2>1. RevokeDelegation(c.id, delegations[c.id].delegator)
    BY <1>0, <1>8 DEF SetUp
  <2>2. /\ delegations[c.id] \in DelegRow /\ c.id \in DOMAIN delegations
        /\ DelegationStands(c.id)
    BY <2>1 DEF RevokeDelegation, HInv, DelegationsStand, IsTable
  <2> DEFINE h == [delegations[c.id] EXCEPT !.revoked = TRUE]
  <2>3. /\ h \in DelegRow /\ h.expires_at = delegations[c.id].expires_at /\ h.revoked = TRUE
        /\ h.grant_id = delegations[c.id].grant_id /\ h.depth = delegations[c.id].depth
        /\ h.parent = delegations[c.id].parent
        /\ h.delegator = delegations[c.id].delegator
        /\ h.delegatee = delegations[c.id].delegatee
        /\ h.region_scope = delegations[c.id].region_scope
        /\ h.allow = delegations[c.id].allow
    BY <2>2 DEF DelegRow
  <2>4. delegations' = [delegations EXCEPT ![c.id] = h]
    BY <2>1 DEF RevokeDelegation
  <2> HIDE DEF h
  <2>5. /\ h.expires_at <= now + SeedDelegations[c.id].expires_at
        /\ SeedDelegations[c.id].expires_at <= h.expires_at
    BY <1>3, <2>2, <2>3 DEF DelegationStands
  <2>6. DelegationsStand'
    BY <1>1, <1>3, <1>8, <2>2, <2>3, <2>4, <2>5, DelegationEdited
  <2>7. UNCHANGED <<grants, disabled>>
    BY <2>1 DEF RevokeDelegation
  <2>8. GrantsStand'
    BY <1>1, <1>3, <1>8, <2>7, GrantsUntouched
  <2> QED BY <1>0, <1>2, <1>4, <1>8, <2>6, <2>7, <2>8 DEF HInv, DisabledStands, c
<1>9. CASE c.kind = "disable"
  <2>1. UNCHANGED <<grants, delegations>> /\ disabled' = {c.id}
    BY <1>0, <1>4, <1>9 DEF SetUp, DisablePrincipal
  <2>2. GrantsStand' /\ DelegationsStand'
    BY <1>1, <1>3, <1>9, <2>1, GrantsUntouched, DelegationsUntouched
  <2> QED BY <1>0, <1>2, <1>9, <2>1, <2>2 DEF HInv, DisabledStands, c
<1>10. CASE c.kind = "expire_delegation"
  <2>1. SetDelegationExpiry(c.id, now - 1)
    BY <1>0, <1>10 DEF SetUp
  <2>2. /\ delegations[c.id] \in DelegRow /\ c.id \in DOMAIN delegations
        /\ DelegationStands(c.id)
    BY <2>1 DEF SetDelegationExpiry, HInv, DelegationsStand, IsTable
  <2> DEFINE h == [delegations[c.id] EXCEPT !.expires_at = now - 1]
  <2>3. /\ h \in DelegRow /\ h.expires_at = now - 1 /\ h.revoked = delegations[c.id].revoked
        /\ h.grant_id = delegations[c.id].grant_id /\ h.depth = delegations[c.id].depth
        /\ h.parent = delegations[c.id].parent
        /\ h.delegator = delegations[c.id].delegator
        /\ h.delegatee = delegations[c.id].delegatee
        /\ h.region_scope = delegations[c.id].region_scope
        /\ h.allow = delegations[c.id].allow
    BY <1>1, <2>2 DEF DelegRow
  <2>4. delegations' = [delegations EXCEPT ![c.id] = h]
    BY <2>1 DEF SetDelegationExpiry
  <2> HIDE DEF h
  <2>5. /\ SeedDelegations[c.id].expires_at > 0 /\ SeedDelegations[c.id].expires_at \in Int
        /\ delegations[c.id].revoked = FALSE
    BY <1>3, <2>2, SeedColumns, FixtureAssumption
    DEF HInv, DelegationsStand, DelegationStands
  <2>6. DelegationsStand'
    <3>1. h.expires_at <= now /\ h.expires_at <= now + SeedDelegations[c.id].expires_at
      BY <1>1, <2>3, <2>5
    <3> QED BY <1>1, <1>3, <1>10, <2>2, <2>3, <2>4, <2>5, <3>1, DelegationEdited
  <2>7. UNCHANGED <<grants, disabled>>
    BY <2>1 DEF SetDelegationExpiry
  <2>8. GrantsStand'
    BY <1>1, <1>3, <1>10, <2>7, GrantsUntouched
  <2> QED BY <1>0, <1>2, <1>4, <1>10, <2>6, <2>7, <2>8 DEF HInv, DisabledStands, c
<1> QED BY <1>0, <1>5, <1>6, <1>7, <1>8, <1>9, <1>10 DEF SetUp

\* The trigger refuses, at any time, a row that reaches beyond the fixture.
LEMMA OverreachRefused ==
  ASSUME HInv, NEW id, NEW q, Overreaches(q)
  PROVE  ~Passes(id, RowOf(q))
<1> SUFFICES ASSUME Passes(id, RowOf(q)) PROVE FALSE
  OBVIOUS
<1> DEFINE row == RowOf(q)
           g == grants[row.grant_id]
           p == delegations[row.parent]
<1>1. /\ row.grant_id = q.grant_id /\ row.delegator = q.delegator /\ row.depth = q.depth
      /\ row.parent = q.parent /\ row.region_scope = q.region_scope /\ row.allow = q.allow
      /\ row.expires_at = now + q.lifetime
  BY DEF RowOf
<1>2. NarrowsGrant(row, g) /\ ReferencesExist(id, row)
      /\ IF row.depth = 1 THEN HandedOverByGrantee(row, g) ELSE HandedOverByParent(row)
  BY DEF Passes, MustNarrow
<1> HIDE DEF row
<1>3. /\ GrantStands(q.grant_id) /\ q.grant_id \in DOMAIN SeedGrants
      /\ DOMAIN delegations = DOMAIN SeedDelegations
      /\ q.parent \in DOMAIN delegations => DelegationStands(q.parent)
      /\ now \in Int /\ q.lifetime \in Int
      /\ SeedGrants[q.grant_id].expires_at \in Int /\ grants[q.grant_id].expires_at \in Int
  BY SeedColumns
  DEF HInv, GrantsStand, DelegationsStand, Overreaches, Clocks, DelegRequest, IsTable, GrantRow
<1>4. /\ q.region_scope \subseteq SeedGrants[q.grant_id].region_scope
      /\ q.allow \subseteq SeedGrants[q.grant_id].allow
  BY <1>1, <1>2, <1>3 DEF NarrowsGrant, GrantStands
<1>5. ~(q.lifetime > SeedGrants[q.grant_id].expires_at)
  <2>1. now + q.lifetime <= grants[q.grant_id].expires_at
    BY <1>1, <1>2 DEF NarrowsGrant
  <2>2. grants[q.grant_id].expires_at <= now + SeedGrants[q.grant_id].expires_at
    BY <1>3 DEF GrantStands
  <2> QED BY <1>3, <2>1, <2>2
<1>6. q.depth = 1 => q.delegator = SeedGrants[q.grant_id].grantee_principal
  BY <1>1, <1>2, <1>3 DEF HandedOverByGrantee, GrantStands
<1>7. q.depth # 1 /\ q.parent \in DOMAIN SeedDelegations
        => /\ q.region_scope \subseteq SeedDelegations[q.parent].region_scope
           /\ q.allow \subseteq SeedDelegations[q.parent].allow
  BY <1>1, <1>2, <1>3 DEF HandedOverByParent, DelegationStands
<1> QED BY <1>4, <1>5, <1>6, <1>7 DEF Overreaches

\* Neither an attempt's INSERT nor its DELETE changes anything.
LEMMA AttemptStands ==
  ASSUME HInv, Attempt \/ Delete
  PROVE  HInv' /\ UNCHANGED <<vars, scenario, results, honoured, minted, arm>>
<1>1. /\ stage # "idle" /\ stage' \in {"read", "judge"} /\ scenario.attempt # NULL
      /\ UNCHANGED <<grants, disabled, now, audit, scenario, arm, minted, honoured, results>>
  BY DEF Attempt, Delete, HInv, Clocks
<1>2. /\ scenario \in Scenarios /\ scenario.attempt.id \notin DOMAIN SeedDelegations
      /\ Overreaches(scenario.attempt.row)
  BY <1>1, ListAssumption DEF HInv, Clocks
<1>3. delegations' = delegations
  <2>1. CASE Attempt
    BY <1>2, <2>1, OverreachRefused DEF Attempt
  <2>2. CASE Delete
    <3>1. DOMAIN delegations \ {scenario.attempt.id} = DOMAIN delegations
      BY <1>2 DEF HInv, DelegationsStand
    <3> QED BY <2>2, <3>1 DEF Delete, HInv, DelegationsStand, IsTable
  <2> QED BY <2>1, <2>2
<1>4. Clocks' /\ now <= now'
  BY <1>1, <1>2, RequestAssumption DEF HInv, Clocks
<1> QED BY <1>1, <1>3, <1>4, TablesUntouched DEF vars

LEMMA ReadStands ==
  ASSUME HInv, Read
  PROVE  HInv'
<1>1. /\ stage = "read" /\ stage' \in {"read", "judge", "delete"}
      /\ stage' = "delete" => scenario.attempt # NULL
      /\ UNCHANGED <<vars, arm, minted, scenario, honoured>>
  BY DEF Read, AfterReads
<1>2. Clocks' /\ now <= now'
  BY <1>1, RequestAssumption DEF HInv, Clocks, vars
<1> QED BY <1>1, <1>2, TablesUntouched DEF vars

LEMMA TickStands ==
  ASSUME HInv, Tick, UNCHANGED harness
  PROVE  HInv'
<1>1. /\ now \in Int /\ now' = now + 1 /\ now' <= MaxTime
      /\ UNCHANGED <<grants, delegations, disabled, scenario, stage, minted, arm>>
  BY RequestAssumption DEF Tick, harness, HInv, Clocks
<1>2. Clocks' /\ now <= now'
  BY <1>1, RequestAssumption DEF HInv, Clocks
<1> QED BY <1>1, <1>2, TablesUntouched

\* A scenario ends: its own change is taken back, an expired grant excepted.
LEMMA ConcludeStands ==
  ASSUME HInv, Conclude
  PROVE  HInv'
<1> DEFINE c == scenario.setup
<1>0. /\ stage = "judge" /\ stage' = "idle" /\ TearDown(c)
      /\ UNCHANGED <<arm, minted>>
  BY DEF Conclude
<1>1. now' = now /\ now \in Int
  BY <1>0
  DEF HInv, Clocks, TearDown, vars, RestoreGrant, RestoreDelegation, EnablePrincipal,
      SetDelegationExpiry
<1>2. Clocks'
  BY <1>0, <1>1 DEF HInv, Clocks
<1>3. \A kind, id : /\ ~Underway(kind, id)'
                    /\ Underway(kind, id) <=> c.kind = kind /\ c.id = id
  BY <1>0 DEF Underway
<1>4. disabled = IF c.kind = "disable" THEN {c.id} ELSE {}
  BY <1>0 DEF HInv, DisabledStands
<1> HIDE DEF c
<1>5. CASE c.kind \in {"none", "expire_grant"}
  <2>1. UNCHANGED <<grants, delegations, disabled>>
    BY <1>0, <1>5 DEF TearDown, vars
  <2>2. GrantsStand' /\ DelegationsStand'
    BY <1>1, <1>3, <1>5, <2>1, GrantsUntouched, DelegationsUntouched
  <2> QED BY <1>0, <1>2, <1>4, <1>5, <2>1, <2>2 DEF HInv, DisabledStands
<1>6. CASE c.kind = "revoke_grant"
  <2>1. RestoreGrant(c.id)
    BY <1>0, <1>6 DEF TearDown
  <2>2. UNCHANGED <<delegations, disabled>>
    BY <2>1 DEF RestoreGrant
  <2>3. GrantsStand'
    <3>1. CASE c.id \notin DOMAIN grants
      <4>1. UNCHANGED grants
        BY <2>1, <3>1 DEF RestoreGrant, HInv, GrantsStand, IsTable
      <4> QED BY <1>1, <1>3, <1>6, <3>1, <4>1, GrantsUntouched
    <3>2. CASE c.id \in DOMAIN grants
      <4>1. grants[c.id] \in GrantRow /\ GrantStands(c.id)
        BY <3>2 DEF HInv, GrantsStand, IsTable
      <4> DEFINE h == [grants[c.id] EXCEPT !.revoked = FALSE]
      <4>2. /\ h \in GrantRow /\ h.expires_at = grants[c.id].expires_at /\ h.revoked = FALSE
            /\ h.provider_org = grants[c.id].provider_org
            /\ h.grantee_org = grants[c.id].grantee_org
            /\ h.grantee_principal = grants[c.id].grantee_principal
            /\ h.approved_by = grants[c.id].approved_by
            /\ h.region_scope = grants[c.id].region_scope /\ h.allow = grants[c.id].allow
            /\ h.max_classification = grants[c.id].max_classification
        BY <4>1 DEF GrantRow
      <4>3. grants' = [grants EXCEPT ![c.id] = h]
        BY <2>1 DEF RestoreGrant, Unrevoked
      <4> HIDE DEF h
      <4>4. /\ h.expires_at <= now + SeedGrants[c.id].expires_at
            /\ ~IsCutShort(c.id) => SeedGrants[c.id].expires_at <= h.expires_at
        BY <4>1, <4>2 DEF GrantStands
      <4> QED BY <1>1, <1>3, <1>6, <3>2, <4>2, <4>3, <4>4, GrantEdited
    <3> QED BY <3>1, <3>2
  <2>4. DelegationsStand'
    BY <1>1, <1>3, <1>6, <2>2, DelegationsUntouched
  <2> QED BY <1>0, <1>2, <1>4, <1>6, <2>2, <2>3, <2>4 DEF HInv, DisabledStands
<1>7. CASE c.kind = "revoke_delegation"
  <2>1. RestoreDelegation(c.id)
    BY <1>0, <1>7 DEF TearDown
  <2>2. UNCHANGED <<grants, disabled>>
    BY <2>1 DEF RestoreDelegation
  <2>3. DelegationsStand'
    <3>1. CASE c.id \notin DOMAIN delegations
      <4>1. UNCHANGED delegations
        BY <2>1, <3>1 DEF RestoreDelegation, HInv, DelegationsStand, IsTable
      <4> QED BY <1>1, <1>3, <1>7, <3>1, <4>1, DelegationsUntouched
    <3>2. CASE c.id \in DOMAIN delegations
      <4>1. delegations[c.id] \in DelegRow /\ DelegationStands(c.id)
        BY <3>2 DEF HInv, DelegationsStand, IsTable
      <4> DEFINE h == [delegations[c.id] EXCEPT !.revoked = FALSE]
      <4>2. /\ h \in DelegRow /\ h.expires_at = delegations[c.id].expires_at
            /\ h.revoked = FALSE
            /\ h.grant_id = delegations[c.id].grant_id
            /\ h.depth = delegations[c.id].depth /\ h.parent = delegations[c.id].parent
            /\ h.delegator = delegations[c.id].delegator
            /\ h.delegatee = delegations[c.id].delegatee
            /\ h.region_scope = delegations[c.id].region_scope
            /\ h.allow = delegations[c.id].allow
        BY <4>1 DEF DelegRow
      <4>3. delegations' = [delegations EXCEPT ![c.id] = h]
        BY <2>1 DEF RestoreDelegation, Unrevoked
      <4> HIDE DEF h
      <4>4. /\ h.expires_at <= now + SeedDelegations[c.id].expires_at
            /\ SeedDelegations[c.id].expires_at <= h.expires_at
        BY <1>3, <1>7, <4>1, <4>2 DEF DelegationStands
      <4> QED BY <1>1, <1>3, <1>7, <3>2, <4>2, <4>3, <4>4, DelegationEdited
    <3> QED BY <3>1, <3>2
  <2>4. GrantsStand'
    BY <1>1, <1>3, <1>7, <2>2, GrantsUntouched
  <2> QED BY <1>0, <1>2, <1>4, <1>7, <2>2, <2>3, <2>4 DEF HInv, DisabledStands
<1>8. CASE c.kind = "disable"
  <2>1. UNCHANGED <<grants, delegations>> /\ disabled' = {}
    BY <1>0, <1>4, <1>8 DEF TearDown, EnablePrincipal
  <2>2. GrantsStand' /\ DelegationsStand'
    BY <1>1, <1>3, <1>8, <2>1, GrantsUntouched, DelegationsUntouched
  <2> QED BY <1>0, <1>2, <2>1, <2>2 DEF HInv, DisabledStands
<1>9. CASE c.kind = "expire_delegation"
  <2> DEFINE t == now + SeedDelegations[c.id].expires_at
  <2>1. SetDelegationExpiry(c.id, t)
    BY <1>0, <1>9 DEF TearDown
  <2>2. /\ delegations[c.id] \in DelegRow /\ c.id \in DOMAIN delegations
        /\ DelegationStands(c.id) /\ c.id \in DOMAIN SeedDelegations
    BY <2>1 DEF SetDelegationExpiry, HInv, DelegationsStand, IsTable
  <2>3. /\ SeedDelegations[c.id].expires_at \in Int /\ now >= 0 /\ t \in Int
        /\ t <= now + SeedDelegations[c.id].expires_at
        /\ SeedDelegations[c.id].expires_at <= t
    BY <1>1, <2>2, SeedColumns, RequestAssumption DEF HInv, Clocks
  <2> HIDE DEF t
  <2> DEFINE h == [delegations[c.id] EXCEPT !.expires_at = t]
  <2>4. /\ h \in DelegRow /\ h.expires_at = t
        /\ h.revoked = delegations[c.id].revoked
        /\ h.grant_id = delegations[c.id].grant_id
        /\ h.depth = delegations[c.id].depth /\ h.parent = delegations[c.id].parent
        /\ h.delegator = delegations[c.id].delegator
        /\ h.delegatee = delegations[c.id].delegatee
        /\ h.region_scope = delegations[c.id].region_scope
        /\ h.allow = delegations[c.id].allow
    BY <2>2, <2>3 DEF DelegRow
  <2>5. delegations' = [delegations EXCEPT ![c.id] = h]
    BY <2>1 DEF SetDelegationExpiry
  <2> HIDE DEF h
  <2>6. delegations[c.id].revoked = FALSE
    BY <1>3, <1>9, <2>2 DEF DelegationStands
  <2>7. DelegationsStand'
    BY <1>1, <1>3, <1>9, <2>2, <2>3, <2>4, <2>5, <2>6, DelegationEdited
  <2>8. UNCHANGED <<grants, disabled>>
    BY <2>1 DEF SetDelegationExpiry
  <2>9. GrantsStand'
    BY <1>1, <1>3, <1>9, <2>8, GrantsUntouched
  <2> QED BY <1>0, <1>2, <1>4, <1>9, <2>7, <2>8, <2>9 DEF HInv, DisabledStands
<1> QED BY <1>0, <1>5, <1>6, <1>7, <1>8, <1>9 DEF TearDown

LEMMA HarnessStep ==
  ASSUME HInv, [HarnessNext]_harnessVars
  PROVE  HInv'
<1>1. CASE UNCHANGED harnessVars
  <2>1. UNCHANGED <<grants, delegations, disabled, scenario, stage, now, minted, arm>>
    BY <1>1 DEF harnessVars, vars, harness
  <2>2. Clocks' /\ now <= now'
    BY <2>1, RequestAssumption DEF HInv, Clocks
  <2> QED BY <2>1, <2>2, TablesUntouched
<1> QED
  BY <1>1, BuildStands, EvaluateStands, AttemptStands, ReadStands, ConcludeStands, TickStands
  DEF HarnessNext

\* Whatever ran before, the tables of the harness hold the fixture, but for the
\* change of the scenario under way (framework.evaluate's set-up and tear-down).
THEOREM FixtureSurvives == HarnessSpec => []HInv
  BY HarnessStarts, HarnessStep, PTL DEF HarnessSpec
-----------------------------------------------------------------------------
\* What HInv says of the tables at any time, and between two changes.
LEMMA StoredAsSeeded ==
  ASSUME HInv
  PROVE  /\ DOMAIN delegations = DOMAIN SeedDelegations
         /\ \A d \in DOMAIN delegations :
              /\ delegations[d].grant_id = SeedDelegations[d].grant_id
              /\ delegations[d].depth = SeedDelegations[d].depth
              /\ delegations[d].parent = SeedDelegations[d].parent
              /\ delegations[d].delegator = SeedDelegations[d].delegator
              /\ delegations[d].delegatee = SeedDelegations[d].delegatee
              /\ delegations[d].region_scope = SeedDelegations[d].region_scope
              /\ delegations[d].allow = SeedDelegations[d].allow
  BY DEF HInv, DelegationsStand, DelegationStands

LEMMA SameHops ==
  ASSUME HInv, NEW d
  PROVE  Hops(d) = SeedHops(d)
  BY StoredAsSeeded DEF Hops, SeedHops

LEMMA HarnessNarrowed ==
  ASSUME HInv
  PROVE  /\ Referenced
         /\ \A d \in DOMAIN delegations :
              LET row == delegations[d]
              IN /\ WithinGrant(row, grants[row.grant_id])
                 /\ row.depth # 1 => /\ row.parent \in DOMAIN delegations
                                     /\ WithinParent(row, delegations[row.parent])
<1> SUFFICES ASSUME NEW d \in DOMAIN delegations
             PROVE  /\ delegations[d].grant_id \in DOMAIN grants
                    /\ WithinGrant(delegations[d], grants[delegations[d].grant_id])
                    /\ delegations[d].depth # 1 =>
                         /\ delegations[d].parent \in DOMAIN delegations
                         /\ WithinParent(delegations[d], delegations[delegations[d].parent])
  BY DEF Referenced
<1> DEFINE seed == SeedDelegations[d]
<1>1. /\ d \in DOMAIN SeedDelegations /\ seed.grant_id \in DOMAIN SeedGrants
      /\ WithinGrant(seed, SeedGrants[seed.grant_id])
      /\ seed.depth # 1 => /\ seed.parent \in DOMAIN SeedDelegations
                           /\ WithinParent(seed, SeedDelegations[seed.parent])
  BY StoredAsSeeded, FixtureAssumption
<1> HIDE DEF seed
<1>2. /\ delegations[d].grant_id = seed.grant_id /\ delegations[d].depth = seed.depth
      /\ delegations[d].parent = seed.parent /\ delegations[d].delegator = seed.delegator
      /\ delegations[d].delegatee = seed.delegatee
      /\ delegations[d].region_scope = seed.region_scope /\ delegations[d].allow = seed.allow
  BY StoredAsSeeded DEF seed
<1>3. /\ seed.grant_id \in DOMAIN grants
      /\ grants[seed.grant_id].region_scope = SeedGrants[seed.grant_id].region_scope
      /\ grants[seed.grant_id].allow = SeedGrants[seed.grant_id].allow
      /\ grants[seed.grant_id].grantee_principal = SeedGrants[seed.grant_id].grantee_principal
  BY <1>1 DEF HInv, GrantsStand, GrantStands
<1>4. WithinGrant(delegations[d], grants[delegations[d].grant_id])
  BY <1>1, <1>2, <1>3 DEF WithinGrant
<1>5. CASE seed.depth # 1
  BY <1>1, <1>2, <1>3, <1>4, <1>5, StoredAsSeeded DEF WithinParent
<1> QED BY <1>2, <1>3, <1>4, <1>5

\* Nothing is revoked, over or disabled now but what has run out.
Quiet == stage = "idle" \/ scenario.setup.kind = "none"

LEMMA RestIsSound ==
  ASSUME HInv, Quiet
  PROVE  /\ AuthorityTypeOK /\ Narrowed /\ disabled = {}
         /\ \A kind, id : kind # "none" => ~Underway(kind, id)
<1>1. disabled = {}
  BY DEF HInv, DisabledStands, Quiet
<1>2. AuthorityTypeOK
  BY <1>1 DEF HInv, GrantsStand, DelegationsStand, AuthorityTypeOK
<1> QED BY <1>1, <1>2, HarnessNarrowed DEF Narrowed, Underway, Quiet

\* Every walk through the fixture ends at a first hop.
LEMMA HarnessRooted ==
  ASSUME HInv, Quiet, NEW d \in DOMAIN delegations
  PROVE  \E r \in Roots(d) : delegations[r].depth = 1
<1> DEFINE parent(x) == delegations[x].parent
           depth(x) == delegations[x].depth
<1>1. ASSUME NEW x \in Hops(d)
      PROVE  /\ x \in DOMAIN delegations /\ depth(x) \in Depths
             /\ depth(x) = 1 => parent(x) = NULL
             /\ depth(x) # 1 => parent(x) \in Hops(d) /\ depth(parent(x)) = depth(x) - 1
  <2>1. x \in DOMAIN delegations /\ delegations[x] \in DelegRow
    BY RestIsSound DEF AuthorityTypeOK, IsTable, Hops
  <2>2. /\ WithinGrant(delegations[x], grants[delegations[x].grant_id])
        /\ depth(x) # 1 => /\ parent(x) \in DOMAIN delegations
                           /\ WithinParent(delegations[x], delegations[parent(x)])
    BY <2>1, HarnessNarrowed
  <2> QED BY <2>1, <2>2, HopsClosed DEF DelegRow, WithinGrant, WithinParent
<1>2. d \in Hops(d)
  BY HopsSelf
<1>3. Cardinality(Hops(d)) <= MaxHops + 1
  BY RestIsSound, SameWalk
<1> HIDE DEF parent, depth
<1>4. PICK r \in Hops(d) : depth(r) = 1
  <2>1. ASSUME NEW x \in Hops(d), depth(x) # 1
        PROVE  /\ parent(x) \in Hops(d) /\ depth(parent(x)) = depth(x) - 1
               /\ depth(x) \in {2, 3}
    BY <1>1, <2>1 DEF Depths
  <2>2. CASE depth(d) = 1
    BY <1>2, <2>2
  <2>3. CASE depth(d) # 1
    <3>1. parent(d) \in Hops(d) /\ depth(parent(d)) \in {1, 2}
      BY <1>2, <2>1, <2>3
    <3>2. depth(parent(d)) # 1 =>
            parent(parent(d)) \in Hops(d) /\ depth(parent(parent(d))) = 1
      BY <2>1, <3>1
    <3> QED BY <3>1, <3>2
  <2> QED BY <2>2, <2>3
<1>5. parent(r) = NULL /\ r \in Roots(d)
  BY <1>1, <1>3, <1>4 DEF Roots, parent, depth
<1> QED BY <1>4, <1>5 DEF depth

\* The clauses of the application arm admit the rows that the policy admits.
LEMMA SameAdmission ==
  ASSUME NEW a, a # NULL
  PROVE  FilteredRows(a) = VisibleRows(a)
  BY DEF FilteredRows, VisibleRows, FilterAdmits, PolicyAdmits

\* A genuine token whose claims the fixture honours is honoured, whenever
\* nothing is changed, with the authority that the fixture gives them.
LEMMA HonouredAtRest ==
  ASSUME HInv, Quiet, NEW claims, Lasting(claims), NEW c \in Credential,
         c.sub = claims.sub, c.grant_id = claims.grant_id,
         c.delegation_id = claims.delegation_id, c.signed = TRUE
  PROVE  /\ AuthRow(c) = SeedAuthority(claims) /\ SeedAuthority(claims) \in Authorization
         /\ c.exp > now => CurrentAuth(c, now) = SeedAuthority(claims)
         /\ ~(c.exp > now) => CurrentAuth(c, now) = NULL
<1> DEFINE g == grants[c.grant_id]
           d == c.delegation_id
<1>1. /\ now \in Int /\ now <= MaxTime /\ MaxTime \in Int
      /\ c.grant_id \in DOMAIN grants /\ g \in GrantRow /\ GrantStands(c.grant_id)
  BY RequestAssumption DEF HInv, Clocks, GrantsStand, Lasting, IsTable
<1>2. GrantIsLive(g, now)
  <2>1. ~IsCutShort(c.grant_id) /\ SeedGrants[c.grant_id].expires_at > MaxTime
    BY DEF IsCutShort, Lasting
  <2>2. g.revoked = FALSE /\ g.approved_by # NULL
    BY <1>1, RestIsSound DEF GrantStands, Lasting
  <2>3. g.expires_at \in Int /\ SeedGrants[c.grant_id].expires_at \in Int
        /\ SeedGrants[c.grant_id].expires_at <= g.expires_at
    BY <1>1, <2>1, SeedColumns DEF GrantStands, GrantRow, Lasting
  <2> QED BY <1>1, <2>1, <2>2, <2>3 DEF GrantIsLive
<1>3. disabled = {}
  BY RestIsSound
<1>4. (d = NULL => DirectHolds(c)) /\ (d # NULL => ChainHolds(c, now))
  <2>1. ASSUME d = NULL PROVE DirectHolds(c)
    BY <1>1, <1>3, <2>1 DEF DirectHolds, Lasting, GrantStands
  <2>2. ASSUME d # NULL PROVE ChainHolds(c, now)
    <3>1. /\ d \in DOMAIN delegations /\ delegations[d].delegatee = c.sub
          /\ \A h \in Hops(d) : delegations[h].grant_id = c.grant_id
      <4>1. d \in DOMAIN SeedDelegations
        BY <2>2 DEF Lasting
      <4>2. \A h \in Hops(d) : h \in DOMAIN delegations /\ SeedDelegations[h].grant_id = c.grant_id
        BY <2>2, SameHops DEF Lasting, Hops
      <4> QED BY <2>2, <4>1, <4>2, StoredAsSeeded DEF Lasting
    <3>2. ASSUME NEW h \in Hops(d) PROVE HopIsLive(delegations[h], now)
      <4>1. h \in DOMAIN delegations /\ DelegationStands(h) /\ delegations[h] \in DelegRow
        BY DEF Hops, HInv, DelegationsStand, IsTable
      <4>2. SeedDelegations[h].expires_at > MaxTime /\ SeedDelegations[h].expires_at \in Int
        BY <2>2, <4>1, SameHops, SeedColumns, StoredAsSeeded DEF Lasting
      <4>3. delegations[h].revoked = FALSE /\ delegations[h].expires_at \in Int
            /\ SeedDelegations[h].expires_at <= delegations[h].expires_at
        BY <4>1, RestIsSound DEF DelegationStands, DelegRow
      <4> QED BY <1>1, <4>2, <4>3 DEF HopIsLive
    <3>3. PICK r \in Roots(d) : delegations[r].depth = 1
      BY <3>1, HarnessRooted
    <3>4. delegations[r].delegator = g.grantee_principal
      BY <3>1, <3>3, RestIsSound DEF Roots, Narrowed, WithinGrant, Hops
    <3> QED BY <1>3, <3>1, <3>2, <3>3, <3>4 DEF ChainHolds
  <2> QED BY <2>1, <2>2
<1>5. AuthRow(c) = SeedAuthority(claims)
  <2>1. /\ g.provider_org = SeedGrants[c.grant_id].provider_org
        /\ g.grantee_org = SeedGrants[c.grant_id].grantee_org
        /\ g.grantee_principal = SeedGrants[c.grant_id].grantee_principal
        /\ g.region_scope = SeedGrants[c.grant_id].region_scope
        /\ g.allow = SeedGrants[c.grant_id].allow
        /\ g.max_classification = SeedGrants[c.grant_id].max_classification
    BY <1>1 DEF GrantStands
  <2>2. \A h \in Hops(d) : /\ delegations[h].region_scope = SeedDelegations[h].region_scope
                           /\ delegations[h].allow = SeedDelegations[h].allow
    BY StoredAsSeeded DEF Hops
  <2>3. d = NULL => SeedHops(d) = {}
    BY NullAssumption, FixtureAssumption DEF SeedHops, IsTable
  <2>4. (IF d = NULL THEN g.region_scope ELSE EffRegions(g, d))
          = {x \in g.region_scope : \A h \in SeedHops(d) : x \in SeedDelegations[h].region_scope}
    BY <2>2, <2>3, SameHops DEF EffRegions
  <2>5. (IF d = NULL THEN g.allow ELSE EffAllow(g, d))
          = {x \in g.allow : \A h \in SeedHops(d) : x \in SeedDelegations[h].allow}
    BY <2>2, <2>3, SameHops DEF EffAllow
  <2> QED BY <2>1, <2>4, <2>5 DEF AuthRow, SeedAuthority
<1>6. AuthRow(c) \in Authorization
  BY <1>1, AuthRowTyped, RestIsSound
<1>7. c # NULL
  BY NullAssumption
<1>8. Authorizes(c, now) <=> c.exp > now
  BY <1>1, <1>2, <1>4, <1>7 DEF Authorizes, VerifyCredential
<1> QED BY <1>5, <1>6, <1>8 DEF CurrentAuth

\* One control passes: the portal's answer is the oracle's, and what it shows of
\* the cost is not NULL.
LEMMA ControlHolds ==
  ASSUME HInv, stage = "idle", NEW case \in Controls
  PROVE  ControlPasses(case)
<1> DEFINE c == ControlToken(case)
           a == CurrentAuth(c, now)
           expected == Expect(case.sub, case.grant_id, case.delegation_id, now)
           src == Source(arm, a)
<1>0. Quiet /\ Lasting(case)
  BY ListAssumption DEF Quiet
<1>1. /\ c.sub = case.sub /\ c.grant_id = case.grant_id
      /\ c.delegation_id = case.delegation_id /\ c.exp = now + TTL /\ c.signed = TRUE
  BY DEF ControlToken
<1>2. /\ c \in Credential /\ c.exp > now
  <2>1. now \in Int /\ TTL \in Nat \ {0} /\ now + TTL \in Int /\ now + TTL > now
    BY RequestAssumption, FixtureAssumption DEF HInv, Clocks
  <2>2. /\ case.sub \in Principals /\ case.grant_id \in GrantIds
        /\ case.delegation_id \in DelegIds \cup {NULL}
    BY <1>0, FixtureAssumption DEF Lasting, IsTable
  <2> QED BY <2>1, <2>2 DEF ControlToken, Credential
<1> HIDE DEF c
<1>3. a = SeedAuthority(case) /\ a \in Authorization /\ a # NULL
  BY <1>0, <1>1, <1>2, HonouredAtRest, NullAssumption
<1>4. expected = Answer(VisibleRows(a), a.allow)
  <2>1. VerifyCredential(c, now) # NULL
    BY <1>1, <1>2, NullAssumption DEF VerifyCredential
  <2>2. ~MidChainDisabled(c.delegation_id)
    BY <1>0, RestIsSound DEF MidChainDisabled
  <2>3. AuthorityTypeOK /\ Narrowed
    BY <1>0, RestIsSound
  <2>4. Served(a) = Expect(c.sub, c.grant_id, c.delegation_id, now)
    BY <1>2, <2>1, <2>2, <2>3, Agreement
  <2> QED BY <1>1, <1>3, <2>4 DEF Served
<1> HIDE DEF a, expected
<1>5. /\ expected.row_ids = VisibleRows(a) /\ expected.allow = a.allow
      /\ a.allow \subseteq Caps /\ VisibleRows(a) \subseteq ShipmentIds
  BY <1>3, <1>4 DEF Answer, Authorization, VisibleRows
<1>6. expected # NULL
  BY <1>4, <1>5, DenialAssumption DEF Answer
<1>7. DOMAIN src = VisibleRows(a)
  BY <1>3, SameAdmission DEF Source
<1>8. ColumnSplit(case.cols, a) = ViewColumns(case.cols, expected)
  BY <1>5 DEF ColumnSplit, ViewColumns
<1>9. ASSUME "cost" \in ViewColumns(case.cols, expected), DOMAIN src # {}
      PROVE  Comparable(src) # {}
  <2>1. "cost" \in a.allow
    BY <1>5, <1>9 DEF ViewColumns, Caps
  <2>2. PICK s \in DOMAIN src : TRUE
    BY <1>9
  <2>3. src[s] = Cost[s] /\ s \in ShipmentIds
    BY <1>3, <1>5, <1>7, <2>1, <2>2, SameAdmission DEF Source
  <2>4. src[s] # NULL
    BY <2>3, CostAssumption
  <2> QED BY <2>2, <2>4 DEF Comparable
<1> HIDE DEF src
<1>10. /\ a = CurrentAuth(ControlToken(case), now)
       /\ expected = Expect(case.sub, case.grant_id, case.delegation_id, now)
       /\ src = Source(arm, a)
  BY DEF a, c, expected, src
<1> QED BY <1>3, <1>5, <1>6, <1>7, <1>8, <1>9, <1>10 DEF ControlPasses

\* Between any two scenarios every positive control gets what the oracle derives
\* (positive_control.run_controls, whatever evaluate has run before).
THEOREM ControlsServed == HarnessSpec => []ControlsPass
<1>1. HInv => ControlsPass
  BY ControlHolds DEF ControlsPass
<1> QED BY <1>1, FixtureSurvives, PTL

-----------------------------------------------------------------------------
\* The invariant of what a scenario is answered.  Each result is a refusal, and
\* a refusal of a legitimate request means that its token has run out; or it is
\* what the arm delivers under the authority that the fixture gives the claims.
Refusal == Nothing("deny")
Failure == Nothing("error")

Due(i) == Delivered(arm, scenario, SeedAuthority(scenario.claims), scenario.queries[i])

Returned ==
  {Refusal, Failure} \cup
    IF scenario.must_deny THEN {} ELSE {Due(i) : i \in DOMAIN scenario.queries}

ResultStands(i) ==
  \/ /\ results[i] = Refusal
     /\ scenario.must_deny = FALSE => TokenAt(scenario, now).exp <= now
  \/ results[i] = Due(i) /\ scenario.must_deny = FALSE

AnsweredSoFar ==
  /\ \A i \in 1 .. Len(results) : ResultStands(i)
  /\ Len(results) <= Len(scenario.queries)
  /\ stage \in {"insert", "read"} => Len(results) < Len(scenario.queries)
  /\ stage \in {"delete", "judge"} => Len(results) = Len(scenario.queries)

Failed ==
  results = <<Failure>> /\ scenario.must_deny = FALSE /\ stage \in {"delete", "judge"}

WasHonoured == scenario.setup.kind \notin {"none", "expire_grant"} => honoured = TRUE

RInv ==
  /\ HInv
  /\ stage = "idle" => results = <<>>
  /\ stage # "idle" => /\ WasHonoured
                       /\ results \in Seq(Returned)
                       /\ Failed \/ AnsweredSoFar

\* What the list says of the scenario under way.
LEMMA Listed ==
  ASSUME HInv, stage # "idle"
  PROVE  /\ scenario \in Scenarios
         /\ scenario.must_deny \in BOOLEAN /\ scenario.early \in BOOLEAN
         /\ Len(scenario.queries) \in Nat \ {0}
         /\ DOMAIN scenario.queries = 1 .. Len(scenario.queries)
         /\ scenario.must_deny = TRUE => Doomed(scenario)
         /\ scenario.must_deny = FALSE =>
              /\ Quiet /\ scenario.attempt = NULL
              /\ scenario.claims # NULL /\ scenario.signed = TRUE /\ Lasting(scenario.claims)
              /\ IsFair(scenario) /\ (ReadsHidden(scenario) => IsTelling(scenario))
<1>1. scenario \in Scenarios
  BY DEF HInv, Clocks
<1> QED BY <1>1, ListAssumption DEF Quiet

\* No token with the scenario's claims is honoured where the list expects none.
LEMMA DoomedDenied ==
  ASSUME HInv, stage # "idle", scenario.must_deny = TRUE, NEW t, t = now
  PROVE  CurrentAuth(TokenAt(scenario, t), now) = NULL
<1> DEFINE tok == TokenAt(scenario, t)
           s == scenario.claims
           g == grants[s.grant_id]
           d == s.delegation_id
           change == scenario.setup
<1> SUFFICES ASSUME Authorizes(tok, now) PROVE FALSE
  BY DEF CurrentAuth
<1>1. /\ tok # NULL /\ tok.signed /\ VerifyCredential(tok, now) = tok
      /\ tok.grant_id \in DOMAIN grants /\ GrantIsLive(grants[tok.grant_id], now)
      /\ IF tok.delegation_id = NULL THEN DirectHolds(tok) ELSE ChainHolds(tok, now)
  BY DEF Authorizes, VerifyCredential
<1>2. /\ s # NULL /\ tok.sub = s.sub /\ tok.grant_id = s.grant_id
      /\ tok.delegation_id = d /\ tok.signed = scenario.signed
  BY <1>1 DEF TokenAt
<1> HIDE DEF tok
<1>3. s.grant_id \in DOMAIN grants /\ GrantIsLive(g, now) /\ GrantStands(s.grant_id)
  BY <1>1, <1>2 DEF HInv, GrantsStand
<1>4. CASE scenario.signed = FALSE
  BY <1>1, <1>2, <1>4
<1>5. CASE s.grant_id \notin DOMAIN SeedGrants \/ SeedGrants[s.grant_id].approved_by = NULL
  BY <1>3, <1>5 DEF HInv, GrantsStand, GrantStands, GrantIsLive
<1>6. CASE d = NULL /\ s.sub # SeedGrants[s.grant_id].grantee_principal
  BY <1>1, <1>2, <1>3, <1>6 DEF DirectHolds, GrantStands
<1>7. CASE /\ d # NULL
           /\ d \notin DOMAIN SeedDelegations \/ SeedDelegations[d].delegatee # s.sub
  BY <1>1, <1>2, <1>7, StoredAsSeeded DEF ChainHolds
<1>8. CASE change.kind \in {"revoke_grant", "expire_grant"} /\ change.id = s.grant_id
  <2>1. Underway("revoke_grant", s.grant_id) \/ Underway("expire_grant", s.grant_id)
    BY <1>8 DEF Underway
  <2>2. g.revoked = TRUE \/ g.expires_at <= now
    BY <1>3, <2>1 DEF GrantStands
  <2>3. g.expires_at \in Int /\ now \in Int
    BY <1>3, RequestAssumption DEF HInv, Clocks, GrantsStand, IsTable, GrantRow
  <2> QED BY <1>3, <2>2, <2>3 DEF GrantIsLive
<1>9. CASE /\ change.kind \in {"revoke_delegation", "expire_delegation"}
           /\ change.id \in SeedHops(d)
  <2>1. change.id \in Hops(d) /\ d \in DOMAIN delegations /\ change.id \in DOMAIN delegations
    BY <1>9, SameHops DEF Hops
  <2>2. d # NULL /\ HopIsLive(delegations[change.id], now)
    BY <1>1, <1>2, <2>1, NullAssumption
    DEF ChainHolds, HInv, DelegationsStand, IsTable
  <2>3. Underway("revoke_delegation", change.id) \/ Underway("expire_delegation", change.id)
    BY <1>9 DEF Underway
  <2>4. delegations[change.id].revoked = TRUE \/ delegations[change.id].expires_at <= now
    BY <2>1, <2>3 DEF HInv, DelegationsStand, DelegationStands
  <2>5. delegations[change.id].expires_at \in Int /\ now \in Int
    BY <2>1, RequestAssumption DEF HInv, Clocks, DelegationsStand, IsTable, DelegRow
  <2> QED BY <2>2, <2>4, <2>5 DEF HopIsLive
<1>10. CASE /\ change.kind = "disable"
            /\ change.id \in {s.sub, SeedGrants[s.grant_id].grantee_principal}
  <2>1. change.id \in disabled /\ g.grantee_principal = SeedGrants[s.grant_id].grantee_principal
    BY <1>3, <1>10 DEF HInv, DisabledStands, GrantStands
  <2>2. d = NULL => s.sub = g.grantee_principal /\ s.sub \notin disabled
    BY <1>1, <1>2 DEF DirectHolds
  <2>3. d # NULL => s.sub \notin disabled /\ g.grantee_principal \notin disabled
    BY <1>1, <1>2 DEF ChainHolds, CheckedPrincipals
  <2> QED BY <1>10, <2>1, <2>2, <2>3
<1>11. Doomed(scenario)
  BY Listed
<1> QED BY <1>2, <1>4, <1>5, <1>6, <1>7, <1>8, <1>9, <1>10, <1>11 DEF Doomed

\* The token of a scenario is one the database could be given.
LEMMA TokenTyped ==
  ASSUME HInv, NEW s \in Scenarios, s.claims # NULL, s.signed = TRUE, Lasting(s.claims)
  PROVE  LET c == TokenAt(s, now)
         IN /\ c \in Credential
            /\ c.sub = s.claims.sub /\ c.grant_id = s.claims.grant_id
            /\ c.delegation_id = s.claims.delegation_id /\ c.signed = TRUE
            /\ s.early = FALSE => c.exp > now
<1>1. /\ now \in Int /\ minted \in Int /\ TTL \in Int /\ TTL > 0
      /\ s.claims.sub \in Principals /\ s.claims.grant_id \in GrantIds
      /\ s.claims.delegation_id \in DelegIds \cup {NULL}
  BY RequestAssumption, FixtureAssumption DEF HInv, Clocks, Lasting, IsTable
<1> DEFINE x == TTL + IF s.early THEN minted ELSE now
<1>2. x \in Int /\ (s.early = FALSE => x > now)
  BY <1>1
<1>3. TokenAt(s, now) =
        [sub |-> s.claims.sub, grant_id |-> s.claims.grant_id,
         delegation_id |-> s.claims.delegation_id, signed |-> TRUE, exp |-> x]
  BY DEF TokenAt
<1> HIDE DEF x
<1> DEFINE c == TokenAt(s, now)
<1>4. /\ c.sub = s.claims.sub /\ c.grant_id = s.claims.grant_id
      /\ c.delegation_id = s.claims.delegation_id /\ c.signed = TRUE /\ c.exp = x
  BY <1>3
<1>5. c \in Credential
  BY <1>1, <1>2, <1>3 DEF Credential
<1> HIDE DEF c
<1>6. s.early = FALSE => c.exp > now
  BY <1>2, <1>4
<1> QED BY <1>4, <1>5, <1>6 DEF c

\* What the scenario under way is authorized to do.
LEMMA PresentedNow ==
  ASSUME HInv, stage # "idle"
  PROVE  LET a == CurrentAuth(TokenAt(scenario, now), now)
         IN /\ scenario.must_deny = TRUE => a = NULL
            /\ scenario.must_deny = FALSE =>
                 \/ a = NULL /\ TokenAt(scenario, now).exp <= now
                 \/ a # NULL /\ a = SeedAuthority(scenario.claims)
<1>1. CASE scenario.must_deny = TRUE
  BY <1>1, DoomedDenied
<1>2. CASE scenario.must_deny = FALSE
  <2> DEFINE c == TokenAt(scenario, now)
  <2>1. /\ c \in Credential /\ c.sub = scenario.claims.sub
        /\ c.grant_id = scenario.claims.grant_id
        /\ c.delegation_id = scenario.claims.delegation_id /\ c.signed = TRUE
    BY <1>2, Listed, TokenTyped
  <2> HIDE DEF c
  <2>2. Quiet /\ Lasting(scenario.claims) /\ c.exp \in Int /\ now \in Int
    <3>1. c.exp \in Int
      BY <2>1 DEF Credential
    <3>2. Quiet /\ Lasting(scenario.claims)
      BY <1>2, Listed
    <3>3. now \in Int
      BY RequestAssumption DEF HInv, Clocks
    <3> QED BY <3>1, <3>2, <3>3
  <2>3. /\ SeedAuthority(scenario.claims) \in Authorization
        /\ c.exp > now => CurrentAuth(c, now) = SeedAuthority(scenario.claims)
        /\ ~(c.exp > now) => CurrentAuth(c, now) = NULL
    BY <2>1, <2>2, HonouredAtRest
  <2> QED BY <1>2, <2>2, <2>3, NullAssumption DEF c
<1> QED BY <1>1, <1>2, Listed

\* A result that stands goes on standing while the scenario does.
LEMMA ResultKept ==
  ASSUME HInv, stage # "idle", UNCHANGED <<scenario, results, arm, minted>>,
         now' \in Int, now <= now', NEW i, ResultStands(i)
  PROVE  ResultStands(i)'
<1>1. ASSUME scenario.must_deny = FALSE, TokenAt(scenario, now).exp <= now
      PROVE  TokenAt(scenario, now)'.exp <= now'
  <2>1. scenario.claims # NULL /\ scenario.early \in BOOLEAN
    BY <1>1, Listed
  <2>2. now \in Int /\ minted \in Int /\ TTL \in Int /\ TTL > 0
    BY RequestAssumption, FixtureAssumption DEF HInv, Clocks
  <2>3. TokenAt(scenario, now).exp = TTL + IF scenario.early THEN minted ELSE now
    BY <2>1 DEF TokenAt
  <2>4. TokenAt(scenario, now)'.exp = TTL + IF scenario.early THEN minted ELSE now'
    BY <2>1 DEF TokenAt
  <2>5. scenario.early = TRUE
    BY <1>1, <2>1, <2>2, <2>3
  <2>6. TTL + minted <= now
    BY <1>1, <2>3, <2>5
  <2>7. TTL + minted <= now'
    BY <2>2, <2>6
  <2> QED BY <2>4, <2>5, <2>7
<1>2. Due(i)' = Due(i)
  BY DEF Due
<1> QED BY <1>1, <1>2 DEF ResultStands

LEMMA ReturnedKept ==
  ASSUME UNCHANGED <<scenario, arm>>
  PROVE  Returned' = Returned
  BY DEF Returned, Due, Refusal, Failure

\* Steps that neither read nor end the scenario.
LEMMA ResultsUntouched ==
  ASSUME RInv, HInv', stage # "idle" <=> stage' # "idle",
         UNCHANGED <<scenario, results, honoured, arm, minted>>, now' \in Int, now <= now',
         stage' \in {"insert", "read"} => stage \in {"insert", "read"},
         stage' \in {"delete", "judge"} => stage \in {"delete", "judge"}
  PROVE  RInv'
<1>1. CASE stage = "idle"
  BY <1>1 DEF RInv
<1>2. CASE stage # "idle"
  <2>1. HInv /\ WasHonoured /\ results \in Seq(Returned) /\ (Failed \/ AnsweredSoFar)
        /\ stage' \in {"insert", "read", "delete", "judge"}
    BY <1>2 DEF RInv, HInv, Clocks
  <2>2. WasHonoured' /\ results' \in Seq(Returned)'
    BY <2>1, ReturnedKept DEF WasHonoured
  <2>3. Failed => Failed'
    BY <2>1 DEF Failed, Failure
  <2>4. AnsweredSoFar => AnsweredSoFar'
    BY <1>2, <2>1, ResultKept DEF AnsweredSoFar
  <2> QED BY <1>2, <2>1, <2>2, <2>3, <2>4 DEF RInv
<1> QED BY <1>1, <1>2

\* The results of one read.
LEMMA ReadAnswers ==
  ASSUME RInv, Read
  PROVE  RInv'
<1>0. PICK k : k = Len(results) + 1
  OBVIOUS
<1> DEFINE n == Len(scenario.queries)
           q == scenario.queries[k]
           raised == Answered(q).decision = "allow" /\ ~IsPermitted(arm, q)
           last == raised \/ k = n
<1>1. /\ stage = "read"
      /\ results' = IF raised THEN <<Failure>> ELSE Append(results, Answered(q))
      /\ stage' = IF last THEN AfterReads ELSE "read"
      /\ UNCHANGED <<vars, arm, minted, scenario, honoured>>
  BY <1>0 DEF Read, Failure
<1>2. /\ HInv /\ WasHonoured /\ results \in Seq(Returned) /\ AnsweredSoFar
      /\ HInv' /\ AfterReads \in {"delete", "judge"}
  BY <1>1, ReadStands DEF RInv, Failed, AfterReads
<1>3. /\ Len(results) \in Nat /\ k \in 1 .. n /\ n \in Nat /\ Len(results) < n
      /\ k \in DOMAIN scenario.queries
  <2>1. n \in Nat /\ DOMAIN scenario.queries = 1 .. n
    BY <1>1, <1>2, Listed
  <2>2. Len(results) \in Nat /\ Len(results) < n
    BY <1>1, <1>2 DEF AnsweredSoFar
  <2> QED BY <1>0, <2>1, <2>2
<1>4. \/ Answered(q) = Refusal
         /\ (scenario.must_deny = FALSE => TokenAt(scenario, now).exp <= now)
      \/ Answered(q) = Due(k) /\ scenario.must_deny = FALSE
  <2> DEFINE a == CurrentAuth(TokenAt(scenario, now), now)
  <2>1. /\ scenario.must_deny \in BOOLEAN
        /\ scenario.must_deny = TRUE => a = NULL
        /\ scenario.must_deny = FALSE =>
             \/ a = NULL /\ TokenAt(scenario, now).exp <= now
             \/ a # NULL /\ a = SeedAuthority(scenario.claims)
    BY <1>1, <1>2, PresentedNow, Listed
  <2>2. Answered(q) = IF a = NULL THEN Refusal ELSE Delivered(arm, scenario, a, q)
    BY DEF Answered, Refusal
  <2>3. Due(k) = Delivered(arm, scenario, SeedAuthority(scenario.claims), q)
    BY DEF Due
  <2> HIDE DEF a
  <2> QED BY <2>1, <2>2, <2>3
<1>5. Answered(q) \in Returned /\ Due(k)' = Due(k)
  <2>1. Due(k)' = Due(k)
    BY <1>1 DEF Due
  <2> HIDE DEF q
  <2> QED BY <1>3, <1>4, <2>1 DEF Returned
<1>6. Returned' = Returned /\ WasHonoured' /\ stage' # "idle"
  BY <1>1, <1>2, ReturnedKept DEF WasHonoured
<1>7. CASE raised
  <2>1. Answered(q) # Refusal
    BY <1>7 DEF Refusal, Nothing
  <2>2. Failed'
    BY <1>1, <1>2, <1>4, <1>7, <2>1 DEF Failed, Failure
  <2>3. <<Failure>> \in Seq(Returned)
    BY DEF Returned
  <2> QED BY <1>1, <1>2, <1>6, <1>7, <2>2, <2>3 DEF RInv
<1>8. CASE ~raised
  <2> DEFINE rs == Append(results, Answered(q))
  <2>1. /\ results' = rs /\ stage' = IF k = n THEN AfterReads ELSE "read"
    BY <1>1, <1>8
  <2>2. /\ rs \in Seq(Returned) /\ Len(rs) = k /\ rs[k] = Answered(q)
        /\ \A i \in 1 .. Len(results) : rs[i] = results[i]
    BY <1>0, <1>2, <1>5, AppendProperties
  <2> HIDE DEF rs
  <2>3. ASSUME NEW i \in 1 .. k PROVE ResultStands(i)'
    <3>1. CASE i = k
      <4>1. results'[i] = Answered(q)
        BY <2>1, <2>2, <3>1
      <4>2. TokenAt(scenario, now)' = TokenAt(scenario, now) /\ now' = now
            /\ scenario' = scenario
        BY <1>1 DEF TokenAt, vars
      <4>3. Refusal' = Refusal
        BY DEF Refusal
      <4> HIDE DEF q
      <4> QED BY <1>4, <1>5, <3>1, <4>1, <4>2, <4>3 DEF ResultStands
    <3>2. CASE i # k
      <4>1. i \in 1 .. Len(results) /\ results'[i] = results[i]
        BY <1>0, <1>3, <2>1, <2>2, <3>2
      <4>2. ResultStands(i)
        BY <1>2, <4>1 DEF AnsweredSoFar
      <4>3. /\ TokenAt(scenario, now)' = TokenAt(scenario, now) /\ now' = now
            /\ scenario' = scenario /\ Refusal' = Refusal /\ Due(i)' = Due(i)
        BY <1>1 DEF TokenAt, vars, Refusal, Due
      <4> QED BY <4>1, <4>2, <4>3 DEF ResultStands
    <3> QED BY <3>1, <3>2
  <2>4. AnsweredSoFar'
    <3>1. scenario' = scenario /\ Len(results') = k
      BY <1>1, <2>1, <2>2
    <3>2. k <= n /\ (stage' \in {"insert", "read"} => k < n)
          /\ (stage' \in {"delete", "judge"} => k = n)
      BY <1>2, <1>3, <2>1
    <3> QED BY <2>3, <3>1, <3>2 DEF AnsweredSoFar
  <2> QED BY <1>2, <1>6, <2>1, <2>2, <2>4 DEF RInv
<1> QED BY <1>7, <1>8

\* A scenario starts: no result yet, and a change is made only where the request
\* was honoured before it.
LEMMA EvaluateAnswers ==
  ASSUME RInv, NEW s \in Scenarios, Evaluate(s)
  PROVE  RInv'
<1>1. /\ HInv /\ HInv' /\ stage = "idle" /\ results = <<>>
      /\ stage' \in {"read", "insert"} /\ scenario' = s /\ results' = <<>>
      /\ honoured' = (CurrentAuth(TokenAt(s, now), now) # NULL)
  BY EvaluateStands DEF RInv, Evaluate
<1>2. WasHonoured'
  <2> SUFFICES ASSUME s.setup.kind \notin {"none", "expire_grant"}
               PROVE  CurrentAuth(TokenAt(s, now), now) # NULL
    BY <1>1 DEF WasHonoured
  <2>1. s.claims # NULL /\ s.signed = TRUE /\ s.early = FALSE /\ Lasting(s.claims)
    BY ListAssumption
  <2> DEFINE c == TokenAt(s, now)
  <2>2. /\ c \in Credential /\ c.sub = s.claims.sub /\ c.grant_id = s.claims.grant_id
        /\ c.delegation_id = s.claims.delegation_id /\ c.signed = TRUE /\ c.exp > now
    BY <1>1, <2>1, TokenTyped
  <2> HIDE DEF c
  <2>3. Quiet
    BY <1>1 DEF Quiet
  <2>4. CurrentAuth(c, now) = SeedAuthority(s.claims) /\ SeedAuthority(s.claims) \in Authorization
    BY <1>1, <2>1, <2>2, <2>3, HonouredAtRest
  <2> QED BY <2>4, NullAssumption DEF c
<1>3. results' \in Seq(Returned)'
  BY <1>1
<1>4. AnsweredSoFar'
  <2>1. Len(s.queries) \in Nat \ {0}
    BY ListAssumption
  <2> QED BY <1>1, <2>1 DEF AnsweredSoFar
<1> QED BY <1>1, <1>2, <1>3, <1>4 DEF RInv

LEMMA RStarts == HarnessInit => RInv
  BY HarnessStarts DEF RInv, HarnessInit

LEMMA RStep ==
  ASSUME RInv, [HarnessNext]_harnessVars
  PROVE  RInv'
<1>1. HInv /\ HInv' /\ now \in Int
  BY HarnessStep, RequestAssumption DEF RInv, HInv, Clocks
<1>2. ASSUME NEW which \in Arms, StartRun(which) PROVE RInv'
  BY <1>1, <1>2 DEF RInv, StartRun
<1>3. CASE Attempt \/ Delete
  <2>1. UNCHANGED <<vars, scenario, results, honoured, arm, minted>>
    BY <1>1, <1>3, AttemptStands
  <2>2. \/ stage = "insert" /\ stage' = "read"
        \/ stage = "delete" /\ stage' = "judge"
    BY <1>3 DEF Attempt, Delete
  <2> QED BY <1>1, <2>1, <2>2, ResultsUntouched DEF vars
<1>4. CASE Conclude
  BY <1>1, <1>4 DEF Conclude, RInv
<1>5. CASE Tick /\ UNCHANGED harness
  <2>1. now' = now + 1 /\ UNCHANGED <<stage, scenario, results, honoured, arm, minted>>
    BY <1>5 DEF Tick, harness
  <2>2. now' \in Int /\ now <= now'
    BY <1>1, <2>1
  <2> QED BY <1>1, <2>1, <2>2, ResultsUntouched
<1>6. CASE UNCHANGED harnessVars
  <2>1. UNCHANGED <<now, stage, scenario, results, honoured, arm, minted>>
    BY <1>6 DEF harnessVars, harness, vars
  <2> QED BY <1>1, <2>1, ResultsUntouched
<1> QED BY <1>2, <1>3, <1>4, <1>5, <1>6, EvaluateAnswers, ReadAnswers DEF HarnessNext

\* Whatever ran before, what a scenario is answered is what the fixture's
\* authority is shown, or a refusal that the list or the clock accounts for.
THEOREM ResultsFollowFixture == HarnessSpec => []RInv
  BY RStarts, RStep, PTL DEF HarnessSpec

\* A refusal is never an accident of what ran before (framework.py: "a denial is
\* not automatically a pass").
THEOREM RefusalsMeant == HarnessSpec => []RefusalsAreMeant
<1>1. ASSUME RInv, stage = "judge"
      PROVE  /\ scenario.setup.kind \notin {"none", "expire_grant"} => honoured
             /\ ~scenario.must_deny => \A i \in DOMAIN results :
                  results[i].decision = "deny" => TokenAt(scenario, now).exp <= now
  <2>1. /\ HInv /\ WasHonoured /\ results \in Seq(Returned) /\ (Failed \/ AnsweredSoFar)
        /\ scenario.must_deny \in BOOLEAN
    BY <1>1, Listed DEF RInv
  <2>2. ASSUME scenario.must_deny = FALSE, NEW i \in DOMAIN results,
               results[i].decision = "deny"
        PROVE  TokenAt(scenario, now).exp <= now
    <3>1. ~Failed
      <4>1. <<Failure>>[1].decision = "error" /\ DOMAIN <<Failure>> = {1}
        BY DEF Failure, Nothing
      <4> QED BY <2>2, <4>1 DEF Failed
    <3>2. ResultStands(i)
      BY <2>1, <2>2, <3>1 DEF AnsweredSoFar
    <3>3. results[i] # Due(i)
      BY <2>2 DEF Due, Delivered, Answering
    <3> QED BY <2>2, <3>2, <3>3 DEF ResultStands
  <2> QED BY <2>1, <2>2 DEF WasHonoured
<1>2. RInv => RefusalsAreMeant
  BY <1>1 DEF RefusalsAreMeant
<1> QED BY <1>2, ResultsFollowFixture, PTL

-----------------------------------------------------------------------------
\* What evaluate can hold against one result.
Innocent(s, r) ==
  /\ r.ids \cap s.forbidden = {} /\ r.shown \cap s.secrets = {}
  /\ s.check = "order" => r.order = {}
  /\ s.check = "partition" => r.ids = {}
  /\ s.check = "number" => r.ids \subseteq {s.allowed}
  /\ s.must_deny = TRUE => ~WasAllowed(r)

LEMMA InnocentPasses ==
  ASSUME NEW s, NEW rs, s.check \in {"none", "order", "partition", "number"},
         s.must_deny \in BOOLEAN, DOMAIN rs = 1 .. Len(rs),
         \A i \in DOMAIN rs : Innocent(s, rs[i])
  PROVE  ~Verdict(s, rs)
<1>1. AllIds(rs) \cap s.forbidden = {} /\ AllShown(rs) \cap s.secrets = {}
  BY DEF AllIds, AllShown, Innocent
<1>2. ~CustomCheck(s, rs)
  <2>1. s.check = "none" => ~CustomCheck(s, rs)
    BY DEF CustomCheck
  <2>2. s.check = "order" => ~CustomCheck(s, rs)
    <3>1. s.check = "order" /\ Len(rs) = 2 => rs[1].order = {} /\ rs[2].order = {}
      <4>1. Len(rs) = 2 => 1 \in DOMAIN rs /\ 2 \in DOMAIN rs
        OBVIOUS
      <4> QED BY <4>1 DEF Innocent
    <3> QED BY <3>1 DEF CustomCheck, OrderLeaks
  <2>3. s.check = "partition" => ~CustomCheck(s, rs)
    BY DEF CustomCheck, PredicateLeaks, Innocent
  <2>4. s.check = "number" => ~CustomCheck(s, rs)
    BY DEF CustomCheck, AggCheck, AllIds, Innocent
  <2> QED BY <2>1, <2>2, <2>3, <2>4
<1> QED BY <1>1, <1>2 DEF Verdict, Innocent

LEMMA NothingInnocent ==
  ASSUME NEW s, NEW r, r \in {Refusal, Failure}
  PROVE  Innocent(s, r)
  BY DEF Innocent, Refusal, Failure, Nothing, WasAllowed

\* In the guarded view a masked cost cannot be compared with anything.
LEMMA MaskedCost ==
  ASSUME NEW a, "cost" \notin a.allow
  PROVE  Comparable(Source("rls", a)) = {}
  BY DEF Comparable, Source

\* The sum and the maximum of no values.
LEMMA NoValues ==
  ASSUME NEW src, Comparable(src) = {}
  PROVE  Aggregate("sum", src) = 0 /\ Aggregate("max", src) = 0
<1>1. Aggregate("sum", src) = 0
  <2> DEFINE Step(f) == [s \in SUBSET {} |->
                IF s = {} THEN 0
                ELSE src[CHOOSE x \in s : TRUE] + f[s \ {CHOOSE x \in s : TRUE}]]
             iter == CHOOSE f : f = Step(f)
             zero == [s \in SUBSET {} |-> 0]
  <2>1. zero = Step(zero)
    OBVIOUS
  <2>2. iter = Step(iter)
    BY <2>1
  <2>3. iter[{}] = 0
    BY <2>2
  <2>4. Aggregate("sum", src) = iter[{}]
    BY DEF Aggregate, Sets!MapThenSumSet, Sets!MapThenFoldSet
  <2> QED BY <2>3, <2>4
<1>2. Aggregate("max", src) = 0
  <2>1. Aggregate("max", src) = Sets!Max({0})
    BY DEF Aggregate
  <2> QED BY <2>1 DEF Sets!Max
<1> QED BY <1>1, <1>2

\* A list holds only rows that the query ranges over.
LEMMA ListsWithin ==
  ASSUME NEW src, NEW seen, NEW q, q.shape \in ListShapes
  PROVE  FoundIds(src, seen, q) \subseteq DOMAIN src
  BY DEF FoundIds, ListShapes, Comparable

\* What is delivered to a fair scenario is innocent: always in the database arm,
\* and in the application arm when the query does not compute with the cost.
LEMMA DeliveredInnocent ==
  ASSUME NEW s, NEW which \in Arms, IsFair(s), s.must_deny = FALSE,
         SeedAuthority(s.claims) # NULL, NEW i \in DOMAIN s.queries,
         s.queries[i].shape \in ListShapes \cup {"count", "sum", "max"},
         which = "rls" \/ s.queries[i].shape \notin HiddenShapes
  PROVE  Innocent(s, Delivered(which, s, SeedAuthority(s.claims), s.queries[i]))
<1> DEFINE a == SeedAuthority(s.claims)
           q == s.queries[i]
           src == Source(which, a)
           seen == SeenAgain(which, a)
           ids == FoundIds(src, seen, q)
           order == FoundOrder(src, q)
           r == Delivered(which, s, a, q)
<1>1. /\ r.decision = "allow" /\ r.ids = ids /\ r.order = order
      /\ r.shown = ids \X (ViewColumns(s.cols, a) \cap Caps)
  BY DEF Delivered, Answering, AnswerIds, AnswerOrder
<1>2. /\ \A x \in s.secrets : x[2] \notin a.allow
      /\ \/ s.forbidden = {}
         \/ q.shape \in ListShapes /\ s.forbidden \cap VisibleRows(a) = {}
         \/ q.shape = "exists" /\ q.arg \notin VisibleRows(a)
      /\ s.check = "partition" => q.shape = "above"
      /\ s.check = "number" =>
           \/ q.shape = "count" /\ s.allowed = Cardinality(VisibleRows(a))
           \/ q.shape \in {"sum", "max"} /\ s.allowed = 0 /\ "cost" \notin a.allow
      /\ s.check \in {"order", "partition"} => "cost" \notin a.allow
  BY DEF IsFair
<1>3. DOMAIN src = VisibleRows(a)
  BY SameAdmission DEF Source
<1>4. which = "rls" /\ "cost" \notin a.allow => Comparable(src) = {}
  BY MaskedCost
<1>5. q.arg \notin VisibleRows(a) => q.arg \notin seen
  BY DEF SeenAgain
<1>6. which = "rls" \/ q.shape \notin HiddenShapes
  OBVIOUS
<1> HIDE DEF a, q, src, seen, r
<1>7. r.ids \cap s.forbidden = {}
  <2>1. q.shape \in ListShapes => ids \subseteq VisibleRows(a)
    BY <1>3, ListsWithin
  <2>2. q.shape = "exists" /\ q.arg \notin VisibleRows(a) => ids = {}
    BY <1>5 DEF FoundIds
  <2> QED BY <1>1, <1>2, <2>1, <2>2
<1>8. r.shown \cap s.secrets = {}
  BY <1>1, <1>2 DEF ViewColumns
<1>9. s.check = "order" => r.order = {}
  BY <1>1, <1>2, <1>4, <1>6 DEF FoundOrder, HiddenShapes
<1>10. s.check = "partition" => r.ids = {}
  BY <1>1, <1>2, <1>4, <1>6 DEF FoundIds, HiddenShapes
<1>11. s.check = "number" => r.ids \subseteq {s.allowed}
  <2>1. q.shape \in {"count", "sum", "max"} => ids = {Aggregate(q.shape, src)}
    BY DEF FoundIds
  <2>2. Aggregate("count", src) = Cardinality(VisibleRows(a))
    BY <1>3 DEF Aggregate
  <2>3. Comparable(src) = {} => Aggregate("sum", src) = 0 /\ Aggregate("max", src) = 0
    BY NoValues
  <2> QED BY <1>1, <1>2, <1>4, <1>6, <2>1, <2>2, <2>3 DEF HiddenShapes
<1>12. Innocent(s, r)
  BY <1>7, <1>8, <1>9, <1>10, <1>11 DEF Innocent
<1> QED BY <1>12 DEF r, a, q

\* The authority of a legitimate scenario exists.
LEMMA SeedAuthorityTyped ==
  ASSUME HInv, Quiet, NEW s \in Scenarios, s.claims # NULL, s.signed = TRUE, Lasting(s.claims)
  PROVE  SeedAuthority(s.claims) # NULL
<1> DEFINE c == TokenAt(s, now)
<1>1. /\ c \in Credential /\ c.sub = s.claims.sub /\ c.grant_id = s.claims.grant_id
      /\ c.delegation_id = s.claims.delegation_id /\ c.signed = TRUE
  BY TokenTyped
<1> HIDE DEF c
<1>2. SeedAuthority(s.claims) \in Authorization
  BY <1>1, HonouredAtRest
<1> QED BY <1>2, NullAssumption

\* A scenario under way whose results are all innocent.
LEMMA ResultInnocent ==
  ASSUME RInv, stage # "idle", arm = "rls" \/ ~ReadsHidden(scenario), NEW i \in DOMAIN results
  PROVE  Innocent(scenario, results[i])
<1>1. /\ HInv /\ arm \in Arms /\ results \in Seq(Returned) /\ (Failed \/ AnsweredSoFar)
      /\ scenario.must_deny \in BOOLEAN
  BY Listed DEF RInv, HInv, Clocks
<1>2. CASE Failed
  BY <1>2, NothingInnocent DEF Failed
<1>3. CASE AnsweredSoFar
  <2>1. ResultStands(i) /\ i \in DOMAIN scenario.queries
    <3>1. i \in 1 .. Len(results) /\ Len(results) \in Nat
      BY <1>1
    <3>2. DOMAIN scenario.queries = 1 .. Len(scenario.queries)
          /\ Len(scenario.queries) \in Nat
      BY <1>1, Listed
    <3> QED BY <1>3, <3>1, <3>2 DEF AnsweredSoFar
  <2>2. CASE results[i] = Due(i) /\ scenario.must_deny = FALSE
    <3>1. /\ scenario \in Scenarios /\ IsFair(scenario) /\ Quiet
          /\ scenario.claims # NULL /\ scenario.signed = TRUE /\ Lasting(scenario.claims)
      BY <1>1, <2>2, Listed
    <3>2. SeedAuthority(scenario.claims) # NULL
      BY <1>1, <3>1, SeedAuthorityTyped
    <3>3. /\ scenario.queries[i].shape \in ListShapes \cup {"count", "sum", "max"}
          /\ arm = "rls" \/ scenario.queries[i].shape \notin HiddenShapes
      BY <2>1, <3>1, ListAssumption DEF ReadsHidden
    <3>4. Innocent(scenario, Due(i))
      BY <1>1, <2>1, <2>2, <3>1, <3>2, <3>3, DeliveredInnocent DEF Due
    <3> QED BY <2>2, <3>4
  <2> QED BY <2>1, <2>2, NothingInnocent DEF ResultStands
<1> QED BY <1>1, <1>2, <1>3

LEMMA NotBypassed ==
  ASSUME RInv, stage # "idle", arm = "rls" \/ ~ReadsHidden(scenario)
  PROVE  ~Bypassed
<1>1. /\ DOMAIN results = 1 .. Len(results) /\ scenario.must_deny \in BOOLEAN
      /\ scenario.check \in {"none", "order", "partition", "number"}
  BY Listed, ListAssumption DEF RInv
<1>2. \A i \in DOMAIN results : Innocent(scenario, results[i])
  BY ResultInnocent
<1> QED BY <1>1, <1>2, InnocentPasses DEF Bypassed

\* No scenario gets from the database arm what its authority does not show,
\* whatever ran before it (run_suite.py, "zero bypasses").
THEOREM GuardedArm == HarnessSpec => []GuardedArmHolds
<1>1. RInv => GuardedArmHolds
  BY NotBypassed DEF GuardedArmHolds
<1> QED BY <1>1, ResultsFollowFixture, PTL

\* A scenario that computes with the cost, each read answered by the application
\* arm, has been answered from the table itself, and its check notices.
LEMMA AppArmTells ==
  ASSUME RInv, stage = "judge", arm = "appfilter", ReadsHidden(scenario),
         \A i \in DOMAIN results : WasAllowed(results[i])
  PROVE  Bypassed
<1> DEFINE n == Len(scenario.queries)
           table == [i \in DOMAIN scenario.queries |-> TableAnswer(scenario, scenario.queries[i])]
<1>1. /\ HInv /\ results \in Seq(Returned) /\ (Failed \/ AnsweredSoFar)
      /\ scenario.must_deny \in BOOLEAN
      /\ n \in Nat \ {0} /\ DOMAIN scenario.queries = 1 .. n
  BY Listed DEF RInv
<1>2. ~WasAllowed(Refusal) /\ ~WasAllowed(Failure)
  BY DEF WasAllowed, Refusal, Failure, Nothing
<1>3. ~Failed
  <2>1. Failed => results[1] = Failure /\ 1 \in DOMAIN results
    BY DEF Failed
  <2> QED BY <1>2, <2>1
<1>4. DOMAIN results = 1 .. n /\ results = [i \in 1 .. n |-> results[i]]
  BY <1>1, <1>3 DEF AnsweredSoFar
<1>5. ASSUME NEW i \in 1 .. n
      PROVE  results[i] = Due(i) /\ scenario.must_deny = FALSE
  BY <1>1, <1>2, <1>3, <1>4 DEF AnsweredSoFar, ResultStands
<1>6. /\ scenario \in Scenarios /\ Quiet /\ Lasting(scenario.claims)
      /\ scenario.claims # NULL /\ scenario.signed = TRUE /\ IsTelling(scenario)
  <2>1. scenario.must_deny = FALSE
    <3>1. 1 \in 1 .. n
      BY <1>1
    <3> QED BY <1>5, <3>1
  <2> QED BY <1>1, <2>1, Listed
<1>7. SeedAuthority(scenario.claims) # NULL
  BY <1>1, <1>6, SeedAuthorityTyped
<1>8. ASSUME NEW i \in 1 .. n
      PROVE  Due(i) = TableAnswer(scenario, scenario.queries[i])
  <2> DEFINE a == SeedAuthority(scenario.claims)
             q == scenario.queries[i]
  <2>1. Due(i) = Delivered("appfilter", scenario, a, q)
    BY DEF Due
  <2>2. Source("appfilter", a) = [x \in VisibleRows(a) |-> Cost[x]]
        /\ SeenAgain("appfilter", a) = {}
    BY <1>7, SameAdmission DEF Source, SeenAgain
  <2> HIDE DEF q
  <2>3. TableAnswer(scenario, q)
          = Answering(FoundIds(Source("appfilter", a), SeenAgain("appfilter", a), q),
                      ViewColumns(scenario.cols, a), FoundOrder(Source("appfilter", a), q))
    BY <2>2 DEF TableAnswer
  <2> QED BY <2>1, <2>3 DEF Delivered, AnswerIds, AnswerOrder, q
<1>9. results = table
  BY <1>1, <1>4, <1>5, <1>8
<1> QED BY <1>6, <1>9 DEF IsTelling, Bypassed, Verdict

\* The arm that masks after the query fails the scenarios that compute with a
\* masked column, and those only (tests/test_attacks.py).
THEOREM ControlArm == HarnessSpec => []ControlArmShowsMasked
<1>1. RInv => ControlArmShowsMasked
  BY NotBypassed, AppArmTells DEF ControlArmShowsMasked
<1> QED BY <1>1, ResultsFollowFixture, PTL

\* positive_control.py and the suite compare the arms: they deliver the same for
\* a query that computes with no masked column and looks for no second row the
\* caller may see.  The control arm's filter and masks, worked out again in
\* Python, are those of the policy and of the view.
THEOREM ArmsAnswerAlike ==
  ASSUME NEW s, NEW a, a # NULL, NEW q, IsPermitted("rls", q),
         q.shape \in ListShapes \cup {"count", "sum", "max"},
         q.shape \in HiddenShapes => "cost" \in a.allow,
         q.shape = "exists" => q.arg \notin VisibleRows(a)
  PROVE  /\ Delivered("appfilter", s, a, q) = Delivered("rls", s, a, q)
         /\ KeptColumns(s.cols, a) = ViewColumns(s.cols, a)
<1> DEFINE of(which) == Source(which, a)
           seen(which) == SeenAgain(which, a)
<1>1. DOMAIN of("appfilter") = DOMAIN of("rls")
  BY SameAdmission DEF Source
<1>2. "cost" \in a.allow => of("appfilter") = of("rls")
  BY SameAdmission DEF Source
<1>3. q.shape = "exists" => q.arg \notin seen("appfilter") /\ q.arg \notin seen("rls")
  BY DEF SeenAgain
<1> HIDE DEF of, seen
<1>4. ASSUME "cost" \in a.allow
      PROVE  FoundIds(of("appfilter"), seen("appfilter"), q) = FoundIds(of("rls"), seen("rls"), q)
  BY <1>2, <1>3, <1>4 DEF FoundIds
<1>5. ASSUME q.shape \notin HiddenShapes
      PROVE  /\ FoundIds(of("appfilter"), seen("appfilter"), q) = FoundIds(of("rls"), seen("rls"), q)
             /\ FoundOrder(of("appfilter"), q) = FoundOrder(of("rls"), q)
  <2>1. Aggregate("count", of("appfilter")) = Aggregate("count", of("rls"))
    BY <1>1 DEF Aggregate
  <2>2. q.shape \in {"rows", "exists", "subquery", "count"}
    BY <1>5 DEF ListShapes, HiddenShapes
  <2>3. FoundIds(of("appfilter"), seen("appfilter"), q) = FoundIds(of("rls"), seen("rls"), q)
    BY <1>1, <1>3, <2>1, <2>2 DEF FoundIds
  <2> QED BY <2>2, <2>3 DEF FoundOrder
<1>6. /\ AnswerIds("appfilter", a, q) = AnswerIds("rls", a, q)
      /\ AnswerOrder("appfilter", a, q) = AnswerOrder("rls", a, q)
  BY <1>2, <1>4, <1>5 DEF AnswerIds, AnswerOrder, of, seen
<1>7. KeptColumns(s.cols, a) = ViewColumns(s.cols, a)
  BY DEF KeptColumns, ViewColumns, ColumnSplit
<1> QED BY <1>6, <1>7 DEF Delivered
=============================================================================
