------------------------------- MODULE Harness --------------------------------
(***************************************************************************)
(* The repository's own check of the portal: framework.evaluate puts one   *)
(* scenario after another to an arm of it, run_arm builds the schema       *)
(* before and runs the positive controls.  A scenario may change the       *)
(* tables first, over an administrator's connection, and should change     *)
(* them back; the next one runs on what it leaves.                         *)
(*                                                                         *)
(* run_arm evaluates a list, in order, on one schema; the tests evaluate   *)
(* one scenario at a time on a new schema, with the tokens of a list made  *)
(* long before.  Here scenarios come in any order and the schema is built  *)
(* again between any two.                                                  *)
(***************************************************************************)
EXTENDS Oracle, Answers, Sequences

CONSTANTS
  Scenarios,        \* the list of all_attacks()
  Controls,         \* CASES of positive_control.py
  SeedGrants,       \* the rows of seed.sql, expiries as lifetimes
  SeedDelegations,
  SeedAudit,
  TTL               \* how long a minted credential lasts

VARIABLES
  arm,       \* the arm under test
  minted,    \* when the list, and the tokens made with it, were made
  stage,
  scenario,  \* the one being evaluated, NULL between two
  honoured,  \* history: its request was honoured before its set-up
  results    \* what its reads have returned

harness == <<arm, minted, stage, scenario, honoured, results>>
harnessVars == <<vars, harness>>

Started(table, t) ==
  [id \in DOMAIN table |-> [table[id] EXCEPT !.expires_at = t + @]]

\* Mutant: every scenario uses a token made with the list.
TokenOfList(s, t) ==
  IF s.claims = NULL THEN NULL
  ELSE [sub |-> s.claims.sub, grant_id |-> s.claims.grant_id,
        delegation_id |-> s.claims.delegation_id, signed |-> s.signed,
        exp |-> TTL + minted]

\* Most scenarios mint the token as they run; some use one made with the list.
TokenAt(s, t) ==
  IF s.claims = NULL THEN NULL
  ELSE [sub |-> s.claims.sub, grant_id |-> s.claims.grant_id,
        delegation_id |-> s.claims.delegation_id, signed |-> s.signed,
        exp |-> TTL + IF s.early THEN minted ELSE t]

Build ==
  /\ grants' = Started(SeedGrants, now)
  /\ delegations' = Started(SeedDelegations, now)
  /\ disabled' = {}
  /\ audit' = SeedAudit
  /\ UNCHANGED now

HarnessInit ==
  /\ grants = Started(SeedGrants, 0)
  /\ delegations = Started(SeedDelegations, 0)
  /\ disabled = {}
  /\ audit = SeedAudit
  /\ now = 0
  /\ arm \in Arms
  /\ minted = 0
  /\ stage = "idle"
  /\ scenario = NULL
  /\ honoured = FALSE
  /\ results = <<>>
-----------------------------------------------------------------------------
\* init_schema, before a run of an arm, which makes a new list, or by the
\* fixture of a test, which does not.
StartRun(which) ==
  /\ stage = "idle"
  /\ Build
  /\ arm' = which
  /\ minted' \in {minted, now}
  /\ UNCHANGED <<stage, scenario, honoured, results>>

\* attack.setup(): one statement, or none.
SetUp(c) ==
  \/ c.kind = "none" /\ UNCHANGED vars
  \/ c.kind = "expire_grant" /\ SetGrantExpiry(c.id, now - 1)
  \/ c.kind = "revoke_grant" /\ RevokeGrant(c.id, grants[c.id].approved_by)
  \/ c.kind = "revoke_delegation" /\ RevokeDelegation(c.id, delegations[c.id].delegator)
  \/ c.kind = "disable" /\ DisablePrincipal(c.id)
  \/ c.kind = "expire_delegation" /\ SetDelegationExpiry(c.id, now - 1)

Evaluate(s) ==
  /\ stage = "idle"
  /\ SetUp(s.setup)
  /\ stage' = IF s.attempt = NULL THEN "read" ELSE "insert"
  /\ scenario' = s
  /\ honoured' = (CurrentAuth(TokenAt(s, now), now) # NULL)
  /\ UNCHANGED <<arm, minted, results>>

Passes(id, row) ==
  /\ id \notin DOMAIN delegations
  /\ ReferencesExist(id, row)
  /\ MustNarrow(row)

\* The INSERT of an _attempt function; an exception is swallowed.
Attempt ==
  LET id == scenario.attempt.id
      row == RowOf(scenario.attempt.row)
  IN /\ stage = "insert"
     /\ stage' = "read"
     /\ delegations' = IF Passes(id, row) THEN Put(delegations, id, row) ELSE delegations
     /\ UNCHANGED <<grants, disabled, now, audit, arm, minted, scenario, honoured, results>>

Nothing(decision) ==
  [decision |-> decision, ids |-> {}, shown |-> {}, order |-> {}]

Answering(ids, cols, order) ==
  [decision |-> "allow", ids |-> ids, shown |-> ids \X (cols \cap Caps), order |-> order]

\* What arm which of the portal delivers for a query of scenario s.
Delivered(which, s, a, q) ==
  Answering(AnswerIds(which, a, q), ViewColumns(s.cols, a), AnswerOrder(which, a, q))

\* One read_shipments of attack.run.
Answered(q) ==
  LET a == CurrentAuth(TokenAt(scenario, now), now)
  IN IF a = NULL THEN Nothing("deny") ELSE Delivered(arm, scenario, a, q)

AfterReads == IF scenario.attempt = NULL THEN "judge" ELSE "delete"

\* An exception ends the run of the scenario and leaves no results.
Read ==
  LET q == scenario.queries[Len(results) + 1]
      raised == Answered(q).decision = "allow" /\ ~IsPermitted(arm, q)
      last == raised \/ Len(results) + 1 = Len(scenario.queries)
  IN /\ stage = "read"
     /\ results' = IF raised THEN <<Nothing("error")>> ELSE Append(results, Answered(q))
     /\ stage' = IF last THEN AfterReads ELSE "read"
     /\ UNCHANGED <<vars, arm, minted, scenario, honoured>>

\* The DELETE in the finally of an _attempt function.
Delete ==
  /\ stage = "delete"
  /\ stage' = "judge"
  /\ delegations' =
       [id \in DOMAIN delegations \ {scenario.attempt.id} |-> delegations[id]]
  /\ UNCHANGED <<grants, disabled, now, audit, arm, minted, scenario, honoured, results>>

Unrevoked(row) == [row EXCEPT !.revoked = FALSE]

RestoreGrant(id) ==
  /\ grants' = [grants EXCEPT ![id] = Unrevoked(@)]
  /\ UNCHANGED <<delegations, disabled, now, audit>>

\* Mutant: the revocation stays.
RestoreNothing(id) == UNCHANGED vars

\* Also an UPDATE that the narrowing trigger fires on.
RestoreDelegation(id) ==
  /\ MustNarrow(Unrevoked(delegations[id]))
  /\ delegations' = [delegations EXCEPT ![id] = Unrevoked(@)]
  /\ UNCHANGED <<grants, disabled, now, audit>>

\* attack.teardown(): nothing brings an expired grant back.
TearDown(c) ==
  \/ c.kind \in {"none", "expire_grant"} /\ UNCHANGED vars
  \/ c.kind = "revoke_grant" /\ RestoreGrant(c.id)
  \/ c.kind = "revoke_delegation" /\ RestoreDelegation(c.id)
  \/ c.kind = "disable" /\ EnablePrincipal(c.id)
  \/ c.kind = "expire_delegation"
     /\ SetDelegationExpiry(c.id, now + SeedDelegations[c.id].expires_at)

Conclude ==
  /\ stage = "judge"
  /\ TearDown(scenario.setup)
  /\ stage' = "idle"
  /\ scenario' = NULL
  /\ honoured' = FALSE
  /\ results' = <<>>
  /\ UNCHANGED <<arm, minted>>

HarnessNext ==
  \/ \E which \in Arms : StartRun(which)
  \/ \E s \in Scenarios : Evaluate(s)
  \/ Attempt \/ Read \/ Delete \/ Conclude
  \/ Tick /\ UNCHANGED harness

HarnessSpec == HarnessInit /\ [][HarnessNext]_harnessVars
-----------------------------------------------------------------------------
\* What evaluate makes of the results rs of a scenario s.
AllIds(rs) == UNION {rs[i].ids : i \in DOMAIN rs}
AllShown(rs) == UNION {rs[i].shown : i \in DOMAIN rs}

OrderLeaks(rs) ==
  /\ Len(rs) = 2
  /\ \A i \in DOMAIN rs : rs[i].ids # {}
  /\ rs[1].order # rs[2].order

PredicateLeaks(rs) == \E i, j \in DOMAIN rs : rs[i].ids # rs[j].ids

AggCheck(rs, allowed) == AllIds(rs) \ {allowed} # {}

CustomCheck(s, rs) ==
  CASE s.check = "none" -> FALSE
    [] s.check = "order" -> OrderLeaks(rs)
    [] s.check = "partition" -> PredicateLeaks(rs)
    [] s.check = "number" -> AggCheck(rs, s.allowed)

WasAllowed(r) == r.decision = "allow"

\* evaluate's verdict.
Verdict(s, rs) ==
  \/ AllIds(rs) \cap s.forbidden # {}
  \/ AllShown(rs) \cap s.secrets # {}
  \/ CustomCheck(s, rs)
  \/ s.must_deny /\ \E i \in DOMAIN rs : WasAllowed(rs[i])

Bypassed == Verdict(scenario, results)

ControlToken(case) ==
  [sub |-> case.sub, grant_id |-> case.grant_id,
   delegation_id |-> case.delegation_id, exp |-> now + TTL, signed |-> TRUE]

\* run_controls, one case: the answer is the oracle's, rows and masks, and a
\* column that should be visible holds something.
ControlPasses(case) ==
  LET a == CurrentAuth(ControlToken(case), now)
      expected == Expect(case.sub, case.grant_id, case.delegation_id, now)
      src == Source(arm, a)
  IN /\ expected # NULL /\ a # NULL
     /\ DOMAIN src = expected.row_ids
     /\ ColumnSplit(case.cols, a) = ViewColumns(case.cols, expected)
     /\ "cost" \in ViewColumns(case.cols, expected) /\ DOMAIN src # {}
          => Comparable(src) # {}

HiddenShapes == {"sum", "max", "ranked", "above"}

ReadsHidden(s) ==
  \E i \in DOMAIN s.queries : s.queries[i].shape \in HiddenShapes
-----------------------------------------------------------------------------
\* run_suite.py "The RLS arm is the deliverable: it must have zero bypasses":
\* whatever ran before, no scenario gets from the database arm a row, a cell, an
\* aggregate or an order that its authority does not show.
GuardedArmHolds == stage = "judge" /\ arm = "rls" => ~Bypassed

\* tests/test_attacks.py "the control arm's failure is a result": the arm that
\* masks after the query fails the scenarios that compute with a masked column,
\* each that was answered, and no other.
ControlArmShowsMasked ==
  stage = "judge" /\ arm = "appfilter" =>
    /\ Bypassed => ReadsHidden(scenario)
    /\ ReadsHidden(scenario) /\ (\A i \in DOMAIN results : WasAllowed(results[i])) => Bypassed

\* positive_control.py "legitimate requests that MUST succeed exactly": between
\* any two scenarios, in whatever order they ran and however long they took,
\* the controls get what the oracle derives from the tables.
ControlsPass == stage = "idle" => \A case \in Controls : ControlPasses(case)

\* framework.py "a denial is not automatically a pass": a scenario that changes
\* something and restores it tests a request that was honoured before the
\* change, and one whose request is legitimate is refused only when the token
\* made with the list has run out.
RefusalsAreMeant ==
  stage = "judge" =>
    /\ scenario.setup.kind \notin {"none", "expire_grant"} => honoured
    /\ ~scenario.must_deny => \A i \in DOMAIN results :
         results[i].decision = "deny" => TokenAt(scenario, now).exp <= now
-----------------------------------------------------------------------------
\* What the theorems assume of the fixture and of the list.

\* The fixture is made of rows that its triggers let pass, none revoked or over.
ASSUME FixtureAssumption ==
  /\ TTL \in Nat \ {0}
  /\ IsTable(SeedGrants, GrantIds, GrantRow)
  /\ IsTable(SeedDelegations, DelegIds, DelegRow)
  /\ \A id \in DOMAIN SeedGrants :
       SeedGrants[id].revoked = FALSE /\ SeedGrants[id].expires_at > 0
  /\ \A d \in DOMAIN SeedDelegations :
       LET row == SeedDelegations[d]
       IN /\ row.revoked = FALSE /\ row.expires_at > 0
          /\ row.grant_id \in DOMAIN SeedGrants
          /\ WithinGrant(row, SeedGrants[row.grant_id])
          /\ row.depth # 1 => /\ row.parent \in DOMAIN SeedDelegations
                              /\ WithinParent(row, SeedDelegations[row.parent])

\* The walk from d, in the fixture.
SeedHops(d) ==
  {e \in DOMAIN SeedDelegations : d \in DOMAIN SeedDelegations /\
     \A S \in SUBSET DOMAIN SeedDelegations :
       (/\ d \in S
        /\ \A h \in S : SeedDelegations[h].parent \in DOMAIN SeedDelegations
                          => SeedDelegations[h].parent \in S)
       => e \in S}

\* The fixture honours the claims for as long as the harness runs, and no
\* scenario cuts short the grant they rest on.
Lasting(c) ==
  LET g == SeedGrants[c.grant_id]
  IN /\ c.sub \in Principals /\ c.grant_id \in DOMAIN SeedGrants
     /\ g.approved_by # NULL /\ g.expires_at > MaxTime
     /\ \A s \in Scenarios : s.setup.kind = "expire_grant" => s.setup.id # c.grant_id
     /\ IF c.delegation_id = NULL THEN c.sub = g.grantee_principal
        ELSE /\ c.delegation_id \in DOMAIN SeedDelegations
             /\ SeedDelegations[c.delegation_id].delegatee = c.sub
             /\ \A h \in SeedHops(c.delegation_id) :
                  /\ SeedDelegations[h].grant_id = c.grant_id
                  /\ SeedDelegations[h].expires_at > MaxTime

\* The authority they have while it is honoured.
SeedAuthority(c) ==
  LET g == SeedGrants[c.grant_id]
      d == c.delegation_id
  IN [subject |-> c.sub, acting_for |-> g.grantee_principal,
      provider_org |-> g.provider_org, grantee_org |-> g.grantee_org,
      grant_id |-> c.grant_id, delegation_id |-> d,
      region_scope |-> {x \in g.region_scope :
                          \A h \in SeedHops(d) : x \in SeedDelegations[h].region_scope},
      max_classification |-> g.max_classification,
      allow |-> {x \in g.allow : \A h \in SeedHops(d) : x \in SeedDelegations[h].allow}]

\* A row that reaches beyond what the fixture lets its delegator hand over.
Overreaches(q) ==
  /\ q \in DelegRequest /\ q.grant_id \in DOMAIN SeedGrants
  /\ LET g == SeedGrants[q.grant_id]
         p == SeedDelegations[q.parent]
     IN \/ ~(q.region_scope \subseteq g.region_scope) \/ ~(q.allow \subseteq g.allow)
        \/ q.lifetime > g.expires_at
        \/ q.depth = 1 /\ q.delegator # g.grantee_principal
        \/ /\ q.depth # 1 /\ q.parent \in DOMAIN SeedDelegations
           /\ ~(q.region_scope \subseteq p.region_scope) \/ ~(q.allow \subseteq p.allow)

\* No token with these claims is honoured, once the change is made: it is not
\* genuine, the fixture never granted it, or the change takes away a thing it
\* rests on.
Doomed(s) ==
  LET c == s.claims
      change == s.setup
      g == SeedGrants[c.grant_id]
      hops == SeedHops(c.delegation_id)
  IN \/ c = NULL \/ s.signed = FALSE
     \/ c.grant_id \notin DOMAIN SeedGrants \/ g.approved_by = NULL
     \/ c.delegation_id = NULL /\ c.sub # g.grantee_principal
     \/ /\ c.delegation_id # NULL
        /\ \/ c.delegation_id \notin DOMAIN SeedDelegations
           \/ SeedDelegations[c.delegation_id].delegatee # c.sub
     \/ change.kind \in {"revoke_grant", "expire_grant"} /\ change.id = c.grant_id
     \/ change.kind \in {"revoke_delegation", "expire_delegation"} /\ change.id \in hops
     \/ change.kind = "disable" /\ change.id \in {c.sub, g.grantee_principal}

ListShapes == {"rows", "above", "exists", "ranked", "subquery"}

\* What a query of s finds in the table itself, unmasked.
TableAnswer(s, q) ==
  LET a == SeedAuthority(s.claims)
      table == [x \in VisibleRows(a) |-> Cost[x]]
  IN Answering(FoundIds(table, {}, q), ViewColumns(s.cols, a), FoundOrder(table, q))

\* What a scenario may not obtain lies outside the authority it presents, and
\* what its check allows is what that authority would be told.
IsFair(s) ==
  LET a == SeedAuthority(s.claims)
  IN /\ \A x \in s.secrets : x[2] \notin a.allow
     /\ \A i \in DOMAIN s.queries :
          LET q == s.queries[i]
          IN /\ \/ s.forbidden = {}
                \/ q.shape \in ListShapes /\ s.forbidden \cap VisibleRows(a) = {}
                \/ q.shape = "exists" /\ q.arg \notin VisibleRows(a)
             /\ s.check = "partition" => q.shape = "above"
             /\ s.check = "number" =>
                  \/ q.shape = "count" /\ s.allowed = Cardinality(VisibleRows(a))
                  \/ q.shape \in {"sum", "max"} /\ s.allowed = 0 /\ "cost" \notin a.allow
     /\ s.check \in {"order", "partition"} => "cost" \notin a.allow

\* Its check would notice an answer from the table itself.
IsTelling(s) == CustomCheck(s, [i \in DOMAIN s.queries |-> TableAnswer(s, s.queries[i])])

ASSUME ListAssumption ==
  /\ \A case \in Controls : Lasting(case)
  /\ \A s \in Scenarios :
       /\ {s.must_deny, s.signed, s.early} \subseteq BOOLEAN
       /\ s.check \in {"none", "order", "partition", "number"}
       /\ Len(s.queries) \in Nat \ {0} /\ DOMAIN s.queries = 1 .. Len(s.queries)
       /\ \A i \in DOMAIN s.queries :
            s.queries[i].shape \in ListShapes \cup {"count", "sum", "max"}
       /\ s.attempt # NULL =>
            /\ s.setup.kind = "none"
            /\ s.attempt.id \notin DOMAIN SeedDelegations /\ Overreaches(s.attempt.row)
       /\ s.setup.kind \notin {"none", "expire_grant"} =>
            s.claims # NULL /\ s.signed = TRUE /\ s.early = FALSE /\ Lasting(s.claims)
       /\ IF s.must_deny THEN Doomed(s)
          ELSE /\ s.setup.kind = "none" /\ s.attempt = NULL
               /\ s.claims # NULL /\ s.signed = TRUE /\ Lasting(s.claims)
               /\ IsFair(s)
               /\ ReadsHidden(s) => IsTelling(s)
=============================================================================
