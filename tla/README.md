# Formal models of the data-sharing portal

TLA+ modules for the authorization, read and audit core of this repository and
for the programs that build and measure it, the TLC configurations that check
them on small instances, and proofs checked by TLAPS. Paths below are relative to the repository root.

## The system

A provider organisation shares rows of `portal.shipment` with another. A
*grant* goes to a human analyst and works once a human of the provider approves
it; the analyst may *delegate* it to agents, who may delegate further, three
levels at most, never widening it. A *credential* is a signed claim naming its
holder, a grant and a delegation. Holding one is no authorization: PostgreSQL
verifies it and derives the authorization again, from the tables as they are
then, in every statement that reads. Each read appends a row to a hash-chained
audit trail.

| Part | Keeps | Does | Hard because | Correct when |
| --- | --- | --- | --- | --- |
| `current_auth()`, row policy, guarded view (`src/sharing/schema.sql` 296-465) | nothing | token + tables + transaction time -> authorization -> rows, masks | chain walk, boundaries of expiry, rules written once at creation and again at use | it agrees with what the tables say, for every table state that commands can reach |
| Grants (`schema.sql` 138-185, 634-673) | `data_grant` | request, approve, revoke, expire | approval ignores the grant's state | revocation and expiry are final |
| Delegations (`schema.sql` 193-284, 675-690) | `delegation` | create, revoke, expire | the trigger judges a row when it is written, the tables change later | chains narrow and can be cut |
| Principals (`cli.py` 255-278) | `disabled_at` | disable, enable | only some of a chain's members are looked up | nobody acts below someone who could not |
| Portal, application arm (`portal.py` 175-273) | a connection of its own per call | authorize in one transaction; then filter, mask, append, each committed by itself | limits are used after the transaction that found them; the caller's predicate, order and aggregate run before the masks | it answers like the database arm, whenever the query does not compute with a masked column |
| Portal, database arm (`portal.py` 90-172) | - | authorize, query, append, commit | three statements, three snapshots, one clock | nothing is served under a revoked authority, and the trail says what was served |
| Pool and transaction scope (`db.py` 63-104) | 4 connections, a setting on each | check out, bind, end, return | settings outlive statements; connections are few | identities do not leak; every call returns |
| Audit chain (`schema.sql` 470-583) | `audit_event`, its sequence, `signing_key` | append, verify, rotate | `seq` is drawn before the row is linked and before it is visible | what `audit_verify` reports has a cause |
| Audit views (`schema.sql` 596-626, `cli.py` 283-376) | - | show each org its side of the trail; explain one access from the tables | the side is derived from columns the read recorded, the explanation from tables that have changed | each side finds every answered read that is its own, and nothing of another partner's |
| Schema and key (`db.py` 107-118, `credentials.py` 42-96) | schema, `signing_key`, seed | create, plant, seed, rotate, sign | three commits, any of which may be the last; the signer's secret and the planted one may differ | half a database serves nothing, a whole one verifies, and running it again always gets there |
| Revocation benchmark (`attacks/bench_revocation.py`) | one delegation, a cache, a token | measures how long an agent keeps succeeding in three modes | calls and sleeps take any time; trials share the row they revoke | every mode keeps the bound it declares |
| Attack suite and controls (`attacks/suite.py`, `framework.py`, `positive_control.py`, `run_suite.py`) | what its set-ups change | change the tables, read, judge, restore | thirty scenarios on one schema, some with tokens made before; a refusal looks like a defence | the verdicts mean what they say, in any order |
| Oracle (`expected.py`) | - | derives the right answer on its own | two derivations of one rule | the two agree |

The commands write the tables in one autocommitted statement each. The portal
reads them in `READ COMMITTED` transactions over the pool, so commands commit
between a read's statements; reads and commands append to the same trail. The
application arm serves the same calls over an administrator's connection, and
exists to be compared with. The suite and the benchmark drive both, and undo
what they changed with `UPDATE`s of their own.

## Modules

| Module | Models | State |
| --- | --- | --- |
| `Authority` | `verify_credential`, `current_auth`, the policy | `grants`, `delegations`, `disabled` (no actions) |
| `Governance` | `portal grant`, `portal delegation`, `portal disable-principal`, the triggers and definer functions they run into | + `now`, `audit` (the trail's governance rows) |
| `Oracle` | `expected.py` | none: operators beside `Governance` |
| `Answers` | what a query ranges over and answers in either arm: policy or filter, masks, predicates, orders, aggregates | none |
| `ReadRequest` | what a call asks for, the row it leaves in the trail | `Governance` + `reads` (the trail's read rows) |
| `GuardedRead` | *abstract*: the promise of `read_shipments` | + `call` |
| `ReadPath` | `Portal("rls").read_shipments`, `authorized()`, the pool | `ReadRequest` + `req` (calls under way), `guc` (the setting of each connection) |
| `AppFilterPath` | `Portal("appfilter")` beside it, over the same tables | that of `ReadPath` |
| `AuditViews` | `viewer_org()`, the org views, `portal audit trail` and `reconstruct` | that of `ReadPath`, read only |
| `AuditChain` | the chaining trigger, `audit_verify`, key rotation, rewritten rows | `rows`, `next`, `txn`, `key` |
| `Bootstrap` | `init_schema`, crashes between its commits, rotation, tokens | `built`, `seeded`, `key`, `trail`, `init`, `env`, `tokens` |
| `RevocationBench` | `run_mode` with its three portals | `mode`, `phase`, `clock`, the cache, the delegation, the trial's figures |
| `Harness` | `evaluate`, `run_arm`, `run_controls`, over `Oracle` and `Answers` | `Governance` + `arm`, `minted`, `stage`, `scenario`, `results` |
| `Suite` | the seed and the thirty scenarios as data | |
| `GovernanceProofs`, `AuditChainProofs`, `RevocationBenchProofs`, `BootstrapProofs` | theorems about the module each is named for | |
| `ReadProofs` | theorems about both arms, over those of `GovernanceProofs` | |
| `AuditViewsProofs` | theorems about the org views and the reconstruction, over `ReadProofs` | |
| `GuardedReadProofs` | both arms implement `GuardedRead`, over `ReadProofs` | |
| `HarnessProofs` | theorems about the oracle, the two arms' answers and the harness, over `GovernanceProofs` | |
| `MCGovernance`, `MCReadPath`, `MCAuditChain` | the instances TLC checks; `Suite` is one, `Bootstrap` and `RevocationBench` need none | |
| `MCAuditViews` | the instance of `reads`: `MCReadPath` with a second partner (contoso and lena of the seed) and a grant in its name | |

What extends what:

    Authority -- Governance --------- ReadRequest -- ReadPath -- AppFilterPath, AuditViews
         \           \               /      \            |
          Answers -------------------+       GuardedRead <--+  (INSTANCE ... WITH)
         /             \
    Harness -- Oracle (over Governance)         AuditChain, Bootstrap, RevocationBench
       |
     Suite

So reads interleave with every command the instance offers, and the harness
changes the same tables the reads are judged by. `AuditChain`, `Bootstrap` and
`RevocationBench` stand alone. The first needs of a transaction only that it
draws a number, links its row and commits or rolls back; the second of a trail
only which key made each row's hash; the third of a read only what `GuardedRead`
promises.

How state and steps correspond:

- `RequestGrant`, `ApproveGrant`, `RevokeGrant`, `CreateDelegation`,
  `RevokeDelegation`, `DisablePrincipal`, `EnablePrincipal` are one command
  each, with the triggers, foreign keys and checks its statement runs into. The
  trigger `delegation_must_narrow` is `MustNarrow`; it also guards
  `RevokeDelegation`, because it fires on `UPDATE`.
- `SetGrantExpiry` and `SetDelegationExpiry` are the `UPDATE`s that the attack
  suite's set-up runs over an administrator's connection
  (`attacks/suite.py` 248-251, 414-421). `Spec` is without them,
  `MaintainedSpec` with them, and each property says which it needs.
- `Hops(d)` is the chain walk as a least closed set instead of a loop, so that
  a cycle needs no special treatment. `Walk` in `Oracle` is the oracle's loop
  itself, with its counter, as a recursive function of at most eight steps;
  `OracleAgrees` compares the two in every state.
- A read is `Submit`, `Begin` (check-out, `BEGIN`, `set_config`), `Authorize`,
  `Query`, `Append`, `Commit`, each one statement or the end of the
  transaction; `Fail` may end any of them, `PoolTimeout` the wait for a
  connection. `Authorize` and `Query` each evaluate `AuthNow` on the tables as
  they are then and on the clock of `Begin`. After `Commit` the answer may be
  lost: the row stays, the caller gets an exception.
- A call of the application arm is `Submit`, `AppBegin`, `AppAuthorize` (one
  transaction), `AppQuery` (filter and masks, under the authorization found
  before), `AppAppend` (committed by itself); `AppFail` may end any of them. An
  unknown column goes over the pool in either arm.
- An initialisation is `MakeSchema`, `PlantKey`, `Seed`, with `Crash` in
  between; what it made stays, and every new one starts from `MakeSchema`.
- A trial of the benchmark is `StartTrial`, three `WarmUp`s, `Revoke`, `Poll`
  until the agent is refused, `NextTrial`. Every call takes up to `MaxWork`
  ticks, split in any way before and after the instant it is judged at, every
  sleep up to `MaxLag` more than asked for.
- A scenario is `Evaluate` (its set-up), `Attempt` (an `INSERT` that should
  fail), one `Read` per query, `Delete`, `Conclude` (its teardown). `run_arm`
  evaluates the list in order, the tests evaluate single scenarios; the model
  takes them in any order, repeats them, and builds the schema again between
  any two, which covers both. The positive controls are a property of the state
  between two scenarios: they only read.
- An append is `Insert` (the sequence), `Chain` (the trigger) and `Commit`.

Abstractions: a timestamp tested only for `NULL` is a boolean or the name stored
with it; `allow_cost` and `allow_contact` are a set; columns are told apart by
what unlocks them; in `ReadPath` a caller's `where` is the rows it selects, in
`Answers` a query is one of seven shapes, the ones the repository uses (rows of
a list, rows above a cost, `EXISTS`, two orders, count, sum, maximum, a subquery
over the table); `limit` is left out; a token is its claims and whether its
signature matches (in `Bootstrap`, the secret that signed it); a hash is the
record of its inputs; the columns of an audit row are `body` if the hash covers
them and `parties` if not. `Suite` keeps one shipment of each kind and whole
numbers for costs; its ticks put the lifetimes in the order they have in the
code: `g-short` (2 s), a token (300 s), `d-agent2` (a day), `d-agent1` (a week),
the grants.

## Runs

All but `bench` run with deadlock checked: operators can always act, the trail
can always be edited, a scenario can always be started. The benchmark ends, so
`bench` does not.

| Run | Asks | Instance and why it is enough |
| --- | --- | --- |
| `governance` | `LeafScopeIsEffective`, `AuthorityIsChained`, `LiveIsRevocable`, `ExpiredStaysDead`, `OracleAgrees` (and `TypeOK`) | one grant, three delegation ids: the deepest chain the schema allows, with too wide, too long, too deep and self-parented requests; tokens genuine, forged, expired, and naming another's delegation; the clock reaches the expiry of grant, delegations and a token |
| `maintained` | `NeverExceedsUpstream`, `RefusedOnlyWhenCut`, `RevokedStaysDead` | expiries edited to every time, two delegations, so a hop has both an upstream and a downstream; two ticks, so an upstream expiry can be cut below that of a hop that still lives |
| `reads` | `TrailTellsDelivered`, `RevokedGetsNothing`, `RowsNeedLiveAuthority`, `IdentityIsOwn`, `TrailReconciles`, `ReconstructionNamesActors`, `BothSidesHaveTheStory`, `NoOtherStory` (and `ReadTypeOK`) | two reads over two connections: one connection used twice in turn, or two at once; a provider and two partners, with rows for anybody, for either partner and above the ceiling; an agent under the first partner's grant, its human under a grant that names the second partner as its org, each with the cost or without the key; no token, an unknown column (forged and expired tokens are in `governance` and `suite`); viewers of all three orgs, one claiming another's org, one forged; every command that can touch the stored grants and delegation, everybody disabled and enabled at any point, and one tick past the delegation's expiry |
| `arms` | `ArmsAreGuarded`, `EveryRequestEnds`, `TrailTellsDelivered`, `RevokedGetsNothing` | two calls of either arm; one pooled connection, so that one waits for the other; revocation and disabling at any point; the clock stands still |
| `chain` | `BadHasCause`, `SerialTamperLocated` (and `TypeOK`) | three writers, three numbers: two transactions can be open below a third; two keys, two bodies, two of what the hash does not cover |
| `bench` | `WithinDeclaredBound`, `StaleReadsBounded`, `AgentWorksBeforeRevoke` (and `TypeOK`) | all three modes, two trials each; interval, cache and token lifetimes in small numbers that are no multiples of each other; every duration up to the bounds; the short token outlives a quick warm-up and not a slow one |
| `bootstrap` | `BuiltTrailVerifies`, `HalfBuiltServesNothing`, `EventuallyKeyed` | two secrets, two crashes, room in the trail for the seed and three requests before or after it |
| `suite` | `GuardedArmHolds`, `ControlArmShowsMasked`, `ControlsPass`, `RefusalsAreMeant` | the seeded principals, grants and delegations and all thirty scenarios, both arms; two ticks, past `g-short` and past the tokens made with the list |

What they show. Narrowing at creation and intersecting at use agree: the scope
computed over a chain is always its leaf's own. An honoured chain is a line of
hand-overs from a human whose grant a human of the provider approved. While an
agent's credential is honoured its human's would be, and would show at least as
much. A hop of it can be revoked as long as no expiry right above it was cut
below its own. Revocation is final, and effective on the next statement: no rows are read
under an authority already revoked, even inside a transaction that was
authorized before. No call ever runs under an identity another call left on the
connection. Every delivered result is in the trail as it was delivered,
although it was read by a later statement than the one whose authorization is
recorded; each org finds in its view every answered read of its rows or under
a grant to it, and no other, and so never a row reserved for another partner;
and what an investigator derives later from the tables
names the people the row names. `audit_verify` reports exactly the rows that
were rewritten in a hashed column, that an earlier key signed, or that were
linked past a lower number not yet committed; gaps from rollbacks are not
reported, nor is a rewrite of a column the hash does not cover.

The refinement. `GuardedRead` says what a call is worth to its caller: it is
judged once, on the tables of one instant and the clock of its arrival, and then
given *all* that authority shows of what it asked for, or nothing if the
authority has been withdrawn since, never a part; its row of the trail comes
with its end. `ArmsAreGuarded` is that specification under the mapping `CallOf`,
and both arms implement it: the database arm, although its second statement
sees other tables than its first (scopes never change, so what is not withdrawn
is whole), and the control arm, although it works from limits a transaction old.
What separates the arms is not this but where a query runs: `suite` shows that
scenarios get nothing from the database arm, and that the control arm fails
exactly those which compute with a masked column.

The harness. No order of scenarios, however interrupted by new schemas and slow
ones, makes a teardown fail or leaves a positive control unanswered. A refusal
counts as a defence there, and the side-channel family presents tokens made with
the list; `RefusalsAreMeant` says exactly when that happens: once those tokens
have run out, and at no other time.

The benchmark. With calls and sleeps that take at most two intervals together
(`TimingAssumption`, which the declared bounds take for granted), database
checks stop the agent at once, the cache within its lifetime, the token within
its own; a cache entry renewed on a hit would not. The token of the third mode
lives for half a second and a slow warm-up may outlast it, so the assertion
`agent could not work pre-revoke` can fail: `AgentWorksBeforeRevoke` says that it
does only when the trial's own token has run out, and never because of what an
earlier trial or mode left.

Bounds. `MaxTime` bounds the clock and `MaxSeq` the sequence; `MaxRows` and
`MaxCrashes` the requests and crashes of `Bootstrap`; `MaxWork`, `MaxLag` and
`Trials` the benchmark. Each appears in a guard or a range. The other bounds
are the sizes of the constant sets. The clock's bound stops `Tick` only:
commands, reads and scenarios go on. Past `MaxRows` requests stop, and
initialisations do not.

Symmetry: connections and requests (`reads`), writers, bodies, parties and keys
(`chain`); no property names one. Runs with liveness or a refinement use none.

Fairness. `ReadSpec` and `ArmsSpec` have weak fairness of the next statement of
each call: a statement sent to a running server is answered, and the pool gives
a free connection to a call that waits. Callers, commands and the clock owe
nothing, and failures may happen but need not. A call takes only finitely many
statements, so one that waits finds a connection free for good in the end; weak
fairness is enough. `Bootstrap` has weak fairness of `Initialise` while one is
under way or there is no key: a process that is not killed goes on, and an
operator who finds portal and trail without a key initialises again, as
`RUNBOOK.md` 8 says. Crashes are bounded, so one initialisation gets through.
Governance, chain, benchmark and suite state safety only, and assume nothing.

### Where code and text disagree

Each of these runs checks one sentence of the repository and finds a behaviour
of the code that contradicts it.

| Run | Sentence | Behaviour |
| --- | --- | --- |
| `disabled` | `schema.sql` 407 "a disabled principal anywhere in the chain kills it" | agents in the middle are not looked up |
| `selfparent` | `schema.sql` 240 "must chain to a parent held by the delegator" | a row that names itself as parent passes, is never honoured, and can never be revoked |
| `inflight` | `bench_revocation.py` 244 "it finishes and returns its rows" | the query authorizes again and returns none |
| `chain_break` | `RUNBOOK.md` 152 "a break means either ..." | two overlapping appends suffice |

Seen while modelling, and not run on their own:

- The narrowing trigger (`schema.sql` 283) fires on the `UPDATE` of a revocation
  as well. Once an upstream expiry was shortened by an `UPDATE` below the row's
  own, it refuses to revoke the row, which stays honoured until the shorter
  expiry, against `cli.py` 247 "Kills every credential below it in the chain
  too". `LiveIsRevocable` holds of `Spec` (`governance`) and not of
  `MaintainedSpec`, of which `RefusedOnlyWhenCut` (`maintained`) says exactly
  when a revocation is refused.
- Nothing ties a grantee to the grantee org (`schema.sql` 141-144, `cli.py`
  157-167), so a grant made out to one partner's analyst in another partner's
  name shows the analyst's reads to the other, against `schema.sql` 588-589 "what
  its own people and agents did". `BothSidesHaveTheStory` and `NoOtherStory`
  speak of the org the grant names, and `reads` has such a grant.
- `chain`, `provider_org` and `grantee_org` are not in the hash (`schema.sql`
  510, against `README.md` 166 on rewritten rows), although the org views select
  by the last two. `BadHasCause` counts `body` alone.
- A refused read is in no org's view (`schema.sql` 619, 626); `RUNBOOK.md` 217
  and `audit_reconstruction.py` 82 read as if the provider saw it.
- A read whose query or append fails leaves no audit row (`README.md` 152 "Every
  request ... appends"); `row_ids` is empty when the caller does not select
  `shipment_id` (`schema.sql` 489); an aggregate is recorded with its value as
  the row id, a count of one and the base columns as served (`portal.py` 301).
- Rows appended between `schema.sql` and the key verify until the key comes and
  not after (`BuiltTrailVerifies` has to except them). After a rotation the
  break is reported at the first row of the *old* key (`RUNBOOK.md` 261 says the
  new one).
- `expired_grant` may find `g-short` already expired, two seconds after the seed,
  and then its set-up changes nothing that matters (`RefusalsAreMeant` has to
  except it). The side-channel checks take a refusal for a defence
  (`suite.py` 97).

## Proofs

Theorems hold for all values of the constants, of any size, under the
assumptions that the modules name; TLC evaluates each of them on the instances:
the directory maps principals to orgs and kinds, requests and tokens have their
types, `NULL` is none of the ids, rows or tokens, the bounds are naturals.
Five say more than types. `SeedAssumption`: the tables that reads start on have
their types and foreign keys. `TimingAssumption`: a sleep and two calls of the
benchmark take at most two intervals, and `MAX_WAIT_S` is longer than any bound
a mode declares. `BootAssumption`: the seed appends at least one row.
The other two are in `Harness`, and are what `seed.sql`, `suite.py` and
`positive_control.py` promise. `FixtureAssumption`: the seeded rows are such as
the triggers let pass, none revoked or over. `ListAssumption`: what a control or a
scenario's legitimate request rests on lasts longer than the harness runs (in the
code a day and more against seconds; `MaxTime` bounds the model's clock); a
scenario that must be refused is doomed by its token, the fixture or its own
change; an `INSERT` that it tries reaches beyond the fixture; what a legitimate
one may not obtain lies outside its authority (`IsFair`), and its check would
notice the answer of an unmasked table (`IsTelling`). They speak of the data
alone, and say nothing of a state, an arm or an answer of the portal. `Suite`
satisfies both.

- `GovernanceProofs`. The invariant `IInv` says of each *stored* row what the
  triggers established when it was written: a delegation is within its grant
  (`WithinGrant`) and its parent (`WithinParent`), references stay valid, an
  approved grant has its approver's event in the trail. It is needed because
  the properties speak of honoured chains, and what makes them true is older
  than the credential. It leaves expiries out, so it holds of `MaintainedSpec`
  too, and `SpecIsMaintained` carries it to `Spec`. From it: `TypeCorrect`;
  `LeafScope` (`LeafScopeIsEffective`: the rows that are no narrower than `d`
  are closed under parents, so they hold the whole walk); `ChainedAuthority`
  (`AuthorityIsChained`: a walk of at most three levels that reaches a root
  passes no row that is its own parent); `RevocationIsFinal`
  (`RevokedStaysDead`: rows are never removed, a walk never changes, a revoked
  hop stays on it); `NothingBeyondUpstream` (`NeverExceedsUpstream`: every hop
  has its own walk, inside the walk, to the same kind of root, and fewer hops
  intersect to more); `RefusalIsCut` (`RefusedOnlyWhenCut`: of what the trigger
  asks on the `UPDATE`, `IInv` keeps all but the expiries). Two need that nobody
  edits an expiry, and are of `Spec`: `ExpiryIsFinal` (`ExpiredStaysDead`) and
  `Revocable` (`LiveIsRevocable`, from the further invariant `Outlived`: no
  delegation outlives its grant or parent).
- `AuditChainProofs`. `BadHasCause` speaks of committed rows; its invariant
  links the rows in flight as well, and says that what a row did not see it
  recorded as missed. From it: `TypeCorrect`, `BreaksHaveCauses`
  (`BadHasCause`), `TamperLocated` (`SerialTamperLocated`), and, with the
  invariant that nothing is missed when transactions take turns,
  `SerialLocates`: then the chain does not fork at all.
- `ReadProofs`. One invariant, `AInv`, for the two arms together: a call's stage
  determines its other fields (`Shaped`); what authorized it still has its
  grounds, stored and unchanged in scope, and what was revoked when it began is
  revoked (`Based`); a connection is out to one call and carries that call's
  credential (`PoolOK`); the trail holds the rows of ended calls and of no
  others (`TrailOK`). `Based` is needed because commands commit between the
  statements: the rows come from a later authorization than the one recorded,
  and are the same because rows of the tables never leave and scopes never
  change. From it: `TrailIsTrue`, `RevocationBites`, `OwnIdentity`,
  `Reconciles`, each with the same of both arms, and of the database arm
  `RowsUnderLiveAuthority` and `ReadsTyped`. `RowsNeedLiveAuthority` is not true
  of the control arm, which reads under limits that may have been withdrawn.
- `GuardedReadProofs`. `ArmsKeepThePromise`, `DatabaseArmKeepsThePromise`
  (`ArmsAreGuarded`). `Submit` maps to `Make`, `Begin` and `AppBegin` to
  `Arrive`, the authorizing statement to `Judge`, the query to `ServeAll` or
  `ServeNone`, the end of a call to `Finish` or `Abort`, the pool's `Append` to
  a stutter, commands to themselves. The first part of the module only shows
  that the abstract module's operators, which `INSTANCE` copies, are those of
  the detailed one.
- `AuditViewsProofs`, of the database arm and of both. `NothingOfOthers`
  (`NoOtherStory`) and `BothFindTheirOwn` (`BothSidesHaveTheStory`) read a row's
  orgs back to the grant it was answered by, and its rows to the policy. They
  ask nothing of whom grants are made out to, and so say of the consumer's side
  that it is that of the org the grant names, whose people those need not be.
  `ReconstructionHolds` (`ReconstructionNamesActors`) carries
  `IInv` along with the reads, from tables that satisfy it when they start, as
  those do that the commands made (`Invariance`).
- `HarnessProofs`, in four parts.
  *The oracle.* `OracleAgreement` (`OracleAgrees`, of `MaintainedSpec`). The
  loop's recursive function is met by the one that writes its nine values out
  (`WalkSteps`); by `IInv` a walk that reaches a root does so within three
  steps, so the loop's values are `Hops` (`SameWalk`), and the two derivations
  agree clause by clause, all but where the oracle looks up principals in the
  middle of a chain.
  *The fixture.* `HInv` says that the tables hold the fixture, but for the change
  of the scenario under way; an expiry lies between that of the fixture built at
  the start and that of one built now, because teardowns renew it. It is needed
  because scenarios come in any order: what makes one work is what all those
  before it left. `FixtureSurvives` proves it inductive, teardowns and refused
  `INSERT`s included, and `ControlsServed` (`ControlsPass`) follows with
  `OracleAgreement`'s lemmas: `HarnessSpec` edits tables as no command does, so
  the invariant of the commands is derived again from `HInv` while nothing is
  changed (`RestIsSound`).
  *The results.* `RInv` adds that every result so far is what the fixture's
  authority is shown, or a refusal with its reason
  (`ResultsFollowFixture`). From it: `RefusalsMeant` (`RefusalsAreMeant`),
  `GuardedArm` (`GuardedArmHolds`: no list, order, aggregate or cell of the
  guarded view depends on a masked cost, and the sum and maximum of no value
  are 0), `ControlArm` (`ControlArmShowsMasked`).
  *The arms.* `ArmsAnswerAlike`: for one authority both arms deliver the same
  rows, cells and order, unless the query computes with a masked column or looks
  for a second row that the caller may see, or the database arm does not permit
  it.
- `RevocationBenchProofs`. Warming up, the cache was filled at least one sleep
  ago (`Warming`); polling, nothing trusted is newer than the revocation and
  every stale answer took the clock an interval further (`Polling`). From it:
  `BoundsHold` (`WithinDeclaredBound`), `StaleBounded` (`StaleReadsBounded`),
  `WarmUpFailsByItself` (`AgentWorksBeforeRevoke`), `BenchTyped`. The figures of
  stale reads are stated from the revocation on.
- `BootstrapProofs`. The stage of an initialisation tells whether there is a key
  (`Shape`); unless a request came before the key or the key was replaced, every
  row of the trail is the key's own (`OneKey`); a seeded database has its
  approvals before anything it allowed (`Served`). From it: `TrailVerifies`
  (`BuiltTrailVerifies`), `NothingServedEarly` (`HalfBuiltServesNothing`),
  whatever crashes and however often.

Every safety property and action property of the passing runs, and the
refinement, is thereby a theorem. Only model-checked: liveness under fairness
(`EveryRequestEnds`, `EventuallyKeyed`), which is out of the provers' reach.

## Not modelled

- Roles and privileges: static, nothing at run time changes them.
- Rendering in `cli.py` and of the reports; timing side channels; the catalog's
  row estimates (`metadata_cardinality.py`); `side_channel_analysis.py`, whose
  queries are those of `Suite`; scripts and CI.
- `limit`, and SQL other than the shapes of `Answers`.
- Deleting audit rows: nothing in the repository does it but by failing.

## Plan

Done, in this order: `Authority`, `Governance`, `Oracle`, `ReadPath`,
`AuditChain`, the first two proof modules; `Answers`, `ReadRequest`,
`GuardedRead`, `AppFilterPath`, `AuditViews`, `RevocationBench`, `Harness`,
`Suite`, `Bootstrap`; `RevocationBenchProofs`, `ReadProofs`,
`GuardedReadProofs`, `BootstrapProofs`, `AuditViewsProofs`, the rest of
`GovernanceProofs`, `HarnessProofs`. Next:

1. `limit` in `Answers`, with an order, and with it which of the rows an arm
   delivers.
2. That the tables which reads start on are reachable by the commands, so that
   `ReconstructionHolds` needs no premise of its own: as a theorem about the
   seed's statements.
