--------------------------- MODULE GovernanceProofs ---------------------------
(***************************************************************************)
(* Proofs about Governance, for all constants.  MaintainedSpec allows more *)
(* steps than Spec, so what is invariant of it is invariant of both.       *)
(***************************************************************************)
EXTENDS Governance, TLAPS, FiniteSetTheorems

\* A table stays a table when a row is stored under one of its keys.
LEMMA PutIsTable ==
  ASSUME NEW Ids, NEW Row, NEW t, IsTable(t, Ids, Row), NEW k \in Ids, NEW row \in Row
  PROVE  IsTable(Put(t, k, row), Ids, Row)
  BY DEF IsTable, Put

LEMMA UpdateIsTable ==
  ASSUME NEW Ids, NEW Row, NEW t, IsTable(t, Ids, Row), NEW k \in DOMAIN t, NEW row \in Row
  PROVE  IsTable([t EXCEPT ![k] = row], Ids, Row)
  BY DEF IsTable

\* The invariant.  Besides the types: foreign keys hold, a delegation is no
\* wider than its grant and, below the first hop, no wider than its parent,
\* which the delegator holds one level up - unless the row is its own parent;
\* and whoever approved a grant was entitled to, and is in the trail.
Referenced ==
  \A d \in DOMAIN delegations : delegations[d].grant_id \in DOMAIN grants

Narrowed ==
  \A d \in DOMAIN delegations :
    LET row == delegations[d]
    IN /\ WithinGrant(row, grants[row.grant_id])
       /\ row.depth # 1 => /\ row.parent \in DOMAIN delegations
                           /\ row.parent # d => WithinParent(row, delegations[row.parent])

Approved ==
  \A id \in DOMAIN grants :
    LET g == grants[id]
    IN /\ KindOf[g.grantee_principal] = "human"
       /\ g.approved_by # NULL =>
            /\ MayApprove(g.approved_by, g)
            /\ Event("grant.approve", g.approved_by, NULL, id, NULL) \in audit

IInv == TypeOK /\ Referenced /\ Narrowed /\ Approved

\* What no step changes in a stored row, and that it is never unrevoked.
SameGrant(g, h) ==
  /\ h.provider_org = g.provider_org /\ h.grantee_org = g.grantee_org
  /\ h.grantee_principal = g.grantee_principal
  /\ h.region_scope = g.region_scope /\ h.allow = g.allow
  /\ h.max_classification = g.max_classification
  /\ g.revoked => h.revoked
  /\ g.approved_by # NULL => h.approved_by # NULL

SameDelegation(r, q) ==
  /\ q.grant_id = r.grant_id /\ q.parent = r.parent /\ q.depth = r.depth
  /\ q.delegator = r.delegator /\ q.delegatee = r.delegatee
  /\ q.region_scope = r.region_scope /\ q.allow = r.allow
  /\ r.revoked => q.revoked

GrantsKept ==
  \A id \in DOMAIN grants : id \in DOMAIN grants' /\ SameGrant(grants[id], grants'[id])

DelegationsKept ==
  \A d \in DOMAIN delegations :
    d \in DOMAIN delegations' /\ SameDelegation(delegations[d], delegations'[d])

\* Each step of the commands, of the clock and of maintenance keeps every
\* column within its type (the CHECKs, keys and references of schema.sql).
LEMMA TypeStep ==
  ASSUME TypeOK, Referenced, [Next \/ Maintenance]_vars
  PROVE  TypeOK'
<1> USE DEF TypeOK, AuthorityTypeOK
<1>1. ASSUME NEW id \in GrantIds, NEW q \in GrantRequests, RequestGrant(id, q)
      PROVE  TypeOK'
  <2> DEFINE row == [provider_org |-> q.provider_org, grantee_org |-> q.grantee_org,
                     grantee_principal |-> q.grantee_principal,
                     region_scope |-> q.region_scope,
                     max_classification |-> q.max_classification, allow |-> q.allow,
                     approved_by |-> NULL, expires_at |-> now + q.lifetime,
                     revoked |-> FALSE]
  <2>1. row \in GrantRow
    BY RequestAssumption DEF GrantRequest, GrantRow
  <2>2. IsTable(Put(grants, id, row), GrantIds, GrantRow)
    BY <2>1, PutIsTable
  <2> QED BY <1>1, <2>2 DEF RequestGrant
<1>2. ASSUME NEW id \in GrantIds, NEW p \in Principals, ApproveGrant(id, p)
      PROVE  TypeOK'
  <2>1. grants[id] \in GrantRow /\ id \in DOMAIN grants
    BY <1>2 DEF ApproveGrant, IsTable
  <2>2. [grants[id] EXCEPT !.approved_by = p] \in GrantRow
    BY <2>1 DEF GrantRow
  <2>3. IsTable([grants EXCEPT ![id] = [grants[id] EXCEPT !.approved_by = p]], GrantIds, GrantRow)
    BY <2>1, <2>2, UpdateIsTable
  <2>4. Event("grant.approve", p, NULL, id, NULL) \in GovernanceEvent
    BY <2>1 DEF Event, GovernanceEvent, GrantRow
  <2> QED BY <1>2, <2>3, <2>4 DEF ApproveGrant
<1>3. ASSUME NEW id \in GrantIds, NEW a \in Actors, RevokeGrant(id, a)
      PROVE  TypeOK'
  <2>1. grants[id] \in GrantRow /\ id \in DOMAIN grants
    BY <1>3 DEF RevokeGrant, IsTable
  <2>2. [grants[id] EXCEPT !.revoked = TRUE] \in GrantRow
    BY <2>1 DEF GrantRow
  <2>3. IsTable([grants EXCEPT ![id] = [grants[id] EXCEPT !.revoked = TRUE]], GrantIds, GrantRow)
    BY <2>1, <2>2, UpdateIsTable
  <2>4. Event("grant.revoke", a, NULL, id, NULL) \in GovernanceEvent
    BY <2>1 DEF Event, GovernanceEvent, GrantRow
  <2> QED BY <1>3, <2>3, <2>4 DEF RevokeGrant
<1>4. ASSUME NEW id \in DelegIds, NEW q \in DelegRequests, CreateDelegation(id, q)
      PROVE  TypeOK'
  <2>1. RowOf(q) \in DelegRow
    BY <1>4, RequestAssumption DEF CreateDelegation, DelegRequest, DelegRow, RowOf
  <2>2. IsTable(Put(delegations, id, RowOf(q)), DelegIds, DelegRow)
    BY <2>1, PutIsTable
  <2> QED BY <1>4, <2>2 DEF CreateDelegation
<1>5. ASSUME NEW id \in DelegIds, NEW a \in Actors, RevokeDelegation(id, a)
      PROVE  TypeOK'
  <2>1. delegations[id] \in DelegRow /\ id \in DOMAIN delegations
    BY <1>5 DEF RevokeDelegation, IsTable
  <2>2. [delegations[id] EXCEPT !.revoked = TRUE] \in DelegRow
    BY <2>1 DEF DelegRow
  <2>3. IsTable([delegations EXCEPT ![id] = [delegations[id] EXCEPT !.revoked = TRUE]],
                DelegIds, DelegRow)
    BY <2>1, <2>2, UpdateIsTable
  <2>4. Event("delegation.revoke", a, delegations[id].delegator,
              delegations[id].grant_id, id) \in GovernanceEvent
    <3>1. grants[delegations[id].grant_id] \in GrantRow
      BY <2>1 DEF Referenced, IsTable
    <3> QED BY <2>1, <3>1 DEF Event, GovernanceEvent, GrantRow, DelegRow
  <2> QED BY <1>5, <2>3, <2>4 DEF RevokeDelegation
<1>6. ASSUME NEW p \in Principals, DisablePrincipal(p) \/ EnablePrincipal(p)
      PROVE  TypeOK'
  BY <1>6 DEF DisablePrincipal, EnablePrincipal
<1>7. ASSUME Tick PROVE TypeOK'
  BY <1>7, RequestAssumption DEF Tick
<1>8. ASSUME NEW id \in GrantIds, NEW t \in 0 .. MaxTime, SetGrantExpiry(id, t)
      PROVE  TypeOK'
  <2>1. grants[id] \in GrantRow /\ id \in DOMAIN grants
    BY <1>8 DEF SetGrantExpiry, IsTable
  <2>2. [grants[id] EXCEPT !.expires_at = t] \in GrantRow
    BY <2>1 DEF GrantRow
  <2>3. IsTable([grants EXCEPT ![id] = [grants[id] EXCEPT !.expires_at = t]], GrantIds, GrantRow)
    BY <2>1, <2>2, UpdateIsTable
  <2> QED BY <1>8, <2>3 DEF SetGrantExpiry
<1>9. ASSUME NEW id \in DelegIds, NEW t \in 0 .. MaxTime, SetDelegationExpiry(id, t)
      PROVE  TypeOK'
  <2>1. delegations[id] \in DelegRow /\ id \in DOMAIN delegations
    BY <1>9 DEF SetDelegationExpiry, IsTable
  <2>2. [delegations[id] EXCEPT !.expires_at = t] \in DelegRow
    BY <2>1 DEF DelegRow
  <2>3. IsTable([delegations EXCEPT ![id] = [delegations[id] EXCEPT !.expires_at = t]],
                DelegIds, DelegRow)
    BY <2>1, <2>2, UpdateIsTable
  <2> QED BY <1>9, <2>3 DEF SetDelegationExpiry
<1>10. CASE UNCHANGED vars
  BY <1>10 DEF vars
<1> QED
  BY <1>1, <1>2, <1>3, <1>4, <1>5, <1>6, <1>7, <1>8, <1>9, <1>10
  DEF Next, Command, Maintenance

\* Scopes, hand-overs and revocations are permanent: no step rewrites them.
LEMMA RowsKept ==
  ASSUME TypeOK, [Next \/ Maintenance]_vars
  PROVE  GrantsKept /\ DelegationsKept
<1> USE DEF GrantsKept, DelegationsKept, SameGrant, SameDelegation
<1>1. ASSUME NEW id \in GrantIds, NEW q \in GrantRequests, RequestGrant(id, q)
      PROVE  GrantsKept /\ DelegationsKept
  BY <1>1 DEF RequestGrant, Put
<1>2. ASSUME NEW id \in GrantIds, NEW p \in Principals, ApproveGrant(id, p)
      PROVE  GrantsKept /\ DelegationsKept
  BY <1>2, NullAssumption DEF ApproveGrant, TypeOK, AuthorityTypeOK, IsTable, GrantRow
<1>3. ASSUME NEW id \in GrantIds, NEW a \in Actors, RevokeGrant(id, a)
      PROVE  GrantsKept /\ DelegationsKept
  BY <1>3 DEF RevokeGrant, TypeOK, AuthorityTypeOK, IsTable, GrantRow
<1>4. ASSUME NEW id \in DelegIds, NEW q \in DelegRequests, CreateDelegation(id, q)
      PROVE  GrantsKept /\ DelegationsKept
  BY <1>4 DEF CreateDelegation, Put
<1>5. ASSUME NEW id \in DelegIds, NEW a \in Actors, RevokeDelegation(id, a)
      PROVE  GrantsKept /\ DelegationsKept
  BY <1>5 DEF RevokeDelegation, TypeOK, AuthorityTypeOK, IsTable, DelegRow
<1>6. ASSUME NEW p \in Principals, DisablePrincipal(p) \/ EnablePrincipal(p)
      PROVE  GrantsKept /\ DelegationsKept
  BY <1>6 DEF DisablePrincipal, EnablePrincipal
<1>7. ASSUME Tick PROVE GrantsKept /\ DelegationsKept
  BY <1>7 DEF Tick
<1>8. ASSUME NEW id \in GrantIds, NEW t \in 0 .. MaxTime, SetGrantExpiry(id, t)
      PROVE  GrantsKept /\ DelegationsKept
  BY <1>8 DEF SetGrantExpiry, TypeOK, AuthorityTypeOK, IsTable, GrantRow
<1>9. ASSUME NEW id \in DelegIds, NEW t \in 0 .. MaxTime, SetDelegationExpiry(id, t)
      PROVE  GrantsKept /\ DelegationsKept
  BY <1>9 DEF SetDelegationExpiry, TypeOK, AuthorityTypeOK, IsTable, DelegRow
<1>10. CASE UNCHANGED vars
  BY <1>10 DEF vars
<1> QED
  BY <1>1, <1>2, <1>3, <1>4, <1>5, <1>6, <1>7, <1>8, <1>9, <1>10
  DEF Next, Command, Maintenance

\* A delegation appears only by CreateDelegation.
LEMMA NewDelegation ==
  ASSUME TypeOK, [Next \/ Maintenance]_vars,
         NEW d \in DOMAIN delegations', d \notin DOMAIN delegations
  PROVE  \E q \in DelegRequests : CreateDelegation(d, q)
<1> USE DEF TypeOK, AuthorityTypeOK, IsTable
<1>1. ASSUME NEW id \in DelegIds, NEW q \in DelegRequests, CreateDelegation(id, q)
      PROVE  \E r \in DelegRequests : CreateDelegation(d, r)
  BY <1>1 DEF CreateDelegation, Put
<1>2. ASSUME NEW id \in DelegIds, NEW a \in Actors, RevokeDelegation(id, a) PROVE FALSE
  BY <1>2 DEF RevokeDelegation
<1>3. ASSUME NEW id \in DelegIds, NEW t \in 0 .. MaxTime, SetDelegationExpiry(id, t)
      PROVE  FALSE
  BY <1>3 DEF SetDelegationExpiry
<1>4. CASE UNCHANGED delegations
  BY <1>4
<1> QED
  BY <1>1, <1>2, <1>3, <1>4
  DEF Next, Command, Maintenance, vars, RequestGrant, ApproveGrant, RevokeGrant,
      DisablePrincipal, EnablePrincipal, Tick, SetGrantExpiry

\* A created row refers to stored rows, or to itself.
LEMMA CreatedRow ==
  ASSUME TypeOK, NEW d, NEW q \in DelegRequests, CreateDelegation(d, q)
  PROVE  /\ delegations'[d] = RowOf(q) /\ grants' = grants
         /\ RowOf(q).grant_id \in DOMAIN grants
         /\ RowOf(q).depth \in Depths
         /\ WithinGrant(RowOf(q), grants[RowOf(q).grant_id])
         /\ RowOf(q).depth # 1 =>
              /\ RowOf(q).parent \in DOMAIN delegations'
              /\ RowOf(q).parent # d => /\ RowOf(q).parent \in DOMAIN delegations
                                        /\ WithinParent(RowOf(q), delegations[RowOf(q).parent])
<1>1. delegations'[d] = RowOf(q) /\ DOMAIN delegations' = DOMAIN delegations \cup {d}
  BY DEF CreateDelegation, Put
<1>2. RowOf(q).depth = q.depth
  BY DEF RowOf
<1>3. CASE RowOf(q).depth = 1
  BY <1>1, <1>2, <1>3
  DEF CreateDelegation, ReferencesExist, MustNarrow, HandedOverByGrantee, NarrowsGrant,
      WithinGrant
<1>4. CASE RowOf(q).depth # 1
  BY <1>1, <1>2, <1>4
  DEF CreateDelegation, ReferencesExist, MustNarrow, HandedOverByParent, NarrowsGrant,
      WithinGrant, WithinParent
<1> QED BY <1>3, <1>4

LEMMA ReferencedStep ==
  ASSUME TypeOK, Referenced, [Next \/ Maintenance]_vars
  PROVE  Referenced'
<1> SUFFICES ASSUME NEW d \in DOMAIN delegations'
             PROVE  delegations'[d].grant_id \in DOMAIN grants'
  BY DEF Referenced
<1>1. CASE d \in DOMAIN delegations
  BY <1>1, RowsKept DEF Referenced, GrantsKept, DelegationsKept, SameDelegation
<1>2. CASE d \notin DOMAIN delegations
  BY <1>2, NewDelegation, CreatedRow
<1> QED BY <1>1, <1>2

LEMMA NarrowedStep ==
  ASSUME IInv, [Next \/ Maintenance]_vars
  PROVE  Narrowed'
<1>0. GrantsKept /\ DelegationsKept
  BY RowsKept DEF IInv
<1> SUFFICES ASSUME NEW d \in DOMAIN delegations'
             PROVE  LET row == delegations'[d]
                    IN /\ WithinGrant(row, grants'[row.grant_id])
                       /\ row.depth # 1 =>
                            /\ row.parent \in DOMAIN delegations'
                            /\ row.parent # d => WithinParent(row, delegations'[row.parent])
  BY DEF Narrowed, WithinGrant, WithinParent
<1>1. CASE d \in DOMAIN delegations
  <2> DEFINE row == delegations[d]
  <2>1. /\ row.grant_id \in DOMAIN grants
        /\ WithinGrant(row, grants[row.grant_id])
        /\ row.depth # 1 => /\ row.parent \in DOMAIN delegations
                            /\ row.parent # d => WithinParent(row, delegations[row.parent])
    BY <1>1 DEF IInv, Referenced, Narrowed
  <2>2. SameDelegation(row, delegations'[d]) /\ SameGrant(grants[row.grant_id], grants'[row.grant_id])
    BY <1>0, <1>1, <2>1 DEF GrantsKept, DelegationsKept
  <2>3. WithinGrant(delegations'[d], grants'[row.grant_id])
    BY <2>1, <2>2 DEF WithinGrant, SameDelegation, SameGrant
  <2>4. ASSUME row.depth # 1
        PROVE  /\ row.parent \in DOMAIN delegations'
               /\ row.parent # d => WithinParent(delegations'[d], delegations'[row.parent])
    <3>1. /\ row.parent \in DOMAIN delegations'
          /\ SameDelegation(delegations[row.parent], delegations'[row.parent])
      BY <1>0, <2>1, <2>4 DEF DelegationsKept
    <3> QED BY <2>1, <2>2, <2>4, <3>1 DEF WithinParent, SameDelegation
  <2> QED BY <2>2, <2>3, <2>4 DEF SameDelegation
<1>2. CASE d \notin DOMAIN delegations
  <2>1. PICK q \in DelegRequests : CreateDelegation(d, q)
    BY <1>2, NewDelegation DEF IInv
  <2>2. ASSUME NEW p \in DOMAIN delegations, WithinParent(RowOf(q), delegations[p])
        PROVE  WithinParent(RowOf(q), delegations'[p])
    BY <1>0, <2>2 DEF DelegationsKept, SameDelegation, WithinParent
  <2> QED BY <2>1, <2>2, CreatedRow DEF IInv
<1> QED BY <1>1, <1>2

\* Approvals: the trail only grows, and who approves is checked on the spot.
LEMMA ApprovedStep ==
  ASSUME IInv, [Next \/ Maintenance]_vars
  PROVE  Approved'
<1>0. GrantsKept /\ audit \subseteq audit'
  <2>1. GrantsKept
    BY RowsKept DEF IInv
  <2>2. audit \subseteq audit'
    BY DEF Next, Command, Maintenance, vars, RequestGrant, ApproveGrant, RevokeGrant,
           CreateDelegation, RevokeDelegation, DisablePrincipal, EnablePrincipal, Tick,
           SetGrantExpiry, SetDelegationExpiry
  <2> QED BY <2>1, <2>2
<1> DEFINE Good(g, id, log) ==
      /\ KindOf[g.grantee_principal] = "human"
      /\ g.approved_by # NULL =>
           /\ MayApprove(g.approved_by, g)
           /\ [action |-> "grant.approve", subject |-> g.approved_by, acting_for |-> NULL,
               grant_id |-> id, delegation_id |-> NULL, provider_org |-> g.provider_org,
               grantee_org |-> g.grantee_org] \in log
<1>1. Approved <=> \A id \in DOMAIN grants : Good(grants[id], id, audit)
  BY DEF Approved, Event
<1>2. Approved' <=> \A id \in DOMAIN grants' : Good(grants'[id], id, audit')
  BY DEF Approved, Event, MayApprove
<1>3. \A id \in DOMAIN grants : Good(grants[id], id, audit')
  BY <1>0, <1>1 DEF IInv
<1> HIDE DEF Good
<1>4. ASSUME NEW id \in GrantIds, NEW q \in GrantRequests, RequestGrant(id, q)
      PROVE  Approved'
  <2>1. Good(grants'[id], id, audit')
    BY <1>4 DEF RequestGrant, Put, Good
  <2>2. \A k \in DOMAIN grants' : k = id \/ (k \in DOMAIN grants /\ grants'[k] = grants[k])
    BY <1>4 DEF RequestGrant, Put
  <2> QED BY <1>2, <1>3, <2>1, <2>2
<1>5. ASSUME NEW id \in GrantIds, NEW p \in Principals, ApproveGrant(id, p)
      PROVE  Approved'
  <2>1. grants[id] \in GrantRow /\ id \in DOMAIN grants
    BY <1>5 DEF ApproveGrant, IInv, TypeOK, AuthorityTypeOK, IsTable
  <2>2. grants'[id] = [grants[id] EXCEPT !.approved_by = p]
    BY <1>5, <2>1 DEF ApproveGrant, IInv, TypeOK, AuthorityTypeOK, IsTable
  <2>3. Good(grants'[id], id, audit')
    BY <1>3, <1>5, <2>1, <2>2 DEF ApproveGrant, Good, Event, MayApprove, GrantRow
  <2>4. \A k \in DOMAIN grants' : k = id \/ (k \in DOMAIN grants /\ grants'[k] = grants[k])
    BY <1>5 DEF ApproveGrant, IInv, TypeOK, AuthorityTypeOK, IsTable
  <2> QED BY <1>2, <1>3, <2>3, <2>4
<1>6. ASSUME NEW id \in GrantIds, NEW g \in GrantRow, id \in DOMAIN grants,
             grants' = [grants EXCEPT ![id] = g],
             g.approved_by = grants[id].approved_by, SameGrant(grants[id], g)
      PROVE  Approved'
  <2>1. Good(g, id, audit')
    BY <1>3, <1>6 DEF Good, SameGrant, MayApprove
  <2>2. \A k \in DOMAIN grants' : k \in DOMAIN grants /\ grants'[k] = IF k = id THEN g ELSE grants[k]
    BY <1>6 DEF IInv, TypeOK, AuthorityTypeOK, IsTable
  <2> QED BY <1>2, <1>3, <2>1, <2>2
<1>7. ASSUME NEW id \in GrantIds, NEW a \in Actors, RevokeGrant(id, a)
      PROVE  Approved'
  <2>1. grants[id] \in GrantRow /\ id \in DOMAIN grants
    BY <1>7 DEF RevokeGrant, IInv, TypeOK, AuthorityTypeOK, IsTable
  <2> DEFINE g == [grants[id] EXCEPT !.revoked = TRUE]
  <2>2. g \in GrantRow /\ g.approved_by = grants[id].approved_by /\ SameGrant(grants[id], g)
    BY <2>1 DEF GrantRow, SameGrant
  <2> QED BY <1>6, <1>7, <2>1, <2>2 DEF RevokeGrant
<1>8. ASSUME NEW id \in GrantIds, NEW t \in 0 .. MaxTime, SetGrantExpiry(id, t)
      PROVE  Approved'
  <2>1. grants[id] \in GrantRow /\ id \in DOMAIN grants
    BY <1>8 DEF SetGrantExpiry, IInv, TypeOK, AuthorityTypeOK, IsTable
  <2> DEFINE g == [grants[id] EXCEPT !.expires_at = t]
  <2>2. g \in GrantRow /\ g.approved_by = grants[id].approved_by /\ SameGrant(grants[id], g)
    BY <2>1 DEF GrantRow, SameGrant
  <2> QED BY <1>6, <1>8, <2>1, <2>2 DEF SetGrantExpiry
<1>9. CASE UNCHANGED grants
  BY <1>2, <1>3, <1>9
<1> QED
  BY <1>4, <1>5, <1>7, <1>8, <1>9
  DEF Next, Command, Maintenance, vars, CreateDelegation, RevokeDelegation,
      DisablePrincipal, EnablePrincipal, Tick, SetDelegationExpiry

\* Every column keeps its type, and the invariant holds throughout, hand edits
\* of expiries included.
THEOREM Invariance == MaintainedSpec => []IInv
<1>1. Init => IInv
  BY RequestAssumption
  DEF Init, EmptyTable, IInv, TypeOK, AuthorityTypeOK, IsTable, Referenced, Narrowed, Approved
<1>2. IInv /\ [Next \/ Maintenance]_vars => IInv'
  BY TypeStep, ReferencedStep, NarrowedStep, ApprovedStep DEF IInv
<1> QED BY <1>1, <1>2, PTL DEF MaintainedSpec

LEMMA SpecIsMaintained == Spec => MaintainedSpec
<1>1. [Next]_vars => [Next \/ Maintenance]_vars
  OBVIOUS
<1> QED BY <1>1, PTL DEF Spec, MaintainedSpec

\* Every column of the governance tables and of the trail keeps its type,
\* whatever commands run and whatever expiries are edited by hand.
THEOREM TypeCorrect == MaintainedSpec => []TypeOK
<1>1. IInv => TypeOK
  BY DEF IInv
<1> QED BY <1>1, Invariance, PTL

-----------------------------------------------------------------------------
\* The walk from d.
LEMMA HopsSelf ==
  ASSUME NEW d \in DOMAIN delegations
  PROVE  d \in Hops(d)
  BY DEF Hops

LEMMA HopsWithin ==
  ASSUME NEW d, NEW S \in SUBSET DOMAIN delegations, d \in S,
         \A h \in S : delegations[h].parent \in DOMAIN delegations
                        => delegations[h].parent \in S
  PROVE  Hops(d) \subseteq S
  BY DEF Hops

\* A later table has the same walk from a delegation stored before.
LEMMA WalkIsFixed ==
  ASSUME DelegationsKept, NEW d \in DOMAIN delegations
  PROVE  Hops(d) \subseteq Hops(d)'
<1> SUFFICES ASSUME NEW e \in Hops(d), NEW T \in SUBSET DOMAIN delegations', d \in T,
                    \A h \in T : delegations'[h].parent \in DOMAIN delegations'
                                   => delegations'[h].parent \in T
             PROVE  e \in T
  <2>1. Hops(d) \subseteq DOMAIN delegations'
    BY DEF Hops, DelegationsKept
  <2>2. d \in DOMAIN delegations'
    BY DEF DelegationsKept
  <2> QED BY <2>1, <2>2 DEF Hops
<1> DEFINE S == T \cap DOMAIN delegations
<1>1. \A h \in S : delegations[h].parent \in DOMAIN delegations => delegations[h].parent \in S
  BY DEF DelegationsKept, SameDelegation
<1>2. Hops(d) \subseteq S
  BY <1>1, HopsWithin
<1> QED BY <1>2

\* A revoked grant or hop denies.
LEMMA RevokedIsDead ==
  ASSUME TypeOK, NEW c \in Credentials, RevokedFor(c), NEW t
  PROVE  ~Authorizes(c, t)
<1> SUFFICES ASSUME Authorizes(c, t) PROVE FALSE
  OBVIOUS
<1>1. /\ c.grant_id \in DOMAIN grants
      /\ GrantIsLive(grants[c.grant_id], t)
      /\ IF c.delegation_id = NULL THEN DirectHolds(c) ELSE ChainHolds(c, t)
  BY DEF Authorizes, VerifyCredential
<1>2. PICK h \in Hops(c.delegation_id) : delegations[h].revoked
  BY <1>1 DEF RevokedFor, GrantIsLive
<1>3. c.delegation_id # NULL
  BY <1>2, NullAssumption DEF Hops, TypeOK, AuthorityTypeOK, IsTable
<1>4. HopIsLive(delegations[h], t)
  BY <1>1, <1>2, <1>3 DEF ChainHolds
<1> QED BY <1>2, <1>4 DEF HopIsLive

\* Rows are never removed, nor is their revocation.
LEMMA RevocationStays ==
  ASSUME TypeOK, [Next \/ Maintenance]_vars, NEW c \in Credentials, RevokedFor(c)
  PROVE  RevokedFor(c)'
<1>1. GrantsKept /\ DelegationsKept
  BY RowsKept
<1>2. CASE c.grant_id \in DOMAIN grants /\ grants[c.grant_id].revoked
  BY <1>1, <1>2 DEF RevokedFor, GrantsKept, SameGrant
<1>3. CASE \E h \in Hops(c.delegation_id) : delegations[h].revoked
  <2>1. PICK h \in Hops(c.delegation_id) : delegations[h].revoked
    BY <1>3
  <2>2. c.delegation_id \in DOMAIN delegations
    BY <2>1 DEF Hops
  <2>3. h \in Hops(c.delegation_id)'
    BY <1>1, <2>1, <2>2, WalkIsFixed
  <2>4. delegations'[h].revoked
    BY <1>1, <2>1 DEF Hops, DelegationsKept, SameDelegation
  <2> QED BY <2>3, <2>4 DEF RevokedFor
<1> QED BY <1>2, <1>3 DEF RevokedFor

\* Revocation is final: no step brings back a credential below a revoked grant
\* or hop (revoke_grant, revoke_delegation and the walk in current_auth).
THEOREM RevocationIsFinal == MaintainedSpec => RevokedStaysDead
<1>1. TypeOK => \A c \in Credentials : RevokedFor(c) => ~Live(c)
  BY RevokedIsDead DEF Live
<1>2. (TypeOK => \A c \in Credentials : RevokedFor(c) => ~Live(c))'
  BY <1>1, PTL
<1>3. ASSUME IInv, [Next \/ Maintenance]_vars, NEW c \in Credentials, RevokedFor(c)
      PROVE  RevokedFor(c)'
  BY <1>3, RevocationStays DEF IInv
<1>4. IInv /\ IInv' /\ [Next \/ Maintenance]_vars
        => [\A c \in Credentials : RevokedFor(c) => RevokedFor(c)' /\ ~Live(c)']_vars
  BY <1>2, <1>3 DEF IInv
<1> QED BY <1>4, Invariance, PTL DEF MaintainedSpec, RevokedStaysDead

-----------------------------------------------------------------------------
\* Down the chain scopes only shrink, so the leaf's scope is within every hop's.
LEMMA LeafIsNarrowest ==
  ASSUME IInv, NEW d \in DOMAIN delegations, NEW h \in Hops(d)
  PROVE  /\ delegations[d].region_scope \subseteq delegations[h].region_scope
         /\ delegations[d].allow \subseteq delegations[h].allow
<1> DEFINE S == {e \in DOMAIN delegations :
                   /\ delegations[d].region_scope \subseteq delegations[e].region_scope
                   /\ delegations[d].allow \subseteq delegations[e].allow}
<1>1. ASSUME NEW e \in S, delegations[e].parent \in DOMAIN delegations
      PROVE  delegations[e].parent \in S
  <2>1. delegations[e].depth # 1
    BY <1>1, NullAssumption
    DEF IInv, TypeOK, AuthorityTypeOK, IsTable, Narrowed, WithinGrant
  <2>2. CASE delegations[e].parent = e
    BY <2>2
  <2>3. CASE delegations[e].parent # e
    <3>1. WithinParent(delegations[e], delegations[delegations[e].parent])
      BY <2>1, <2>3 DEF IInv, Narrowed
    <3> QED BY <1>1, <3>1 DEF WithinParent
  <2> QED BY <2>2, <2>3
<1>2. Hops(d) \subseteq S
  BY <1>1, HopsWithin
<1> QED BY <1>2

\* Narrowing at creation makes the intersection at use redundant: the scope
\* current_auth computes over the chain is the leaf's own.
THEOREM LeafScope == MaintainedSpec => []LeafScopeIsEffective
<1>1. ASSUME IInv PROVE LeafScopeIsEffective
  <2> SUFFICES ASSUME NEW c \in LiveDelegated
               PROVE  /\ AuthRow(c).region_scope = delegations[c.delegation_id].region_scope
                      /\ AuthRow(c).allow = delegations[c.delegation_id].allow
    BY DEF LeafScopeIsEffective
  <2> DEFINE d == c.delegation_id
             g == grants[c.grant_id]
  <2>1. c.delegation_id # NULL /\ ChainHolds(c, now)
    BY DEF LiveDelegated, Live, Delegated, Authorizes, VerifyCredential
  <2>2. d \in DOMAIN delegations /\ d \in Hops(d)
    BY <2>1, HopsSelf DEF ChainHolds
  <2>3. delegations[d].grant_id = c.grant_id
    BY <2>1, <2>2 DEF ChainHolds
  <2>4. delegations[d].region_scope \subseteq g.region_scope /\ delegations[d].allow \subseteq g.allow
    BY <1>1, <2>2, <2>3 DEF IInv, Narrowed, WithinGrant
  <2>5. EffRegions(g, d) = delegations[d].region_scope
    BY <1>1, <2>2, <2>4, LeafIsNarrowest DEF EffRegions
  <2>6. EffAllow(g, d) = delegations[d].allow
    BY <1>1, <2>2, <2>4, LeafIsNarrowest DEF EffAllow
  <2> QED BY <2>1, <2>5, <2>6 DEF AuthRow
<1> QED BY <1>1, Invariance, PTL

\* A walk that reaches a root passes no row that is its own parent.
LEMMA RootedWalk ==
  ASSUME IInv, NEW d \in DOMAIN delegations,
         NEW r \in Hops(d), delegations[r].parent = NULL,
         NEW h \in Hops(d)
  PROVE  delegations[h].parent # h
<1> DEFINE parent(x) == delegations[x].parent
           depth(x) == delegations[x].depth
<1>1. NULL \notin DOMAIN delegations
  BY NullAssumption DEF IInv, TypeOK, AuthorityTypeOK, IsTable
<1>2. ASSUME NEW x \in DOMAIN delegations
      PROVE  /\ depth(x) \in Depths
             /\ depth(x) = 1 => parent(x) = NULL
             /\ depth(x) # 1 => /\ parent(x) \in DOMAIN delegations
                                /\ parent(x) # x => depth(parent(x)) = depth(x) - 1
  BY DEF IInv, TypeOK, AuthorityTypeOK, IsTable, DelegRow, Narrowed, WithinGrant, WithinParent
<1>3. CASE parent(d) \notin DOMAIN delegations \/ parent(d) = d
  <2>1. Hops(d) \subseteq {d}
    BY <1>3, HopsWithin
  <2> QED BY <1>1, <2>1
<1>4. CASE parent(d) \in DOMAIN delegations /\ parent(d) # d
  <2> DEFINE p == parent(d)
  <2>1. depth(d) # 1 /\ depth(p) = depth(d) - 1
    BY <1>1, <1>2, <1>4
  <2>2. CASE parent(p) \notin DOMAIN delegations \/ parent(p) = p
    <3> DEFINE S == {d, p}
    <3>1. d \in S /\ S \subseteq DOMAIN delegations
      BY <1>4
    <3>2. \A e \in S : delegations[e].parent \in DOMAIN delegations
                        => delegations[e].parent \in S
      BY <1>4, <2>2
    <3> HIDE DEF S
    <3>3. Hops(d) \subseteq S
      BY <3>1, <3>2, HopsWithin
    <3> QED BY <1>1, <1>4, <2>2, <3>3 DEF S
  <2>3. CASE parent(p) \in DOMAIN delegations /\ parent(p) # p
    <3> DEFINE q == parent(p)
    <3>1. depth(q) = 1
      BY <1>1, <1>2, <1>4, <2>1, <2>3 DEF Depths
    <3>2. parent(q) = NULL
      BY <1>2, <2>3, <3>1
    <3> DEFINE S == {d, p, q}
    <3>3. d \in S /\ S \subseteq DOMAIN delegations
      BY <1>4, <2>3
    <3>4. \A e \in S : delegations[e].parent \in DOMAIN delegations
                        => delegations[e].parent \in S
      BY <1>1, <1>4, <2>3, <3>2
    <3> HIDE DEF S
    <3>5. Hops(d) \subseteq S
      BY <3>3, <3>4, HopsWithin
    <3> QED BY <1>1, <1>4, <2>3, <3>2, <3>5 DEF S
  <2> QED BY <2>2, <2>3
<1> QED BY <1>3, <1>4

\* An honoured chain is a line of hand-overs that starts with the human who
\* holds a grant that an entitled human of the provider approved.
THEOREM ChainedAuthority == MaintainedSpec => []AuthorityIsChained
<1>1. ASSUME IInv, NEW c \in LiveDelegated
      PROVE  LET g == grants[c.grant_id]
             IN /\ KindOf[g.grantee_principal] = "human"
                /\ KindOf[g.approved_by] = "human" /\ OrgOf[g.approved_by] = g.provider_org
                /\ Event("grant.approve", g.approved_by, NULL, c.grant_id, NULL) \in audit
  <2>1. c.grant_id \in DOMAIN grants /\ grants[c.grant_id].approved_by # NULL
    BY DEF LiveDelegated, Live, Authorizes, VerifyCredential, GrantIsLive
  <2> QED BY <1>1, <2>1 DEF IInv, Approved, MayApprove
<1>2. ASSUME IInv, NEW c \in LiveDelegated, NEW h \in Hops(c.delegation_id)
      PROVE  LET row == delegations[h]
                 p == delegations[row.parent]
             IN /\ KindOf[row.delegatee] = "agent"
                /\ IF row.parent = NULL
                   THEN row.delegator = grants[c.grant_id].grantee_principal /\ row.depth = 1
                   ELSE row.delegator = p.delegatee /\ row.depth = p.depth + 1
  <2>1. ChainHolds(c, now)
    BY DEF LiveDelegated, Live, Delegated, Authorizes, VerifyCredential
  <2>2. PICK r \in Hops(c.delegation_id) : delegations[r].parent = NULL
    BY <2>1 DEF ChainHolds, Roots
  <2>3. c.delegation_id \in DOMAIN delegations /\ h \in DOMAIN delegations
    BY <1>2, <2>1 DEF ChainHolds, Hops
  <2>4. delegations[h].parent # h
    BY <1>2, <2>2, <2>3, RootedWalk
  <2>5. delegations[h].grant_id = c.grant_id
    BY <1>2, <2>1 DEF ChainHolds
  <2>6. /\ WithinGrant(delegations[h], grants[c.grant_id])
        /\ delegations[h].depth # 1 =>
             /\ delegations[h].parent \in DOMAIN delegations
             /\ WithinParent(delegations[h], delegations[delegations[h].parent])
    BY <1>2, <2>3, <2>4, <2>5 DEF IInv, Narrowed
  <2>7. NULL \notin DOMAIN delegations
    BY <1>2, NullAssumption DEF IInv, TypeOK, AuthorityTypeOK, IsTable
  <2>8. CASE delegations[h].depth = 1
    BY <2>6, <2>8 DEF WithinGrant
  <2>9. CASE delegations[h].depth # 1
    <3>1. delegations[h] \in DelegRow /\ delegations[delegations[h].parent] \in DelegRow
      BY <1>2, <2>3, <2>6, <2>9 DEF IInv, TypeOK, AuthorityTypeOK, IsTable
    <3>2. delegations[h].depth = delegations[delegations[h].parent].depth + 1
      BY <2>6, <2>9, <3>1 DEF WithinParent, DelegRow, Depths
    <3> QED BY <2>6, <2>7, <2>9, <3>2 DEF WithinGrant, WithinParent
  <2> QED BY <2>8, <2>9
<1>3. IInv => AuthorityIsChained
  BY <1>1, <1>2 DEF AuthorityIsChained
<1> QED BY <1>3, Invariance, PTL

-----------------------------------------------------------------------------
\* The commands never touch an expiry, and the clock never goes back.
ExpiriesKept ==
  /\ now' >= now
  /\ \A id \in DOMAIN grants : grants'[id].expires_at = grants[id].expires_at
  /\ \A d \in DOMAIN delegations : delegations'[d].expires_at = delegations[d].expires_at

LEMMA ExpiryStep ==
  ASSUME TypeOK, [Next]_vars
  PROVE  ExpiriesKept
<1> USE DEF ExpiriesKept, TypeOK, AuthorityTypeOK, IsTable
<1>0. now \in Int
  BY RequestAssumption
<1>1. ASSUME NEW id \in GrantIds, NEW q \in GrantRequests, RequestGrant(id, q)
      PROVE  ExpiriesKept
  BY <1>0, <1>1 DEF RequestGrant, Put
<1>2. ASSUME NEW id \in GrantIds, NEW p \in Principals, ApproveGrant(id, p)
      PROVE  ExpiriesKept
  BY <1>0, <1>2 DEF ApproveGrant, GrantRow
<1>3. ASSUME NEW id \in GrantIds, NEW a \in Actors, RevokeGrant(id, a)
      PROVE  ExpiriesKept
  BY <1>0, <1>3 DEF RevokeGrant, GrantRow
<1>4. ASSUME NEW id \in DelegIds, NEW q \in DelegRequests, CreateDelegation(id, q)
      PROVE  ExpiriesKept
  BY <1>0, <1>4 DEF CreateDelegation, Put
<1>5. ASSUME NEW id \in DelegIds, NEW a \in Actors, RevokeDelegation(id, a)
      PROVE  ExpiriesKept
  BY <1>0, <1>5 DEF RevokeDelegation, DelegRow
<1>6. CASE UNCHANGED tables /\ now' >= now
  BY <1>6 DEF tables
<1> QED
  BY <1>0, <1>1, <1>2, <1>3, <1>4, <1>5, <1>6
  DEF Next, Command, vars, tables, DisablePrincipal, EnablePrincipal, Tick

\* Expiry is final as long as nobody edits one: what has expired on the way of
\* a credential stays on it, and denies (GrantIsLive and HopIsLive at use); and
\* a token that has run out never verifies again (verify_credential).
THEOREM ExpiryIsFinal == Spec => ExpiredStaysDead
<1>1. TypeOK => \A c \in Credentials : ExpiredFor(c) => ~Live(c)
  <2> SUFFICES ASSUME TypeOK, NEW c \in Credentials, ExpiredFor(c), Live(c) PROVE FALSE
    OBVIOUS
  <2> USE DEF TypeOK, AuthorityTypeOK, IsTable
  <2>1. /\ c.grant_id \in DOMAIN grants /\ c.exp > now
        /\ GrantIsLive(grants[c.grant_id], now)
        /\ IF c.delegation_id = NULL THEN DirectHolds(c) ELSE ChainHolds(c, now)
    BY DEF Live, Authorizes, VerifyCredential
  <2>2. now \in Int /\ grants[c.grant_id].expires_at \in Int /\ c.exp \in Int
    BY <2>1, RequestAssumption, DirectoryAssumption DEF GrantRow, Credential
  <2>3. PICK h \in Hops(c.delegation_id) : delegations[h].expires_at <= now
    BY <2>1, <2>2 DEF ExpiredFor, GrantIsLive
  <2>4. c.delegation_id # NULL /\ h \in DOMAIN delegations
    BY <2>3, NullAssumption DEF Hops
  <2>5. HopIsLive(delegations[h], now) /\ delegations[h].expires_at \in Int
    BY <2>1, <2>3, <2>4 DEF ChainHolds, DelegRow
  <2> QED BY <2>2, <2>3, <2>5 DEF HopIsLive
<1>2. (TypeOK => \A c \in Credentials : ExpiredFor(c) => ~Live(c))'
  BY <1>1, PTL
<1>3. ASSUME TypeOK, TypeOK', [Next]_vars, NEW c \in Credentials, ExpiredFor(c)
      PROVE  ExpiredFor(c)'
  <2> USE DEF TypeOK, AuthorityTypeOK, IsTable
  <2>1. GrantsKept /\ DelegationsKept /\ ExpiriesKept
    BY <1>3, RowsKept, ExpiryStep
  <2>2. now \in Int /\ now' \in Int /\ now' >= now
    BY <1>3, <2>1, RequestAssumption DEF ExpiriesKept
  <2>3. CASE c.grant_id \in DOMAIN grants /\ grants[c.grant_id].expires_at <= now
    <3>1. grants[c.grant_id].expires_at \in Int
      BY <1>3, <2>3 DEF GrantRow
    <3> QED BY <2>1, <2>2, <2>3, <3>1 DEF ExpiredFor, GrantsKept, ExpiriesKept
  <2>4. CASE \E h \in Hops(c.delegation_id) : delegations[h].expires_at <= now
    <3>1. PICK h \in Hops(c.delegation_id) : delegations[h].expires_at <= now
      BY <2>4
    <3>2. c.delegation_id \in DOMAIN delegations /\ h \in DOMAIN delegations
      BY <3>1 DEF Hops
    <3>3. h \in Hops(c.delegation_id)'
      BY <2>1, <3>1, <3>2, WalkIsFixed
    <3>4. delegations[h].expires_at \in Int
      BY <1>3, <3>2 DEF DelegRow
    <3>5. delegations'[h].expires_at <= now'
      BY <2>1, <2>2, <3>1, <3>2, <3>4 DEF ExpiriesKept
    <3> QED BY <3>3, <3>5 DEF ExpiredFor
  <2>5. CASE c.exp <= now
    <3>1. c.exp \in Int
      BY DirectoryAssumption DEF Credential
    <3> QED BY <2>2, <2>5, <3>1 DEF ExpiredFor
  <2> QED BY <1>3, <2>3, <2>4, <2>5 DEF ExpiredFor
<1>4. TypeOK /\ TypeOK' /\ [Next]_vars
        => [\A c \in Credentials : ExpiredFor(c) => ExpiredFor(c)' /\ ~Live(c)']_vars
  BY <1>2, <1>3
<1> QED BY <1>4, TypeCorrect, SpecIsMaintained, PTL DEF Spec, ExpiredStaysDead

-----------------------------------------------------------------------------
\* What the trigger finds on the UPDATE of a revocation is what it found when
\* the row was stored, but for the expiries above it.
LEMMA RevokeTrigger ==
  ASSUME IInv, NEW d \in DOMAIN delegations,
         ~delegations[d].revoked, delegations[d].parent # d
  PROVE  RevokePasses(delegations[d]) <=> ~CutShort(delegations[d])
<1> DEFINE row == delegations[d]
           new == [row EXCEPT !.revoked = TRUE]
           g == grants[row.grant_id]
<1>1. /\ row \in DelegRow /\ NULL \notin DOMAIN delegations
      /\ row.grant_id \in DOMAIN grants /\ g \in GrantRow
  BY NullAssumption DEF IInv, TypeOK, AuthorityTypeOK, IsTable, Referenced
<1>2. /\ WithinGrant(row, g)
      /\ row.depth # 1 => /\ row.parent \in DOMAIN delegations
                          /\ WithinParent(row, delegations[row.parent])
  BY DEF IInv, Narrowed
<1>3. row.depth # 1 => delegations[row.parent] \in DelegRow
  BY <1>2 DEF IInv, TypeOK, AuthorityTypeOK, IsTable
<1>4. /\ new.grant_id = row.grant_id /\ new.delegator = row.delegator
      /\ new.delegatee = row.delegatee /\ new.depth = row.depth
      /\ new.parent = row.parent /\ new.region_scope = row.region_scope
      /\ new.allow = row.allow /\ new.expires_at = row.expires_at
  BY <1>1 DEF DelegRow
<1>5. RevokePasses(row) <=> MustNarrow(new)
  BY DEF RevokePasses
<1> HIDE DEF new
<1>6. NarrowsGrant(new, g) <=> ~(row.expires_at > g.expires_at)
  BY <1>1, <1>2, <1>4 DEF NarrowsGrant, WithinGrant, DelegRow, GrantRow
<1>7. CASE row.depth = 1
  <2>1. row.parent = NULL /\ HandedOverByGrantee(new, g) /\ KindOf[new.delegatee] = "agent"
    BY <1>2, <1>4, <1>7 DEF WithinGrant, HandedOverByGrantee
  <2>2. MustNarrow(new) <=> NarrowsGrant(new, g)
    BY <1>4, <1>7, <2>1 DEF MustNarrow
  <2> QED BY <1>5, <1>6, <2>1, <2>2 DEF CutShort
<1>8. CASE row.depth # 1
  <2>1. row.parent # NULL /\ KindOf[new.delegatee] = "agent"
    BY <1>1, <1>2, <1>4, <1>8 DEF WithinGrant
  <2>2. HandedOverByParent(new) <=> ~(row.expires_at > delegations[row.parent].expires_at)
    BY <1>1, <1>2, <1>3, <1>4, <1>8, <2>1 DEF HandedOverByParent, WithinParent, DelegRow
  <2>3. MustNarrow(new) <=> HandedOverByParent(new) /\ NarrowsGrant(new, g)
    BY <1>4, <1>8, <2>1 DEF MustNarrow
  <2> QED BY <1>5, <1>6, <2>1, <2>2, <2>3 DEF CutShort
<1> QED BY <1>7, <1>8

\* A hop of an honoured chain is stored, unrevoked and not its own parent.
LEMMA HonouredHop ==
  ASSUME IInv, NEW c \in LiveDelegated, NEW h \in Hops(c.delegation_id)
  PROVE  h \in DOMAIN delegations /\ ~delegations[h].revoked /\ delegations[h].parent # h
<1>1. ChainHolds(c, now)
  BY DEF LiveDelegated, Live, Delegated, Authorizes, VerifyCredential
<1>2. c.delegation_id \in DOMAIN delegations /\ h \in DOMAIN delegations
  BY <1>1 DEF ChainHolds, Hops
<1>3. ~delegations[h].revoked
  BY <1>1 DEF ChainHolds, HopIsLive
<1>4. PICK r \in Hops(c.delegation_id) : delegations[r].parent = NULL
  BY <1>1 DEF ChainHolds, Roots
<1> QED BY <1>2, <1>3, <1>4, RootedWalk

\* Whatever expiries are edited, the trigger refuses to revoke a hop of an
\* honoured chain exactly while an expiry right above it is cut below its own
\* (schema.sql, delegation_narrow on UPDATE).
THEOREM RefusalIsCut == MaintainedSpec => []RefusedOnlyWhenCut
<1>1. IInv => RefusedOnlyWhenCut
  BY HonouredHop, RevokeTrigger DEF RefusedOnlyWhenCut
<1> QED BY <1>1, Invariance, PTL

-----------------------------------------------------------------------------
\* No delegation outlives its grant or, unless it names itself, its parent.
Outlived ==
  \A d \in DOMAIN delegations :
    LET row == delegations[d]
    IN /\ row.expires_at <= grants[row.grant_id].expires_at
       /\ row.depth # 1 /\ row.parent # d =>
            row.expires_at <= delegations[row.parent].expires_at

LEMMA OutlivedStep ==
  ASSUME IInv, Outlived, [Next]_vars
  PROVE  Outlived'
<1>0. GrantsKept /\ DelegationsKept /\ ExpiriesKept
  BY RowsKept, ExpiryStep DEF IInv
<1> SUFFICES ASSUME NEW d \in DOMAIN delegations'
             PROVE  LET row == delegations'[d]
                    IN /\ row.expires_at <= grants'[row.grant_id].expires_at
                       /\ row.depth # 1 /\ row.parent # d =>
                            row.expires_at <= delegations'[row.parent].expires_at
  BY DEF Outlived
<1>1. CASE d \in DOMAIN delegations
  <2>1. SameDelegation(delegations[d], delegations'[d])
    BY <1>0, <1>1 DEF DelegationsKept
  <2>2. /\ delegations[d].grant_id \in DOMAIN grants
        /\ delegations[d].depth # 1 => delegations[d].parent \in DOMAIN delegations
    BY <1>1 DEF IInv, Referenced, Narrowed
  <2> QED BY <1>0, <1>1, <2>1, <2>2 DEF Outlived, ExpiriesKept, SameDelegation
<1>2. CASE d \notin DOMAIN delegations
  <2>1. PICK q \in DelegRequests : CreateDelegation(d, q)
    BY <1>2, NewDelegation DEF IInv
  <2> DEFINE row == RowOf(q)
  <2>2. /\ delegations'[d] = row /\ grants' = grants /\ row.grant_id \in DOMAIN grants
        /\ row.depth # 1 /\ row.parent # d => row.parent \in DOMAIN delegations
    BY <2>1, CreatedRow DEF IInv
  <2>3. row.expires_at <= grants[row.grant_id].expires_at
    BY <2>1 DEF CreateDelegation, MustNarrow, NarrowsGrant
  <2>4. ASSUME row.depth # 1, row.parent # d
        PROVE  row.expires_at <= delegations'[row.parent].expires_at
    <3>1. row.expires_at <= delegations[row.parent].expires_at
      BY <2>1, <2>2, <2>4 DEF CreateDelegation, MustNarrow, HandedOverByParent
    <3> QED BY <1>0, <2>2, <2>4, <3>1 DEF ExpiriesKept
  <2> QED BY <2>2, <2>3, <2>4
<1> QED BY <1>1, <1>2

\* Whatever is honoured can be revoked (cli.py, delegation revoke): the trigger
\* that fires on the UPDATE of revoke_delegation finds the row as narrow as it
\* was when it was stored, as long as nobody edits an expiry.
THEOREM Revocable == Spec => []LiveIsRevocable
<1>1. Init => Outlived
  BY DEF Init, EmptyTable, Outlived
<1>2. IInv /\ Outlived /\ [Next]_vars => Outlived'
  BY OutlivedStep
<1>3. ASSUME IInv, Outlived, NEW c \in LiveDelegated
      PROVE  RevokePasses(delegations[c.delegation_id])
  <2> DEFINE d == c.delegation_id
             row == delegations[d]
  <2>1. ChainHolds(c, now)
    BY DEF LiveDelegated, Live, Delegated, Authorizes, VerifyCredential
  <2>2. d \in DOMAIN delegations /\ d \in Hops(d)
    BY <2>1, HopsSelf DEF ChainHolds
  <2>3. row.parent # d /\ ~row.revoked
    BY <1>3, <2>2, HonouredHop
  <2>4. /\ row \in DelegRow /\ row.grant_id \in DOMAIN grants
        /\ grants[row.grant_id] \in GrantRow
        /\ row.parent \in DOMAIN delegations => delegations[row.parent] \in DelegRow
        /\ row.depth # 1 => row.parent \in DOMAIN delegations
        /\ row.depth = 1 => row.parent = NULL
    BY <1>3, <2>2, <2>3
    DEF IInv, TypeOK, AuthorityTypeOK, IsTable, Referenced, Narrowed, WithinGrant
  <2>5. /\ row.expires_at <= grants[row.grant_id].expires_at
        /\ row.depth # 1 => row.expires_at <= delegations[row.parent].expires_at
    BY <1>3, <2>2, <2>3 DEF Outlived
  <2>6. ~CutShort(row)
    BY <2>4, <2>5 DEF CutShort, DelegRow, GrantRow
  <2> QED BY <1>3, <2>2, <2>3, <2>6, RevokeTrigger
<1>4. IInv /\ Outlived => LiveIsRevocable
  BY <1>3 DEF LiveIsRevocable
<1> QED BY <1>1, <1>2, <1>4, Invariance, SpecIsMaintained, PTL DEF Spec

-----------------------------------------------------------------------------
LEMMA HopsClosed ==
  ASSUME NEW d, NEW h \in Hops(d), delegations[h].parent \in DOMAIN delegations
  PROVE  delegations[h].parent \in Hops(d)
  BY DEF Hops

\* What a hop walks to, the walk it is on goes to as well.
LEMMA HopsNest ==
  ASSUME NEW d, NEW h \in Hops(d)
  PROVE  Hops(h) \subseteq Hops(d)
<1>1. Hops(d) \in SUBSET DOMAIN delegations
  BY DEF Hops
<1> QED BY <1>1, HopsClosed, HopsWithin

LEMMA AtMostThree ==
  ASSUME NEW x, NEW y, NEW z, NEW S \in SUBSET {x, y, z}
  PROVE  Cardinality(S) \in 0 .. 3
<1>1. IsFiniteSet({x}) /\ Cardinality({x}) = 1
  BY FS_Singleton
<1>2. {x} \cup {y} = {x, y} /\ {x, y} \cup {z} = {x, y, z}
  OBVIOUS
<1>3. IsFiniteSet({x, y}) /\ Cardinality({x, y}) \in {1, 2}
  BY <1>1, <1>2, FS_AddElement
<1>4. IsFiniteSet({x, y, z}) /\ Cardinality({x, y, z}) \in {1, 2, 3}
  BY <1>2, <1>3, FS_AddElement
<1>5. Cardinality(S) <= Cardinality({x, y, z}) /\ Cardinality(S) \in Nat
  BY <1>4, FS_Subset, FS_CardinalityType
<1> QED BY <1>4, <1>5

\* On a walk that reaches a root, every hop reaches one, in at most three steps.
LEMMA HopIsRooted ==
  ASSUME IInv, NEW d \in DOMAIN delegations,
         NEW r \in Hops(d), delegations[r].parent = NULL, NEW h \in Hops(d)
  PROVE  \E q \in Roots(h) : delegations[q].depth = 1
<1> DEFINE parent(x) == delegations[x].parent
           depth(x) == delegations[x].depth
<1>1. NULL \notin DOMAIN delegations /\ Hops(d) \subseteq DOMAIN delegations
  BY NullAssumption DEF IInv, TypeOK, AuthorityTypeOK, IsTable, Hops
<1>2. ASSUME NEW x \in Hops(d)
      PROVE  /\ depth(x) \in Depths
             /\ depth(x) = 1 => parent(x) = NULL
             /\ depth(x) # 1 => /\ parent(x) \in Hops(d) /\ parent(x) # x
                                /\ depth(parent(x)) = depth(x) - 1
  <2>1. parent(x) # x /\ x \in DOMAIN delegations
    BY <1>1, RootedWalk
  <2>2. /\ depth(x) \in Depths
        /\ depth(x) = 1 => parent(x) = NULL
        /\ depth(x) # 1 => parent(x) \in DOMAIN delegations /\ depth(parent(x)) = depth(x) - 1
    BY <2>1 DEF IInv, TypeOK, AuthorityTypeOK, IsTable, DelegRow, Narrowed, WithinGrant,
                WithinParent
  <2> QED BY <2>1, <2>2, HopsClosed
<1>3. ASSUME NEW x, NEW y, NEW z \in Hops(h), h \in {x, y, z},
             {x, y, z} \subseteq DOMAIN delegations, depth(z) = 1, z \in Hops(d),
             \A e \in {x, y, z} : parent(e) \in DOMAIN delegations => parent(e) \in {x, y, z}
      PROVE  \E q \in Roots(h) : delegations[q].depth = 1
  <2>1. Hops(h) \subseteq {x, y, z}
    BY <1>3, HopsWithin
  <2>2. Cardinality(Hops(h)) <= MaxHops + 1
    <3>1. Cardinality(Hops(h)) \in 0 .. 3
      BY <2>1, AtMostThree
    <3> QED BY <3>1 DEF MaxHops
  <2>3. z \in Roots(h)
    BY <1>2, <1>3, <2>2 DEF Roots
  <2> QED BY <1>3, <2>3
<1>4. h \in Hops(h) /\ h \in DOMAIN delegations
  BY <1>1, HopsSelf
<1>5. CASE depth(h) = 1
  BY <1>1, <1>2, <1>3, <1>4, <1>5
<1>6. CASE depth(h) = 2
  <2> DEFINE p == parent(h)
  <2>1. p \in Hops(d) /\ depth(p) = 1 /\ p \in Hops(h)
    BY <1>1, <1>2, <1>4, <1>6, HopsClosed
  <2>2. parent(p) = NULL /\ p \in DOMAIN delegations
    BY <1>1, <1>2, <2>1
  <2> HIDE DEF p
  <2> QED BY <1>1, <1>3, <1>4, <2>1, <2>2 DEF p
<1>7. CASE depth(h) = 3
  <2> DEFINE p == parent(h)
             q == parent(p)
  <2>1. p \in Hops(d) /\ depth(p) = 2 /\ p \in Hops(h)
    BY <1>1, <1>2, <1>4, <1>7, HopsClosed
  <2>2. q \in Hops(d) /\ depth(q) = 1 /\ q \in Hops(h)
    BY <1>1, <1>2, <2>1, HopsClosed
  <2>3. parent(q) = NULL /\ q \in DOMAIN delegations /\ p \in DOMAIN delegations
    BY <1>1, <1>2, <2>1, <2>2
  <2>4. /\ {h, p, q} \subseteq DOMAIN delegations
        /\ \A e \in {h, p, q} : parent(e) \in DOMAIN delegations => parent(e) \in {h, p, q}
    BY <1>1, <1>4, <2>3
  <2> HIDE DEF q, p
  <2> QED BY <1>3, <2>2, <2>4
<1> QED BY <1>2, <1>5, <1>6, <1>7 DEF Depths

\* A credential with another subject and delegation is signed as it was.
LEMMA Presented ==
  ASSUME NEW c \in Credential, NEW t, VerifyCredential(c, t) # NULL,
         NEW u \in Credential, u.signed = c.signed, u.exp = c.exp
  PROVE  VerifyCredential(u, t) = u /\ u # NULL
  BY NullAssumption DEF VerifyCredential

\* An authority with the same grant shows at least what a narrower one shows.
LEMMA WiderShowsMore ==
  ASSUME NEW a \in Authorization, NEW b \in Authorization,
         a.provider_org = b.provider_org, a.grantee_org = b.grantee_org,
         a.max_classification = b.max_classification,
         a.region_scope \subseteq b.region_scope
  PROVE  VisibleRows(a) \subseteq VisibleRows(b)
  BY NullAssumption DEF VisibleRows, PolicyAdmits

\* What current_auth returns is a row of its type.
LEMMA AuthRowTyped ==
  ASSUME AuthorityTypeOK, NEW c \in Credential, c.grant_id \in DOMAIN grants
  PROVE  AuthRow(c) \in Authorization
<1>1. grants[c.grant_id] \in GrantRow
  BY DEF AuthorityTypeOK, IsTable
<1>2. /\ EffRegions(grants[c.grant_id], c.delegation_id) \subseteq Regions
      /\ EffAllow(grants[c.grant_id], c.delegation_id) \subseteq Caps
  BY <1>1 DEF EffRegions, EffAllow, GrantRow
<1> QED BY <1>1, <1>2 DEF AuthRow, Authorization, Credential, GrantRow

\* No agent reads what those above it on its chain could not: the grantee's own
\* credential and that of every enabled agent on the way are honoured too, by a
\* walk inside the walk, and intersecting fewer hops leaves more.
THEOREM NothingBeyondUpstream == MaintainedSpec => []NeverExceedsUpstream
<1> SUFFICES ASSUME IInv PROVE NeverExceedsUpstream
  BY Invariance, PTL
<1> SUFFICES ASSUME NEW c \in LiveDelegated
             PROVE  /\ Within(c, GranteeCredential(c))
                    /\ \A h \in Hops(c.delegation_id) :
                         delegations[h].delegatee \in disabled \/ Within(c, HopCredential(c, h))
  BY DEF NeverExceedsUpstream
<1> DEFINE d == c.delegation_id
           g == grants[c.grant_id]
<1>1. c \in Credential /\ Delegated(c) /\ Authorizes(c, now)
  BY DirectoryAssumption DEF LiveDelegated, Live
<1>2. /\ VerifyCredential(c, now) = c /\ c # NULL
      /\ c.grant_id \in DOMAIN grants /\ GrantIsLive(g, now) /\ ChainHolds(c, now)
  BY <1>1 DEF Delegated, Authorizes, VerifyCredential
<1>3. g \in GrantRow /\ d \in DOMAIN delegations
  BY <1>2 DEF IInv, TypeOK, AuthorityTypeOK, IsTable, ChainHolds
<1>4. PICK r \in Roots(d) :
        /\ delegations[r].delegator = g.grantee_principal
        /\ CheckedPrincipals(g, d, r) \cap disabled = {}
  BY <1>2 DEF ChainHolds
<1>5. g.grantee_principal \notin disabled
  BY <1>4 DEF CheckedPrincipals
<1>6. AuthRow(c) \in Authorization
  BY <1>1, <1>2, AuthRowTyped DEF IInv, TypeOK
<1>7. Within(c, GranteeCredential(c))
  <2> DEFINE u == GranteeCredential(c)
  <2>1. /\ VerifyCredential(u, now) = u /\ u # NULL
        /\ u.sub = g.grantee_principal /\ u.delegation_id = NULL /\ u.grant_id = c.grant_id
    <3>1. /\ u \in Credential /\ u.signed = c.signed /\ u.exp = c.exp
          /\ u.sub = g.grantee_principal /\ u.delegation_id = NULL /\ u.grant_id = c.grant_id
      BY <1>1, <1>3 DEF GranteeCredential, Credential, GrantRow
    <3> HIDE DEF u
    <3> QED BY <1>1, <1>2, <3>1, Presented
  <2>2. u \in Credential
    BY <1>1, <1>3 DEF GranteeCredential, Credential, GrantRow
  <2> HIDE DEF u
  <2>3. Live(u)
    BY <1>2, <1>5, <2>1 DEF Live, Authorizes, DirectHolds
  <2>4. AuthRow(u) \in Authorization
    BY <1>2, <2>1, <2>2, AuthRowTyped DEF IInv, TypeOK
  <2>5. /\ AuthRow(c).region_scope \subseteq AuthRow(u).region_scope
        /\ AuthRow(c).allow \subseteq AuthRow(u).allow
        /\ AuthRow(c).provider_org = AuthRow(u).provider_org
        /\ AuthRow(c).grantee_org = AuthRow(u).grantee_org
        /\ AuthRow(c).max_classification = AuthRow(u).max_classification
    BY <1>1, <2>1 DEF AuthRow, Delegated, EffRegions, EffAllow
  <2> QED BY <1>6, <2>3, <2>4, <2>5, WiderShowsMore DEF Within, u
<1>8. ASSUME NEW h \in Hops(d), delegations[h].delegatee \notin disabled
      PROVE  Within(c, HopCredential(c, h))
  <2> DEFINE u == HopCredential(c, h)
             p == delegations[h].delegatee
  <2>0. h \in DOMAIN delegations /\ h \in DelegIds /\ p \in Principals /\ h # NULL
    BY <1>3, <1>8, NullAssumption DEF Hops, IInv, TypeOK, AuthorityTypeOK, IsTable, DelegRow
  <2>1. /\ VerifyCredential(u, now) = u /\ u # NULL /\ u \in Credential
        /\ u.sub = p /\ u.delegation_id = h /\ u.grant_id = c.grant_id
    <3>1. /\ u \in Credential /\ u.signed = c.signed /\ u.exp = c.exp
          /\ u.sub = p /\ u.delegation_id = h /\ u.grant_id = c.grant_id
      BY <1>1, <2>0 DEF HopCredential, Credential
    <3> HIDE DEF u, p
    <3> QED BY <1>1, <1>2, <3>1, Presented
  <2> HIDE DEF u
  <2>2. Hops(h) \subseteq Hops(d)
    BY <1>8, HopsNest
  <2>3. PICK q \in Roots(h) : delegations[q].depth = 1
    BY <1>3, <1>4, <1>8, HopIsRooted DEF Roots
  <2>4. q \in Hops(d) /\ q \in DOMAIN delegations /\ delegations[q].grant_id = c.grant_id
    BY <1>2, <2>2, <2>3 DEF Roots, ChainHolds, Hops
  <2>5. delegations[q].delegator = g.grantee_principal
    BY <2>3, <2>4 DEF IInv, Narrowed, WithinGrant
  <2>6. ChainHolds(u, now)
    <3>1. \A k \in Hops(h) : delegations[k].grant_id = c.grant_id /\ HopIsLive(delegations[k], now)
      BY <1>2, <2>2 DEF ChainHolds
    <3>2. CheckedPrincipals(g, h, q) \cap disabled = {}
      BY <1>5, <1>8, <2>5 DEF CheckedPrincipals
    <3> QED BY <2>0, <2>1, <2>3, <2>5, <3>1, <3>2 DEF ChainHolds
  <2>7. Live(u)
    BY <1>2, <2>0, <2>1, <2>6 DEF Live, Authorizes
  <2>8. AuthRow(u) \in Authorization
    BY <1>2, <2>1, AuthRowTyped DEF IInv, TypeOK
  <2>9. /\ AuthRow(c).region_scope \subseteq AuthRow(u).region_scope
        /\ AuthRow(c).allow \subseteq AuthRow(u).allow
        /\ AuthRow(c).provider_org = AuthRow(u).provider_org
        /\ AuthRow(c).grantee_org = AuthRow(u).grantee_org
        /\ AuthRow(c).max_classification = AuthRow(u).max_classification
    BY <1>1, <2>0, <2>1, <2>2 DEF AuthRow, Delegated, EffRegions, EffAllow
  <2> QED BY <1>6, <2>7, <2>8, <2>9, WiderShowsMore DEF Within, u
<1> QED BY <1>7, <1>8
=============================================================================
