------------------------------ MODULE Governance ------------------------------
(***************************************************************************)
(* How the tables that decide authority come to hold what they hold: the   *)
(* operator commands of cli.py and the definer functions they call.  Each  *)
(* is one autocommitted statement, so each is one atomic action.           *)
(*                                                                         *)
(* audit holds the committed audit_event rows of the governance functions  *)
(* as a set: a command repeated with the same arguments adds nothing to it.*)
(* Requesting, delegating, disabling and editing an expiry append no row.  *)
(***************************************************************************)
EXTENDS Authority

CONSTANTS
  GrantRequests,   \* argument lists of `portal grant request`
  DelegRequests,   \* argument lists of `portal delegation create`
  Actors,          \* the free-text actor of a revocation
  MaxTime          \* bound: the clock stops here

VARIABLES
  now,    \* the database clock
  audit   \* the governance rows of portal.audit_event

tables == <<grants, delegations, disabled>>
vars == <<grants, delegations, disabled, now, audit>>

GrantRequest ==
  [provider_org : Orgs, grantee_org : Orgs, grantee_principal : Principals,
   region_scope : SUBSET Regions, max_classification : Classes,
   allow : SUBSET Caps, lifetime : Int]

DelegRequest ==
  [grant_id : GrantIds, delegator : Principals, delegatee : Principals,
   depth : Int, parent : DelegIds \cup {NULL},
   region_scope : SUBSET Regions, allow : SUBSET Caps, lifetime : Int]

ASSUME RequestAssumption ==
  /\ GrantRequests \subseteq GrantRequest
  /\ DelegRequests \subseteq DelegRequest
  /\ MaxTime \in Nat

GovernanceEvent ==
  [action : {"grant.approve", "grant.revoke", "delegation.revoke"},
   subject : Principals \cup Actors, acting_for : Principals \cup {NULL},
   grant_id : GrantIds, delegation_id : DelegIds \cup {NULL},
   provider_org : Orgs, grantee_org : Orgs]

TypeOK ==
  /\ AuthorityTypeOK
  /\ now \in 0 .. MaxTime
  /\ audit \subseteq GovernanceEvent

Event(action, subject, acting_for, id, d) ==
  [action |-> action, subject |-> subject, acting_for |-> acting_for,
   grant_id |-> id, delegation_id |-> d,
   provider_org |-> grants[id].provider_org,
   grantee_org |-> grants[id].grantee_org]

EmptyTable == [i \in {} |-> NULL]

Init ==
  /\ grants = EmptyTable
  /\ delegations = EmptyTable
  /\ disabled = {}
  /\ now = 0
  /\ audit = {}
-----------------------------------------------------------------------------
\* The insert of `portal grant request`, and the trigger that refuses an agent.
RequestGrant(id, q) ==
  /\ id \notin DOMAIN grants
  /\ KindOf[q.grantee_principal] = "human"
  /\ grants' = Put(grants, id,
       [provider_org |-> q.provider_org, grantee_org |-> q.grantee_org,
        grantee_principal |-> q.grantee_principal,
        region_scope |-> q.region_scope,
        max_classification |-> q.max_classification, allow |-> q.allow,
        approved_by |-> NULL, expires_at |-> now + q.lifetime,
        revoked |-> FALSE])
  /\ UNCHANGED <<delegations, disabled, now, audit>>

\* Mutant: any human may approve.
AnyHuman(p, g) == KindOf[p] = "human"

MayApprove(p, g) == KindOf[p] = "human" /\ OrgOf[p] = g.provider_org

\* Mutant: approving again lifts a revocation.
ApproveAfresh(id, p) ==
  /\ id \in DOMAIN grants
  /\ MayApprove(p, grants[id])
  /\ grants' = [grants EXCEPT ![id].approved_by = p, ![id].revoked = FALSE]
  /\ audit' = audit \cup {Event("grant.approve", p, NULL, id, NULL)}
  /\ UNCHANGED <<delegations, disabled, now>>

\* approve_grant: it looks neither at the grant's state nor at disabled_at, and
\* a later approval overwrites an earlier one.
ApproveGrant(id, p) ==
  /\ id \in DOMAIN grants
  /\ MayApprove(p, grants[id])
  /\ grants' = [grants EXCEPT ![id].approved_by = p]
  /\ audit' = audit \cup {Event("grant.approve", p, NULL, id, NULL)}
  /\ UNCHANGED <<delegations, disabled, now>>

RevokeGrant(id, actor) ==
  /\ id \in DOMAIN grants
  /\ grants' = [grants EXCEPT ![id].revoked = TRUE]
  /\ audit' = audit \cup {Event("grant.revoke", actor, NULL, id, NULL)}
  /\ UNCHANGED <<delegations, disabled, now>>

-----------------------------------------------------------------------------
\* The trigger delegation_must_narrow, on the row being inserted or updated.
HandedOverByGrantee(row, g) == row.delegator = g.grantee_principal /\ row.parent = NULL

\* Mutant: a sub-delegation is measured against the grant alone.
HandedOverUnmeasured(row) ==
  /\ row.parent # NULL
  /\ row.parent \in DOMAIN delegations =>
       LET p == delegations[row.parent]
       IN /\ p.delegatee = row.delegator
          /\ p.depth = row.depth - 1
          /\ p.grant_id = row.grant_id

\* A parent the trigger's SELECT does not find leaves a NULL record, and every
\* comparison with NULL passes.
HandedOverByParent(row) ==
  /\ row.parent # NULL
  /\ row.parent \in DOMAIN delegations =>
       LET p == delegations[row.parent]
       IN /\ p.delegatee = row.delegator
          /\ p.depth = row.depth - 1
          /\ p.grant_id = row.grant_id
          /\ row.region_scope \subseteq p.region_scope
          /\ row.allow \subseteq p.allow
          /\ row.expires_at <= p.expires_at

NarrowsGrant(row, g) ==
  /\ row.region_scope \subseteq g.region_scope
  /\ row.allow \subseteq g.allow
  /\ row.expires_at <= g.expires_at

MustNarrow(row) ==
  LET g == grants[row.grant_id]
  IN /\ KindOf[row.delegatee] = "agent"
     /\ IF row.depth = 1 THEN HandedOverByGrantee(row, g) ELSE HandedOverByParent(row)
     /\ NarrowsGrant(row, g)

\* The foreign keys, tested when the statement ends: the row may name itself.
ReferencesExist(id, row) ==
  /\ row.grant_id \in DOMAIN grants
  /\ row.parent \in DOMAIN delegations \cup {id, NULL}

RowOf(q) ==
  [grant_id |-> q.grant_id, delegator |-> q.delegator, delegatee |-> q.delegatee,
   depth |-> q.depth, parent |-> q.parent, region_scope |-> q.region_scope,
   allow |-> q.allow, expires_at |-> now + q.lifetime, revoked |-> FALSE]

\* Mutants: the depth CHECK is missing; the trigger fires on UPDATE only.
CreateAtAnyDepth(id, q) ==
  /\ id \notin DOMAIN delegations
  /\ ReferencesExist(id, RowOf(q))
  /\ MustNarrow(RowOf(q))
  /\ delegations' = Put(delegations, id, RowOf(q))
  /\ UNCHANGED <<grants, disabled, now, audit>>

CreateUnchecked(id, q) ==
  /\ id \notin DOMAIN delegations
  /\ q.depth \in Depths
  /\ ReferencesExist(id, RowOf(q))
  /\ delegations' = Put(delegations, id, RowOf(q))
  /\ UNCHANGED <<grants, disabled, now, audit>>

CreateDelegation(id, q) ==
  /\ id \notin DOMAIN delegations
  /\ q.depth \in Depths
  /\ ReferencesExist(id, RowOf(q))
  /\ MustNarrow(RowOf(q))
  /\ delegations' = Put(delegations, id, RowOf(q))
  /\ UNCHANGED <<grants, disabled, now, audit>>

\* The trigger also fires on the UPDATE of a revocation; on a row already
\* revoked that UPDATE touches no row and nothing fires.
RevokePasses(row) == row.revoked \/ MustNarrow([row EXCEPT !.revoked = TRUE])

RevokeDelegation(id, actor) ==
  /\ id \in DOMAIN delegations
  /\ RevokePasses(delegations[id])
  /\ delegations' = [delegations EXCEPT ![id].revoked = TRUE]
  /\ audit' = audit \cup
       {Event("delegation.revoke", actor, delegations[id].delegator,
              delegations[id].grant_id, id)}
  /\ UNCHANGED <<grants, disabled, now>>

-----------------------------------------------------------------------------
\* `portal disable-principal`, and the same command with --enable.
DisablePrincipal(p) ==
  /\ disabled' = disabled \cup {p}
  /\ UNCHANGED <<grants, delegations, now, audit>>

EnablePrincipal(p) ==
  /\ disabled' = disabled \ {p}
  /\ UNCHANGED <<grants, delegations, now, audit>>

Tick ==
  /\ now < MaxTime
  /\ now' = now + 1
  /\ UNCHANGED <<grants, delegations, disabled, audit>>

\* An expiry edited by hand over an administrator's connection.
SetGrantExpiry(id, t) ==
  /\ id \in DOMAIN grants
  /\ grants' = [grants EXCEPT ![id].expires_at = t]
  /\ UNCHANGED <<delegations, disabled, now, audit>>

SetDelegationExpiry(id, t) ==
  /\ id \in DOMAIN delegations
  /\ MustNarrow([delegations[id] EXCEPT !.expires_at = t])
  /\ delegations' = [delegations EXCEPT ![id].expires_at = t]
  /\ UNCHANGED <<grants, disabled, now, audit>>

Command ==
  \/ \E id \in GrantIds :
       \/ \E q \in GrantRequests : RequestGrant(id, q)
       \/ \E p \in Principals : ApproveGrant(id, p)
       \/ \E a \in Actors : RevokeGrant(id, a)
  \/ \E id \in DelegIds :
       \/ \E q \in DelegRequests : CreateDelegation(id, q)
       \/ \E a \in Actors : RevokeDelegation(id, a)
  \/ \E p \in Principals : DisablePrincipal(p) \/ EnablePrincipal(p)

Maintenance ==
  \/ \E id \in GrantIds, t \in 0 .. MaxTime : SetGrantExpiry(id, t)
  \/ \E id \in DelegIds, t \in 0 .. MaxTime : SetDelegationExpiry(id, t)

Next == Command \/ Tick
Spec == Init /\ [][Next]_vars

\* The commands, and expiries edited by hand.
MaintainedSpec == Init /\ [][Next \/ Maintenance]_vars
-----------------------------------------------------------------------------

\* What the trigger leaves true of a stored row, against its grant and its
\* parent, whatever expiries are edited later.
WithinGrant(row, g) ==
  /\ KindOf[row.delegatee] = "agent"
  /\ row.region_scope \subseteq g.region_scope
  /\ row.allow \subseteq g.allow
  /\ row.depth = 1 => row.delegator = g.grantee_principal /\ row.parent = NULL

WithinParent(row, p) ==
  /\ p.delegatee = row.delegator
  /\ p.depth = row.depth - 1
  /\ p.grant_id = row.grant_id
  /\ row.region_scope \subseteq p.region_scope
  /\ row.allow \subseteq p.allow

Live(c) == Authorizes(c, now)
Delegated(c) == c.delegation_id # NULL
LiveDelegated == {c \in Credentials : Live(c) /\ Delegated(c)}

\* Narrowing at creation and intersecting at use agree: whenever a delegated
\* credential is honoured, the scope current_auth computes over the whole chain
\* is the one the leaf's own row states (schema.sql, delegation_must_narrow
\* against current_auth's loop).
LeafScopeIsEffective ==
  \A c \in LiveDelegated :
    LET d == delegations[c.delegation_id]
        a == AuthRow(c)
    IN a.region_scope = d.region_scope /\ a.allow = d.allow

\* An honoured chain is a line of hand-overs: each hop was delegated by the
\* agent its parent was delegated to, one level deeper, under the same grant;
\* the first by the human who holds the grant; and a human of the provider
\* approved the grant and the trail says so.
AuthorityIsChained ==
  \A c \in LiveDelegated :
    LET g == grants[c.grant_id]
    IN /\ KindOf[g.grantee_principal] = "human"
       /\ KindOf[g.approved_by] = "human" /\ OrgOf[g.approved_by] = g.provider_org
       /\ Event("grant.approve", g.approved_by, NULL, c.grant_id, NULL) \in audit
       /\ \A h \in Hops(c.delegation_id) :
            LET row == delegations[h]
                p == delegations[row.parent]
            IN /\ KindOf[row.delegatee] = "agent"
               /\ IF row.parent = NULL
                  THEN row.delegator = g.grantee_principal /\ row.depth = 1
                  ELSE row.delegator = p.delegatee /\ row.depth = p.depth + 1

\* The credential an upstream holder of the chain would present.
HopCredential(c, h) ==
  [c EXCEPT !.sub = delegations[h].delegatee, !.delegation_id = h]

GranteeCredential(c) ==
  [c EXCEPT !.sub = grants[c.grant_id].grantee_principal, !.delegation_id = NULL]

Within(c, u) ==
  /\ Live(u)
  /\ VisibleRows(AuthRow(c)) \subseteq VisibleRows(AuthRow(u))
  /\ AuthRow(c).allow \subseteq AuthRow(u).allow

\* An agent never reads what those above it could not read themselves: while
\* its credential is honoured, the grantee's own and every enabled upstream
\* agent's would be too, and would show at least the same rows and columns.
NeverExceedsUpstream ==
  \A c \in LiveDelegated :
    /\ Within(c, GranteeCredential(c))
    /\ \A h \in Hops(c.delegation_id) :
         delegations[h].delegatee \in disabled \/ Within(c, HopCredential(c, h))

\* Every delegation that is honoured can be revoked (cli.py:247 "Kills every
\* credential below it in the chain too"): the UPDATE of revoke_delegation
\* passes the narrowing trigger that fires on it.  It holds of Spec;
\* MaintainedSpec contradicts it.
LiveIsRevocable ==
  \A c \in LiveDelegated : RevokePasses(delegations[c.delegation_id])

\* The grant's or the parent's expiry has been cut below this row's own.
CutShort(row) ==
  \/ row.expires_at > grants[row.grant_id].expires_at
  \/ row.parent # NULL /\ row.expires_at > delegations[row.parent].expires_at

\* When the trigger refuses to revoke a hop of an honoured chain (schema.sql:283
\* fires on UPDATE, too), with expiries edited in any order: exactly while an
\* expiry right above that hop is cut below its own.  Nothing else that happens
\* after a row was stored stands in the way of revoking it.
RefusedOnlyWhenCut ==
  \A c \in LiveDelegated : \A h \in Hops(c.delegation_id) :
    RevokePasses(delegations[h]) <=> ~CutShort(delegations[h])

RevokedFor(c) ==
  \/ c.grant_id \in DOMAIN grants /\ grants[c.grant_id].revoked
  \/ \E h \in Hops(c.delegation_id) : delegations[h].revoked

ExpiredFor(c) ==
  \/ c.grant_id \in DOMAIN grants /\ grants[c.grant_id].expires_at <= now
  \/ \E h \in Hops(c.delegation_id) : delegations[h].expires_at <= now
  \/ c.exp <= now

\* Revocation of a grant or of any hop is final for every credential below it:
\* no later approval, delegation, enabling or edited expiry brings one back.
RevokedStaysDead ==
  [][\A c \in Credentials : RevokedFor(c) => RevokedFor(c)' /\ ~Live(c)']_vars

\* So is expiry, of the grant, of a hop or of the token itself, as long as
\* nobody edits an expiry by hand.
ExpiredStaysDead ==
  [][\A c \in Credentials : ExpiredFor(c) => ExpiredFor(c)' /\ ~Live(c)']_vars

\* Contradicted by the code, one run each.

\* schema.sql:407 "a disabled principal anywhere in the chain kills it".
DisabledAnywhereKillsChain ==
  \A c \in LiveDelegated : \A h \in Hops(c.delegation_id) :
    {delegations[h].delegator, delegations[h].delegatee} \cap disabled = {}

\* schema.sql:240 "a sub-delegation must chain to a parent held by the
\* delegator": whatever parent a stored row names, its delegator holds it.
ParentHeldByDelegator ==
  \A d \in DOMAIN delegations :
    LET row == delegations[d]
    IN row.parent = NULL \/ delegations[row.parent].delegatee = row.delegator
=============================================================================
