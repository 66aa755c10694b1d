------------------------------- MODULE Oracle --------------------------------
(***************************************************************************)
(* expected.py: the repository's own independent derivation of the right   *)
(* answer, against which its tests and benchmarks compare the portal.  It  *)
(* reads the raw tables and walks the chain hop by hop.                    *)
(***************************************************************************)
EXTENDS Governance

\* The loop's hop after n iterations from d; NULL once it has left the root.
Walk(d) ==
  LET hop[n \in 0 .. MaxHops] ==
        IF n = 0 THEN d
        ELSE IF hop[n - 1] = NULL THEN NULL
             ELSE delegations[hop[n - 1]].parent
  IN hop

HopAlive(h, id, t) ==
  /\ h.grant_id = id
  /\ ~h.revoked /\ h.expires_at > t
  /\ h.delegatee \notin disabled

Rows(g, regions) ==
  {s \in ShipmentIds :
     LET r == Shipment[s]
     IN /\ r.owner_org = g.provider_org
        /\ r.region \in regions
        /\ r.classification <= g.max_classification
        /\ r.partner_org = NULL \/ r.partner_org = g.grantee_org}

Answer(rows, allow) == [row_ids |-> rows, allow |-> allow]

ASSUME DenialAssumption == NULL \notin [row_ids : SUBSET ShipmentIds, allow : SUBSET Caps]

ExpectDirect(subject, g) ==
  IF subject = g.grantee_principal /\ subject \notin disabled
  THEN Answer(Rows(g, g.region_scope), g.allow)
  ELSE NULL

ExpectDelegated(subject, id, d, t) ==
  LET g == grants[id]
      walk == Walk(d)
      seen == {walk[n] : n \in 0 .. MaxHops} \ {NULL}
      root == CHOOSE h \in seen : delegations[h].parent = NULL
  IN IF /\ delegations[d].delegatee = subject
        /\ \A h \in seen : HopAlive(delegations[h], id, t)
        /\ \E h \in seen : delegations[h].parent = NULL
        /\ delegations[root].delegator = g.grantee_principal
        /\ delegations[root].depth = 1
        /\ g.grantee_principal \notin disabled
     THEN Answer(
            Rows(g, {x \in g.region_scope : \A h \in seen : x \in delegations[h].region_scope}),
            {x \in g.allow : \A h \in seen : x \in delegations[h].allow})
     ELSE NULL

\* expect_for: NULL is a denial.
Expect(subject, id, d, t) ==
  IF ~(id \in DOMAIN grants /\ GrantIsLive(grants[id], t)) THEN NULL
  ELSE IF d = NULL THEN ExpectDirect(subject, grants[id])
  ELSE IF d \in DOMAIN delegations THEN ExpectDelegated(subject, id, d, t)
  ELSE NULL

\* What the portal answers under one authorization.
Served(a) == IF a = NULL THEN NULL ELSE Answer(VisibleRows(a), a.allow)

\* An agent between the root's delegator and the leaf is disabled.
MidChainDisabled(d) ==
  d # NULL /\ \E h \in Hops(d) \ {d} : delegations[h].delegatee \in disabled

\* The database and the oracle give the same answer to every token they could
\* be given: rows, unmasked columns, and denials.  The one exception is a chain
\* with a disabled agent in its middle, which the oracle always denies.
OracleAgrees ==
  \A c \in Credentials :
    LET expected == Expect(c.sub, c.grant_id, c.delegation_id, now)
    IN CASE VerifyCredential(c, now) = NULL -> CurrentAuth(c, now) = NULL
         [] MidChainDisabled(c.delegation_id) -> expected = NULL
         [] OTHER -> Served(CurrentAuth(c, now)) = expected
=============================================================================
