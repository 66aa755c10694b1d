----------------------------- MODULE MCGovernance -----------------------------
(***************************************************************************)
(* A small instance of Governance, with the oracle beside the database: a  *)
(* steward of the provider, an analyst of the consumer and two of the      *)
(* consumer's agents; one grant, and a chain of up to two or three         *)
(* delegations under it.                                                   *)
(***************************************************************************)
EXTENDS Oracle, TLC

CONSTANTS nw, mr, dana, priya, a1, a2, EU, UK, g1, d1, d2, d3, s1, s2, s3

MCOrgOf == [p \in Principals |-> IF p = dana THEN nw ELSE mr]
MCKindOf == [p \in Principals |-> IF p \in {dana, priya} THEN "human" ELSE "agent"]

Row(region, class, partner) ==
  [owner_org |-> nw, region |-> region, classification |-> class, partner_org |-> partner]
MCShipment == (s1 :> Row(EU, 1, NULL)) @@ (s2 :> Row(UK, 2, mr)) @@ (s3 :> Row(EU, 3, mr))

GrantTo(p, regions, allow, lifetime) ==
  [provider_org |-> nw, grantee_org |-> mr, grantee_principal |-> p,
   region_scope |-> regions, max_classification |-> 2, allow |-> allow,
   lifetime |-> lifetime]

HandOver(from, to, depth, parent, regions, allow, lifetime) ==
  [grant_id |-> g1, delegator |-> from, delegatee |-> to, depth |-> depth,
   parent |-> parent, region_scope |-> regions, allow |-> allow,
   lifetime |-> lifetime]

MCGrantRequests ==
  {GrantTo(priya, {EU, UK}, {"cost"}, 2), GrantTo(priya, {EU}, {"cost"}, 1),
   GrantTo(a1, {EU}, {}, 1)}

\* A root, its sub-delegation and one below that; a root too wide for any
\* grant; a sub-delegation wider than its parent, and one that outlives it; one
\* that names itself as its parent; one skipping a level; one too deep.
HandOvers ==
  {HandOver(priya, a1, 1, NULL, {EU}, {"cost"}, 1),
   HandOver(priya, a1, 1, NULL, {EU}, {"contact"}, 1),
   HandOver(a1, a2, 2, d1, {EU}, {}, 1),
   HandOver(a1, a2, 2, d1, {EU, UK}, {}, 1),
   HandOver(a1, a2, 2, d1, {EU}, {}, 2),
   HandOver(a1, a2, 2, d2, {EU}, {}, 1),
   HandOver(a2, a1, 3, d2, {EU}, {}, 1),
   HandOver(a2, a1, 3, d1, {EU}, {}, 1),
   HandOver(a1, a2, 4, d3, {EU}, {}, 1)}

MCDelegRequests == {q \in HandOvers : q.parent \in DelegIds \cup {NULL}}

Token(sub, d, exp, signed) ==
  [sub |-> sub, grant_id |-> g1, delegation_id |-> d, exp |-> exp, signed |-> signed]

\* One genuine token for the grantee and one for each delegation.
MCCredentials ==
  {Token(priya, NULL, 9, TRUE)} \cup
  {Token(IF d = d2 THEN a2 ELSE a1, d, 9, TRUE) : d \in DelegIds}

\* And tokens that are forged, that expire, or that name another's delegation.
MCAllCredentials ==
  MCCredentials \cup
  {Token(a1, d1, 1, TRUE), Token(a1, d1, 9, FALSE), Token(a2, d1, 9, TRUE),
   Token(a1, NULL, 9, TRUE)}
=============================================================================
