------------------------------ MODULE Authority ------------------------------
(***************************************************************************)
(* Who may read which shipments, at one instant.                           *)
(*                                                                         *)
(* The three tables that decide it are the variables: portal.data_grant    *)
(* (grants), portal.delegation (delegations) and the disabled_at column of *)
(* portal.principal (disabled).  CurrentAuth is portal.current_auth(): the *)
(* presented credential joined against those tables.  One SQL statement is *)
(* one evaluation of it, on the tables as they are committed then.         *)
(*                                                                         *)
(* A timestamp column that is only ever tested for NULL (approved_at,      *)
(* revoked_at, disabled_at) is a boolean here or the name stored with it;  *)
(* allow_cost and allow_contact are one set of capabilities.               *)
(***************************************************************************)
EXTENDS Integers, FiniteSets

CONSTANTS
  Orgs,         \* portal.org
  Principals,   \* portal.principal, human and agent
  OrgOf,        \* principal -> org
  KindOf,       \* principal -> kind
  Regions,      \* values of shipment.region and of every region_scope
  ShipmentIds,  \* primary keys of portal.shipment
  Shipment,     \* shipment id -> its row: the table is loaded once, never written
  GrantIds,     \* primary keys data_grant may use
  DelegIds,     \* primary keys delegation may use
  Credentials,  \* the tokens in circulation, forged ones included
  NULL

VARIABLES
  grants,       \* grant id -> row
  delegations,  \* delegation id -> row
  disabled      \* the principals with a disabled_at

Kinds == {"human", "agent"}
Caps == {"cost", "contact"}
Classes == 1 .. 3      \* class_rank of public, internal, restricted
Depths == 1 .. 3       \* CHECK (depth BETWEEN 1 AND 3)
MaxHops == 8           \* the loop bound of current_auth's chain walk

GrantRow ==
  [provider_org : Orgs, grantee_org : Orgs, grantee_principal : Principals,
   region_scope : SUBSET Regions, max_classification : Classes,
   allow : SUBSET Caps, approved_by : Principals \cup {NULL},
   expires_at : Int, revoked : BOOLEAN]

DelegRow ==
  [grant_id : GrantIds, delegator : Principals, delegatee : Principals,
   depth : Depths, parent : DelegIds \cup {NULL},
   region_scope : SUBSET Regions, allow : SUBSET Caps,
   expires_at : Int, revoked : BOOLEAN]

ShipmentRow ==
  [owner_org : Orgs, region : Regions, classification : Classes,
   partner_org : Orgs \cup {NULL}]

\* A row of current_auth().
Authorization ==
  [subject : Principals, acting_for : Principals, provider_org : Orgs,
   grantee_org : Orgs, grant_id : GrantIds, delegation_id : DelegIds \cup {NULL},
   region_scope : SUBSET Regions, max_classification : Classes, allow : SUBSET Caps]

\* A token: the claims the database reads, and whether the signature matches.
Credential ==
  [sub : Principals, grant_id : GrantIds, delegation_id : DelegIds \cup {NULL},
   exp : Int, signed : BOOLEAN]

ASSUME DirectoryAssumption ==
  /\ OrgOf \in [Principals -> Orgs]
  /\ KindOf \in [Principals -> Kinds]
  /\ Shipment \in [ShipmentIds -> ShipmentRow]
  /\ Credentials \subseteq Credential

ASSUME NullAssumption ==
  /\ NULL \notin Orgs \cup Principals \cup GrantIds \cup DelegIds \cup Credentials
  /\ NULL \notin Credential /\ NULL \notin Authorization

\* A table: a primary key is present or absent.
IsTable(table, Ids, Row) ==
  DOMAIN table \subseteq Ids /\ table \in [DOMAIN table -> Row]

\* The table with row stored under key k, inserted or replaced.
Put(table, k, row) ==
  [i \in DOMAIN table \cup {k} |-> IF i = k THEN row ELSE table[i]]

AuthorityTypeOK ==
  /\ IsTable(grants, GrantIds, GrantRow)
  /\ IsTable(delegations, DelegIds, DelegRow)
  /\ disabled \subseteq Principals
-----------------------------------------------------------------------------
GrantIsLive(g, t) ==
  /\ g.approved_by # NULL
  /\ ~g.revoked
  /\ g.expires_at > t

\* verify_credential: NULL for an absent, forged or expired token alike.
VerifyCredential(tok, t) ==
  IF tok # NULL /\ tok.signed /\ tok.exp > t THEN tok ELSE NULL

\* Mutants: the walk looks only at revocation, or only at expiry.
HopIsUnrevoked(h, t) == ~h.revoked
HopIsUnexpired(h, t) == h.expires_at > t

HopIsLive(h, t) == ~h.revoked /\ h.expires_at > t

\* The delegations the walk from d visits: d, its parent, and so on up.
\* The least set that holds d and is closed under parent_delegation; no
\* delegation for a d that is not in the table.
Hops(d) ==
  {e \in DOMAIN delegations : d \in DOMAIN delegations /\
     \A S \in SUBSET DOMAIN delegations :
       (/\ d \in S
        /\ \A h \in S : delegations[h].parent \in DOMAIN delegations
                          => delegations[h].parent \in S)
       => e \in S}

\* Where the walk stops: a hop without a parent.  A cycle has none, and the
\* walk gives up after MaxHops steps.
Roots(d) ==
  {r \in Hops(d) : /\ delegations[r].parent = NULL
                   /\ Cardinality(Hops(d)) <= MaxHops + 1}

\* Mutant: only the agent that presents the credential is looked up.
PresenterOnly(g, d, r) == {delegations[d].delegatee}

\* Whom current_auth looks up in portal.principal: the grantee, the agent that
\* presents the credential and the root's delegator.
CheckedPrincipals(g, d, r) ==
  {g.grantee_principal, delegations[d].delegatee, delegations[r].delegator}

ChainHolds(c, t) ==
  LET g == grants[c.grant_id]
      d == c.delegation_id
  IN /\ d \in DOMAIN delegations
     /\ delegations[d].delegatee = c.sub
     /\ \A h \in Hops(d) : /\ delegations[h].grant_id = c.grant_id
                           /\ HopIsLive(delegations[h], t)
     /\ \E r \in Roots(d) :
          /\ delegations[r].delegator = g.grantee_principal
          /\ delegations[r].depth = 1
          /\ CheckedPrincipals(g, d, r) \cap disabled = {}

DirectHolds(c) ==
  /\ c.sub = grants[c.grant_id].grantee_principal
  /\ c.sub \notin disabled

Authorizes(tok, t) ==
  LET c == VerifyCredential(tok, t)
  IN /\ c # NULL
     /\ c.grant_id \in DOMAIN grants
     /\ GrantIsLive(grants[c.grant_id], t)
     /\ IF c.delegation_id = NULL THEN DirectHolds(c) ELSE ChainHolds(c, t)

\* The scope that is left after intersecting the grant and every hop.
EffRegions(g, d) ==
  {x \in g.region_scope : \A h \in Hops(d) : x \in delegations[h].region_scope}

EffAllow(g, d) ==
  {x \in g.allow : \A h \in Hops(d) : x \in delegations[h].allow}

AuthRow(c) ==
  LET g == grants[c.grant_id]
      d == c.delegation_id
  IN [subject |-> c.sub,
      acting_for |-> g.grantee_principal,
      provider_org |-> g.provider_org,
      grantee_org |-> g.grantee_org,
      grant_id |-> c.grant_id,
      delegation_id |-> d,
      region_scope |-> IF d = NULL THEN g.region_scope ELSE EffRegions(g, d),
      max_classification |-> g.max_classification,
      allow |-> IF d = NULL THEN g.allow ELSE EffAllow(g, d)]

CurrentAuth(tok, t) == IF Authorizes(tok, t) THEN AuthRow(tok) ELSE NULL

\* Mutants: rows about nobody are hidden; the ceiling, or whom the row is
\* reserved for, is forgotten.
AdmitsPartnerRows(a, s) ==
  /\ s.owner_org = a.provider_org
  /\ s.region \in a.region_scope
  /\ s.classification <= a.max_classification
  /\ s.partner_org = a.grantee_org

AdmitsEveryClass(a, s) ==
  /\ s.owner_org = a.provider_org
  /\ s.region \in a.region_scope
  /\ s.partner_org \in {NULL, a.grantee_org}

AdmitsAnyPartner(a, s) ==
  /\ s.owner_org = a.provider_org
  /\ s.region \in a.region_scope
  /\ s.classification <= a.max_classification

\* The row policy, for one authorization and one shipment.
PolicyAdmits(a, s) ==
  /\ s.owner_org = a.provider_org
  /\ s.region \in a.region_scope
  /\ s.classification <= a.max_classification
  /\ s.partner_org \in {NULL, a.grantee_org}

VisibleRows(a) ==
  IF a = NULL THEN {} ELSE {s \in ShipmentIds : PolicyAdmits(a, Shipment[s])}
=============================================================================
