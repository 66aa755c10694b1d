-------------------------------- MODULE Suite ---------------------------------
(***************************************************************************)
(* The seeded fixture and the scenarios of attacks/suite.py, as the        *)
(* instance that Harness is checked on.  Of the 24 shipments one of each   *)
(* kind is kept; costs are whole numbers; a query names the rows it        *)
(* selects.  A tick is the time after which g-short has run out; a token   *)
(* outlives it, then come d-agent2, d-agent1 and the grants.               *)
(***************************************************************************)
EXTENDS Harness, TLC

SuiteOrgs == {"northwind", "meridian", "contoso"}
SuiteRegions == {"EU", "UK", "APAC"}
SuiteAgents == {"mr-agent-1", "mr-agent-2", "mr-agent-x", "co-agent-1"}
SuiteOrgOf ==
  [p \in {"nw-dana"} |-> "northwind"] @@
  [p \in {"co-lena", "co-agent-1"} |-> "contoso"] @@
  [p \in {"mr-priya", "mr-tomas"} \cup (SuiteAgents \ {"co-agent-1"}) |-> "meridian"]
SuitePrincipals == DOMAIN SuiteOrgOf
SuiteKindOf == [p \in SuitePrincipals |-> IF p \in SuiteAgents THEN "agent" ELSE "human"]

Row(owner, region, class, partner) ==
  [owner_org |-> owner, region |-> region, classification |-> class,
   partner_org |-> partner]
SuiteShipment ==
  1001 :> Row("northwind", "EU", 1, "meridian") @@
  1002 :> Row("northwind", "EU", 2, "meridian") @@
  1004 :> Row("northwind", "EU", 3, "meridian") @@
  1005 :> Row("northwind", "EU", 1, NULL) @@
  1007 :> Row("northwind", "EU", 1, "contoso") @@
  1010 :> Row("northwind", "UK", 1, "meridian") @@
  1015 :> Row("northwind", "APAC", 1, "meridian") @@
  3001 :> Row("contoso", "EU", 2, "northwind")
SuiteCost ==
  1001 :> 4 @@ 1002 :> 6 @@ 1004 :> 48 @@ 1005 :> 2 @@
  1007 :> 5 @@ 1010 :> 3 @@ 1015 :> 1 @@ 3001 :> 9
SuiteShipmentIds == DOMAIN SuiteShipment

GrantTo(org, p, regions, class, allow, approver, lifetime) ==
  [provider_org |-> "northwind", grantee_org |-> org, grantee_principal |-> p,
   region_scope |-> regions, max_classification |-> class, allow |-> allow,
   approved_by |-> approver, expires_at |-> lifetime, revoked |-> FALSE]
SuiteGrants ==
  "g-main" :> GrantTo("meridian", "mr-priya", {"EU", "UK"}, 2, {"cost"}, "nw-dana", 7) @@
  "g-short" :> GrantTo("meridian", "mr-tomas", {"EU"}, 1, {}, "nw-dana", 1) @@
  "g-unapproved" :> GrantTo("meridian", "mr-priya", SuiteRegions, 3, Caps, NULL, 7) @@
  "g-contoso" :> GrantTo("contoso", "co-lena", SuiteRegions, 3, Caps, "nw-dana", 7)

HandOver(from, to, depth, parent, regions, allow, lifetime) ==
  [grant_id |-> "g-main", delegator |-> from, delegatee |-> to, depth |-> depth,
   parent |-> parent, region_scope |-> regions, allow |-> allow, lifetime |-> lifetime]
Stored(q) ==
  [grant_id |-> q.grant_id, delegator |-> q.delegator, delegatee |-> q.delegatee,
   depth |-> q.depth, parent |-> q.parent, region_scope |-> q.region_scope,
   allow |-> q.allow, expires_at |-> q.lifetime, revoked |-> FALSE]
SuiteDelegations ==
  "d-agent1" :> Stored(HandOver("mr-priya", "mr-agent-1", 1, NULL, {"EU"}, {}, 4)) @@
  "d-agent2" :> Stored(HandOver("mr-agent-1", "mr-agent-2", 2, "d-agent1", {"EU"}, {}, 3))

\* What seeding leaves in the trail: three approvals.
SuiteAudit ==
  {[action |-> "grant.approve", subject |-> SuiteGrants[g].approved_by,
    acting_for |-> NULL, grant_id |-> g, delegation_id |-> NULL,
    provider_org |-> "northwind", grantee_org |-> SuiteGrants[g].grantee_org] :
     g \in DOMAIN SuiteGrants \ {"g-unapproved"}}
-----------------------------------------------------------------------------
\* The data the scenarios must not obtain, and the rows the agent does see.
AgentRows == {1001, 1002, 1005}
OutOfScope == {1004, 1007, 1015, 3001}
CostSecrets == {1001, 1002} \X {"cost"}
Secrets == {1001, 1002} \X Caps

NoSetUp == [kind |-> "none", id |-> NULL]
Change(kind, id) == [kind |-> kind, id |-> id]

Reading(name, sub, g, d) ==
  [name |-> name, claims |-> [sub |-> sub, grant_id |-> g, delegation_id |-> d],
   signed |-> TRUE, early |-> FALSE, setup |-> NoSetUp, attempt |-> NULL,
   queries |-> <<QueryFor("rows", SuiteShipmentIds)>>, cols |-> Columns,
   forbidden |-> OutOfScope, secrets |-> Secrets, must_deny |-> FALSE,
   check |-> "none", allowed |-> 0]

Refused(name, sub, g, d) ==
  [Reading(name, sub, g, d) EXCEPT
     !.must_deny = TRUE, !.forbidden = OutOfScope \cup AgentRows]

Unsigned(s) == [s EXCEPT !.signed = FALSE]
After(change, s) == [s EXCEPT !.setup = change]

FamilyForged ==
  {Unsigned(Refused("forge_subject_keep_signature", "mr-priya", "g-main", NULL)),
   Unsigned(Refused("forge_widen_grant_reference", "mr-agent-1", "g-unapproved", "d-agent1")),
   Unsigned(Refused("forge_extend_expiry", "mr-agent-1", "g-main", "d-agent1")),
   Unsigned(Refused("forge_wrong_signing_key", "mr-priya", "g-unapproved", NULL)),
   Unsigned(Refused("forge_unsigned_credential", "mr-priya", "g-main", NULL)),
   [Refused("forge_empty_credential", NULL, NULL, NULL) EXCEPT !.claims = NULL],
   Refused("forge_agent_holds_grant_directly", "mr-agent-1", "g-main", NULL),
   Refused("forge_foreign_org_agent", "co-agent-1", "g-main", "d-agent1")}

ByAgent(name) == Refused(name, "mr-agent-1", "g-main", "d-agent1")

FamilyExpiry ==
  {After(Change("expire_grant", "g-short"),
         Refused("expired_grant", "mr-tomas", "g-short", NULL)),
   Refused("unapproved_grant", "mr-priya", "g-unapproved", NULL),
   After(Change("revoke_grant", "g-main"), ByAgent("revoked_grant_valid_credential")),
   After(Change("revoke_delegation", "d-agent1"),
         ByAgent("revoked_delegation_valid_credential")),
   After(Change("disable", "mr-priya"), ByAgent("disabled_principal"))}

Attempting(name, id, q, forbidden, secrets) ==
  [Refused(name, "mr-agent-x", "g-main", id) EXCEPT
     !.attempt = [id |-> id, row |-> q], !.forbidden = forbidden, !.secrets = secrets]

\* Rows the portal must refuse to store.
FamilyAttempts ==
  {Attempting("delegation_widen_at_creation", "d-attack-wide",
     HandOver("mr-priya", "mr-agent-x", 1, NULL, SuiteRegions, Caps, 3), {1015}, CostSecrets),
   Attempting("subdelegation_widen_beyond_parent", "d-attack-sub",
     HandOver("mr-agent-1", "mr-agent-x", 2, "d-agent1", {"EU", "UK"}, Caps, 3),
     {1015, 1004}, CostSecrets),
   Attempting("unauthorized_agent_self_delegation", "d-attack-self",
     HandOver("mr-tomas", "mr-agent-x", 1, NULL, {"EU"}, {}, 3),
     OutOfScope \cup AgentRows, {}),
   Attempting("delegation_outlives_grant", "d-attack-long",
     HandOver("mr-priya", "mr-agent-x", 1, NULL, {"EU"}, {}, 99), OutOfScope, {})}

BySubAgent(name) == Refused(name, "mr-agent-2", "g-main", "d-agent2")

FamilyChain ==
  {After(Change("revoke_delegation", "d-agent1"), BySubAgent("orphan_chain_mid_revocation")),
   After(Change("expire_delegation", "d-agent1"), BySubAgent("expired_parent_live_child")),
   Refused("delegation_credential_swap", "mr-agent-x", "g-main", "d-agent1")}

\* The same tokens for the whole family, made with the list.
Asking(name, sub, d, queries, check, allowed) ==
  [Reading(name, sub, "g-main", d) EXCEPT
     !.early = TRUE, !.queries = queries, !.cols = {"shipment_id"}, !.secrets = {},
     !.check = check, !.allowed = allowed,
     !.forbidden = IF check = "none" THEN OutOfScope ELSE {}]

AgentAsks(name, queries, check, allowed) ==
  Asking(name, "mr-agent-1", "d-agent1", queries, check, allowed)

HumanAsks(name, rows) ==
  Asking(name, "mr-priya", NULL, <<QueryFor("rows", rows)>>, "none", 0)

FamilySideChannels ==
  {AgentAsks("predicate_probe_hidden_row", <<QueryFor("rows", {1004})>>, "none", 0),
   AgentAsks("aggregate_count_all", <<QueryFor("count", NULL)>>, "number",
             Cardinality(AgentRows)),
   AgentAsks("aggregate_sum_masked_column", <<QueryFor("sum", NULL)>>, "number", 0),
   AgentAsks("aggregate_min_max_probe", <<QueryFor("max", NULL)>>, "number", 0),
   AgentAsks("self_join_across_boundary", <<QueryFor("subquery", 1004)>>, "none", 0),
   [AgentAsks("exists_subquery_oracle", <<QueryFor("exists", 1004)>>, "none", 0) EXCEPT
      !.forbidden = {1004} \cup AgentRows],
   AgentAsks("order_by_masked_column",
             <<QueryFor("ranked", "DESC"), QueryFor("ranked", "ASC")>>, "order", 0),
   HumanAsks("cross_partner_row_probe", {1007}),
   HumanAsks("other_provider_data", {3001}),
   AgentAsks("masked_column_in_predicate",
             <<QueryFor("above", 0), QueryFor("above", 3), QueryFor("above", 5),
               QueryFor("above", 100)>>, "partition", 0)}

AllAttacks ==
  FamilyForged \cup FamilyExpiry \cup FamilyAttempts \cup FamilyChain \cup FamilySideChannels

Case(sub, g, d, cols) == [sub |-> sub, grant_id |-> g, delegation_id |-> d, cols |-> cols]
Cases ==
  {Case("mr-priya", "g-main", NULL, Columns),
   Case("mr-agent-1", "g-main", "d-agent1", Columns),
   Case("mr-agent-2", "g-main", "d-agent2", Columns),
   Case("co-lena", "g-contoso", NULL, Columns),
   Case("mr-priya", "g-main", NULL, {"shipment_id"})}

SuiteDelegIds ==
  DOMAIN SuiteDelegations \cup {s.attempt.id : s \in {x \in AllAttacks : x.attempt # NULL}}
=============================================================================
