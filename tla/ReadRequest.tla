----------------------------- MODULE ReadRequest -----------------------------
(***************************************************************************)
(* What a call of Portal.read_shipments asks for and what it leaves in the *)
(* trail, whichever arm of the portal serves it.                           *)
(*                                                                         *)
(* What a caller asks for is the arm of the portal, the credential it      *)
(* presents, the columns, and the rows its where clause selects.  What     *)
(* other queries compute is in Answers.                                    *)
(***************************************************************************)
EXTENDS Governance, Answers

CONSTANTS
  Requests,         \* calls of read_shipments, each made once
  Asks,             \* what a caller may ask for
  SeedGrants,       \* what the tables and the trail hold when reads start
  SeedDelegations,
  SeedAudit

VARIABLE
  reads   \* the rows of portal.audit_event with action 'read'

Ask ==
  [arm : Arms, cred : Credentials \cup {NULL},
   cols : SUBSET (Columns \cup {"unknown"}), where : SUBSET ShipmentIds]

ASSUME AskAssumption ==
  /\ Asks \subseteq Ask
  /\ NULL \notin Asks \cup ShipmentIds

\* The tables reads start on went through the CHECKs and foreign keys.
ASSUME SeedAssumption ==
  /\ IsTable(SeedGrants, GrantIds, GrantRow)
  /\ IsTable(SeedDelegations, DelegIds, DelegRow)
  /\ SeedAudit \subseteq GovernanceEvent
  /\ \A d \in DOMAIN SeedDelegations :
       /\ SeedDelegations[d].grant_id \in DOMAIN SeedGrants
       /\ SeedDelegations[d].parent \in DOMAIN SeedDelegations \cup {NULL}
  /\ IsFiniteSet(ShipmentIds)

ReadEvent ==
  [request : Requests, subject : Principals \cup {NULL},
   acting_for : Principals \cup {NULL}, grant_id : GrantIds \cup {NULL},
   delegation_id : DelegIds \cup {NULL}, provider_org : Orgs \cup {NULL},
   grantee_org : Orgs \cup {NULL}, decision : {"allow", "deny"},
   row_count : Nat, row_ids : SUBSET ShipmentIds, columns_served : SUBSET Columns]

ASSUME EventAssumption == NULL \notin ReadEvent

SeedInit ==
  /\ grants = SeedGrants
  /\ delegations = SeedDelegations
  /\ disabled = {}
  /\ now = 0
  /\ audit = SeedAudit
  /\ reads = {}
-----------------------------------------------------------------------------
\* A denial is recorded with what the token claims; no subject, no orgs.
DenyEvent(r, ask) ==
  [request |-> r, subject |-> NULL, acting_for |-> NULL,
   grant_id |-> IF ask.cred = NULL THEN NULL ELSE ask.cred.grant_id,
   delegation_id |-> IF ask.cred = NULL THEN NULL ELSE ask.cred.delegation_id,
   provider_org |-> NULL, grantee_org |-> NULL, decision |-> "deny",
   row_count |-> 0, row_ids |-> {}, columns_served |-> {}]

\* Mutants: two arguments of the append swapped; the agent acts for itself.
SwappedOrgsEvent(r, ask, a, rows) ==
  [request |-> r, subject |-> a.subject, acting_for |-> a.acting_for,
   grant_id |-> a.grant_id, delegation_id |-> a.delegation_id,
   provider_org |-> a.grantee_org, grantee_org |-> a.provider_org,
   decision |-> "allow", row_count |-> Cardinality(rows),
   row_ids |-> IF "shipment_id" \in ask.cols THEN rows ELSE {},
   columns_served |-> ColumnSplit(ask.cols, a)]

OwnActEvent(r, ask, a, rows) ==
  [SwappedOrgsEvent(r, ask, a, rows) EXCEPT
     !.acting_for = a.subject, !.provider_org = a.provider_org,
     !.grantee_org = a.grantee_org]

\* The row ids are taken from the result, so they are there only if the
\* caller asked for the key.
AllowEvent(r, ask, a, rows) ==
  [request |-> r, subject |-> a.subject, acting_for |-> a.acting_for,
   grant_id |-> a.grant_id, delegation_id |-> a.delegation_id,
   provider_org |-> a.provider_org, grantee_org |-> a.grantee_org,
   decision |-> "allow", row_count |-> Cardinality(rows),
   row_ids |-> IF "shipment_id" \in ask.cols THEN rows ELSE {},
   columns_served |-> ColumnSplit(ask.cols, a)]

\* The row a call leaves in the trail; a is NULL when nothing was authorized.
EventOf(r, ask, a, rows) ==
  IF a = NULL THEN DenyEvent(r, ask) ELSE AllowEvent(r, ask, a, rows)
=============================================================================
