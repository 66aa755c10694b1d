----------------------------- MODULE AuditViews -------------------------------
(***************************************************************************)
(* What each side of a share can see of the trail, and what an             *)
(* investigator makes of one row of it: viewer_org() and the two org       *)
(* views, `portal audit trail`, `portal audit reconstruct`, and the        *)
(* questions audit_reconstruction.py puts to them.                         *)
(*                                                                         *)
(* The trail is the rows of the reads and those of the governance commands.*)
(***************************************************************************)
EXTENDS ReadPath

CONSTANT AuditTokens   \* credentials for the trail, forged ones included

\* mint_audit: a token whose claim is an org, under a grant_id no grant has.
AuditToken ==
  [sub : Principals, audit_org : Orgs, exp : Int, signed : BOOLEAN]

ASSUME AuditTokenAssumption == AuditTokens \subseteq AuditToken

Sides == {"provider", "consumer"}
Trail == reads \cup audit

\* viewer_org(): the org of the token, if its subject is a live human there.
ViewerOrg(tok, t) ==
  IF /\ tok.signed /\ tok.exp > t
     /\ KindOf[tok.sub] = "human" /\ OrgOf[tok.sub] = tok.audit_org
     /\ tok.sub \notin disabled
  THEN tok.audit_org ELSE NULL

PartyOf(e, side) == IF side = "provider" THEN e.provider_org ELSE e.grantee_org

\* audit_provider_view and audit_consumer_view.
View(tok, side) ==
  LET org == ViewerOrg(tok, now)
  IN {e \in Trail : org # NULL /\ PartyOf(e, side) = org}

\* The authority chain `audit reconstruct` prints for a delegated read, from
\* the tables as they are when it is asked.
Reconstruct(e) ==
  LET d == delegations[e.delegation_id]
      g == grants[d.grant_id]
  IN [approved_by |-> g.approved_by, grantee_principal |-> g.grantee_principal,
      delegator |-> d.delegator, delegatee |-> d.delegatee, depth |-> d.depth]
-----------------------------------------------------------------------------
ReadsIn(tok, side) == View(tok, side) \cap reads

\* schema.sql 586 "The spec asks for granting AND consuming organizations to
\* reconstruct access": a call that was answered with rows is on the provider's
\* side for the owner of the rows, on the consumer's side for the org its grant
\* names, and on no side for anybody else; and it says how many rows there were.
BothSidesHaveTheStory ==
  \A r \in Requests, tok \in AuditTokens :
    LET e == req[r].event
        org == ViewerOrg(tok, now)
    IN Delivered(r) /\ req[r].rows # {} /\ org # NULL =>
         /\ e.row_count = Cardinality(req[r].rows)
         /\ (\E s \in req[r].rows : Shipment[s].owner_org = org)
              <=> e \in View(tok, "provider")
         /\ grants[e.grant_id].grantee_org = org <=> e \in View(tok, "consumer")

\* ... "without learning about other partners' activity": whatever token it
\* presents, a provider's view is of its own grants and its own rows, and a
\* consumer's of grants to its own org, used by their grantees, with no row
\* that is reserved for another partner.
NoOtherStory ==
  \A tok \in AuditTokens :
    LET home == OrgOf[tok.sub]
    IN /\ \A e \in ReadsIn(tok, "provider") :
            /\ grants[e.grant_id].provider_org = home
            /\ \A s \in e.row_ids : Shipment[s].owner_org = home
       /\ \A e \in ReadsIn(tok, "consumer") :
            /\ grants[e.grant_id].grantee_org = home
            /\ e.acting_for = grants[e.grant_id].grantee_principal
            /\ \A s \in e.row_ids : Shipment[s].partner_org \in {NULL, home}

\* audit_reconstruction.py, part 5: the chain worked out later from the tables
\* names the people the row names, and an approver of the provider whose
\* approval is itself in the trail, whatever was revoked or disabled since.
ReconstructionNamesActors ==
  \A e \in reads : e.decision = "allow" /\ e.delegation_id # NULL =>
    LET c == Reconstruct(e)
    IN /\ c.delegatee = e.subject
       /\ c.grantee_principal = e.acting_for
       /\ c.depth = 1 => c.delegator = e.acting_for
       /\ OrgOf[c.approved_by] = e.provider_org
       /\ Event("grant.approve", c.approved_by, NULL, e.grant_id, NULL) \in audit
=============================================================================
