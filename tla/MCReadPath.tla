------------------------------ MODULE MCReadPath ------------------------------
(***************************************************************************)
(* Two requests over one or two connections, in the database arm or in     *)
(* both, against the seeded grant and one delegation under it, which       *)
(* operators revoke, disable and let expire meanwhile; and what each side  *)
(* finds in the trail.                                                     *)
(***************************************************************************)
EXTENDS MCGovernance, AppFilterPath, AuditViews

CONSTANTS r1, r2, r3, c1, c2

MCSeedGrants ==
  g1 :> [provider_org |-> nw, grantee_org |-> mr, grantee_principal |-> priya,
         region_scope |-> {EU, UK}, max_classification |-> 2, allow |-> {"cost"},
         approved_by |-> dana, expires_at |-> 2, revoked |-> FALSE]

MCSeedDelegations ==
  d1 :> [grant_id |-> g1, delegator |-> priya, delegatee |-> a1, depth |-> 1,
         parent |-> NULL, region_scope |-> {EU}, allow |-> {},
         expires_at |-> 1, revoked |-> FALSE]

MCSeedAudit ==
  {[action |-> "grant.approve", subject |-> dana, acting_for |-> NULL,
    grant_id |-> g1, delegation_id |-> NULL, provider_org |-> nw,
    grantee_org |-> mr]}

AskArm(arm, cred, cols) ==
  [arm |-> arm, cred |-> cred, cols |-> cols, where |-> {s1, s3}]
AskFor(cred, cols) == AskArm("rls", cred, cols)

\* The agent and its human, each with a genuine token; the human leaving out
\* the key; a forged token; none; and a column there is not.
MCAsks ==
  {AskFor(Token(a1, d1, 9, TRUE), {"shipment_id", "cost"}),
   AskFor(Token(priya, NULL, 9, TRUE), {"shipment_id", "cost"}),
   AskFor(Token(priya, NULL, 9, TRUE), {"cost"}),
   AskFor(Token(a1, d1, 9, FALSE), {"shipment_id"}),
   AskFor(NULL, {"shipment_id"}),
   AskFor(Token(a1, d1, 9, TRUE), {"unknown"})}

\* Both arms side by side, and for liveness: fewer of them.
MCArmAsks ==
  {AskArm("rls", Token(a1, d1, 9, TRUE), {"shipment_id", "cost"}),
   AskArm("appfilter", Token(a1, d1, 9, TRUE), {"shipment_id", "cost"}),
   AskArm("rls", Token(priya, NULL, 9, TRUE), {"cost"}),
   AskArm("appfilter", NULL, {"unknown"})}

\* A token for each org's trail, one for an org its subject is not of, one
\* that is forged.
ForTrail(sub, org, signed) ==
  [sub |-> sub, audit_org |-> org, exp |-> 9, signed |-> signed]
MCAuditTokens ==
  {ForTrail(dana, nw, TRUE), ForTrail(priya, mr, TRUE),
   ForTrail(priya, nw, TRUE), ForTrail(priya, nw, FALSE)}

\* No query of these computes with it.
MCCost == [s \in ShipmentIds |-> 1]

MCTokens == {a.cred : a \in Asks} \ {NULL}

RequestSymmetry == Permutations(Requests) \cup Permutations(Conns)
=============================================================================
