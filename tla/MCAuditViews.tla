----------------------------- MODULE MCAuditViews -----------------------------
(***************************************************************************)
(* Reads under the grants of two partners of one provider.  Beside the     *)
(* seeded grant, priya of mr has one that names another org, ct, as the    *)
(* grantee org, which nothing refuses: what she does under it is ct's part *)
(* of the trail, and lena of ct may look at it.                            *)
(***************************************************************************)
EXTENDS MCReadPath

CONSTANTS ct, lena, g2, s4

TwoOrgOf ==
  [p \in Principals |-> CASE p = dana -> nw [] p = lena -> ct [] OTHER -> mr]
TwoKindOf == [p \in Principals |-> IF p = a1 THEN "agent" ELSE "human"]

\* A row for anybody, one for each partner, and one above every ceiling.
TwoShipment ==
  (s1 :> Row(EU, 1, NULL)) @@ (s2 :> Row(EU, 2, mr)) @@ (s3 :> Row(EU, 3, mr)) @@
  (s4 :> Row(EU, 2, ct))
TwoCost == [s \in ShipmentIds |-> 1]

TwoSeedGrants ==
  MCSeedGrants @@ (g2 :> [MCSeedGrants[g1] EXCEPT !.grantee_org = ct])
TwoSeedAudit ==
  MCSeedAudit \cup {[e EXCEPT !.grant_id = g2, !.grantee_org = ct] : e \in MCSeedAudit}

Everywhere(cred, cols) ==
  [arm |-> "rls", cred |-> cred, cols |-> cols, where |-> ShipmentIds]

\* The agent under g1, its human under g2 and without the key, no token, and a
\* column there is not.
TwoAsks ==
  {Everywhere(Token(a1, d1, 9, TRUE), {"shipment_id", "cost"}),
   Everywhere([Token(priya, NULL, 9, TRUE) EXCEPT !.grant_id = g2], {"cost"}),
   Everywhere(NULL, {"shipment_id"}),
   Everywhere(Token(a1, d1, 9, TRUE), {"unknown"})}

\* A viewer of each org, one that claims another's, one that is forged.
TwoAuditTokens ==
  {ForTrail(dana, nw, TRUE), ForTrail(priya, mr, TRUE), ForTrail(lena, ct, TRUE),
   ForTrail(lena, mr, TRUE), ForTrail(lena, nw, FALSE)}
=============================================================================
