-------------------------- MODULE AuditViewsProofs ---------------------------
(***************************************************************************)
(* Proofs about what the org views show and what a reconstruction names,   *)
(* for any trail that calls of either arm can leave.                       *)
(***************************************************************************)
EXTENDS AuditViews, ReadProofs

\* Who is shown anything is shown it as a member of the subject's own org.
LEMMA ViewersAtHome ==
  ASSUME NEW tok \in AuditTokens, NEW t, ViewerOrg(tok, t) # NULL
  PROVE  ViewerOrg(tok, t) = OrgOf[tok.sub]
  BY DEF ViewerOrg

\* A row that answers a call, read off the authorization it was answered by.
LEMMA Answered ==
  ASSUME AInv, NEW r \in Requests, req[r].event # NULL, req[r].auth # NULL
  PROVE  LET e == req[r].event
             c == req[r].ask.cred
         IN /\ e.subject = c.sub /\ e.subject \in Principals
            /\ e.grant_id = c.grant_id /\ e.delegation_id = c.delegation_id
            /\ Grounds(c, req[r].auth)
            /\ e.acting_for = grants[c.grant_id].grantee_principal
            /\ e.provider_org = grants[c.grant_id].provider_org
            /\ e.grantee_org = grants[c.grant_id].grantee_org
            /\ e.row_count = Cardinality(req[r].rows)
            /\ e.row_ids \subseteq req[r].rows
            /\ \A s \in req[r].rows : /\ Shipment[s].owner_org = e.provider_org
                                     /\ Shipment[s].partner_org \in {NULL, e.grantee_org}
<1> DEFINE e == req[r].event
           c == req[r].ask.cred
           a == req[r].auth
<1>1. e = AllowEvent(r, req[r].ask, a, req[r].rows) /\ a \in Authorization
  BY Recorded
<1>2. /\ Grounds(c, a) /\ c \in Credential
      /\ req[r].rows # {} => req[r].rows \subseteq VisibleRows(a)
  BY DEF AInv, CallsOK, Shaped, Based
<1>3. /\ e.subject = a.subject /\ e.acting_for = a.acting_for
      /\ e.grant_id = a.grant_id /\ e.delegation_id = a.delegation_id
      /\ e.provider_org = a.provider_org /\ e.grantee_org = a.grantee_org
      /\ e.row_count = Cardinality(req[r].rows) /\ e.row_ids \subseteq req[r].rows
  BY <1>1 DEF AllowEvent
<1>4. /\ a.subject = c.sub /\ a.acting_for = grants[c.grant_id].grantee_principal
      /\ a.grant_id = c.grant_id /\ a.delegation_id = c.delegation_id
      /\ a.provider_org = grants[c.grant_id].provider_org
      /\ a.grantee_org = grants[c.grant_id].grantee_org
  BY <1>2 DEF Grounds, AuthRow
<1>5. c.sub \in Principals
  BY <1>2 DEF Credential
<1>6. \A s \in req[r].rows : /\ Shipment[s].owner_org = a.provider_org
                           /\ Shipment[s].partner_org \in {NULL, a.grantee_org}
  BY <1>2 DEF VisibleRows, PolicyAdmits
<1> QED BY <1>2, <1>3, <1>4, <1>5, <1>6

\* A row that carries an org answers a call.
LEMMA Attributed ==
  ASSUME AInv, NEW e \in reads,
         e.provider_org # NULL \/ e.grantee_org # NULL \/ e.decision = "allow"
  PROVE  \E r \in Requests : e = req[r].event /\ req[r].event # NULL /\ req[r].auth # NULL
<1>1. PICK r \in Requests : e = req[r].event
  BY DEF AInv, TrailOK
<1>2. req[r].event # NULL
  BY <1>1, EventAssumption DEF AInv, CallsTyped
<1>3. req[r].auth # NULL
  <2> SUFFICES ASSUME req[r].auth = NULL PROVE FALSE
    OBVIOUS
  <2>1. e = DenyEvent(r, req[r].ask) /\ e.decision = "deny"
    BY <1>1, <1>2, Recorded
  <2>2. e.provider_org = NULL /\ e.grantee_org = NULL
    BY <2>1 DEF DenyEvent
  <2> QED BY <2>1, <2>2
<1> QED BY <1>1, <1>2, <1>3

-----------------------------------------------------------------------------
\* Calls leave the tables to the commands.
LEMMA CommandsOnly == [ReadNext]_allVars => [Next]_vars
<1>1. ASSUME NEW r \in Requests,
             \/ \E ask \in Asks : Submit(r, ask)
             \/ Proceed(r) \/ Fail(r) \/ PoolTimeout(r)
      PROVE  UNCHANGED vars
  BY <1>1
  DEF Submit, Proceed, Begin, Authorize, Query, Append, Commit, Fail, PoolTimeout
<1>2. UNCHANGED allVars => UNCHANGED vars
  BY DEF allVars, vars
<1> QED BY <1>1, <1>2 DEF ReadNext

\* Calls of the application arm, too.
LEMMA CallsKeepTables == [ArmsNext]_allVars => [Next]_vars
<1>1. ASSUME NEW r \in Requests,
             \/ \E ask \in Asks : Submit(r, ask)
             \/ PoolTimeout(r) \/ Proceed(r) \/ Fail(r)
      PROVE  UNCHANGED vars
  BY <1>1
  DEF Submit, Proceed, Begin, Authorize, Query, Append, Commit, Fail, PoolTimeout
<1>2. ASSUME NEW r \in Requests, AppProceed(r) \/ AppFail(r)
      PROVE  UNCHANGED vars
  BY <1>2
  DEF AppProceed, AppBegin, AppAuthorize, AppQuery, AppAppend, AppFail, vars
<1>3. UNCHANGED allVars => UNCHANGED vars
  BY DEF allVars, vars
<1> QED BY <1>1, <1>2, <1>3 DEF ArmsNext, Serving

\* A row in a view is read back to the grant it was answered by.
LEMMA ViewsKeepApart == AInv => NoOtherStory
<1>1. ASSUME AInv, NEW tok \in AuditTokens, NEW e \in ReadsIn(tok, "provider")
      PROVE  /\ grants[e.grant_id].provider_org = OrgOf[tok.sub]
             /\ \A s \in e.row_ids : Shipment[s].owner_org = OrgOf[tok.sub]
  <2>1. e \in reads /\ e.provider_org # NULL /\ e.provider_org = OrgOf[tok.sub]
    BY <1>1, ViewersAtHome DEF ReadsIn, View, PartyOf
  <2>2. PICK r \in Requests : e = req[r].event /\ req[r].event # NULL /\ req[r].auth # NULL
    BY <1>1, <2>1, Attributed
  <2> QED BY <1>1, <2>1, <2>2, Answered
<1>2. ASSUME AInv, NEW tok \in AuditTokens, NEW e \in ReadsIn(tok, "consumer")
      PROVE  /\ grants[e.grant_id].grantee_org = OrgOf[tok.sub]
             /\ e.acting_for = grants[e.grant_id].grantee_principal
             /\ \A s \in e.row_ids : Shipment[s].partner_org \in {NULL, OrgOf[tok.sub]}
  <2>1. e \in reads /\ e.grantee_org # NULL /\ e.grantee_org = OrgOf[tok.sub]
    BY <1>2, ViewersAtHome DEF ReadsIn, View, PartyOf
  <2>2. PICK r \in Requests : e = req[r].event /\ req[r].event # NULL /\ req[r].auth # NULL
    BY <1>2, <2>1, Attributed
  <2> QED BY <1>2, <2>1, <2>2, Answered
<1> QED BY <1>1, <1>2 DEF NoOtherStory

\* The org views, whatever the viewer's token claims and whoever grants were
\* made out to: a provider's is of its own grants and rows, a consumer's of
\* grants to its own org and of no row reserved for another partner.
THEOREM NothingOfOthers == ReadSpec => []NoOtherStory
  BY ViewsKeepApart, ReadInvariance, PTL

\* The same with calls of the application arm in between.
THEOREM NothingOfOthersOfBothArms == ArmsSpec => []NoOtherStory
  BY ViewsKeepApart, ArmsInvariance, PTL DEF ArmsSpec, ArmsSafety

\* So is a row that a side should find, and one that it should not.
LEMMA ViewsAreWhole == AInv => BothSidesHaveTheStory
<1>1. ASSUME AInv, NEW r \in Requests, NEW tok \in AuditTokens,
             Delivered(r), req[r].rows # {}, ViewerOrg(tok, now) # NULL
      PROVE  LET e == req[r].event
                 org == ViewerOrg(tok, now)
             IN /\ e.row_count = Cardinality(req[r].rows)
                /\ (\E s \in req[r].rows : Shipment[s].owner_org = org)
                     <=> e \in View(tok, "provider")
                /\ grants[e.grant_id].grantee_org = org <=> e \in View(tok, "consumer")
  <2> DEFINE e == req[r].event
             org == ViewerOrg(tok, now)
  <2>1. e \in reads /\ e # NULL /\ req[r].auth # NULL
    BY <1>1 DEF AInv, TrailOK, CallsOK, Shaped, Delivered
  <2>2. /\ e.row_count = Cardinality(req[r].rows)
        /\ \A s \in req[r].rows : Shipment[s].owner_org = e.provider_org
        /\ e.grantee_org = grants[e.grant_id].grantee_org
    BY <1>1, <2>1, Answered
  <2>3. (\E s \in req[r].rows : Shipment[s].owner_org = org) <=> e.provider_org = org
    BY <1>1, <2>2
  <2>4. /\ e \in View(tok, "provider") <=> e.provider_org = org
        /\ e \in View(tok, "consumer") <=> e.grantee_org = org
    BY <1>1, <2>1 DEF View, Trail, PartyOf
  <2> QED BY <2>2, <2>3, <2>4
<1> QED BY <1>1 DEF BothSidesHaveTheStory

\* And whoever looks, an answered read is on the side of the owner of its rows
\* and on the side of the org its grant names, and on no other.
THEOREM BothFindTheirOwn == ReadSpec => []BothSidesHaveTheStory
  BY ViewsAreWhole, ReadInvariance, PTL

\* The same with calls of the application arm in between.
THEOREM BothFindTheirOwnOfBothArms == ArmsSpec => []BothSidesHaveTheStory
  BY ViewsAreWhole, ArmsInvariance, PTL DEF ArmsSpec, ArmsSafety

-----------------------------------------------------------------------------
LEMMA GovernedStep == IInv /\ ([ReadNext]_allVars \/ [ArmsNext]_allVars) => IInv'
<1>1. IInv /\ [Next \/ Maintenance]_vars => IInv'
  BY TypeStep, ReferencedStep, NarrowedStep, ApprovedStep DEF IInv
<1> QED BY <1>1, CommandsOnly, CallsKeepTables

\* What an answered call rests on is still in the tables.
LEMMA ChainIsNamed == AInv /\ IInv => ReconstructionNamesActors
<1>1. ASSUME AInv, IInv, NEW e \in reads, e.decision = "allow", e.delegation_id # NULL
      PROVE  LET c == Reconstruct(e)
             IN /\ c.delegatee = e.subject
                /\ c.grantee_principal = e.acting_for
                /\ c.depth = 1 => c.delegator = e.acting_for
                /\ OrgOf[c.approved_by] = e.provider_org
                /\ Event("grant.approve", c.approved_by, NULL, e.grant_id, NULL) \in audit
  <2>1. PICK r \in Requests : e = req[r].event /\ req[r].event # NULL /\ req[r].auth # NULL
    BY <1>1, Attributed
  <2> DEFINE d == delegations[e.delegation_id]
             g == grants[e.grant_id]
  <2>2. /\ e.delegation_id \in DOMAIN delegations /\ e.grant_id \in DOMAIN grants
        /\ d.delegatee = e.subject /\ d.grant_id = e.grant_id
        /\ g.approved_by # NULL
        /\ e.acting_for = g.grantee_principal /\ e.provider_org = g.provider_org
    BY <1>1, <2>1, Answered DEF Grounds
  <2>3. d.depth = 1 => d.delegator = g.grantee_principal
    BY <1>1, <2>2 DEF IInv, Narrowed, WithinGrant
  <2>4. /\ MayApprove(g.approved_by, g)
        /\ Event("grant.approve", g.approved_by, NULL, e.grant_id, NULL) \in audit
    BY <1>1, <2>2 DEF IInv, Approved
  <2>5. OrgOf[g.approved_by] = g.provider_org
    BY <2>4 DEF MayApprove
  <2>6. /\ Reconstruct(e).approved_by = g.approved_by
        /\ Reconstruct(e).grantee_principal = g.grantee_principal
        /\ Reconstruct(e).delegator = d.delegator
        /\ Reconstruct(e).delegatee = d.delegatee
        /\ Reconstruct(e).depth = d.depth
    BY <2>2 DEF Reconstruct
  <2> QED BY <2>2, <2>3, <2>4, <2>5, <2>6
<1> QED BY <1>1 DEF ReconstructionNamesActors

\* `portal audit reconstruct`, asked at any later time of tables that went
\* through the triggers: the chain it works out names those the row names, and
\* the approval it rests on is in the trail.
THEOREM ReconstructionHolds == ReadSpec /\ IInv => []ReconstructionNamesActors
  BY ChainIsNamed, GovernedStep, ReadInvariance, PTL DEF ReadSpec

\* The same with calls of the application arm in between.
THEOREM ReconstructionHoldsOfBothArms == ArmsSpec /\ IInv => []ReconstructionNamesActors
  BY ChainIsNamed, GovernedStep, ArmsInvariance, PTL DEF ArmsSpec, ArmsSafety
=============================================================================
