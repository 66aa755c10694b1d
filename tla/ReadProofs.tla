------------------------------ MODULE ReadProofs -------------------------------
(***************************************************************************)
(* Proofs about read_shipments in both arms, for any tables that obey the  *)
(* CHECKs and foreign keys, any requests and any number of connections.    *)
(***************************************************************************)
EXTENDS AppFilterPath, GovernanceProofs

ArmsSafety == ReadInit /\ [][ArmsNext]_allVars

\* The tables: typed, with their references.
Linked ==
  \A d \in DOMAIN delegations : delegations[d].parent \in DOMAIN delegations \cup {NULL}

TablesOK == TypeOK /\ Referenced /\ Linked

LEMMA TablesStep ==
  ASSUME TablesOK, [Next]_vars
  PROVE  TablesOK'
<1>1. TypeOK' /\ Referenced' /\ DelegationsKept
  BY TypeStep, ReferencedStep, RowsKept DEF TablesOK
<1>2. ASSUME NEW d \in DOMAIN delegations'
      PROVE  delegations'[d].parent \in DOMAIN delegations' \cup {NULL}
  <2>1. CASE d \in DOMAIN delegations
    BY <1>1, <2>1 DEF TablesOK, Linked, DelegationsKept, SameDelegation
  <2>2. CASE d \notin DOMAIN delegations
    <3>1. PICK q \in DelegRequests : CreateDelegation(d, q)
      BY <1>2, <2>2, NewDelegation DEF TablesOK
    <3> QED BY <3>1 DEF CreateDelegation, ReferencesExist, Put
  <2> QED BY <2>1, <2>2
<1> QED BY <1>1, <1>2 DEF TablesOK, Linked

\* What an authorization rests on: a grant that is stored and approved, and, if
\* it names one, a delegation of that grant to its subject.
Grounds(c, a) ==
  /\ c.grant_id \in DOMAIN grants
  /\ c.delegation_id \in DOMAIN delegations \cup {NULL}
  /\ c.delegation_id # NULL => /\ delegations[c.delegation_id].delegatee = c.sub
                               /\ delegations[c.delegation_id].grant_id = c.grant_id
  /\ grants[c.grant_id].approved_by # NULL
  /\ a = AuthRow(c)

\* The walk from a stored delegation never changes.
LEMMA SameWalk ==
  ASSUME TablesOK, TypeOK', DelegationsKept, NEW d \in DOMAIN delegations
  PROVE  Hops(d)' = Hops(d)
<1>1. Hops(d) \subseteq Hops(d)'
  BY WalkIsFixed
<1>2. /\ Hops(d) \in SUBSET DOMAIN delegations' /\ d \in Hops(d)
      /\ \A h \in Hops(d) : delegations'[h].parent \in DOMAIN delegations'
                               => delegations'[h].parent \in Hops(d)
  <2>1. d \in Hops(d) /\ Hops(d) \subseteq DOMAIN delegations
    BY HopsSelf DEF Hops
  <2>2. Hops(d) \subseteq DOMAIN delegations'
    BY <2>1 DEF DelegationsKept
  <2>3. NULL \notin DOMAIN delegations'
    BY NullAssumption DEF TypeOK, AuthorityTypeOK, IsTable
  <2>4. ASSUME NEW h \in Hops(d), delegations'[h].parent \in DOMAIN delegations'
        PROVE  delegations'[h].parent \in Hops(d)
    <3>1. delegations'[h].parent = delegations[h].parent
      BY <2>1 DEF DelegationsKept, SameDelegation
    <3>2. delegations[h].parent \in DOMAIN delegations
      BY <2>1, <2>3, <2>4, <3>1 DEF TablesOK, Linked
    <3> QED BY <3>1, <3>2, HopsClosed
  <2> QED BY <2>1, <2>2, <2>4
<1>3. Hops(d)' \subseteq Hops(d)
  BY <1>2 DEF Hops
<1> QED BY <1>1, <1>3

\* So what authorized once would say the same of its scope for ever after.
LEMMA GroundsStay ==
  ASSUME TablesOK, [Next]_vars, NEW c \in Credential, NEW a, Grounds(c, a)
  PROVE  Grounds(c, a)'
<1>1. GrantsKept /\ DelegationsKept /\ TypeOK'
  BY RowsKept, TablesStep DEF TablesOK
<1> DEFINE id == c.grant_id
           d == c.delegation_id
<1>2. /\ id \in DOMAIN grants' /\ SameGrant(grants[id], grants'[id])
      /\ d \in DOMAIN delegations' \cup {NULL}
  BY <1>1 DEF Grounds, GrantsKept, DelegationsKept
<1>3. ASSUME d # NULL
      PROVE  /\ EffRegions(grants[id], d)' = EffRegions(grants[id], d)
             /\ EffAllow(grants[id], d)' = EffAllow(grants[id], d)
  <2>1. d \in DOMAIN delegations
    BY <1>3 DEF Grounds
  <2>2. Hops(d)' = Hops(d)
    BY <1>1, <2>1, SameWalk
  <2>3. \A h \in Hops(d) : /\ delegations'[h].region_scope = delegations[h].region_scope
                           /\ delegations'[h].allow = delegations[h].allow
    BY <1>1 DEF Hops, DelegationsKept, SameDelegation
  <2>4. grants'[id].region_scope = grants[id].region_scope /\ grants'[id].allow = grants[id].allow
    BY <1>2 DEF SameGrant
  <2> QED BY <2>2, <2>3, <2>4 DEF EffRegions, EffAllow
<1>4. AuthRow(c)' = AuthRow(c)
  BY <1>2, <1>3 DEF AuthRow, SameGrant
<1>5. grants'[id].approved_by # NULL
  BY <1>2 DEF Grounds, SameGrant
<1>6. d # NULL => delegations'[d].delegatee = c.sub /\ delegations'[d].grant_id = id
  BY <1>1 DEF Grounds, DelegationsKept, SameDelegation
<1> QED BY <1>2, <1>4, <1>5, <1>6 DEF Grounds

\* What current_auth returns rests on its grounds, and on nothing revoked.
LEMMA Authorized ==
  ASSUME TypeOK, NEW c \in Credentials \cup {NULL}, NEW t, CurrentAuth(c, t) # NULL
  PROVE  /\ c \in Credential /\ c # NULL
         /\ VerifyCredential(c, t) # NULL
         /\ CurrentAuth(c, t) \in Authorization
         /\ Grounds(c, CurrentAuth(c, t))
         /\ ~RevokedFor(c)
<1>1. Authorizes(c, t) /\ CurrentAuth(c, t) = AuthRow(c)
  BY DEF CurrentAuth
<1>2. /\ c # NULL /\ VerifyCredential(c, t) # NULL
      /\ c.grant_id \in DOMAIN grants /\ GrantIsLive(grants[c.grant_id], t)
      /\ c.delegation_id # NULL => ChainHolds(c, t)
  BY <1>1 DEF Authorizes, VerifyCredential
<1>3. c \in Credentials /\ c \in Credential
  BY <1>2, DirectoryAssumption
<1>4. /\ c.delegation_id \in DOMAIN delegations \cup {NULL}
      /\ c.delegation_id # NULL => /\ delegations[c.delegation_id].delegatee = c.sub
                                   /\ delegations[c.delegation_id].grant_id = c.grant_id
  BY <1>2, HopsSelf DEF ChainHolds
<1>5. AuthRow(c) \in Authorization
  BY <1>2, <1>3, AuthRowTyped DEF TypeOK
<1>6. ~RevokedFor(c)
  BY <1>1, <1>3, RevokedIsDead
<1> QED BY <1>1, <1>2, <1>3, <1>4, <1>5, <1>6 DEF Grounds, GrantIsLive

-----------------------------------------------------------------------------
\* A call on its way, in either arm.
CallRec ==
  [stage : Stages, ask : Asks \cup {NULL}, conn : Conns \cup {NULL}, start : Int,
   auth : Authorization \cup {NULL}, rows : SUBSET ShipmentIds, shown : SUBSET Columns,
   event : ReadEvent \cup {NULL}, revoked : BOOLEAN]

CallsTyped ==
  /\ req \in [Requests -> CallRec]
  /\ \A r \in Requests : req[r].start \in 0 .. now
  /\ guc \in [Conns -> Credentials \cup {NULL}]
  /\ reads \subseteq ReadEvent

\* What its stage says of the other fields, and they of each other.
Shaped(r, c) ==
  /\ c.stage # "new" => c.ask \in Asks
  /\ c.stage \in {"new", "waiting"} => ~c.revoked
  /\ c.stage \in {"new", "waiting", "authorize"} => c.auth = NULL
  /\ c.stage \in {"authorize", "query"} => AreKnown(c.ask.cols)
  /\ c.stage = "query" => c.auth # NULL
  /\ c.stage \in {"new", "waiting", "authorize", "query"} => c.rows = {} /\ c.shown = {}
  /\ c.stage \notin {"commit", "done", "error"} => c.event = NULL
  /\ c.stage \in {"commit", "done"} => c.event # NULL
  /\ c.event # NULL => c.event = EventOf(r, c.ask, c.auth, c.rows)
  /\ c.auth # NULL => c.ask \in Asks /\ AreKnown(c.ask.cols)
  /\ c.auth # NULL => VerifyCredential(c.ask.cred, c.start) # NULL
  /\ c.rows # {} => /\ c.auth # NULL
                    /\ c.rows \subseteq VisibleRows(c.auth)
                    /\ c.shown = ViewColumns(c.ask.cols, c.auth)
  /\ c.revoked => c.auth = NULL /\ c.ask \in Asks

\* And what the tables say of it.
Based(c) ==
  /\ c.auth # NULL => c.ask.cred \in Credential /\ Grounds(c.ask.cred, c.auth)
  /\ c.revoked => c.ask.cred \in Credentials /\ RevokedFor(c.ask.cred)

CallsOK == \A r \in Requests : Shaped(r, req[r]) /\ Based(req[r])

\* A connection is out to one call, and its setting is that call's credential.
PoolOK ==
  /\ \A r \in Requests :
       req[r].conn # NULL <=> req[r].stage \in InTransaction /\ ByPool(req[r].ask)
  /\ \A q, r \in Requests : req[q].conn # NULL /\ req[q].conn = req[r].conn => q = r
  /\ \A r \in Requests : req[r].conn # NULL =>
       guc[req[r].conn] = IF AreKnown(req[r].ask.cols) THEN req[r].ask.cred ELSE NULL
  /\ \A c \in Conns : IsFree(c) => guc[c] = NULL

\* The trail holds the row of a call that has ended, and no other.
TrailOK ==
  /\ \A e \in reads : /\ e.request \in Requests
                       /\ req[e.request].stage \in {"done", "error"}
                       /\ e = req[e.request].event
  /\ \A r \in Requests : req[r].stage = "done" => req[r].event \in reads

AInv == TablesOK /\ CallsTyped /\ CallsOK /\ PoolOK /\ TrailOK

LEMMA AskFields ==
  ASSUME NEW ask \in Asks
  PROVE  /\ ask # NULL /\ ask.cred \in Credentials \cup {NULL}
         /\ ask.where \subseteq ShipmentIds
         /\ AreKnown(ask.cols) => ask.cols \subseteq Columns
  BY AskAssumption DEF Ask, AreKnown

LEMMA CallFields ==
  ASSUME CallsTyped, NEW r \in Requests
  PROVE  /\ req[r] \in CallRec
         /\ req[r].stage \in Stages /\ req[r].ask \in Asks \cup {NULL}
         /\ req[r].conn \in Conns \cup {NULL} /\ req[r].start \in Int
         /\ req[r].auth \in Authorization \cup {NULL}
         /\ req[r].rows \in SUBSET ShipmentIds /\ req[r].shown \in SUBSET Columns
         /\ req[r].event \in ReadEvent \cup {NULL} /\ req[r].revoked \in BOOLEAN
<1>1. req[r] \in CallRec
  BY DEF CallsTyped
<1> QED BY <1>1 DEF CallRec

LEMMA InitAInv == ReadInit => AInv
<1> SUFFICES ASSUME ReadInit PROVE AInv
  OBVIOUS
<1> USE DEF ReadInit, SeedInit
<1>1. TablesOK
  BY SeedAssumption, RequestAssumption
  DEF TablesOK, TypeOK, AuthorityTypeOK, Referenced, Linked
<1>2. NewRequest \in CallRec /\ NewRequest.start = 0 /\ NewRequest.stage = "new"
      /\ NewRequest.conn = NULL /\ NewRequest.auth = NULL /\ NewRequest.rows = {}
      /\ NewRequest.shown = {}
      /\ NewRequest.event = NULL /\ NewRequest.revoked = FALSE
  BY DEF NewRequest, CallRec, Stages
<1>3. \A r \in Requests : req[r] = NewRequest
  OBVIOUS
<1>4. CallsTyped
  BY <1>2 DEF CallsTyped
<1>5. CallsOK
  BY <1>2, <1>3 DEF CallsOK, Shaped, Based
<1>6. PoolOK
  BY <1>2, <1>3 DEF PoolOK, InTransaction
<1>7. TrailOK
  BY <1>2, <1>3 DEF TrailOK
<1> QED BY <1>1, <1>4, <1>5, <1>6, <1>7 DEF AInv

-----------------------------------------------------------------------------
\* A command or the clock.
LEMMA TablesMove ==
  ASSUME AInv, [Next]_vars, UNCHANGED portal
  PROVE  AInv'
<1>1. TablesOK' /\ UNCHANGED <<req, guc, reads>>
  BY TablesStep DEF AInv, portal
<1>2. CallsTyped'
  <2>1. now' >= now /\ now \in Int /\ now' \in Int
    BY <1>1, RequestAssumption, ExpiryStep DEF AInv, TablesOK, TypeOK, ExpiriesKept
  <2> QED BY <1>1, <2>1 DEF AInv, CallsTyped
<1>3. CallsOK'
  <2>1. ASSUME NEW r \in Requests PROVE Shaped(r, req[r]) /\ Based(req[r])'
    <3>1. Shaped(r, req[r]) /\ Based(req[r])
      BY DEF AInv, CallsOK
    <3> DEFINE c == req[r]
    <3>2. c.auth # NULL => Grounds(c.ask.cred, c.auth)'
      BY <1>1, <3>1, GroundsStay DEF Based, AInv
    <3>3. c.revoked => RevokedFor(c.ask.cred)'
      BY <1>1, <3>1, RevocationStays DEF Based, AInv, TablesOK
    <3> QED BY <1>1, <3>1, <3>2, <3>3 DEF Based
  <2> QED BY <1>1, <2>1 DEF CallsOK
<1>4. PoolOK' /\ TrailOK'
  BY <1>1 DEF AInv, PoolOK, TrailOK, IsFree
<1> QED BY <1>1, <1>2, <1>3, <1>4 DEF AInv

\* A step of one call: the others, the tables and the clock stand still.
OthersKept(r) ==
  /\ UNCHANGED vars
  /\ req' \in [Requests -> CallRec]
  /\ \A q \in Requests : q # r => req'[q] = req[q]

LEMMA OneCall ==
  ASSUME AInv, NEW r \in Requests, OthersKept(r),
         Shaped(r, req'[r]), Based(req[r])', req'[r].start \in 0 .. now
  PROVE  TablesOK' /\ CallsOK' /\ \A q \in Requests : req'[q].start \in 0 .. now'
<1>1. TablesOK'
  BY TablesStep DEF AInv, OthersKept
<1>2. ASSUME NEW q \in Requests PROVE Shaped(q, req'[q]) /\ Based(req[q])'
  <2>1. CASE q = r
    BY <2>1
  <2>2. CASE q # r
    <3>1. Shaped(q, req[q]) /\ Based(req[q])
      BY DEF AInv, CallsOK
    <3>2. req[q].auth # NULL => Grounds(req[q].ask.cred, req[q].auth)'
      <4>1. req[q].auth # NULL => Grounds(req[q].ask.cred, req[q].auth)
        BY <3>1 DEF Based
      <4> QED BY <2>2, <3>1, <4>1, GroundsStay DEF Based, AInv, OthersKept
    <3>3. req[q].revoked => RevokedFor(req[q].ask.cred)'
      BY <2>2, <3>1, RevocationStays DEF Based, AInv, TablesOK, OthersKept
    <3> QED BY <2>2, <3>1, <3>2, <3>3 DEF Based, OthersKept
  <2> QED BY <2>1, <2>2
<1>3. CallsOK'
  BY <1>2 DEF CallsOK
<1>4. \A q \in Requests : req'[q].start \in 0 .. now'
  BY DEF AInv, CallsTyped, OthersKept, vars
<1> QED BY <1>1, <1>3, <1>4

\* A step of a call that takes or returns no connection and ends nothing well.
LEMMA OnItsWay ==
  ASSUME AInv, NEW r \in Requests, OthersKept(r), UNCHANGED <<guc, reads>>,
         Shaped(r, req'[r]), Based(req[r])', req'[r].start \in 0 .. now,
         req[r].stage \notin {"done", "error"}, req'[r].stage # "done",
         req'[r].conn = req[r].conn,
         req[r].conn # NULL => req'[r].ask = req[r].ask,
         req[r].conn # NULL <=> req'[r].stage \in InTransaction /\ ByPool(req'[r].ask)
  PROVE  AInv'
<1>1. TablesOK' /\ CallsOK' /\ CallsTyped'
  BY OneCall DEF AInv, CallsTyped, OthersKept
<1>2. \A q \in Requests : req'[q].conn = req[q].conn
  BY DEF OthersKept
<1>3. PoolOK'
  BY <1>2 DEF AInv, PoolOK, OthersKept, IsFree
<1>4. TrailOK'
  BY DEF AInv, TrailOK, OthersKept
<1> QED BY <1>1, <1>3, <1>4 DEF AInv

\* A call is made.
LEMMA SubmitStep ==
  ASSUME AInv, NEW r \in Requests, NEW ask \in Asks, Submit(r, ask)
  PROVE  AInv'
<1>1. /\ req[r] \in CallRec /\ req[r].stage = "new" /\ Shaped(r, req[r])
      /\ req[r].start \in 0 .. now /\ req[r].conn = NULL
  BY DEF AInv, CallsTyped, CallsOK, PoolOK, InTransaction, Submit
<1>2. /\ UNCHANGED <<vars, guc, reads>>
      /\ req' \in [Requests -> CallRec]
      /\ \A q \in Requests : q # r => req'[q] = req[q]
      /\ req'[r] = [req[r] EXCEPT !.stage = "waiting", !.ask = ask]
  BY <1>1 DEF AInv, CallsTyped, Submit, CallRec, Stages
<1>3. /\ req'[r].stage = "waiting" /\ req'[r].ask = ask /\ req'[r].conn = NULL
      /\ req'[r].auth = req[r].auth /\ req'[r].rows = req[r].rows
      /\ req'[r].shown = req[r].shown
      /\ req'[r].event = req[r].event /\ req'[r].revoked = req[r].revoked
      /\ req'[r].start = req[r].start
  BY <1>1, <1>2 DEF CallRec
<1>4. Shaped(r, req'[r]) /\ Based(req[r])'
  BY <1>1, <1>3 DEF Shaped, Based
<1> QED BY <1>1, <1>2, <1>3, <1>4, OnItsWay DEF OthersKept, InTransaction

\* The pool gives up on it.
LEMMA PoolTimeoutStep ==
  ASSUME AInv, NEW r \in Requests, PoolTimeout(r)
  PROVE  AInv'
<1>1. /\ req[r] \in CallRec /\ req[r].stage = "waiting" /\ Shaped(r, req[r])
      /\ req[r].start \in 0 .. now /\ req[r].conn = NULL
  BY DEF AInv, CallsTyped, CallsOK, PoolOK, InTransaction, PoolTimeout, AwaitsConnection
<1>2. /\ UNCHANGED <<vars, guc, reads>>
      /\ req' \in [Requests -> CallRec]
      /\ \A q \in Requests : q # r => req'[q] = req[q]
      /\ req'[r] = [req[r] EXCEPT !.stage = "error"]
  BY <1>1 DEF AInv, CallsTyped, PoolTimeout, CallRec, Stages
<1>3. /\ req'[r].stage = "error" /\ req'[r].ask = req[r].ask /\ req'[r].conn = NULL
      /\ req'[r].auth = req[r].auth /\ req'[r].rows = req[r].rows
      /\ req'[r].shown = req[r].shown
      /\ req'[r].event = req[r].event /\ req'[r].revoked = req[r].revoked
      /\ req'[r].start = req[r].start
  BY <1>1, <1>2 DEF CallRec
<1>4. Shaped(r, req'[r]) /\ Based(req[r])'
  BY <1>1, <1>3 DEF Shaped, Based
<1> QED BY <1>1, <1>2, <1>3, <1>4, OnItsWay DEF OthersKept, InTransaction

\* A connection is checked out; the credential is bound, and judged by no
\* statement yet.
LEMMA BeginStep ==
  ASSUME AInv, NEW r \in Requests, NEW c \in Conns, Begin(r, c)
  PROVE  AInv'
<1> DEFINE ask == req[r].ask
           known == AreKnown(ask.cols)
<1>1. /\ req[r] \in CallRec /\ req[r].stage = "waiting" /\ Shaped(r, req[r])
      /\ req[r].conn = NULL /\ ByPool(ask) /\ ask \in Asks /\ IsFree(c)
      /\ guc[c] = NULL /\ c # NULL
  BY ConnAssumption
  DEF AInv, CallsTyped, CallsOK, Shaped, PoolOK, InTransaction, Begin, AwaitsConnection
<1>2. /\ UNCHANGED <<vars, reads>>
      /\ req' \in [Requests -> CallRec]
      /\ \A q \in Requests : q # r => req'[q] = req[q]
      /\ req'[r] = [req[r] EXCEPT !.stage = IF known THEN "authorize" ELSE "append",
                                  !.conn = c, !.start = now,
                                  !.revoked = ask.cred # NULL /\ RevokedFor(ask.cred)]
  <2>1. now \in Int /\ (ask.cred # NULL /\ RevokedFor(ask.cred)) \in BOOLEAN
    BY RequestAssumption DEF AInv, TablesOK, TypeOK
  <2>2. UNCHANGED <<vars, reads>>
    BY DEF Begin
  <2> HIDE DEF known
  <2>3. req' = [req EXCEPT ![r] =
          [req[r] EXCEPT !.stage = IF known THEN "authorize" ELSE "append",
                         !.conn = c, !.start = now,
                         !.revoked = ask.cred # NULL /\ RevokedFor(ask.cred)]]
    BY <1>1 DEF Begin, AInv, CallsTyped, CallRec, known
  <2>4. [req[r] EXCEPT !.stage = IF known THEN "authorize" ELSE "append",
                       !.conn = c, !.start = now,
                       !.revoked = ask.cred # NULL /\ RevokedFor(ask.cred)] \in CallRec
    BY <1>1, <2>1 DEF CallRec, Stages
  <2> QED BY <2>2, <2>3, <2>4 DEF AInv, CallsTyped
<1>3. /\ req'[r].stage = IF known THEN "authorize" ELSE "append"
      /\ req'[r].ask = ask /\ req'[r].conn = c
      /\ req'[r].auth = req[r].auth /\ req'[r].rows = req[r].rows
      /\ req'[r].shown = req[r].shown
      /\ req'[r].event = req[r].event /\ req'[r].start = now
      /\ req'[r].revoked = (ask.cred # NULL /\ RevokedFor(ask.cred))
  BY <1>1, <1>2 DEF CallRec
<1>4. Shaped(r, req'[r])
  BY <1>1, <1>3 DEF Shaped
<1>5. Based(req[r])'
  <2>1. req'[r].auth = NULL
    BY <1>1, <1>3 DEF Shaped
  <2>2. ASSUME req'[r].revoked PROVE req'[r].ask.cred \in Credentials /\ RevokedFor(ask.cred)
    BY <1>1, <1>3, <2>2, AskFields
  <2>3. req'[r].revoked => RevokedFor(ask.cred)'
    BY <1>2, <1>3, <2>2, RevocationStays DEF AInv, TablesOK
  <2> QED BY <1>3, <2>1, <2>2, <2>3 DEF Based
<1>6. TablesOK' /\ CallsOK' /\ \A q \in Requests : req'[q].start \in 0 .. now'
  <2>1. now \in 0 .. now
    BY RequestAssumption DEF AInv, TablesOK, TypeOK
  <2> QED BY <1>2, <1>3, <1>4, <1>5, <2>1, OneCall DEF OthersKept
<1>7. guc' = [guc EXCEPT ![c] = IF known THEN ask.cred ELSE NULL]
  BY <1>1 DEF Begin, AInv, CallsTyped
<1>8. CallsTyped'
  <2>1. guc' \in [Conns -> Credentials \cup {NULL}]
    BY <1>1, <1>7, AskFields DEF AInv, CallsTyped
  <2> QED BY <1>2, <1>6, <2>1 DEF AInv, CallsTyped
<1>9. PoolOK'
  <2>1. \A q \in Requests : q # r => req[q].conn # c
    BY <1>1 DEF IsFree
  <2>2. guc \in [Conns -> Credentials \cup {NULL}] /\ \A q \in Requests : req[q].conn \in Conns \cup {NULL}
    BY CallFields DEF AInv, CallsTyped
  <2>3. /\ \A q \in Requests : q # r => req'[q] = req[q]
        /\ req'[r].conn = c /\ req'[r].ask = ask /\ req'[r].stage \in InTransaction
    BY <1>2, <1>3 DEF InTransaction
  <2> HIDE DEF known
  <2>4. \A q \in Requests :
          req'[q].conn # NULL <=> req'[q].stage \in InTransaction /\ ByPool(req'[q].ask)
    BY <1>1, <2>3 DEF AInv, PoolOK
  <2>5. \A q, p \in Requests : req'[q].conn # NULL /\ req'[q].conn = req'[p].conn => q = p
    BY <1>1, <2>1, <2>3 DEF AInv, PoolOK
  <2>6. \A q \in Requests : req'[q].conn # NULL =>
          guc'[req'[q].conn] = IF AreKnown(req'[q].ask.cols) THEN req'[q].ask.cred ELSE NULL
    <3>1. guc'[c] = IF known THEN ask.cred ELSE NULL
      BY <1>7, <2>2
    <3>2. ASSUME NEW q \in Requests, q # r, req[q].conn # NULL
          PROVE  guc'[req[q].conn] = IF AreKnown(req[q].ask.cols) THEN req[q].ask.cred ELSE NULL
      <4>1. guc'[req[q].conn] = guc[req[q].conn]
        BY <1>7, <2>1, <2>2, <3>2
      <4> QED BY <3>2, <4>1 DEF AInv, PoolOK
    <3> QED BY <2>3, <3>1, <3>2 DEF known
  <2>7. \A d \in Conns : IsFree(d)' => guc'[d] = NULL
    <3>1. \A d \in Conns : d # c => guc'[d] = guc[d]
      BY <1>7, <2>2
    <3>2. ASSUME NEW d \in Conns, IsFree(d)' PROVE d # c /\ IsFree(d)
      BY <1>1, <2>3, <3>2, ConnAssumption DEF IsFree
    <3> QED BY <3>1, <3>2 DEF AInv, PoolOK
  <2> QED BY <2>4, <2>5, <2>6, <2>7 DEF PoolOK
<1>10. TrailOK'
  BY <1>1, <1>2, <1>3 DEF AInv, TrailOK
<1> QED BY <1>6, <1>8, <1>9, <1>10 DEF AInv

\* Inside its transaction, what is bound to the connection is the call's own.
LEMMA OwnCredential ==
  ASSUME AInv, NEW r \in Requests, ByPool(req[r].ask),
         req[r].stage \in {"authorize", "query"}
  PROVE  /\ guc[req[r].conn] = req[r].ask.cred
         /\ req[r].ask.cred \in Credentials \cup {NULL}
         /\ AuthNow(r) = CurrentAuth(req[r].ask.cred, req[r].start)
<1>1. req[r].conn # NULL /\ AreKnown(req[r].ask.cols) /\ req[r].ask \in Asks
  BY DEF AInv, PoolOK, CallsOK, Shaped, InTransaction
<1>2. guc[req[r].conn] = req[r].ask.cred
  BY <1>1 DEF AInv, PoolOK
<1> QED BY <1>1, <1>2, AskFields DEF AuthNow

\* What one statement finds of a credential.
LEMMA Found ==
  ASSUME AInv, NEW r \in Requests, req[r].stage \in {"authorize", "query"},
         NEW a, a = CurrentAuth(req[r].ask.cred, req[r].start), a # NULL
  PROVE  /\ a \in Authorization /\ req[r].ask.cred \in Credential
         /\ VerifyCredential(req[r].ask.cred, req[r].start) # NULL
         /\ Grounds(req[r].ask.cred, a)
         /\ ~RevokedFor(req[r].ask.cred)
<1>1. req[r].ask.cred \in Credentials \cup {NULL}
  BY AskFields DEF AInv, CallsOK, Shaped
<1> QED BY <1>1, Authorized DEF AInv, TablesOK

\* Either arm's authorization: what current_auth finds is kept with the call.
LEMMA JudgedStep ==
  ASSUME AInv, NEW r \in Requests, req[r].stage = "authorize",
         NEW a, a = CurrentAuth(req[r].ask.cred, req[r].start),
         req' = [req EXCEPT ![r].stage = IF a = NULL THEN "append" ELSE "query",
                            ![r].auth = a],
         UNCHANGED <<vars, guc, reads>>
  PROVE  AInv'
<1>1. /\ req[r] \in CallRec /\ Shaped(r, req[r]) /\ Based(req[r])
      /\ req[r].start \in 0 .. now
      /\ req[r].conn # NULL <=> ByPool(req[r].ask)
  BY DEF AInv, CallsTyped, CallsOK, PoolOK, InTransaction
<1>2. a \in Authorization \cup {NULL}
  BY Found
<1>3. /\ req' \in [Requests -> CallRec]
      /\ \A q \in Requests : q # r => req'[q] = req[q]
      /\ req'[r] = [req[r] EXCEPT !.stage = IF a = NULL THEN "append" ELSE "query", !.auth = a]
  BY <1>1, <1>2 DEF AInv, CallsTyped, CallRec, Stages
<1>4. /\ req'[r].stage = IF a = NULL THEN "append" ELSE "query"
      /\ req'[r].ask = req[r].ask /\ req'[r].conn = req[r].conn
      /\ req'[r].auth = a /\ req'[r].rows = req[r].rows /\ req'[r].shown = req[r].shown
      /\ req'[r].event = req[r].event /\ req'[r].revoked = req[r].revoked
      /\ req'[r].start = req[r].start
  BY <1>1, <1>3 DEF CallRec
<1>5. a # NULL => ~req[r].revoked
  BY <1>1, Found DEF Based
<1>6. Shaped(r, req'[r])
  <2>1. a # NULL => VerifyCredential(req[r].ask.cred, req[r].start) # NULL
    BY Found
  <2>2. /\ req[r].ask \in Asks /\ AreKnown(req[r].ask.cols) /\ req[r].rows = {}
        /\ req[r].shown = {} /\ req[r].event = NULL
    BY <1>1 DEF Shaped
  <2>3. CASE a = NULL
    <3>1. /\ req'[r].stage = "append" /\ req'[r].auth = NULL /\ req'[r].rows = {}
          /\ req'[r].event = NULL /\ req'[r].ask \in Asks
      BY <1>4, <2>2, <2>3
    <3> QED BY <3>1 DEF Shaped
  <2>4. CASE a # NULL
    <3>1. /\ req'[r].stage = "query" /\ req'[r].auth = a /\ req'[r].rows = {}
          /\ req'[r].shown = {}
          /\ req'[r].event = NULL /\ req'[r].ask \in Asks /\ AreKnown(req'[r].ask.cols)
          /\ VerifyCredential(req'[r].ask.cred, req'[r].start) # NULL
          /\ ~req'[r].revoked
      BY <1>4, <1>5, <2>1, <2>2, <2>4
    <3> QED BY <2>4, <3>1 DEF Shaped
  <2> QED BY <2>3, <2>4
<1>7. Based(req[r])'
  <2>1. a # NULL => req'[r].ask.cred \in Credential /\ Grounds(req[r].ask.cred, a)'
    BY <1>4, Found, GroundsStay DEF AInv
  <2>2. req[r].revoked => req'[r].ask.cred \in Credentials /\ RevokedFor(req[r].ask.cred)'
    BY <1>1, <1>4, RevocationStays DEF Based, AInv, TablesOK
  <2> QED BY <1>4, <2>1, <2>2 DEF Based
<1> QED BY <1>1, <1>3, <1>4, <1>6, <1>7, OnItsWay DEF OthersKept, InTransaction

LEMMA AuthorizeStep ==
  ASSUME AInv, NEW r \in Requests, ByPool(req[r].ask), Authorize(r)
  PROVE  AInv'
<1>1. req[r].stage = "authorize" /\ UNCHANGED <<vars, guc, reads>>
  BY DEF Authorize
<1>2. AuthNow(r) = CurrentAuth(req[r].ask.cred, req[r].start)
  BY <1>1, OwnCredential
<1> QED BY <1>1, <1>2, JudgedStep DEF Authorize

LEMMA AppAuthorizeStep ==
  ASSUME AInv, NEW r \in Requests, AppAuthorize(r)
  PROVE  AInv'
  BY JudgedStep DEF AppAuthorize

\* Either arm's query: the rows that the authority found before still shows,
\* with the columns it shows.
LEMMA ServedStep ==
  ASSUME AInv, NEW r \in Requests, req[r].stage = "query",
         NEW rows \in SUBSET ShipmentIds, NEW shown \in SUBSET Columns,
         rows # {} => /\ rows \subseteq VisibleRows(req[r].auth)
                      /\ shown = ViewColumns(req[r].ask.cols, req[r].auth),
         req' = [req EXCEPT ![r].stage = "append", ![r].rows = rows, ![r].shown = shown],
         UNCHANGED <<vars, guc, reads>>
  PROVE  AInv'
<1>1. /\ req[r] \in CallRec /\ Shaped(r, req[r]) /\ Based(req[r])
      /\ req[r].start \in 0 .. now
      /\ req[r].conn # NULL <=> ByPool(req[r].ask)
  BY DEF AInv, CallsTyped, CallsOK, PoolOK, InTransaction
<1>2. /\ req' \in [Requests -> CallRec]
      /\ \A q \in Requests : q # r => req'[q] = req[q]
      /\ req'[r] = [req[r] EXCEPT !.stage = "append", !.rows = rows, !.shown = shown]
  BY <1>1 DEF AInv, CallsTyped, CallRec, Stages
<1>3. /\ req'[r].stage = "append" /\ req'[r].ask = req[r].ask /\ req'[r].conn = req[r].conn
      /\ req'[r].auth = req[r].auth /\ req'[r].rows = rows /\ req'[r].shown = shown
      /\ req'[r].event = req[r].event /\ req'[r].revoked = req[r].revoked
      /\ req'[r].start = req[r].start
  BY <1>1, <1>2 DEF CallRec
<1>4. Shaped(r, req'[r])
  <2>1. /\ req[r].ask \in Asks /\ AreKnown(req[r].ask.cols) /\ req[r].event = NULL
        /\ req[r].auth # NULL /\ ~req[r].revoked
        /\ VerifyCredential(req[r].ask.cred, req[r].start) # NULL
    BY <1>1 DEF Shaped
  <2>2. /\ req'[r].ask \in Asks /\ AreKnown(req'[r].ask.cols) /\ req'[r].event = NULL
        /\ req'[r].auth # NULL /\ ~req'[r].revoked /\ req'[r].stage = "append"
        /\ VerifyCredential(req'[r].ask.cred, req'[r].start) # NULL
    BY <1>3, <2>1
  <2>3. req'[r].rows # {} => /\ req'[r].rows \subseteq VisibleRows(req'[r].auth)
                             /\ req'[r].shown = ViewColumns(req'[r].ask.cols, req'[r].auth)
    BY <1>3
  <2> QED BY <2>2, <2>3 DEF Shaped
<1>5. Based(req[r])'
  <2>1. req'[r].ask.cred \in Credential /\ Grounds(req[r].ask.cred, req[r].auth)'
    <3>1. req[r].ask.cred \in Credential /\ Grounds(req[r].ask.cred, req[r].auth)
      BY <1>1 DEF Based, Shaped
    <3> QED BY <1>3, <3>1, GroundsStay DEF AInv
  <2>2. ~req'[r].revoked
    BY <1>1, <1>3 DEF Shaped
  <2> QED BY <2>1, <2>2 DEF Based
<1> QED BY <1>1, <1>2, <1>3, <1>4, <1>5, OnItsWay DEF OthersKept, InTransaction

\* The same authority found again shows the same.
LEMMA QueryStep ==
  ASSUME AInv, NEW r \in Requests, ByPool(req[r].ask), Query(r)
  PROVE  AInv'
<1> DEFINE a == AuthNow(r)
           rows == VisibleRows(a) \cap req[r].ask.where
           shown == IF rows = {} THEN {} ELSE ViewColumns(req[r].ask.cols, a)
<1>1. /\ req[r].stage = "query" /\ UNCHANGED <<vars, guc, reads>>
      /\ req' = [req EXCEPT ![r].stage = "append", ![r].rows = rows, ![r].shown = shown]
  BY DEF Query
<1>2. a = CurrentAuth(req[r].ask.cred, req[r].start)
  BY <1>1, OwnCredential
<1>3. /\ req[r].ask \in Asks /\ AreKnown(req[r].ask.cols) /\ req[r].auth # NULL
      /\ Grounds(req[r].ask.cred, req[r].auth)
  BY <1>1 DEF AInv, CallsOK, Shaped, Based
<1>4. a # NULL => a = req[r].auth
  BY <1>1, <1>2, <1>3, Found DEF Grounds
<1>5. rows # {} => a # NULL
  BY DEF VisibleRows
<1>6. rows \in SUBSET ShipmentIds /\ shown \in SUBSET Columns
  BY <1>3, AskFields DEF ViewColumns
<1> HIDE DEF a
<1>7. rows # {} => /\ rows \subseteq VisibleRows(req[r].auth)
                   /\ shown = ViewColumns(req[r].ask.cols, req[r].auth)
  BY <1>4, <1>5
<1> HIDE DEF rows, shown
<1> QED BY <1>1, <1>6, <1>7, ServedStep

\* The application arm's filter and masks are those of the policy and the view.
LEMMA SameFilter ==
  ASSUME NEW a \in Authorization, NEW cols \in SUBSET Columns
  PROVE  /\ VisibleRows(a) = {s \in ShipmentIds : FilterAdmits(a, Shipment[s])}
         /\ KeptColumns(cols, a) = ViewColumns(cols, a)
         /\ ColumnSplit(cols, a) = ViewColumns(cols, a)
<1>1. a # NULL
  BY NullAssumption
<1> QED
  BY <1>1
  DEF VisibleRows, PolicyAdmits, FilterAdmits, KeptColumns, ColumnSplit, ViewColumns, Columns

LEMMA AppQueryStep ==
  ASSUME AInv, NEW r \in Requests, AppQuery(r)
  PROVE  AInv'
<1> DEFINE a == req[r].auth
           rows == {s \in req[r].ask.where : FilterAdmits(a, Shipment[s])}
           shown == IF rows = {} THEN {} ELSE KeptColumns(req[r].ask.cols, a)
<1>1. /\ req[r].stage = "query" /\ UNCHANGED <<vars, guc, reads>>
      /\ req' = [req EXCEPT ![r].stage = "append", ![r].rows = rows, ![r].shown = shown]
  BY DEF AppQuery
<1>2. req[r].ask \in Asks /\ AreKnown(req[r].ask.cols) /\ a # NULL
  BY <1>1 DEF AInv, CallsOK, Shaped
<1>3. a \in Authorization
  BY <1>2, CallFields DEF AInv
<1>4. req[r].ask.where \subseteq ShipmentIds /\ req[r].ask.cols \in SUBSET Columns
  BY <1>2, AskFields
<1>5. /\ VisibleRows(a) = {s \in ShipmentIds : FilterAdmits(a, Shipment[s])}
      /\ KeptColumns(req[r].ask.cols, a) = ViewColumns(req[r].ask.cols, a)
  BY <1>3, <1>4, SameFilter
<1>6. rows \in SUBSET ShipmentIds /\ shown \in SUBSET Columns
  BY <1>4, <1>5 DEF ViewColumns
<1>7. rows # {} => rows \subseteq VisibleRows(a) /\ shown = ViewColumns(req[r].ask.cols, a)
  BY <1>4, <1>5
<1> HIDE DEF rows, shown
<1> QED BY <1>1, <1>6, <1>7, ServedStep

\* The row a call leaves in the trail has the columns of portal.audit_event.
LEMMA EventTyped ==
  ASSUME NEW r \in Requests, NEW ask \in Asks, NEW a \in Authorization \cup {NULL},
         NEW rows \in SUBSET ShipmentIds, a # NULL => AreKnown(ask.cols)
  PROVE  EventOf(r, ask, a, rows) \in ReadEvent
<1>1. ask.cred \in Credential \cup {NULL} /\ (a # NULL => ask.cols \subseteq Columns)
  BY AskFields, DirectoryAssumption
<1>2. CASE a = NULL
  BY <1>1, <1>2 DEF EventOf, DenyEvent, ReadEvent, Credential
<1>3. CASE a # NULL
  <2>1. Cardinality(rows) \in Nat
    BY SeedAssumption, FS_Subset, FS_CardinalityType
  <2>2. ColumnSplit(ask.cols, a) \subseteq Columns
    BY <1>1, <1>3 DEF ColumnSplit
  <2> QED BY <1>3, <2>1, <2>2 DEF EventOf, AllowEvent, ReadEvent, Authorization
<1> QED BY <1>2, <1>3

LEMMA AppendStep ==
  ASSUME AInv, NEW r \in Requests, ByPool(req[r].ask), Append(r)
  PROVE  AInv'
<1> DEFINE e == EventOf(r, req[r].ask, req[r].auth, req[r].rows)
<1>1. /\ req[r] \in CallRec /\ Shaped(r, req[r]) /\ Based(req[r]) /\ req[r].stage = "append"
      /\ req[r].start \in 0 .. now /\ req[r].ask \in Asks
      /\ req[r].conn # NULL
  BY DEF AInv, CallsTyped, CallsOK, Shaped, PoolOK, InTransaction, Append
<1>2. e \in ReadEvent /\ e # NULL
  <2>1. req[r].auth # NULL => AreKnown(req[r].ask.cols)
    BY <1>1 DEF Shaped
  <2>2. e \in ReadEvent
    BY <1>1, <2>1, CallFields, EventTyped DEF AInv
  <2> QED BY <2>2, EventAssumption
<1>3. /\ UNCHANGED <<vars, guc, reads>>
      /\ req' \in [Requests -> CallRec]
      /\ \A q \in Requests : q # r => req'[q] = req[q]
      /\ req'[r] = [req[r] EXCEPT !.stage = "commit", !.event = e]
  <2> HIDE DEF e
  <2> QED BY <1>1, <1>2 DEF AInv, CallsTyped, CallRec, Stages, Append, e
<1>4. /\ req'[r].stage = "commit" /\ req'[r].ask = req[r].ask /\ req'[r].conn = req[r].conn
      /\ req'[r].auth = req[r].auth /\ req'[r].rows = req[r].rows
      /\ req'[r].shown = req[r].shown /\ req'[r].event = e
      /\ req'[r].revoked = req[r].revoked /\ req'[r].start = req[r].start
  BY <1>1, <1>3 DEF CallRec
<1>5. Shaped(r, req'[r])
  <2>1. req'[r].event = EventOf(r, req'[r].ask, req'[r].auth, req'[r].rows) /\ req'[r].event # NULL
    BY <1>2, <1>4
  <2>2. /\ req'[r].ask \in Asks
        /\ req'[r].auth # NULL => AreKnown(req'[r].ask.cols)
        /\ req'[r].auth # NULL => VerifyCredential(req'[r].ask.cred, req'[r].start) # NULL
        /\ req'[r].rows # {} => /\ req'[r].auth # NULL
                                /\ req'[r].rows \subseteq VisibleRows(req'[r].auth)
                                /\ req'[r].shown = ViewColumns(req'[r].ask.cols, req'[r].auth)
        /\ req'[r].revoked => req'[r].auth = NULL
    BY <1>1, <1>4 DEF Shaped
  <2> QED BY <1>4, <2>1, <2>2 DEF Shaped
<1>6. Based(req[r])'
  <2>1. req[r].auth # NULL =>
          req'[r].ask.cred \in Credential /\ Grounds(req[r].ask.cred, req[r].auth)'
    BY <1>1, <1>3, <1>4, GroundsStay DEF AInv, Based
  <2>2. req[r].revoked =>
          req'[r].ask.cred \in Credentials /\ RevokedFor(req[r].ask.cred)'
    BY <1>1, <1>3, <1>4, RevocationStays DEF AInv, TablesOK, Based
  <2> QED BY <1>4, <2>1, <2>2 DEF Based
<1> QED BY <1>1, <1>3, <1>4, <1>5, <1>6, OnItsWay DEF OthersKept, InTransaction

\* A call ends, with or without its row in the trail.
LEMMA TrailEnds ==
  ASSUME AInv, NEW r \in Requests, OthersKept(r),
         req[r].stage \notin {"done", "error"}, req'[r].stage \in {"done", "error"},
         NEW e, e = req'[r].event,
         \/ reads' = reads
         \/ reads' = reads \cup {e} /\ e.request = r,
         req'[r].stage = "done" => e \in reads'
  PROVE  TrailOK'
<1>1. ASSUME NEW f \in reads
      PROVE  /\ f.request \in Requests
             /\ req'[f.request].stage \in {"done", "error"}
             /\ f = req'[f.request].event
  <2>1. /\ f.request \in Requests /\ req[f.request].stage \in {"done", "error"}
        /\ f = req[f.request].event
    BY DEF AInv, TrailOK
  <2>2. f.request # r
    BY <2>1
  <2> QED BY <2>1, <2>2 DEF OthersKept
<1>2. ASSUME NEW f \in reads', f \notin reads
      PROVE  /\ f.request \in Requests
             /\ req'[f.request].stage \in {"done", "error"}
             /\ f = req'[f.request].event
  <2>1. f = e /\ f.request = r
    BY <1>2
  <2> QED BY <2>1
<1>3. ASSUME NEW q \in Requests, req'[q].stage = "done"
      PROVE  req'[q].event \in reads'
  <2>1. CASE q = r
    BY <1>3, <2>1
  <2>2. CASE q # r
    BY <1>3, <2>2 DEF AInv, TrailOK, OthersKept
  <2> QED BY <2>1, <2>2
<1>4. \A f \in reads' : /\ f.request \in Requests
                        /\ req'[f.request].stage \in {"done", "error"}
                        /\ f = req'[f.request].event
  BY <1>1, <1>2
<1> QED BY <1>3, <1>4 DEF TrailOK

\* The transaction is over: the connection goes back with nothing bound to it.
LEMMA EndStep ==
  ASSUME AInv, NEW r \in Requests, NEW stage \in {"done", "error"}, End(r, stage),
         req[r].conn # NULL, UNCHANGED vars,
         stage = "done" => req[r].stage = "commit",
         reads' = reads \/ (req[r].stage = "commit" /\ reads' = reads \cup {req[r].event}),
         stage = "done" => reads' = reads \cup {req[r].event}
  PROVE  AInv'
<1> DEFINE c == req[r].conn
<1>1. /\ req[r] \in CallRec /\ Shaped(r, req[r]) /\ Based(req[r])
      /\ req[r].stage \in InTransaction
      /\ req[r].start \in 0 .. now /\ c \in Conns
  BY CallFields DEF AInv, CallsTyped, CallsOK, PoolOK
<1>2. /\ req' \in [Requests -> CallRec]
      /\ \A q \in Requests : q # r => req'[q] = req[q]
      /\ req'[r] = [req[r] EXCEPT !.stage = stage, !.conn = NULL]
  BY <1>1 DEF AInv, CallsTyped, CallRec, Stages, End
<1>3. /\ req'[r].stage = stage /\ req'[r].ask = req[r].ask /\ req'[r].conn = NULL
      /\ req'[r].auth = req[r].auth /\ req'[r].rows = req[r].rows
      /\ req'[r].shown = req[r].shown /\ req'[r].event = req[r].event
      /\ req'[r].revoked = req[r].revoked /\ req'[r].start = req[r].start
  BY <1>1, <1>2 DEF CallRec
<1>4. Shaped(r, req'[r])
  <2>1. /\ req'[r].ask \in Asks
        /\ req'[r].event # NULL =>
             req'[r].event = EventOf(r, req'[r].ask, req'[r].auth, req'[r].rows)
        /\ req'[r].stage = "done" => req'[r].event # NULL
        /\ req'[r].auth # NULL => AreKnown(req'[r].ask.cols)
        /\ req'[r].auth # NULL => VerifyCredential(req'[r].ask.cred, req'[r].start) # NULL
        /\ req'[r].rows # {} => /\ req'[r].auth # NULL
                                /\ req'[r].rows \subseteq VisibleRows(req'[r].auth)
                                /\ req'[r].shown = ViewColumns(req'[r].ask.cols, req'[r].auth)
        /\ req'[r].revoked => req'[r].auth = NULL
    BY <1>1, <1>3 DEF Shaped, InTransaction
  <2> QED BY <1>3, <2>1 DEF Shaped
<1>5. Based(req[r])'
  <2>1. req[r].auth # NULL =>
          req'[r].ask.cred \in Credential /\ Grounds(req[r].ask.cred, req[r].auth)'
    BY <1>1, <1>2, <1>3, GroundsStay DEF AInv, Based
  <2>2. req[r].revoked =>
          req'[r].ask.cred \in Credentials /\ RevokedFor(req[r].ask.cred)'
    BY <1>1, <1>2, <1>3, RevocationStays DEF AInv, TablesOK, Based
  <2> QED BY <1>3, <2>1, <2>2 DEF Based
<1>6. TablesOK' /\ CallsOK' /\ \A q \in Requests : req'[q].start \in 0 .. now'
  BY <1>1, <1>2, <1>3, <1>4, <1>5, OneCall DEF OthersKept
<1>7. guc' = [guc EXCEPT ![c] = NULL] /\ guc \in [Conns -> Credentials \cup {NULL}]
  BY DEF End, AInv, CallsTyped
<1>8. CallsTyped'
  <2>1. guc' \in [Conns -> Credentials \cup {NULL}]
    BY <1>7
  <2>2. reads' \subseteq ReadEvent
    <3>1. req[r].stage = "commit" => req[r].event \in ReadEvent
      BY <1>1 DEF Shaped, CallRec
    <3> QED BY <3>1 DEF AInv, CallsTyped
  <2> QED BY <1>2, <1>6, <2>1, <2>2 DEF AInv, CallsTyped
<1>9. PoolOK'
  <2>1. \A q \in Requests : q # r => req[q].conn # c /\ req'[q] = req[q]
    BY <1>2 DEF AInv, PoolOK
  <2>2. stage \notin InTransaction
    BY DEF InTransaction
  <2>3. \A q \in Requests :
          req'[q].conn # NULL <=> req'[q].stage \in InTransaction /\ ByPool(req'[q].ask)
    BY <1>3, <2>1, <2>2 DEF AInv, PoolOK
  <2>4. \A q, p \in Requests : req'[q].conn # NULL /\ req'[q].conn = req'[p].conn => q = p
    BY <1>3, <2>1 DEF AInv, PoolOK
  <2>5. \A q \in Requests : req'[q].conn # NULL =>
          guc'[req'[q].conn] = IF AreKnown(req'[q].ask.cols) THEN req'[q].ask.cred ELSE NULL
    <3>1. ASSUME NEW q \in Requests, q # r, req[q].conn # NULL
          PROVE  guc'[req[q].conn] = IF AreKnown(req[q].ask.cols) THEN req[q].ask.cred ELSE NULL
      <4>1. guc'[req[q].conn] = guc[req[q].conn]
        BY <1>7, <2>1, <3>1, CallFields DEF AInv
      <4> QED BY <3>1, <4>1 DEF AInv, PoolOK
    <3> QED BY <1>3, <2>1, <3>1
  <2>6. ASSUME NEW d \in Conns, IsFree(d)' PROVE guc'[d] = NULL
    <3>1. CASE d = c
      BY <1>7, <3>1
    <3>2. CASE d # c
      <4>1. IsFree(d)
        BY <2>1, <2>6, <3>2 DEF IsFree
      <4> QED BY <1>7, <3>2, <4>1 DEF AInv, PoolOK
    <3> QED BY <3>1, <3>2
  <2> QED BY <2>3, <2>4, <2>5, <2>6 DEF PoolOK
<1>10. TrailOK'
  <2>1. req[r].stage = "commit" => req[r].event.request = r
    BY <1>1 DEF Shaped, EventOf, DenyEvent, AllowEvent
  <2>2. OthersKept(r) /\ req[r].stage \notin {"done", "error"}
    BY <1>1, <1>2 DEF OthersKept, InTransaction
  <2>3. stage = "done" => req[r].event \in reads'
    OBVIOUS
  <2>4. \/ reads' = reads
        \/ reads' = reads \cup {req'[r].event} /\ req'[r].event.request = r
    BY <1>3, <2>1
  <2> QED BY <1>3, <2>2, <2>3, <2>4, TrailEnds
<1> QED BY <1>6, <1>8, <1>9, <1>10 DEF AInv

LEMMA CommitStep ==
  ASSUME AInv, NEW r \in Requests, ByPool(req[r].ask), Commit(r)
  PROVE  AInv'
<1>1. /\ req[r].stage = "commit" /\ UNCHANGED vars
      /\ reads' = reads \cup {req[r].event}
      /\ End(r, "done") \/ End(r, "error")
  BY DEF Commit
<1>2. req[r].conn # NULL
  BY <1>1 DEF AInv, PoolOK, InTransaction
<1> QED BY <1>1, <1>2, EndStep

LEMMA FailStep ==
  ASSUME AInv, NEW r \in Requests, ByPool(req[r].ask), Fail(r)
  PROVE  AInv'
<1>1. req[r].stage \in InTransaction /\ UNCHANGED <<vars, reads>> /\ End(r, "error")
  BY DEF Fail
<1>2. req[r].conn # NULL
  BY <1>1 DEF AInv, PoolOK
<1> QED BY <1>1, <1>2, EndStep

\* The application arm: a connection of its own, and no pool.
LEMMA AppBeginStep ==
  ASSUME AInv, NEW r \in Requests, ~ByPool(req[r].ask), AppBegin(r)
  PROVE  AInv'
<1> DEFINE ask == req[r].ask
           revoked == ask.cred # NULL /\ RevokedFor(ask.cred)
<1>1. /\ req[r] \in CallRec /\ req[r].stage = "waiting" /\ Shaped(r, req[r])
      /\ req[r].conn = NULL /\ ask \in Asks /\ AreKnown(ask.cols)
      /\ now \in Int /\ now \in 0 .. now /\ revoked \in BOOLEAN
  BY RequestAssumption
  DEF AInv, TablesOK, TypeOK, CallsTyped, CallsOK, Shaped, PoolOK, InTransaction,
      AppBegin, ByPool
<1>2. /\ UNCHANGED <<vars, guc, reads>>
      /\ req' \in [Requests -> CallRec]
      /\ \A q \in Requests : q # r => req'[q] = req[q]
      /\ req'[r] = [req[r] EXCEPT !.stage = "authorize", !.start = now, !.revoked = revoked]
  <2>1. UNCHANGED <<vars, guc, reads>>
    BY DEF AppBegin
  <2>2. req' = [req EXCEPT ![r] =
          [req[r] EXCEPT !.stage = "authorize", !.start = now, !.revoked = revoked]]
    BY <1>1 DEF AppBegin, AInv, CallsTyped, CallRec
  <2> HIDE DEF revoked
  <2>3. [req[r] EXCEPT !.stage = "authorize", !.start = now, !.revoked = revoked] \in CallRec
    BY <1>1 DEF CallRec, Stages
  <2> QED BY <2>1, <2>2, <2>3 DEF AInv, CallsTyped
<1>3. /\ req'[r].stage = "authorize" /\ req'[r].ask = ask /\ req'[r].conn = NULL
      /\ req'[r].auth = req[r].auth /\ req'[r].rows = req[r].rows
      /\ req'[r].shown = req[r].shown
      /\ req'[r].event = req[r].event /\ req'[r].start = now
      /\ req'[r].revoked = revoked
  BY <1>1, <1>2 DEF CallRec
<1>4. Shaped(r, req'[r])
  BY <1>1, <1>3 DEF Shaped
<1>5. Based(req[r])'
  <2>1. req'[r].auth = NULL
    BY <1>1, <1>3 DEF Shaped
  <2>2. ASSUME req'[r].revoked PROVE req'[r].ask.cred \in Credentials /\ RevokedFor(ask.cred)
    BY <1>1, <1>3, <2>2, AskFields
  <2>3. req'[r].revoked => RevokedFor(ask.cred)'
    BY <1>2, <1>3, <2>2, RevocationStays DEF AInv, TablesOK
  <2> QED BY <1>3, <2>1, <2>2, <2>3 DEF Based
<1> QED BY <1>1, <1>2, <1>3, <1>4, <1>5, OnItsWay DEF OthersKept

LEMMA AppFailStep ==
  ASSUME AInv, NEW r \in Requests, ~ByPool(req[r].ask), AppFail(r)
  PROVE  AInv'
<1>1. /\ req[r] \in CallRec /\ req[r].stage \in {"waiting", "authorize", "query", "append"}
      /\ Shaped(r, req[r]) /\ Based(req[r]) /\ req[r].start \in 0 .. now
      /\ req[r].conn = NULL
  BY DEF AInv, CallsTyped, CallsOK, PoolOK, AppFail
<1>2. /\ UNCHANGED <<vars, guc, reads>>
      /\ req' \in [Requests -> CallRec]
      /\ \A q \in Requests : q # r => req'[q] = req[q]
      /\ req'[r] = [req[r] EXCEPT !.stage = "error"]
  BY <1>1 DEF AInv, CallsTyped, AppFail, CallRec, Stages
<1>3. /\ req'[r].stage = "error" /\ req'[r].ask = req[r].ask /\ req'[r].conn = NULL
      /\ req'[r].auth = req[r].auth /\ req'[r].rows = req[r].rows
      /\ req'[r].shown = req[r].shown /\ req'[r].event = req[r].event
      /\ req'[r].revoked = req[r].revoked /\ req'[r].start = req[r].start
  BY <1>1, <1>2 DEF CallRec
<1>4. Shaped(r, req'[r])
  BY <1>1, <1>3 DEF Shaped
<1>5. Based(req[r])'
  <2>1. req[r].auth # NULL =>
          req'[r].ask.cred \in Credential /\ Grounds(req[r].ask.cred, req[r].auth)'
    BY <1>1, <1>2, <1>3, GroundsStay DEF AInv, Based
  <2>2. req[r].revoked =>
          req'[r].ask.cred \in Credentials /\ RevokedFor(req[r].ask.cred)'
    BY <1>1, <1>2, <1>3, RevocationStays DEF AInv, TablesOK, Based
  <2> QED BY <1>3, <2>1, <2>2 DEF Based
<1> QED BY <1>1, <1>2, <1>3, <1>4, <1>5, OnItsWay DEF OthersKept, InTransaction

LEMMA AppAppendStep ==
  ASSUME AInv, NEW r \in Requests, ~ByPool(req[r].ask), AppAppend(r)
  PROVE  AInv'
<1> DEFINE e == EventOf(r, req[r].ask, req[r].auth, req[r].rows)
<1>0. PICK end \in {"done", "error"} :
        req' = [req EXCEPT ![r].stage = end, ![r].event = e]
  BY DEF AppAppend
<1>1. /\ req[r] \in CallRec /\ Shaped(r, req[r]) /\ Based(req[r]) /\ req[r].stage = "append"
      /\ req[r].start \in 0 .. now /\ req[r].ask \in Asks
      /\ req[r].conn = NULL
  BY DEF AInv, CallsTyped, CallsOK, Shaped, PoolOK, AppAppend
<1>2. e \in ReadEvent /\ e # NULL /\ e.request = r
  <2>1. e \in ReadEvent
    BY <1>1, CallFields, EventTyped DEF AInv, Shaped
  <2>2. e.request = r
    BY DEF EventOf, DenyEvent, AllowEvent
  <2> QED BY <2>1, <2>2, EventAssumption
<1>3. /\ UNCHANGED <<vars, guc>> /\ reads' = reads \cup {e}
      /\ req' \in [Requests -> CallRec]
      /\ \A q \in Requests : q # r => req'[q] = req[q]
      /\ req'[r] = [req[r] EXCEPT !.stage = end, !.event = e]
  <2>1. UNCHANGED <<vars, guc>> /\ reads' = reads \cup {e}
    BY DEF AppAppend
  <2> HIDE DEF e
  <2> QED BY <1>0, <1>1, <1>2, <2>1 DEF AInv, CallsTyped, CallRec, Stages
<1>4. /\ req'[r].stage = end /\ req'[r].ask = req[r].ask /\ req'[r].conn = NULL
      /\ req'[r].auth = req[r].auth /\ req'[r].rows = req[r].rows
      /\ req'[r].shown = req[r].shown /\ req'[r].event = e
      /\ req'[r].revoked = req[r].revoked /\ req'[r].start = req[r].start
  BY <1>1, <1>3 DEF CallRec
<1>5. Shaped(r, req'[r])
  <2>1. req'[r].event = EventOf(r, req'[r].ask, req'[r].auth, req'[r].rows) /\ req'[r].event # NULL
    BY <1>2, <1>4
  <2>2. /\ req'[r].ask \in Asks
        /\ req'[r].auth # NULL => AreKnown(req'[r].ask.cols)
        /\ req'[r].auth # NULL => VerifyCredential(req'[r].ask.cred, req'[r].start) # NULL
        /\ req'[r].rows # {} => /\ req'[r].auth # NULL
                                /\ req'[r].rows \subseteq VisibleRows(req'[r].auth)
                                /\ req'[r].shown = ViewColumns(req'[r].ask.cols, req'[r].auth)
        /\ req'[r].revoked => req'[r].auth = NULL
    BY <1>1, <1>4 DEF Shaped
  <2> QED BY <1>4, <2>1, <2>2 DEF Shaped
<1>6. Based(req[r])'
  <2>1. req[r].auth # NULL =>
          req'[r].ask.cred \in Credential /\ Grounds(req[r].ask.cred, req[r].auth)'
    BY <1>1, <1>3, <1>4, GroundsStay DEF AInv, Based
  <2>2. req[r].revoked =>
          req'[r].ask.cred \in Credentials /\ RevokedFor(req[r].ask.cred)'
    BY <1>1, <1>3, <1>4, RevocationStays DEF AInv, TablesOK, Based
  <2> QED BY <1>4, <2>1, <2>2 DEF Based
<1>7. OthersKept(r)
  BY <1>3 DEF OthersKept
<1> HIDE DEF e
<1>8. TablesOK' /\ CallsOK' /\ CallsTyped'
  <2>1. TablesOK' /\ CallsOK' /\ \A q \in Requests : req'[q].start \in 0 .. now'
    BY <1>1, <1>4, <1>5, <1>6, <1>7, OneCall
  <2> QED BY <1>2, <1>3, <2>1 DEF AInv, CallsTyped
<1>9. PoolOK'
  <2>1. \A q \in Requests : req'[q].conn = req[q].conn
    BY <1>1, <1>3, <1>4
  <2>2. \A q \in Requests : req[q].conn # NULL => req'[q] = req[q]
    BY <1>1, <1>3
  <2>3. ASSUME NEW q \in Requests
        PROVE  req'[q].conn # NULL <=> req'[q].stage \in InTransaction /\ ByPool(req'[q].ask)
    <3>1. CASE q = r
      BY <1>4, <3>1
    <3>2. CASE q # r
      BY <1>3, <3>2 DEF AInv, PoolOK
    <3> QED BY <3>1, <3>2
  <2>4. \A q, p \in Requests : req'[q].conn # NULL /\ req'[q].conn = req'[p].conn => q = p
    BY <2>1 DEF AInv, PoolOK
  <2>5. \A q \in Requests : req'[q].conn # NULL =>
          guc'[req'[q].conn] = IF AreKnown(req'[q].ask.cols) THEN req'[q].ask.cred ELSE NULL
    BY <1>3, <2>1, <2>2 DEF AInv, PoolOK
  <2>6. \A d \in Conns : IsFree(d)' => guc'[d] = NULL
    BY <1>3, <2>1 DEF AInv, PoolOK, IsFree
  <2> QED BY <2>3, <2>4, <2>5, <2>6 DEF PoolOK
<1>10. TrailOK'
  BY <1>1, <1>2, <1>3, <1>4, <1>7, TrailEnds
<1> QED BY <1>8, <1>9, <1>10 DEF AInv

-----------------------------------------------------------------------------
LEMMA ArmsStep ==
  ASSUME AInv, [ArmsNext]_allVars
  PROVE  AInv'
<1>1. CASE UNCHANGED allVars
  BY <1>1, TablesMove DEF allVars
<1>2. CASE Next /\ UNCHANGED portal
  BY <1>2, TablesMove
<1>3. ASSUME NEW r \in Requests,
             (\E ask \in Asks : Submit(r, ask)) \/ PoolTimeout(r) \/ Serving(r)
      PROVE  AInv'
  <2>1. CASE \E ask \in Asks : Submit(r, ask)
    BY <2>1, SubmitStep
  <2>2. CASE PoolTimeout(r)
    BY <2>2, PoolTimeoutStep
  <2>3. CASE Serving(r) /\ ByPool(req[r].ask)
    <3>1. Proceed(r) \/ Fail(r)
      BY <2>3 DEF Serving
    <3> QED
      BY <2>3, <3>1, BeginStep, AuthorizeStep, QueryStep, AppendStep, CommitStep, FailStep
      DEF Proceed
  <2>4. CASE Serving(r) /\ ~ByPool(req[r].ask)
    <3>1. AppProceed(r) \/ AppFail(r)
      BY <2>4 DEF Serving
    <3> QED
      BY <2>4, <3>1, AppBeginStep, AppAuthorizeStep, AppQueryStep, AppAppendStep, AppFailStep
      DEF AppProceed
  <2> QED BY <1>3, <2>1, <2>2, <2>3, <2>4
<1> QED BY <1>1, <1>2, <1>3 DEF ArmsNext

LEMMA ArmsInvariance == ArmsSafety => []AInv
<1>1. ReadInit => AInv
  BY InitAInv
<1>2. AInv /\ [ArmsNext]_allVars => AInv'
  BY ArmsStep
<1> QED BY <1>1, <1>2, PTL DEF ArmsSafety

\* Behind the database arm alone only calls over the pool get past waiting.
PoolOnly ==
  /\ DOMAIN req = Requests
  /\ \A r \in Requests : req[r].stage \in InTransaction => ByPool(req[r].ask)

RInv == AInv /\ PoolOnly

LEMMA ReadStep ==
  ASSUME RInv, [ReadNext]_allVars
  PROVE  RInv' /\ [ArmsNext]_allVars
<1>1. CASE UNCHANGED allVars \/ (Next /\ UNCHANGED portal)
  <2>1. PoolOnly'
    BY <1>1 DEF RInv, PoolOnly, allVars, portal
  <2> QED BY <1>1, <2>1, ArmsStep DEF RInv, ArmsNext
<1>2. ASSUME NEW r \in Requests,
             \/ \E ask \in Asks : Submit(r, ask)
             \/ Proceed(r) \/ Fail(r) \/ PoolTimeout(r)
      PROVE  RInv' /\ ArmsNext
  <2>1. CASE (\E ask \in Asks : Submit(r, ask)) \/ PoolTimeout(r)
    <3>1. ArmsNext
      BY <2>1 DEF ArmsNext
    <3>2. AInv'
      BY <3>1, ArmsStep DEF RInv
    <3>3. CASE \E ask \in Asks : Submit(r, ask)
      <4>1. req'[r].stage = "waiting" /\ \A q \in Requests : q # r => req'[q] = req[q]
        BY <3>3 DEF Submit, RInv, AInv, CallsTyped, CallRec
      <4> QED BY <3>1, <3>2, <4>1 DEF RInv, PoolOnly, AInv, CallsTyped, InTransaction
    <3>4. CASE PoolTimeout(r)
      <4>1. req'[r].stage = "error" /\ \A q \in Requests : q # r => req'[q] = req[q]
        BY <3>4 DEF PoolTimeout, RInv, AInv, CallsTyped, CallRec
      <4> QED BY <3>1, <3>2, <4>1 DEF RInv, PoolOnly, AInv, CallsTyped, InTransaction
    <3> QED BY <2>1, <3>3, <3>4
  <2>2. CASE Proceed(r) \/ Fail(r)
    <3>1. ByPool(req[r].ask) /\ req[r].stage \notin {"new", "done", "error"}
      BY <2>2
      DEF RInv, PoolOnly, InTransaction, Proceed, Fail, Begin, AwaitsConnection,
          Authorize, Query, Append, Commit
    <3>2. ArmsNext
      BY <2>2, <3>1 DEF ArmsNext, Serving
    <3>3. AInv'
      BY <3>2, ArmsStep DEF RInv
    <3>4. \A q \in Requests : req'[q].ask = req[q].ask /\ (q # r => req'[q] = req[q])
      <4> USE DEF RInv, AInv, CallsTyped, CallRec
      <4>1. CASE \E c \in Conns : Begin(r, c)
        BY <4>1 DEF Begin
      <4>2. CASE Authorize(r)
        BY <4>2 DEF Authorize
      <4>3. CASE Query(r)
        BY <4>3 DEF Query
      <4>4. CASE Append(r)
        BY <4>4 DEF Append
      <4>5. CASE Commit(r) \/ Fail(r)
        BY <4>5 DEF Commit, Fail, End
      <4> QED BY <2>2, <4>1, <4>2, <4>3, <4>4, <4>5 DEF Proceed
    <3>5. \A q \in Requests : req'[q].stage \in InTransaction => ByPool(req[q].ask)
      BY <3>1, <3>4 DEF RInv, PoolOnly
    <3>6. PoolOnly'
      BY <3>3, <3>4, <3>5 DEF PoolOnly, AInv, CallsTyped
    <3> QED BY <3>2, <3>3, <3>6 DEF RInv
  <2> QED BY <1>2, <2>1, <2>2
<1> QED BY <1>1, <1>2 DEF ReadNext

\* What holds of both arms holds of the database arm by itself.
LEMMA ReadInvariance == ReadSpec => []AInv
<1>1. ReadInit => RInv
  <2>1. ReadInit => PoolOnly
    BY DEF ReadInit, PoolOnly, NewRequest, InTransaction
  <2> QED BY <2>1, InitAInv DEF RInv
<1>2. RInv /\ [ReadNext]_allVars => RInv'
  BY ReadStep
<1>3. RInv => AInv
  BY DEF RInv
<1> QED BY <1>1, <1>2, <1>3, PTL DEF ReadSpec

-----------------------------------------------------------------------------
\* A call that has left a row, read off its own fields.
LEMMA Recorded ==
  ASSUME AInv, NEW r \in Requests, req[r].event # NULL
  PROVE  /\ req[r].event = EventOf(r, req[r].ask, req[r].auth, req[r].rows)
         /\ req[r].event.request = r
         /\ req[r].auth = NULL => /\ req[r].rows = {}
                                 /\ req[r].event = DenyEvent(r, req[r].ask)
                                 /\ req[r].event.decision = "deny"
         /\ req[r].auth # NULL =>
              /\ req[r].event = AllowEvent(r, req[r].ask, req[r].auth, req[r].rows)
              /\ req[r].auth \in Authorization
<1>1. Shaped(r, req[r]) /\ req[r].auth \in Authorization \cup {NULL}
  BY CallFields DEF AInv, CallsOK
<1>2. req[r].event = EventOf(r, req[r].ask, req[r].auth, req[r].rows)
  BY <1>1 DEF Shaped
<1>3. req[r].auth = NULL => req[r].rows = {}
  BY <1>1 DEF Shaped
<1>4. req[r].event.request = r
  BY <1>2 DEF EventOf, DenyEvent, AllowEvent
<1>5. req[r].auth = NULL => /\ req[r].event = DenyEvent(r, req[r].ask)
                           /\ req[r].event.decision = "deny"
  BY <1>2 DEF EventOf, DenyEvent
<1> QED BY <1>1, <1>2, <1>3, <1>4, <1>5 DEF EventOf

LEMMA TellsDelivered == AInv => TrailTellsDelivered
<1> SUFFICES ASSUME AInv, NEW r \in Requests, Delivered(r)
             PROVE  /\ {e \in reads : e.request = r} = {req[r].event}
                    /\ req[r].event.row_count = Cardinality(req[r].rows)
                    /\ req[r].rows # {} => /\ Allowed(r)
                                           /\ req[r].event.columns_served = req[r].shown
                    /\ "shipment_id" \in req[r].ask.cols => req[r].event.row_ids = req[r].rows
  BY DEF TrailTellsDelivered
<1>1. req[r].stage = "done" /\ req[r].event \in reads /\ Shaped(r, req[r])
  BY DEF Delivered, AInv, TrailOK, CallsOK
<1>2. req[r].event # NULL
  BY <1>1 DEF Shaped
<1>3. {e \in reads : e.request = r} = {req[r].event}
  BY <1>1, <1>2, Recorded DEF AInv, TrailOK
<1>4. CASE req[r].auth = NULL
  <2>1. req[r].rows = {} /\ req[r].event = DenyEvent(r, req[r].ask)
    BY <1>2, <1>4, Recorded
  <2>2. Cardinality(req[r].rows) = 0
    BY <2>1, FS_EmptySet
  <2>3. req[r].event.row_count = 0 /\ req[r].event.row_ids = {}
    BY <2>1 DEF DenyEvent
  <2> QED BY <1>3, <2>1, <2>2, <2>3
<1>5. CASE req[r].auth # NULL
  <2>1. req[r].event = AllowEvent(r, req[r].ask, req[r].auth, req[r].rows)
    BY <1>2, <1>5, Recorded
  <2>2. /\ req[r].event.decision = "allow"
        /\ req[r].event.row_count = Cardinality(req[r].rows)
        /\ req[r].event.columns_served = ColumnSplit(req[r].ask.cols, req[r].auth)
        /\ "shipment_id" \in req[r].ask.cols => req[r].event.row_ids = req[r].rows
    BY <2>1 DEF AllowEvent
  <2>3. req[r].rows # {} =>
          req[r].shown = ColumnSplit(req[r].ask.cols, req[r].auth)
    <3>1. req[r].ask.cols \in SUBSET Columns /\ req[r].auth \in Authorization
      BY <1>1, <1>2, <1>5, Recorded DEF Shaped, AreKnown
    <3> QED BY <1>1, <3>1, SameFilter DEF Shaped
  <2> QED BY <1>2, <1>3, <2>2, <2>3 DEF Allowed
<1> QED BY <1>4, <1>5

LEMMA NothingOnceRevoked == AInv => RevokedGetsNothing
<1> SUFFICES ASSUME AInv, NEW r \in Requests, req[r].revoked
             PROVE  req[r].rows = {} /\ ~Allowed(r)
  BY DEF RevokedGetsNothing
<1>1. req[r].auth = NULL /\ req[r].rows = {}
  BY DEF AInv, CallsOK, Shaped
<1>2. ~Allowed(r)
  BY <1>1, Recorded DEF Allowed
<1> QED BY <1>1, <1>2

\* Whatever commits between the statements of a call, of either arm: its one
\* row in the trail tells who was allowed, how many rows and which, and the
\* columns that were unmasked.
THEOREM TrailIsTrue == ReadSpec => []TrailTellsDelivered
  BY TellsDelivered, ReadInvariance, PTL

\* The same when some of the calls go to the application arm.
THEOREM TrailIsTrueOfBothArms == ArmsSpec => []TrailTellsDelivered
  BY TellsDelivered, ArmsInvariance, PTL DEF ArmsSpec, ArmsSafety

\* A call that begins after a revocation of its authority has committed is
\* refused by current_auth, in either arm.
THEOREM RevocationBites == ReadSpec => []RevokedGetsNothing
  BY NothingOnceRevoked, ReadInvariance, PTL

\* The same for the application arm, which asks current_auth first as well.
THEOREM RevocationBitesBothArms == ArmsSpec => []RevokedGetsNothing
  BY NothingOnceRevoked, ArmsInvariance, PTL DEF ArmsSpec, ArmsSafety

\* The state of the reads stays within its types.
THEOREM ReadsTyped == ReadSpec => []ReadTypeOK
<1>1. AInv => ReadTypeOK
  <2> SUFFICES ASSUME AInv PROVE ReadTypeOK
    OBVIOUS
  <2>1. TypeOK /\ DOMAIN req = Requests /\ reads \subseteq ReadEvent
        /\ guc \in [Conns -> Credentials \cup {NULL}]
        /\ \A r \in Requests : req[r].start \in 0 .. now
    BY DEF AInv, TablesOK, CallsTyped
  <2> QED BY <2>1, CallFields DEF AInv, ReadTypeOK
<1> QED BY <1>1, ReadInvariance, PTL

\* A pooled connection lends no identity: set_config binds the credential to
\* the transaction, so whoever is allowed presented it in that very call.
LEMMA OwnerAllowed == AInv => IdentityIsOwn
<1>1. ASSUME AInv, NEW r \in Requests, Allowed(r)
      PROVE  LET cred == req[r].ask.cred
             IN /\ VerifyCredential(cred, req[r].start) # NULL
                /\ req[r].event.subject = cred.sub
                /\ req[r].event.grant_id = cred.grant_id
                /\ req[r].event.delegation_id = cred.delegation_id
  <2>1. req[r].auth # NULL
    BY <1>1, Recorded DEF Allowed
  <2>2. req[r].event = AllowEvent(r, req[r].ask, req[r].auth, req[r].rows)
    BY <1>1, <2>1, Recorded DEF Allowed
  <2>3. req[r].auth = AuthRow(req[r].ask.cred)
        /\ VerifyCredential(req[r].ask.cred, req[r].start) # NULL
    BY <1>1, <2>1 DEF AInv, CallsOK, Shaped, Based, Grounds
  <2> QED BY <2>2, <2>3 DEF AllowEvent, AuthRow
<1> QED BY <1>1 DEF IdentityIsOwn

\* Whoever the trail says was allowed presented that credential, and it was
\* good when the call began.
THEOREM OwnIdentity == ReadSpec => []IdentityIsOwn
  BY OwnerAllowed, ReadInvariance, PTL

\* The same for the application arm, which passes the credential by hand.
THEOREM OwnIdentityOfBothArms == ArmsSpec => []IdentityIsOwn
  BY OwnerAllowed, ArmsInvariance, PTL DEF ArmsSpec, ArmsSafety

\* What audit_reconstruction.py asks of the trail and the tables: nothing that
\* happens later takes away the grounds of a row that was served.
LEMMA GroundsKept == AInv => TrailReconciles
<1>1. ASSUME AInv, NEW e \in reads, e.decision = "allow"
      PROVE  /\ grants[e.grant_id].approved_by # NULL
             /\ \A s \in e.row_ids : InScope(e, s)
  <2>1. PICK r \in Requests : e = req[r].event
    BY <1>1 DEF AInv, TrailOK
  <2>2. req[r].event # NULL
    BY <1>1, <2>1, EventAssumption DEF AInv, CallsTyped
  <2>3. req[r].auth # NULL
    BY <1>1, <2>1, <2>2, Recorded
  <2>4. e = AllowEvent(r, req[r].ask, req[r].auth, req[r].rows)
        /\ req[r].auth \in Authorization
    BY <1>1, <2>1, <2>2, <2>3, Recorded
  <2> DEFINE c == req[r].ask.cred
             a == req[r].auth
  <2>5. Grounds(c, a) /\ (req[r].rows # {} => req[r].rows \subseteq VisibleRows(a))
    BY <1>1, <2>3 DEF AInv, CallsOK, Shaped, Based
  <2>6. /\ a = AuthRow(c) /\ c.delegation_id \in DOMAIN delegations \cup {NULL}
        /\ grants[c.grant_id].approved_by # NULL
    BY <2>5 DEF Grounds
  <2>7. e.grant_id = c.grant_id /\ e.delegation_id = c.delegation_id
        /\ e.row_ids \subseteq req[r].rows
    <3>1. e.grant_id = a.grant_id /\ e.delegation_id = a.delegation_id
          /\ e.row_ids \subseteq req[r].rows
      BY <2>4 DEF AllowEvent
    <3> QED BY <2>6, <3>1 DEF AuthRow
  <2>8. ASSUME NEW s \in e.row_ids PROVE InScope(e, s)
    <3>1. PolicyAdmits(a, Shipment[s])
      BY <2>3, <2>5, <2>7, <2>8 DEF VisibleRows
    <3>2. /\ a.provider_org = grants[c.grant_id].provider_org
          /\ a.grantee_org = grants[c.grant_id].grantee_org
          /\ a.max_classification = grants[c.grant_id].max_classification
          /\ a.region_scope = IF c.delegation_id = NULL THEN grants[c.grant_id].region_scope
                              ELSE EffRegions(grants[c.grant_id], c.delegation_id)
      BY <2>6 DEF AuthRow
    <3>3. c.delegation_id # NULL =>
            a.region_scope \subseteq delegations[c.delegation_id].region_scope
      BY <2>6, <3>2, HopsSelf DEF EffRegions
    <3> HIDE DEF a, c
    <3> QED BY <2>7, <3>1, <3>2, <3>3 DEF InScope, PolicyAdmits
  <2> QED BY <2>6, <2>7, <2>8
<1> QED BY <1>1 DEF TrailReconciles

\* Every allowed event of the trail still names an approved grant that covers
\* each of the rows served.
THEOREM Reconciles == ReadSpec => []TrailReconciles
  BY GroundsKept, ReadInvariance, PTL

\* The same when the application arm writes part of the trail.
THEOREM ReconcilesOfBothArms == ArmsSpec => []TrailReconciles
  BY GroundsKept, ArmsInvariance, PTL DEF ArmsSpec, ArmsSafety

\* The guarded view asks current_auth again: no statement of the database arm
\* fetches a row for a credential that has been revoked by then.
THEOREM RowsUnderLiveAuthority == ReadSpec => RowsNeedLiveAuthority
<1> DEFINE Fetch ==
      \A r \in Requests : req'[r].rows # req[r].rows => ~RevokedFor(req[r].ask.cred)
<1>1. ASSUME RInv, ReadNext PROVE Fetch
  <2>1. ASSUME NEW r \in Requests, ByPool(req[r].ask), Query(r) PROVE Fetch
    <3>1. req[r].stage = "query" /\ Shaped(r, req[r]) /\ req \in [Requests -> CallRec]
      BY <1>1, <2>1 DEF Query, RInv, AInv, CallsOK, CallsTyped
    <3>2. AuthNow(r) = CurrentAuth(req[r].ask.cred, req[r].start)
      BY <1>1, <2>1, <3>1, OwnCredential DEF RInv
    <3>3. CASE AuthNow(r) = NULL
      <4>1. req[r].rows = {}
        BY <3>1 DEF Shaped
      <4>2. \A q \in Requests : req'[q].rows = req[q].rows
        BY <2>1, <3>1, <3>3, <4>1 DEF Query, VisibleRows, CallRec
      <4> QED BY <4>2
    <3>4. CASE AuthNow(r) # NULL
      <4>1. ~RevokedFor(req[r].ask.cred)
        BY <1>1, <3>1, <3>2, <3>4, Found DEF RInv
      <4>2. \A q \in Requests : q # r => req'[q] = req[q]
        BY <2>1, <3>1 DEF Query
      <4> QED BY <4>1, <4>2
    <3> QED BY <3>3, <3>4
  <2>2. ASSUME NEW r \in Requests,
               \/ (\E ask \in Asks : Submit(r, ask)) \/ PoolTimeout(r)
               \/ (\E c \in Conns : Begin(r, c)) \/ Authorize(r) \/ Append(r)
               \/ Commit(r) \/ Fail(r)
        PROVE  Fetch
    <3>1. req \in [Requests -> CallRec]
      BY <1>1 DEF RInv, AInv, CallsTyped
    <3>2. \A q \in Requests : req'[q].rows = req[q].rows
      <4>1. CASE \E ask \in Asks : Submit(r, ask)
        BY <3>1, <4>1 DEF Submit, CallRec
      <4>2. CASE PoolTimeout(r)
        BY <3>1, <4>2 DEF PoolTimeout, CallRec
      <4>3. CASE \E c \in Conns : Begin(r, c)
        BY <3>1, <4>3 DEF Begin, CallRec
      <4>4. CASE Authorize(r)
        BY <3>1, <4>4 DEF Authorize, CallRec
      <4>5. CASE Append(r)
        BY <3>1, <4>5 DEF Append, CallRec
      <4>6. CASE Commit(r) \/ Fail(r)
        BY <3>1, <4>6 DEF Commit, Fail, End, CallRec
      <4> QED BY <2>2, <4>1, <4>2, <4>3, <4>4, <4>5, <4>6
    <3> QED BY <3>2
  <2>3. CASE Next /\ UNCHANGED portal
    BY <2>3 DEF portal
  <2>4. \A r \in Requests : Query(r) => ByPool(req[r].ask)
    BY <1>1 DEF RInv, PoolOnly, Query, InTransaction
  <2> QED BY <1>1, <2>1, <2>2, <2>3, <2>4 DEF ReadNext, Proceed
<1>2. ASSUME RInv, [ReadNext]_allVars PROVE [Fetch]_allVars
  BY <1>1, <1>2
<1>3. ReadInit => RInv
  <2>1. ReadInit => PoolOnly
    BY DEF ReadInit, PoolOnly, NewRequest, InTransaction
  <2> QED BY <2>1, InitAInv DEF RInv
<1>4. RInv /\ [ReadNext]_allVars => RInv'
  BY ReadStep
<1> QED BY <1>2, <1>3, <1>4, PTL DEF ReadSpec, RowsNeedLiveAuthority
=============================================================================
