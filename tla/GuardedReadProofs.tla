--------------------------- MODULE GuardedReadProofs ---------------------------
(***************************************************************************)
(* Proof that both arms of read_shipments keep the promise of GuardedRead. *)
(***************************************************************************)
EXTENDS ReadProofs

\* The promise speaks of the tables in the same words as the arms.
LEMMA SameHops ==
  ASSUME NEW d
  PROVE  Promise!Hops(d) = Hops(d)
  BY DEF Promise!Hops, Hops

LEMMA SameScope ==
  ASSUME NEW g, NEW d
  PROVE  /\ Promise!EffRegions(g, d) = EffRegions(g, d)
         /\ Promise!EffAllow(g, d) = EffAllow(g, d)
  BY SameHops DEF Promise!EffRegions, EffRegions, Promise!EffAllow, EffAllow

LEMMA SameCardinality ==
  ASSUME NEW S
  PROVE  Promise!Cardinality(S) = Cardinality(S)
  BY DEF Promise!Cardinality, Cardinality, Promise!IsFiniteSet, IsFiniteSet

LEMMA SameRoots ==
  ASSUME NEW d
  PROVE  Promise!Roots(d) = Roots(d)
  BY SameHops, SameCardinality DEF Promise!Roots, Roots, Promise!MaxHops, MaxHops

LEMMA SameChain ==
  ASSUME NEW c, NEW t
  PROVE  Promise!ChainHolds(c, t) <=> ChainHolds(c, t)
  BY SameHops, SameRoots
  DEF Promise!ChainHolds, ChainHolds, Promise!HopIsLive, HopIsLive,
      Promise!CheckedPrincipals, CheckedPrincipals

LEMMA SameVerdict ==
  ASSUME NEW c, NEW t
  PROVE  Promise!Authorizes(c, t) <=> Authorizes(c, t)
<1>1. Promise!VerifyCredential(c, t) = VerifyCredential(c, t)
  BY DEF Promise!VerifyCredential, VerifyCredential
<1>2. \A g : Promise!GrantIsLive(g, t) <=> GrantIsLive(g, t)
  BY DEF Promise!GrantIsLive, GrantIsLive
<1>3. \A k : Promise!DirectHolds(k) <=> DirectHolds(k)
  BY DEF Promise!DirectHolds, DirectHolds
<1> QED BY <1>1, <1>2, <1>3, SameChain DEF Promise!Authorizes, Authorizes

LEMMA SameAuth ==
  ASSUME NEW c, NEW t
  PROVE  Promise!CurrentAuth(c, t) = CurrentAuth(c, t)
<1>1. Promise!AuthRow(c) = AuthRow(c)
  BY SameScope DEF Promise!AuthRow, AuthRow
<1> QED BY <1>1, SameVerdict DEF Promise!CurrentAuth, CurrentAuth

LEMMA SameAnswer ==
  ASSUME NEW a, NEW cols
  PROVE  /\ Promise!VisibleRows(a) = VisibleRows(a)
         /\ Promise!ViewColumns(cols, a) = ViewColumns(cols, a)
         /\ Promise!ColumnSplit(cols, a) = ColumnSplit(cols, a)
         /\ Promise!AreKnown(cols) <=> AreKnown(cols)
<1>1. Promise!VisibleRows(a) = VisibleRows(a)
  BY DEF Promise!VisibleRows, VisibleRows, Promise!PolicyAdmits, PolicyAdmits
<1>2. Promise!ViewColumns(cols, a) = ViewColumns(cols, a)
  BY DEF Promise!ViewColumns, ViewColumns, Promise!Caps, Caps
<1>3. Promise!ColumnSplit(cols, a) = ColumnSplit(cols, a)
  BY DEF Promise!ColumnSplit, ColumnSplit, Promise!Caps, Caps
<1>4. Promise!AreKnown(cols) <=> AreKnown(cols)
  BY DEF Promise!AreKnown, AreKnown, Promise!Columns, Columns, Promise!Caps, Caps
<1> QED BY <1>1, <1>2, <1>3, <1>4

LEMMA SameEvent ==
  ASSUME NEW r, NEW ask, NEW a, NEW rows
  PROVE  Promise!EventOf(r, ask, a, rows) = EventOf(r, ask, a, rows)
<1>1. Promise!DenyEvent(r, ask) = DenyEvent(r, ask)
  BY DEF Promise!DenyEvent, DenyEvent
<1>2. Promise!AllowEvent(r, ask, a, rows) = AllowEvent(r, ask, a, rows)
  <2>1. Promise!Cardinality(rows) = Cardinality(rows)
    BY SameCardinality
  <2>2. Promise!ColumnSplit(ask.cols, a) = ColumnSplit(ask.cols, a)
    BY SameAnswer
  <2> QED BY <2>1, <2>2 DEF Promise!AllowEvent, AllowEvent
<1> QED BY <1>1, <1>2 DEF Promise!EventOf, EventOf

LEMMA SameRevoked ==
  ASSUME NEW c
  PROVE  Promise!RevokedFor(c) <=> RevokedFor(c)
  BY SameHops DEF Promise!RevokedFor, RevokedFor

LEMMA SameVars == Promise!vars = vars
  BY DEF Promise!vars, vars

\* And moves them by the same commands.
LEMMA SameCommands == Next => Promise!Next
<1>1. ASSUME NEW table, NEW k, NEW row PROVE Promise!Put(table, k, row) = Put(table, k, row)
  BY DEF Promise!Put, Put
<1>2. ASSUME NEW act, NEW p, NEW q, NEW id, NEW d
      PROVE  Promise!Event(act, p, q, id, d) = Event(act, p, q, id, d)
  BY DEF Promise!Event, Event
<1>3. ASSUME NEW row PROVE Promise!MustNarrow(row) <=> MustNarrow(row)
  BY DEF Promise!MustNarrow, MustNarrow, Promise!HandedOverByGrantee, HandedOverByGrantee,
         Promise!HandedOverByParent, HandedOverByParent, Promise!NarrowsGrant, NarrowsGrant
<1>4. ASSUME NEW id, NEW q PROVE RequestGrant(id, q) => Promise!RequestGrant(id, q)
  BY <1>1 DEF Promise!RequestGrant, RequestGrant
<1>5. ASSUME NEW id, NEW p PROVE ApproveGrant(id, p) => Promise!ApproveGrant(id, p)
  BY <1>2 DEF Promise!ApproveGrant, ApproveGrant, Promise!MayApprove, MayApprove
<1>6. ASSUME NEW id, NEW p PROVE RevokeGrant(id, p) => Promise!RevokeGrant(id, p)
  BY <1>2 DEF Promise!RevokeGrant, RevokeGrant
<1>7. ASSUME NEW id, NEW q PROVE CreateDelegation(id, q) => Promise!CreateDelegation(id, q)
  <2>1. Promise!RowOf(q) = RowOf(q)
    BY DEF Promise!RowOf, RowOf
  <2>2. Promise!ReferencesExist(id, RowOf(q)) <=> ReferencesExist(id, RowOf(q))
    BY DEF Promise!ReferencesExist, ReferencesExist
  <2> QED
    BY <1>1, <1>3, <2>1, <2>2
    DEF Promise!CreateDelegation, CreateDelegation, Promise!Depths, Depths
<1>8. ASSUME NEW id, NEW p PROVE RevokeDelegation(id, p) => Promise!RevokeDelegation(id, p)
  <2>1. Promise!RevokePasses(delegations[id]) <=> RevokePasses(delegations[id])
    BY <1>3 DEF Promise!RevokePasses, RevokePasses
  <2> QED BY <1>2, <2>1 DEF Promise!RevokeDelegation, RevokeDelegation
<1>9. ASSUME NEW p
      PROVE  /\ DisablePrincipal(p) => Promise!DisablePrincipal(p)
             /\ EnablePrincipal(p) => Promise!EnablePrincipal(p)
  BY DEF Promise!DisablePrincipal, DisablePrincipal, Promise!EnablePrincipal, EnablePrincipal
<1> QED
  BY <1>4, <1>5, <1>6, <1>7, <1>8, <1>9
  DEF Promise!Next, Next, Promise!Command, Command, Promise!Tick, Tick

-----------------------------------------------------------------------------
\* What is seen of a call.
SeenRec ==
  [phase : Promise!Phases, ask : Asks \cup {NULL}, start : Int, revoked : BOOLEAN,
   auth : Authorization \cup {NULL}, rows : SUBSET ShipmentIds, shown : SUBSET Columns]

LEMMA PhaseIs ==
  ASSUME NEW c
  PROVE  /\ c.stage = "new" => PhaseOf(c) = "new"
         /\ c.stage = "waiting" => PhaseOf(c) = "asked"
         /\ c.stage = "authorize" => PhaseOf(c) = "arrived"
         /\ c.stage = "query" => PhaseOf(c) = "recognised"
         /\ c.stage \in {"append", "commit"} =>
              PhaseOf(c) = IF c.auth = NULL THEN "refused" ELSE "served"
         /\ c.stage = "done" => PhaseOf(c) = "done"
         /\ c.stage = "error" => PhaseOf(c) = "error"
  BY DEF PhaseOf

LEMMA SeenIs ==
  ASSUME NEW c \in CallRec
  PROVE  /\ SeenOf(c) \in SeenRec
         /\ SeenOf(c).phase = PhaseOf(c) /\ SeenOf(c).ask = c.ask
         /\ SeenOf(c).start = c.start /\ SeenOf(c).revoked = c.revoked
         /\ SeenOf(c).auth = c.auth /\ SeenOf(c).rows = c.rows
         /\ SeenOf(c).shown = c.shown
<1>1. PhaseOf(c) \in Promise!Phases
  BY PhaseIs DEF CallRec, Stages, Promise!Phases
<1> QED BY <1>1 DEF SeenOf, SeenRec, CallRec

LEMMA SeenAlike ==
  ASSUME NEW x \in SeenRec, NEW y \in SeenRec,
         x.phase = y.phase, x.ask = y.ask, x.start = y.start, x.revoked = y.revoked,
         x.auth = y.auth, x.rows = y.rows, x.shown = y.shown
  PROVE  x = y
  BY DEF SeenRec

\* What is seen before a step,
LEMMA SeenNow ==
  ASSUME AInv, NEW r \in Requests
  PROVE  /\ req[r] \in CallRec
         /\ CallOf \in [Requests -> SeenRec] /\ CallOf[r] \in SeenRec
         /\ CallOf[r].phase = PhaseOf(req[r]) /\ CallOf[r].ask = req[r].ask
         /\ CallOf[r].start = req[r].start /\ CallOf[r].revoked = req[r].revoked
         /\ CallOf[r].auth = req[r].auth /\ CallOf[r].rows = req[r].rows
         /\ CallOf[r].shown = req[r].shown
<1>1. \A q \in Requests : req[q] \in CallRec
  BY DEF AInv, CallsTyped
<1>2. CallOf \in [Requests -> SeenRec] /\ CallOf[r] = SeenOf(req[r])
  BY <1>1, SeenIs DEF CallOf
<1> QED BY <1>1, <1>2, SeenIs

\* and after it: of the other calls, nothing new.
OnlyCall(r) ==
  /\ req'[r] \in CallRec
  /\ \A q \in Requests : q # r => req'[q] = req[q]

LEMMA SeenNext ==
  ASSUME AInv, NEW r \in Requests, OnlyCall(r),
         NEW y \in SeenRec,
         y.phase = PhaseOf(req'[r]), y.ask = req'[r].ask, y.start = req'[r].start,
         y.revoked = req'[r].revoked, y.auth = req'[r].auth, y.rows = req'[r].rows,
         y.shown = req'[r].shown
  PROVE  CallOf' = [CallOf EXCEPT ![r] = y]
<1>1. SeenOf(req'[r]) = y
  <2>1. req'[r] \in CallRec
    BY DEF OnlyCall
  <2> QED BY <2>1, SeenIs, SeenAlike
<1>2. CallOf' = [CallOf EXCEPT ![r] = SeenOf(req'[r])]
  BY DEF CallOf, OnlyCall
<1> QED BY <1>1, <1>2

SameAnswered(r) ==
  /\ req'[r].auth = req[r].auth
  /\ req'[r].rows = req[r].rows
  /\ req'[r].shown = req[r].shown

SameCall(r) ==
  /\ req'[r].ask = req[r].ask
  /\ req'[r].start = req[r].start
  /\ req'[r].revoked = req[r].revoked

LEMMA MakeStep ==
  ASSUME AInv, NEW r \in Requests, NEW ask \in Asks, Submit(r, ask)
  PROVE  Promise!CallStep(r)
<1> DEFINE y == [CallOf[r] EXCEPT !.phase = "asked", !.ask = ask]
<1>1. /\ req[r].stage = "new" /\ UNCHANGED <<vars, reads>> /\ OnlyCall(r)
      /\ req'[r].stage = "waiting" /\ req'[r].ask = ask /\ req'[r].start = req[r].start
      /\ req'[r].revoked = req[r].revoked /\ SameAnswered(r)
  BY DEF Submit, OnlyCall, SameAnswered, AInv, CallsTyped, CallRec, Stages
<1>2. /\ y \in SeenRec /\ y.phase = "asked" /\ y.ask = ask
      /\ y.start = CallOf[r].start /\ y.revoked = CallOf[r].revoked
      /\ y.auth = CallOf[r].auth /\ y.rows = CallOf[r].rows /\ y.shown = CallOf[r].shown
  BY SeenNow DEF SeenRec, Promise!Phases
<1> HIDE DEF y
<1>3. CallOf' = [CallOf EXCEPT ![r] = y]
  BY <1>1, <1>2, SeenNow, SeenNext, PhaseIs DEF SameAnswered
<1>4. CallOf' = [CallOf EXCEPT ![r].phase = "asked", ![r].ask = ask]
  BY <1>3, SeenNow DEF y, SeenRec
<1>5. CallOf[r].phase = "new"
  BY <1>1, SeenNow, PhaseIs
<1> QED
  BY <1>1, <1>4, <1>5 DEF Promise!CallStep, Promise!Make, Promise!vars, vars

\* BEGIN, in either arm.
LEMMA ArriveStep ==
  ASSUME AInv, NEW r \in Requests, req[r].stage = "waiting",
         UNCHANGED <<vars, reads>>, OnlyCall(r), SameAnswered(r),
         req'[r].ask = req[r].ask, req'[r].start = now,
         req'[r].stage = IF AreKnown(req[r].ask.cols) THEN "authorize" ELSE "append",
         req'[r].revoked = (req[r].ask.cred # NULL /\ RevokedFor(req[r].ask.cred))
  PROVE  Promise!CallStep(r)
<1> DEFINE phase == IF AreKnown(req[r].ask.cols) THEN "arrived" ELSE "refused"
           revoked == req[r].ask.cred # NULL /\ RevokedFor(req[r].ask.cred)
           y == [CallOf[r] EXCEPT !.phase = phase, !.start = now, !.revoked = revoked]
<1>1. now \in Int
  BY RequestAssumption DEF AInv, TablesOK, TypeOK
<1>2. phase \in Promise!Phases /\ revoked \in BOOLEAN
  BY DEF Promise!Phases
<1>3. phase = PhaseOf(req'[r])
  <2>1. req'[r].auth = NULL
    BY DEF AInv, CallsOK, Shaped, SameAnswered
  <2> QED BY <2>1, PhaseIs
<1> HIDE DEF phase, revoked
<1>4. /\ y \in SeenRec /\ y.phase = phase /\ y.ask = CallOf[r].ask
      /\ y.start = now /\ y.revoked = revoked
      /\ y.auth = CallOf[r].auth /\ y.rows = CallOf[r].rows /\ y.shown = CallOf[r].shown
  BY <1>1, <1>2, SeenNow DEF SeenRec
<1> HIDE DEF y
<1>5. CallOf' = [CallOf EXCEPT ![r] = y]
  BY <1>3, <1>4, SeenNow, SeenNext DEF SameAnswered, revoked
<1>6. CallOf' = [CallOf EXCEPT ![r].phase = phase, ![r].start = now, ![r].revoked = revoked]
  BY <1>5, SeenNow DEF y, SeenRec
<1>7. CallOf[r].phase = "asked" /\ CallOf[r].ask = req[r].ask
  BY SeenNow, PhaseIs
<1>8. /\ phase = IF Promise!AreKnown(CallOf[r].ask.cols) THEN "arrived" ELSE "refused"
      /\ revoked = (CallOf[r].ask.cred # NULL /\ Promise!RevokedFor(CallOf[r].ask.cred))
  BY <1>7, SameAnswer, SameRevoked DEF phase, revoked
<1>9. Promise!Arrive(r)
  BY <1>6, <1>7, <1>8 DEF Promise!Arrive, Promise!vars, vars
<1> QED BY <1>9 DEF Promise!CallStep

\* SELECT * FROM portal.current_auth(), in either arm.
LEMMA JudgeStep ==
  ASSUME AInv, NEW r \in Requests, req[r].stage = "authorize",
         NEW a, a = CurrentAuth(req[r].ask.cred, req[r].start),
         req' = [req EXCEPT ![r].stage = IF a = NULL THEN "append" ELSE "query",
                            ![r].auth = a],
         UNCHANGED <<vars, guc, reads>>
  PROVE  Promise!CallStep(r)
<1> DEFINE phase == IF a = NULL THEN "refused" ELSE "recognised"
           y == [CallOf[r] EXCEPT !.phase = phase, !.auth = a]
<1>1. a \in Authorization \cup {NULL}
  BY Found
<1>2. /\ req'[r].stage = IF a = NULL THEN "append" ELSE "query"
      /\ req'[r].auth = a /\ SameCall(r)
      /\ req'[r].rows = req[r].rows /\ req'[r].shown = req[r].shown
      /\ OnlyCall(r)
  BY <1>1 DEF AInv, CallsTyped, CallRec, Stages, SameCall, OnlyCall
<1>3. phase \in Promise!Phases /\ phase = PhaseOf(req'[r])
  BY <1>2, PhaseIs DEF Promise!Phases
<1> HIDE DEF phase
<1>4. /\ y \in SeenRec /\ y.phase = phase /\ y.ask = CallOf[r].ask
      /\ y.start = CallOf[r].start /\ y.revoked = CallOf[r].revoked
      /\ y.auth = a /\ y.rows = CallOf[r].rows /\ y.shown = CallOf[r].shown
  BY <1>1, <1>3, SeenNow DEF SeenRec
<1> HIDE DEF y
<1>5. CallOf' = [CallOf EXCEPT ![r] = y]
  BY <1>2, <1>3, <1>4, SeenNow, SeenNext DEF SameCall
<1>6. CallOf' = [CallOf EXCEPT ![r].phase = phase, ![r].auth = a]
  BY <1>5, SeenNow DEF y, SeenRec
<1>7. CallOf[r].phase = "arrived" /\ Promise!Standing(r) = a
  BY SeenNow, PhaseIs, SameAuth DEF Promise!Standing
<1>8. Promise!Judge(r)
  BY <1>6, <1>7 DEF Promise!Judge, Promise!vars, vars, phase
<1> QED BY <1>8 DEF Promise!CallStep

ServedWith(r, rows, shown) ==
  CallOf' = [CallOf EXCEPT ![r].phase = "served", ![r].rows = rows, ![r].shown = shown]

LEMMA ServedSeen ==
  ASSUME AInv, NEW r \in Requests, req[r].auth # NULL,
         NEW rows \in SUBSET ShipmentIds, NEW shown \in SUBSET Columns,
         OnlyCall(r), SameCall(r),
         req'[r].stage = "append", req'[r].auth = req[r].auth,
         req'[r].rows = rows, req'[r].shown = shown
  PROVE  ServedWith(r, rows, shown)
<1> DEFINE y == [CallOf[r] EXCEPT !.phase = "served", !.rows = rows, !.shown = shown]
<1>1. PhaseOf(req'[r]) = "served"
  BY PhaseIs
<1>2. /\ y \in SeenRec /\ y.phase = "served" /\ y.ask = CallOf[r].ask
      /\ y.start = CallOf[r].start /\ y.revoked = CallOf[r].revoked
      /\ y.auth = CallOf[r].auth /\ y.rows = rows /\ y.shown = shown
  BY SeenNow DEF SeenRec, Promise!Phases
<1> HIDE DEF y
<1>3. CallOf' = [CallOf EXCEPT ![r] = y]
  BY <1>1, <1>2, SeenNow, SeenNext DEF SameCall
<1> QED BY <1>3, SeenNow DEF y, SeenRec, ServedWith

\* Everything the authority found first shows.
LEMMA ServeAllStep ==
  ASSUME AInv, NEW r \in Requests, req[r].stage = "query",
         NEW rows, rows = VisibleRows(req[r].auth) \cap req[r].ask.where,
         NEW shown,
         shown = IF rows = {} THEN {} ELSE ViewColumns(req[r].ask.cols, req[r].auth),
         UNCHANGED <<vars, reads>>, OnlyCall(r), SameCall(r),
         req'[r].stage = "append", req'[r].auth = req[r].auth,
         req'[r].rows = rows, req'[r].shown = shown
  PROVE  Promise!CallStep(r)
<1>1. rows \in SUBSET ShipmentIds /\ shown \in SUBSET Columns /\ req[r].auth # NULL
  <2>1. req[r].ask \in Asks /\ AreKnown(req[r].ask.cols) /\ req[r].auth # NULL
    BY DEF AInv, CallsOK, Shaped
  <2> QED BY <2>1, AskFields DEF ViewColumns
<1>2. ServedWith(r, rows, shown)
  BY <1>1, ServedSeen
<1>3. /\ CallOf[r].phase = "recognised"
      /\ rows = Promise!VisibleRows(CallOf[r].auth) \cap CallOf[r].ask.where
      /\ shown = IF rows = {} THEN {}
                 ELSE Promise!ViewColumns(CallOf[r].ask.cols, CallOf[r].auth)
  BY SeenNow, PhaseIs, SameAnswer
<1>4. Promise!ServeAll(r)
  BY <1>2, <1>3 DEF Promise!ServeAll, ServedWith, Promise!vars, vars
<1> QED BY <1>4 DEF Promise!CallStep

\* Nothing, because that authority is gone.
LEMMA ServeNoneStep ==
  ASSUME AInv, NEW r \in Requests, req[r].stage = "query",
         CurrentAuth(req[r].ask.cred, req[r].start) = NULL,
         UNCHANGED <<vars, reads>>, OnlyCall(r), SameCall(r),
         req'[r].stage = "append", req'[r].auth = req[r].auth,
         req'[r].rows = {}, req'[r].shown = {}
  PROVE  Promise!CallStep(r)
<1> DEFINE y == [CallOf[r] EXCEPT !.phase = "served"]
<1>1. req[r].auth # NULL /\ req[r].rows = {} /\ req[r].shown = {}
  BY DEF AInv, CallsOK, Shaped
<1>2. PhaseOf(req'[r]) = "served" /\ SameAnswered(r)
  BY <1>1, PhaseIs DEF SameAnswered
<1>3. /\ y \in SeenRec /\ y.phase = "served" /\ y.ask = CallOf[r].ask
      /\ y.start = CallOf[r].start /\ y.revoked = CallOf[r].revoked
      /\ y.auth = CallOf[r].auth /\ y.rows = CallOf[r].rows /\ y.shown = CallOf[r].shown
  BY SeenNow DEF SeenRec, Promise!Phases
<1> HIDE DEF y
<1>4. CallOf' = [CallOf EXCEPT ![r] = y]
  BY <1>2, <1>3, SeenNow, SeenNext DEF SameCall, SameAnswered
<1>5. CallOf' = [CallOf EXCEPT ![r].phase = "served"]
  BY <1>4, SeenNow DEF y, SeenRec
<1>6. CallOf[r].phase = "recognised" /\ Promise!Standing(r) = NULL
  BY SeenNow, PhaseIs, SameAuth DEF Promise!Standing
<1>7. Promise!ServeNone(r)
  BY <1>5, <1>6 DEF Promise!ServeNone, Promise!vars, vars
<1> QED BY <1>7 DEF Promise!CallStep

\* The call ends with its row in the trail, or is given up without.
LEMMA EndedStep ==
  ASSUME AInv, NEW r \in Requests, NEW end \in {"done", "error"},
         req[r].stage \in {"waiting", "authorize", "query", "append", "commit"},
         UNCHANGED vars, OnlyCall(r), SameAnswered(r), SameCall(r), req'[r].stage = end,
         \/ /\ req[r].stage \in {"append", "commit"}
            /\ reads' = reads \cup {EventOf(r, req[r].ask, req[r].auth, req[r].rows)}
         \/ reads' = reads /\ end = "error"
  PROVE  Promise!CallStep(r)
<1> DEFINE y == [CallOf[r] EXCEPT !.phase = end]
<1>1. /\ y \in SeenRec /\ y.phase = end /\ y.ask = CallOf[r].ask
      /\ y.start = CallOf[r].start /\ y.revoked = CallOf[r].revoked
      /\ y.auth = CallOf[r].auth /\ y.rows = CallOf[r].rows /\ y.shown = CallOf[r].shown
  BY SeenNow DEF SeenRec, Promise!Phases
<1> HIDE DEF y
<1>2. CallOf' = [CallOf EXCEPT ![r] = y]
  BY <1>1, SeenNow, SeenNext, PhaseIs DEF SameCall, SameAnswered
<1>3. CallOf' = [CallOf EXCEPT ![r].phase = end]
  BY <1>2, SeenNow DEF y, SeenRec
<1>4. CASE /\ req[r].stage \in {"append", "commit"}
           /\ reads' = reads \cup {EventOf(r, req[r].ask, req[r].auth, req[r].rows)}
  <2>1. CallOf[r].phase \in {"refused", "served"}
    BY <1>4, SeenNow, PhaseIs
  <2>2. reads' = reads \cup
          {Promise!EventOf(r, CallOf[r].ask, CallOf[r].auth, CallOf[r].rows)}
    BY <1>4, SeenNow, SameEvent
  <2>3. Promise!Finish(r)
    BY <1>3, <2>1, <2>2 DEF Promise!Finish, Promise!vars, vars
  <2> QED BY <2>3 DEF Promise!CallStep
<1>5. CASE reads' = reads /\ end = "error"
  <2>1. CallOf[r].phase \in Promise!Phases \ {"new", "done", "error"}
    BY SeenNow, PhaseIs DEF Promise!Phases
  <2>2. Promise!Abort(r)
    BY <1>3, <1>5, <2>1 DEF Promise!Abort, Promise!vars, vars
  <2> QED BY <2>2 DEF Promise!CallStep
<1> QED BY <1>4, <1>5

\* audit_append has run but is not committed: nobody can tell.
LEMMA UnseenStep ==
  ASSUME AInv, NEW r \in Requests, Append(r)
  PROVE  UNCHANGED Promise!callVars
<1> DEFINE y == CallOf[r]
<1>1. /\ UNCHANGED <<vars, reads>> /\ req[r].stage = "append"
      /\ \A q \in Requests : q # r => req'[q] = req[q]
      /\ req'[r].stage = "commit" /\ SameAnswered(r) /\ SameCall(r)
  BY DEF Append, AInv, CallsTyped, CallRec, SameAnswered, SameCall
<1>2. PhaseOf(req'[r]) = PhaseOf(req[r])
  BY <1>1, PhaseIs DEF SameAnswered
<1>3. SeenOf(req'[r]) = SeenOf(req[r])
  BY <1>1, <1>2 DEF SeenOf, SameAnswered, SameCall
<1>4. CallOf' = CallOf
  BY <1>1, <1>3 DEF CallOf
<1> QED BY <1>1, <1>4 DEF Promise!callVars, Promise!vars, vars

-----------------------------------------------------------------------------
LEMMA PoolCallSeen ==
  ASSUME AInv, NEW r \in Requests, ByPool(req[r].ask), Proceed(r) \/ Fail(r)
  PROVE  Promise!CallStep(r) \/ UNCHANGED Promise!callVars
<1> USE DEF AInv, CallsTyped, CallRec
<1>1. ASSUME NEW c \in Conns, Begin(r, c) PROVE Promise!CallStep(r)
  <2> DEFINE revoked == req[r].ask.cred # NULL /\ RevokedFor(req[r].ask.cred)
  <2>1. /\ req[r].stage = "waiting" /\ UNCHANGED <<vars, reads>>
        /\ now \in Int /\ revoked \in BOOLEAN
    BY <1>1, RequestAssumption DEF Begin, AwaitsConnection, TablesOK, TypeOK
  <2> HIDE DEF revoked
  <2>2. req' = [req EXCEPT
          ![r].stage = IF AreKnown(req[r].ask.cols) THEN "authorize" ELSE "append",
          ![r].conn = c, ![r].start = now, ![r].revoked = revoked]
    BY <1>1 DEF Begin, revoked
  <2>3. /\ OnlyCall(r) /\ SameAnswered(r)
        /\ req'[r].ask = req[r].ask /\ req'[r].start = now
        /\ req'[r].stage = IF AreKnown(req[r].ask.cols) THEN "authorize" ELSE "append"
        /\ req'[r].revoked = revoked
    BY <2>1, <2>2 DEF OnlyCall, SameAnswered, Stages
  <2> QED BY <2>1, <2>3, ArriveStep DEF revoked
<1>2. CASE Authorize(r)
  <2>1. req[r].stage = "authorize" /\ UNCHANGED <<vars, guc, reads>>
    BY <1>2 DEF Authorize
  <2>2. AuthNow(r) = CurrentAuth(req[r].ask.cred, req[r].start)
    BY <2>1, OwnCredential
  <2> QED BY <1>2, <2>1, <2>2, JudgeStep DEF Authorize
<1>3. CASE Query(r)
  <2> DEFINE a == AuthNow(r)
             rows == VisibleRows(a) \cap req[r].ask.where
             shown == IF rows = {} THEN {} ELSE ViewColumns(req[r].ask.cols, a)
  <2>1. /\ req[r].stage = "query" /\ UNCHANGED <<vars, reads>>
        /\ req' = [req EXCEPT ![r].stage = "append", ![r].rows = rows, ![r].shown = shown]
    BY <1>3 DEF Query
  <2>2. a = CurrentAuth(req[r].ask.cred, req[r].start)
    BY <2>1, OwnCredential
  <2>3. /\ req[r].ask \in Asks /\ AreKnown(req[r].ask.cols)
        /\ Grounds(req[r].ask.cred, req[r].auth)
    BY <2>1 DEF CallsOK, Shaped, Based
  <2>4. rows \in SUBSET ShipmentIds /\ shown \in SUBSET Columns
    BY <2>3, AskFields DEF ViewColumns
  <2>5. a # NULL => a = req[r].auth
    BY <2>1, <2>2, <2>3, Found DEF Grounds
  <2>6. a = NULL => rows = {} /\ shown = {}
    BY DEF VisibleRows
  <2> HIDE DEF rows, shown
  <2>7. /\ OnlyCall(r) /\ SameCall(r)
        /\ req'[r].stage = "append" /\ req'[r].auth = req[r].auth
        /\ req'[r].rows = rows /\ req'[r].shown = shown
    BY <2>1, <2>4 DEF OnlyCall, SameCall, Stages
  <2>8. CASE a = NULL
    BY <2>1, <2>2, <2>6, <2>7, <2>8, ServeNoneStep
  <2>9. CASE a # NULL
    <3>1. /\ rows = VisibleRows(req[r].auth) \cap req[r].ask.where
          /\ shown = IF rows = {} THEN {} ELSE ViewColumns(req[r].ask.cols, req[r].auth)
      BY <2>5, <2>9 DEF rows, shown
    <3> QED BY <2>1, <2>7, <3>1, ServeAllStep
  <2> QED BY <2>8, <2>9
<1>4. CASE Append(r)
  BY <1>4, UnseenStep
<1>5. ASSUME NEW end \in {"done", "error"}, End(r, end)
      PROVE  /\ OnlyCall(r) /\ SameAnswered(r) /\ SameCall(r) /\ req'[r].stage = end
  BY <1>5 DEF End, OnlyCall, SameAnswered, SameCall, Stages
<1>6. CASE Commit(r)
  <2>1. /\ req[r].stage = "commit" /\ UNCHANGED vars
        /\ reads' = reads \cup {EventOf(r, req[r].ask, req[r].auth, req[r].rows)}
    BY <1>6 DEF Commit, CallsOK, Shaped
  <2>2. End(r, "done") \/ End(r, "error")
    BY <1>6 DEF Commit
  <2> QED BY <1>5, <2>1, <2>2, EndedStep
<1>7. CASE Fail(r)
  <2>1. /\ req[r].stage \in {"waiting", "authorize", "query", "append", "commit"}
        /\ UNCHANGED vars /\ reads' = reads /\ End(r, "error")
    BY <1>7 DEF Fail, InTransaction
  <2> QED BY <1>5, <2>1, EndedStep
<1> QED BY <1>1, <1>2, <1>3, <1>4, <1>6, <1>7 DEF Proceed

LEMMA AppCallSeen ==
  ASSUME AInv, NEW r \in Requests, ~ByPool(req[r].ask), AppProceed(r) \/ AppFail(r)
  PROVE  Promise!CallStep(r)
<1> USE DEF AInv, CallsTyped, CallRec
<1>1. CASE AppBegin(r)
  <2> DEFINE revoked == req[r].ask.cred # NULL /\ RevokedFor(req[r].ask.cred)
  <2>1. /\ req[r].stage = "waiting" /\ UNCHANGED <<vars, reads>>
        /\ now \in Int /\ revoked \in BOOLEAN /\ AreKnown(req[r].ask.cols)
    BY <1>1, RequestAssumption DEF AppBegin, ByPool, TablesOK, TypeOK
  <2> HIDE DEF revoked
  <2>2. req' = [req EXCEPT
          ![r].stage = "authorize", ![r].start = now, ![r].revoked = revoked]
    BY <1>1 DEF AppBegin, revoked
  <2>3. /\ OnlyCall(r) /\ SameAnswered(r)
        /\ req'[r].ask = req[r].ask /\ req'[r].start = now
        /\ req'[r].stage = "authorize" /\ req'[r].revoked = revoked
    BY <2>1, <2>2 DEF OnlyCall, SameAnswered, Stages
  <2> QED BY <2>1, <2>3, ArriveStep DEF revoked
<1>2. CASE AppAuthorize(r)
  BY <1>2, JudgeStep DEF AppAuthorize
<1>3. CASE AppQuery(r)
  <2> DEFINE a == req[r].auth
             rows == {s \in req[r].ask.where : FilterAdmits(a, Shipment[s])}
             shown == IF rows = {} THEN {} ELSE KeptColumns(req[r].ask.cols, a)
  <2>1. /\ req[r].stage = "query" /\ UNCHANGED <<vars, reads>>
        /\ req' = [req EXCEPT ![r].stage = "append", ![r].rows = rows, ![r].shown = shown]
    BY <1>3 DEF AppQuery
  <2>2. req[r].ask \in Asks /\ AreKnown(req[r].ask.cols) /\ a \in Authorization
    <3>1. req[r].ask \in Asks /\ AreKnown(req[r].ask.cols) /\ a # NULL
      BY <2>1 DEF CallsOK, Shaped
    <3> QED BY <3>1, CallFields
  <2>3. req[r].ask.where \subseteq ShipmentIds /\ req[r].ask.cols \in SUBSET Columns
    BY <2>2, AskFields
  <2>4. /\ rows = VisibleRows(a) \cap req[r].ask.where
        /\ shown = IF rows = {} THEN {} ELSE ViewColumns(req[r].ask.cols, a)
    BY <2>2, <2>3, SameFilter
  <2> HIDE DEF rows, shown
  <2>5. rows \in SUBSET ShipmentIds /\ shown \in SUBSET Columns
    BY <2>3, <2>4 DEF ViewColumns
  <2>6. /\ OnlyCall(r) /\ SameCall(r)
        /\ req'[r].stage = "append" /\ req'[r].auth = req[r].auth
        /\ req'[r].rows = rows /\ req'[r].shown = shown
    BY <2>1, <2>5 DEF OnlyCall, SameCall, Stages
  <2> QED BY <2>1, <2>4, <2>6, ServeAllStep
<1>4. CASE AppAppend(r)
  <2> DEFINE e == EventOf(r, req[r].ask, req[r].auth, req[r].rows)
  <2>1. /\ req[r].stage = "append" /\ UNCHANGED vars /\ reads' = reads \cup {e}
    BY <1>4 DEF AppAppend
  <2>2. e \in ReadEvent
    <3>1. req[r].ask \in Asks /\ (req[r].auth # NULL => AreKnown(req[r].ask.cols))
      BY <2>1 DEF CallsOK, Shaped
    <3> QED BY <3>1, CallFields, EventTyped
  <2>3. PICK end \in {"done", "error"} : req' = [req EXCEPT ![r].stage = end, ![r].event = e]
    BY <1>4 DEF AppAppend
  <2> HIDE DEF e
  <2>4. /\ OnlyCall(r) /\ SameAnswered(r) /\ SameCall(r) /\ req'[r].stage = end
    BY <2>2, <2>3 DEF OnlyCall, SameAnswered, SameCall, Stages
  <2> QED BY <2>1, <2>4, EndedStep DEF e
<1>5. CASE AppFail(r)
  <2>1. /\ req[r].stage \in {"waiting", "authorize", "query", "append", "commit"}
        /\ UNCHANGED vars /\ reads' = reads
        /\ OnlyCall(r) /\ SameAnswered(r) /\ SameCall(r) /\ req'[r].stage = "error"
    BY <1>5 DEF AppFail, OnlyCall, SameAnswered, SameCall, Stages
  <2> QED BY <2>1, EndedStep
<1> QED BY <1>1, <1>2, <1>3, <1>4, <1>5 DEF AppProceed

LEMMA TimeoutSeen ==
  ASSUME AInv, NEW r \in Requests, PoolTimeout(r)
  PROVE  Promise!CallStep(r)
<1>1. /\ req[r].stage = "waiting" /\ UNCHANGED vars /\ reads' = reads
      /\ OnlyCall(r) /\ SameAnswered(r) /\ SameCall(r) /\ req'[r].stage = "error"
  BY DEF PoolTimeout, AwaitsConnection, OnlyCall, SameAnswered, SameCall, Stages,
         AInv, CallsTyped, CallRec
<1> QED BY <1>1, EndedStep

LEMMA ArmsSeen ==
  ASSUME AInv, [ArmsNext]_allVars
  PROVE  [Promise!GuardedNext]_(Promise!callVars)
<1>1. CASE UNCHANGED allVars
  BY <1>1 DEF allVars, portal, Promise!callVars, Promise!vars, vars, CallOf
<1>2. CASE Next /\ UNCHANGED portal
  <2>1. UNCHANGED <<CallOf, reads>>
    BY <1>2 DEF portal, CallOf
  <2> QED BY <1>2, <2>1, SameCommands DEF Promise!GuardedNext
<1>3. ASSUME NEW r \in Requests,
             (\E ask \in Asks : Submit(r, ask)) \/ PoolTimeout(r) \/ Serving(r)
      PROVE  Promise!CallStep(r) \/ UNCHANGED Promise!callVars
  <2>1. CASE \E ask \in Asks : Submit(r, ask)
    BY <2>1, MakeStep
  <2>2. CASE PoolTimeout(r)
    BY <2>2, TimeoutSeen
  <2>3. CASE Serving(r) /\ ByPool(req[r].ask)
    BY <2>3, PoolCallSeen DEF Serving
  <2>4. CASE Serving(r) /\ ~ByPool(req[r].ask)
    BY <2>4, AppCallSeen DEF Serving
  <2> QED BY <1>3, <2>1, <2>2, <2>3, <2>4
<1>4. CASE \E r \in Requests :
              (\E ask \in Asks : Submit(r, ask)) \/ PoolTimeout(r) \/ Serving(r)
  BY <1>3, <1>4 DEF Promise!GuardedNext
<1> QED BY <1>1, <1>2, <1>4 DEF ArmsNext

LEMMA InitSeen == ReadInit => Promise!GuardedInit
<1> SUFFICES ASSUME ReadInit PROVE Promise!GuardedInit
  OBVIOUS
<1>1. Promise!SeedInit
  BY DEF ReadInit, SeedInit, Promise!SeedInit
<1>2. SeenOf(NewRequest) = Promise!NewCall
  BY DEF SeenOf, PhaseOf, NewRequest, Promise!NewCall
<1>3. \A r \in Requests : req[r] = NewRequest
  BY DEF ReadInit
<1> QED BY <1>1, <1>2, <1>3 DEF Promise!GuardedInit, CallOf

LEMMA SafetyIsGuarded == ArmsSafety => ArmsAreGuarded
<1>1. AInv /\ [ArmsNext]_allVars => [Promise!GuardedNext]_(Promise!callVars)
  BY ArmsSeen
<1> QED
  BY <1>1, InitSeen, ArmsInvariance, PTL DEF ArmsSafety, ArmsAreGuarded, Promise!GuardedSpec

\* However the statements of a call interleave with other calls and with the
\* operators, either arm of read_shipments answers as GuardedRead promises:
\* all that the authority it was judged by shows, or nothing, and a row in the
\* trail that says which.
THEOREM ArmsKeepThePromise == ArmsSpec => ArmsAreGuarded
  BY SafetyIsGuarded, PTL DEF ArmsSpec, ArmsSafety

\* And the database arm on its own.
THEOREM DatabaseArmKeepsThePromise == ReadSpec => ArmsAreGuarded
<1>1. ReadInit => RInv
  <2>1. ReadInit => PoolOnly
    BY DEF ReadInit, PoolOnly, NewRequest, InTransaction
  <2> QED BY <2>1, InitAInv DEF RInv
<1>2. RInv /\ [ReadNext]_allVars => RInv' /\ [ArmsNext]_allVars
  BY ReadStep
<1>3. ReadSpec => ArmsSafety
  BY <1>1, <1>2, PTL DEF ReadSpec, ArmsSafety
<1> QED BY <1>3, SafetyIsGuarded, PTL
=============================================================================
