------------------------------ MODULE ReadPath -------------------------------
(***************************************************************************)
(* Portal("rls").read_shipments, one SQL statement at a time, over the     *)
(* connection pool, while the tables of Governance change underneath.      *)
(*                                                                         *)
(* A request runs as one READ COMMITTED transaction: now() stands still    *)
(* from its BEGIN, and each statement sees whatever is committed when it   *)
(* starts.  Nothing a read does is seen by others before its commit, which *)
(* appends its audit_event row.                                            *)
(***************************************************************************)
EXTENDS ReadRequest

CONSTANT
  Conns   \* the connections of app_pool

VARIABLES
  req,    \* request -> how far it is and what it has seen
  guc     \* connection -> its portal.credential setting, NULL when unset

portal == <<req, guc, reads>>
allVars == <<vars, portal>>

ASSUME ConnAssumption == NULL \notin Conns

Stages ==
  {"new", "waiting", "authorize", "query", "append", "commit", "done", "error"}
InTransaction == {"authorize", "query", "append", "commit"}

ReadTypeOK ==
  /\ TypeOK
  /\ DOMAIN req = Requests
  /\ \A r \in Requests :
       /\ req[r].stage \in Stages
       /\ req[r].ask \in Asks \cup {NULL}
       /\ req[r].conn \in Conns \cup {NULL}
       /\ req[r].start \in 0 .. now
       /\ req[r].rows \subseteq ShipmentIds
       /\ req[r].shown \subseteq Columns
       /\ req[r].event \in ReadEvent \cup {NULL}
  /\ guc \in [Conns -> Credentials \cup {NULL}]
  /\ reads \subseteq ReadEvent

\* revoked is history, read by the properties only: a revocation for this
\* credential had committed when the request began.
NewRequest ==
  [stage |-> "new", ask |-> NULL, conn |-> NULL, start |-> 0, auth |-> NULL,
   rows |-> {}, shown |-> {}, event |-> NULL, revoked |-> FALSE]

ReadInit ==
  /\ SeedInit
  /\ req = [r \in Requests |-> NewRequest]
  /\ guc = [c \in Conns |-> NULL]
-----------------------------------------------------------------------------
Submit(r, ask) ==
  /\ req[r].stage = "new"
  /\ req' = [req EXCEPT ![r].stage = "waiting", ![r].ask = ask]
  /\ UNCHANGED <<vars, guc, reads>>

IsFree(c) == \A r \in Requests : req[r].conn # c

\* Everything but the reads of the control arm goes over the pool: both arms
\* refuse an unknown column there before they look at anything else.
ByPool(ask) == ask.arm = "rls" \/ ~AreKnown(ask.cols)

AwaitsConnection(r) == req[r].stage = "waiting" /\ ByPool(req[r].ask)

\* authorized(): check a connection out, BEGIN, and bind the credential to the
\* transaction; None binds nothing.  A request for an unknown column goes
\* through _deny, which binds nothing and only records the refusal.
Begin(r, c) ==
  LET ask == req[r].ask
      known == AreKnown(ask.cols)
  IN /\ AwaitsConnection(r)
     /\ IsFree(c)
     /\ guc' = IF known /\ ask.cred # NULL THEN [guc EXCEPT ![c] = ask.cred] ELSE guc
     /\ req' = [req EXCEPT
          ![r].stage = IF known THEN "authorize" ELSE "append",
          ![r].conn = c,
          ![r].start = now,
          ![r].revoked = ask.cred # NULL /\ RevokedFor(ask.cred)]
     /\ UNCHANGED <<vars, reads>>

\* Mutant: the view answers from the authorization found first.
AuthOnce(r) ==
  IF req[r].auth # NULL THEN req[r].auth
  ELSE CurrentAuth(guc[req[r].conn], req[r].start)

\* The authorization a statement of r's transaction finds.
AuthNow(r) == CurrentAuth(guc[req[r].conn], req[r].start)

\* SELECT * FROM portal.current_auth()
Authorize(r) ==
  /\ req[r].stage = "authorize"
  /\ req' = [req EXCEPT
       ![r].stage = IF AuthNow(r) = NULL THEN "append" ELSE "query",
       ![r].auth = AuthNow(r)]
  /\ UNCHANGED <<vars, guc, reads>>

\* SELECT ... FROM portal.shared_shipment: policy and masks ask current_auth()
\* again.
Query(r) ==
  LET a == AuthNow(r)
      rows == VisibleRows(a) \cap req[r].ask.where
  IN /\ req[r].stage = "query"
     /\ req' = [req EXCEPT
          ![r].stage = "append",
          ![r].rows = rows,
          ![r].shown = IF rows = {} THEN {} ELSE ViewColumns(req[r].ask.cols, a)]
     /\ UNCHANGED <<vars, guc, reads>>

\* SELECT portal.audit_append(...)
Append(r) ==
  /\ req[r].stage = "append"
  /\ req' = [req EXCEPT
       ![r].stage = "commit",
       ![r].event = EventOf(r, req[r].ask, req[r].auth, req[r].rows)]
  /\ UNCHANGED <<vars, guc, reads>>

\* Mutants: the setting belongs to the session; the connection stays out.
EndKeepingSetting(r, stage) ==
  /\ req' = [req EXCEPT ![r].stage = stage, ![r].conn = NULL]
  /\ UNCHANGED guc

EndKeepingConnection(r, stage) ==
  /\ req' = [req EXCEPT ![r].stage = stage]
  /\ guc' = [guc EXCEPT ![req[r].conn] = NULL]

\* The transaction is over: set_config(..., true) ends with it, and the
\* connection goes back to the pool.
End(r, stage) ==
  /\ req' = [req EXCEPT ![r].stage = stage, ![r].conn = NULL]
  /\ guc' = [guc EXCEPT ![req[r].conn] = NULL]

\* COMMIT; read_shipments returns, or the answer to COMMIT is lost.
Commit(r) ==
  /\ req[r].stage = "commit"
  /\ reads' = reads \cup {req[r].event}
  /\ End(r, "done") \/ End(r, "error")
  /\ UNCHANGED vars

\* A statement fails (a where clause that is not SQL, a lost connection) and
\* the transaction rolls back: the caller gets the exception.
Fail(r) ==
  /\ req[r].stage \in InTransaction
  /\ End(r, "error")
  /\ UNCHANGED <<vars, reads>>

\* No connection came free in time.
PoolTimeout(r) ==
  /\ AwaitsConnection(r)
  /\ \A c \in Conns : ~IsFree(c)
  /\ req' = [req EXCEPT ![r].stage = "error"]
  /\ UNCHANGED <<vars, guc, reads>>

Proceed(r) ==
  (\E c \in Conns : Begin(r, c)) \/ Authorize(r) \/ Query(r) \/ Append(r) \/ Commit(r)

ReadNext ==
  \/ \E r \in Requests :
       (\E ask \in Asks : Submit(r, ask)) \/ Proceed(r) \/ Fail(r) \/ PoolTimeout(r)
  \/ Next /\ UNCHANGED portal

\* Nothing is owed by callers, operators or the clock; a request under way is
\* carried on, and the pool hands out a free connection.
ReadSpec ==
  ReadInit /\ [][ReadNext]_allVars /\ \A r \in Requests : WF_allVars(Proceed(r))
-----------------------------------------------------------------------------
\* What a call looks like to those who only see the promise.
PhaseOf(c) ==
  CASE c.stage = "waiting" -> "asked"
    [] c.stage = "authorize" -> "arrived"
    [] c.stage = "query" -> "recognised"
    [] c.stage \in {"append", "commit"} -> IF c.auth = NULL THEN "refused" ELSE "served"
    [] OTHER -> c.stage

SeenOf(c) ==
  [phase |-> PhaseOf(c), ask |-> c.ask, start |-> c.start, revoked |-> c.revoked,
   auth |-> c.auth, rows |-> c.rows, shown |-> c.shown]

CallOf == [r \in Requests |-> SeenOf(req[r])]

Promise == INSTANCE GuardedRead WITH call <- CallOf
Delivered(r) == req[r].stage = "done"
Allowed(r) == req[r].event # NULL /\ req[r].event.decision = "allow"

\* The trail tells what was delivered: who got how many rows, which rows if
\* the key was asked for, and which columns were unmasked in them, although
\* the rows come from a later statement than the authorization recorded.
TrailTellsDelivered ==
  \A r \in Requests : Delivered(r) =>
    /\ {e \in reads : e.request = r} = {req[r].event}
    /\ req[r].event.row_count = Cardinality(req[r].rows)
    /\ req[r].rows # {} => /\ Allowed(r)
                           /\ req[r].event.columns_served = req[r].shown
    /\ "shipment_id" \in req[r].ask.cols => req[r].event.row_ids = req[r].rows

\* Revocation takes effect on the next request: one that begins after the
\* revocation committed is never allowed and gets no row, whatever happens
\* while it runs.
RevokedGetsNothing ==
  \A r \in Requests : req[r].revoked => req[r].rows = {} /\ ~Allowed(r)

\* And within a request, no statement reads rows under an authority that has
\* been revoked, however the request was authorized before.
RowsNeedLiveAuthority ==
  [][\A r \in Requests :
       req'[r].rows # req[r].rows => ~RevokedFor(req[r].ask.cred)]_allVars

\* A pooled connection carries no identity over: who is allowed presented the
\* credential itself, and it verified when its transaction began.
IdentityIsOwn ==
  \A r \in Requests : Allowed(r) =>
    LET cred == req[r].ask.cred
    IN /\ VerifyCredential(cred, req[r].start) # NULL
       /\ req[r].event.subject = cred.sub
       /\ req[r].event.grant_id = cred.grant_id
       /\ req[r].event.delegation_id = cred.delegation_id

InScope(e, s) ==
  LET g == grants[e.grant_id]
      row == Shipment[s]
  IN /\ row.owner_org = g.provider_org
     /\ row.classification <= g.max_classification
     /\ row.partner_org \in {NULL, g.grantee_org}
     /\ row.region \in IF e.delegation_id = NULL THEN g.region_scope
                       ELSE delegations[e.delegation_id].region_scope

\* audit_reconstruction.py, part 7: at any later time the tables alone justify
\* every row the trail says was served.
TrailReconciles ==
  \A e \in reads : e.decision = "allow" =>
    /\ grants[e.grant_id].approved_by # NULL
    /\ \A s \in e.row_ids : InScope(e, s)

\* Every call comes back, with a result or an exception, even when the calls
\* outnumber the connections.
EveryRequestEnds ==
  \A r \in Requests : req[r].stage = "waiting" ~> req[r].stage \in {"done", "error"}

\* Contradicted by the code.

\* bench_revocation.py:244 an in-flight read "holds a transaction snapshot from
\* before the revoking commit, so it finishes and returns its rows".
InFlightCompletes ==
  \A r \in Requests : Delivered(r) /\ Allowed(r) =>
    req[r].rows = VisibleRows(req[r].auth) \cap req[r].ask.where
=============================================================================
