---------------------------- MODULE AppFilterPath -----------------------------
(***************************************************************************)
(* The control arm, Portal("appfilter"), beside the database arm and over  *)
(* the same tables.  It reads over an administrator's connection of its    *)
(* own, one autocommitted statement after another: only the authorization  *)
(* is asked for in a transaction, and what it found is used after it.      *)
(*                                                                         *)
(* Both arms are shown to keep the promise of GuardedRead.                 *)
(***************************************************************************)
EXTENDS ReadPath

\* psycopg.connect, and BEGIN of _auth_appside's transaction, which binds the
\* credential to it.
AppBegin(r) ==
  LET cred == req[r].ask.cred
  IN /\ req[r].stage = "waiting"
     /\ req' = [req EXCEPT
          ![r].stage = "authorize",
          ![r].start = now,
          ![r].revoked = cred # NULL /\ RevokedFor(cred)]
     /\ UNCHANGED <<vars, guc, reads>>

\* Mutant: what was found for one call is used for the next.
AppAuthorizeByCache(r) ==
  LET known == {req[q].auth : q \in {p \in Requests : req[p].ask = req[r].ask}} \ {NULL}
      a == IF known = {} THEN CurrentAuth(req[r].ask.cred, req[r].start)
           ELSE CHOOSE k \in known : TRUE
  IN /\ req[r].stage = "authorize"
     /\ req' = [req EXCEPT
          ![r].stage = IF a = NULL THEN "append" ELSE "query",
          ![r].auth = a]
     /\ UNCHANGED <<vars, guc, reads>>

\* _auth_appside: current_auth(), and the end of its transaction.
AppAuthorize(r) ==
  LET a == CurrentAuth(req[r].ask.cred, req[r].start)
  IN /\ req[r].stage = "authorize"
     /\ req' = [req EXCEPT
          ![r].stage = IF a = NULL THEN "append" ELSE "query",
          ![r].auth = a]
     /\ UNCHANGED <<vars, guc, reads>>

\* SELECT ... FROM portal.shipment, with the limits found before and whatever
\* has become of them since; then the masks.
AppQuery(r) ==
  LET a == req[r].auth
      rows == {s \in req[r].ask.where : FilterAdmits(a, Shipment[s])}
  IN /\ req[r].stage = "query"
     /\ req' = [req EXCEPT
          ![r].stage = "append",
          ![r].rows = rows,
          ![r].shown = IF rows = {} THEN {} ELSE KeptColumns(req[r].ask.cols, a)]
     /\ UNCHANGED <<vars, guc, reads>>

\* SELECT portal.audit_append(...), committed by itself; read_shipments
\* returns, or the answer is lost.
AppAppend(r) ==
  LET e == EventOf(r, req[r].ask, req[r].auth, req[r].rows)
  IN /\ req[r].stage = "append"
     /\ reads' = reads \cup {e}
     /\ \E end \in {"done", "error"} :
          req' = [req EXCEPT ![r].stage = end, ![r].event = e]
     /\ UNCHANGED <<vars, guc>>

\* A statement or the connection fails.
AppFail(r) ==
  /\ req[r].stage \in {"waiting", "authorize", "query", "append"}
  /\ req' = [req EXCEPT ![r].stage = "error"]
  /\ UNCHANGED <<vars, guc, reads>>

AppProceed(r) == AppBegin(r) \/ AppAuthorize(r) \/ AppQuery(r) \/ AppAppend(r)

Serving(r) ==
  /\ req[r].stage \notin {"new", "done", "error"}
  /\ IF ByPool(req[r].ask) THEN Proceed(r) \/ Fail(r)
     ELSE AppProceed(r) \/ AppFail(r)

ArmsNext ==
  \/ \E r \in Requests :
       (\E ask \in Asks : Submit(r, ask)) \/ PoolTimeout(r) \/ Serving(r)
  \/ Next /\ UNCHANGED portal

\* As for the database arm: a call under way is carried on.
Carried(r) ==
  IF ByPool(req[r].ask) THEN Proceed(r) ELSE AppProceed(r)

ArmsSpec ==
  /\ ReadInit /\ [][ArmsNext]_allVars
  /\ \A r \in Requests : WF_allVars(req[r].stage # "new" /\ Carried(r))
-----------------------------------------------------------------------------
\* Statement by statement, over a pool that is shared, a call of either arm
\* answers as if it had been judged once and served at once: all that its
\* authority shows, or nothing when that was withdrawn in between, never part of
\* it.  The control arm has more ways to break this: it filters and masks with
\* code of its own, and with limits it was told a transaction earlier.
ArmsAreGuarded == Promise!GuardedSpec
=============================================================================
