----------------------------- MODULE GuardedRead ------------------------------
(***************************************************************************)
(* What read_shipments promises, whichever arm serves it and whatever else *)
(* goes on: no connections, settings or statements here.                   *)
(*                                                                         *)
(* A call is judged once, by its own credential, on the tables of one      *)
(* instant and by the clock of its arrival.  It is then given everything   *)
(* that authority shows of what it asked for, or nothing if the authority  *)
(* has been withdrawn meanwhile; never a part.  It ends together with its  *)
(* row of the trail, or with no row and no answer.                         *)
(***************************************************************************)
EXTENDS ReadRequest

VARIABLE call   \* request -> how far it is and what it has been given

callVars == <<vars, reads, call>>

Phases ==
  {"new", "asked", "arrived", "recognised", "refused", "served", "done", "error"}

NewCall ==
  [phase |-> "new", ask |-> NULL, start |-> 0, revoked |-> FALSE,
   auth |-> NULL, rows |-> {}, shown |-> {}]

GuardedInit == SeedInit /\ call = [r \in Requests |-> NewCall]

Make(r, ask) ==
  /\ call[r].phase = "new"
  /\ call' = [call EXCEPT ![r].phase = "asked", ![r].ask = ask]
  /\ UNCHANGED <<vars, reads>>

\* The clock of the call is fixed; a column nobody knows ends it here.
Arrive(r) ==
  LET ask == call[r].ask
  IN /\ call[r].phase = "asked"
     /\ call' = [call EXCEPT
          ![r].phase = IF AreKnown(ask.cols) THEN "arrived" ELSE "refused",
          ![r].start = now,
          ![r].revoked = ask.cred # NULL /\ RevokedFor(ask.cred)]
     /\ UNCHANGED <<vars, reads>>

Standing(r) == CurrentAuth(call[r].ask.cred, call[r].start)

Judge(r) ==
  /\ call[r].phase = "arrived"
  /\ call' = [call EXCEPT
       ![r].phase = IF Standing(r) = NULL THEN "refused" ELSE "recognised",
       ![r].auth = Standing(r)]
  /\ UNCHANGED <<vars, reads>>

\* All of it, under the authority the call was judged by.
ServeAll(r) ==
  LET c == call[r]
      rows == VisibleRows(c.auth) \cap c.ask.where
  IN /\ c.phase = "recognised"
     /\ call' = [call EXCEPT
          ![r].phase = "served",
          ![r].rows = rows,
          ![r].shown = IF rows = {} THEN {} ELSE ViewColumns(c.ask.cols, c.auth)]
     /\ UNCHANGED <<vars, reads>>

\* None of it, and only if that authority no longer stands.
ServeNone(r) ==
  /\ call[r].phase = "recognised"
  /\ Standing(r) = NULL
  /\ call' = [call EXCEPT ![r].phase = "served"]
  /\ UNCHANGED <<vars, reads>>

\* The trail gets its row as the call ends; the answer may still be lost.
Finish(r) ==
  LET c == call[r]
  IN /\ c.phase \in {"refused", "served"}
     /\ reads' = reads \cup {EventOf(r, c.ask, c.auth, c.rows)}
     /\ \E end \in {"done", "error"} : call' = [call EXCEPT ![r].phase = end]
     /\ UNCHANGED vars

Abort(r) ==
  /\ call[r].phase \in Phases \ {"new", "done", "error"}
  /\ call' = [call EXCEPT ![r].phase = "error"]
  /\ UNCHANGED <<vars, reads>>

CallStep(r) ==
  \/ \E ask \in Asks : Make(r, ask)
  \/ Arrive(r) \/ Judge(r) \/ ServeAll(r) \/ ServeNone(r) \/ Finish(r) \/ Abort(r)

GuardedNext ==
  \/ \E r \in Requests : CallStep(r)
  \/ Next /\ UNCHANGED <<call, reads>>

GuardedSpec == GuardedInit /\ [][GuardedNext]_callVars
=============================================================================
