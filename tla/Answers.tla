------------------------------- MODULE Answers --------------------------------
(***************************************************************************)
(* What a query is run over, and what it answers, in either arm of the     *)
(* portal under one authorization.                                         *)
(*                                                                         *)
(* The caller brings its own predicate, order and aggregate.  In the       *)
(* database arm they are evaluated over the guarded view, whose cells are  *)
(* masked already; in the application arm over the table itself, filtered, *)
(* and the masks come after.  The columns are told apart by what unlocks   *)
(* them; the one that queries compute with is a cost column.               *)
(***************************************************************************)
EXTENDS Authority
Sets == INSTANCE FiniteSetsExt

CONSTANT Cost   \* shipment id -> what its cost columns hold

ASSUME CostAssumption == Cost \in [ShipmentIds -> Nat \ {0}] /\ NULL \notin Nat

Columns == {"shipment_id"} \cup Caps
Arms == {"rls", "appfilter"}
-----------------------------------------------------------------------------
\* Mutant: any column will do.
AnyColumns(cols) == TRUE

\* No column that the portal does not know.
AreKnown(cols) == cols \subseteq Columns

\* Mutant: the view masks nothing.
UnmaskedView(cols, a) == cols

\* The columns the view shows a value in, and the columns the portal reports as
\* served: the masks are in the one, and worked out again in the other.
ViewColumns(cols, a) == {x \in cols : x \in Caps => x \in a.allow}
ColumnSplit(cols, a) == cols \ (Caps \ a.allow)

\* Mutant: no ceiling.
FilterEveryClass(a, s) ==
  /\ s.owner_org = a.provider_org
  /\ s.region \in a.region_scope
  /\ s.partner_org = NULL \/ s.partner_org = a.grantee_org

\* The clauses the application arm puts in front of the caller's.
FilterAdmits(a, s) ==
  /\ s.owner_org = a.provider_org
  /\ s.region \in a.region_scope
  /\ s.classification <= a.max_classification
  /\ s.partner_org = NULL \/ s.partner_org = a.grantee_org

\* Mutant: the masks are forgotten.
KeptUnmasked(cols, a) == cols

\* The columns that still hold a value after that arm has gone over the rows.
KeptColumns(cols, a) == cols \ (cols \ ColumnSplit(cols, a))
-----------------------------------------------------------------------------
FilteredRows(a) == {s \in ShipmentIds : FilterAdmits(a, Shipment[s])}

\* Mutant: the view shows the cost to whoever asks for it.
UnmaskedSource(arm, a) ==
  [s \in IF arm = "rls" THEN VisibleRows(a) ELSE FilteredRows(a) |-> Cost[s]]

\* Mutant: the application arm masks before the query, too.
MaskedSource(arm, a) ==
  [s \in IF arm = "rls" THEN VisibleRows(a) ELSE FilteredRows(a) |->
     IF "cost" \in a.allow THEN Cost[s] ELSE NULL]

\* What the caller's query ranges over: row -> the cost it sees there.
Source(arm, a) ==
  IF arm = "rls"
  THEN [s \in VisibleRows(a) |-> IF "cost" \in a.allow THEN Cost[s] ELSE NULL]
  ELSE [s \in FilteredRows(a) |-> Cost[s]]

\* The rows in which a comparison with the cost is not NULL.
Comparable(src) == {s \in DOMAIN src : src[s] # NULL}

\* What another look at the guarded view finds.  In the application arm it is
\* a look by nobody: no credential is bound to that connection any more.
SeenAgain(arm, a) == IF arm = "rls" THEN VisibleRows(a) ELSE {}

\* A query: the rows of a list, those above a cost, all if another row can be
\* seen, all in the order of their cost; the number of rows, the sum and the
\* greatest of their costs; a subquery over the table itself.
QueryFor(shape, arg) == [shape |-> shape, arg |-> arg]

\* The sum and the maximum of no value are NULL, and coalesced to 0.
Aggregate(shape, src) ==
  CASE shape = "count" -> Cardinality(DOMAIN src)
    [] shape = "sum" -> Sets!MapThenSumSet(LAMBDA s : src[s], Comparable(src))
    [] shape = "max" -> Sets!Max({0} \cup {src[s] : s \in Comparable(src)})

\* The values of the answer's shipment_id column, for a query over src in which
\* another look finds seen.  An aggregate is delivered under that name.
FoundIds(src, seen, q) ==
  CASE q.shape = "rows" -> DOMAIN src \cap q.arg
    [] q.shape = "above" -> {s \in Comparable(src) : src[s] > q.arg}
    [] q.shape = "exists" -> {s \in DOMAIN src : q.arg \in seen}
    [] q.shape = "ranked" -> DOMAIN src
    [] q.shape = "subquery" -> DOMAIN src \cap {q.arg}
    [] OTHER -> {Aggregate(q.shape, src)}

\* Which row comes strictly before which because of the column sorted by.
FoundOrder(src, q) ==
  LET sorted == IF q.shape = "ranked" THEN Comparable(src) ELSE {}
  IN {p \in sorted \X sorted :
        IF q.arg = "DESC" THEN src[p[1]] > src[p[2]] ELSE src[p[1]] < src[p[2]]}

AnswerIds(arm, a, q) == FoundIds(Source(arm, a), SeenAgain(arm, a), q)
AnswerOrder(arm, a, q) == FoundOrder(Source(arm, a), q)

\* portal_app may not touch the table itself.
IsPermitted(arm, q) == arm = "appfilter" \/ q.shape # "subquery"
=============================================================================
