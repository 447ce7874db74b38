----------------------------- MODULE AuditPages ------------------------------
(***************************************************************************)
(* A walk through the audit trail, page after page, while records are      *)
(* written and retired: listPage() of the memory and PostgreSQL stores     *)
(* with its (createdAt, id) cursor (audit-pagination.ts), and what the     *)
(* operator's listAudit() falls back on for a store that has only list():  *)
(* the newest records and the position of the cursor's row among them.     *)
(***************************************************************************)
EXTENDS Integers, FiniteSets

CONSTANTS
    MaxStamp,   \* bound on createdAt
    MaxRecords, \* bound on the records ever written
    PageLimit,  \* rows on a page
    ListLimit   \* rows list() returns, 500 in the code

ASSUME AuditAssumption == {MaxStamp, MaxRecords, PageLimit, ListLimit} \subseteq Nat \ {0}

VARIABLES
    paged,    \* the store has listPage()
    trail,    \* the records in the store
    retired,  \* the records the application has deleted
    walk,     \* the walk: not begun, between two pages, or at its end
    cursor,   \* the row nextCursor names
    first,    \* the records there were when the walk began
    visits,   \* how often each record was shown
    strayed   \* a page of list() had lost the cursor's row, or did not hold all records

auditVars == <<paged, trail, retired, walk, cursor, first, visits, strayed>>

Row == [createdAt : 1..MaxStamp, id : 1..MaxRecords]
NoRow == [createdAt |-> 0, id |-> 0]

AuditInit ==
    /\ paged \in BOOLEAN
    /\ trail = {} /\ retired = {}
    /\ walk = "new"
    /\ cursor = NoRow
    /\ first = {}
    /\ visits = [r \in Row |-> 0]
    /\ strayed = FALSE

AuditTypeOK ==
    /\ paged \in BOOLEAN /\ strayed \in BOOLEAN
    /\ trail \cup retired \cup first \subseteq Row
    /\ walk \in {"new", "more", "done"}
    /\ cursor \in Row \cup {NoRow}
    /\ visits \in [Row -> Nat]

\* Newest first, the id deciding between rows of one moment.
Precedes(x, y) ==
    \/ x.createdAt > y.createdAt
    \/ x.createdAt = y.createdAt /\ x.id > y.id

\* The first n rows of a set of rows.
FirstOf(rows, n) == {x \in rows : Cardinality({y \in rows : Precedes(y, x)}) < n}
LastOf(rows) == CHOOSE x \in rows : \A y \in rows \ {x} : Precedes(y, x)

\* Slip: the cursor's moment alone decides.
PastMoment(rows) ==
    IF cursor = NoRow THEN rows ELSE {x \in rows : x.createdAt < cursor.createdAt}

\* What the walk has still to look at.
PastCursor(rows) == IF cursor = NoRow THEN rows ELSE {x \in rows : Precedes(cursor, x)}

\* A position that is not found is -1, and the page begins at the top again.
PastPosition(rows) == IF cursor \in rows THEN PastCursor(rows) ELSE rows

------------------------------------------------------------------------------
\* writeAudit(): createdAt is the clock of whichever process writes.
WriteAudit ==
    \E r \in Row :
        /\ \A x \in trail \cup retired : x.id # r.id
        /\ trail' = trail \cup {r}
        /\ UNCHANGED <<paged, retired, walk, cursor, first, visits, strayed>>

\* The application deletes what its policy no longer keeps.
Retire ==
    \E r \in trail :
        /\ trail' = trail \ {r}
        /\ retired' = retired \cup {r}
        /\ UNCHANGED <<paged, walk, cursor, first, visits, strayed>>

\* A page of `rest`: the rows shown, and a cursor only if more follow.
Show(rest) ==
    LET items == FirstOf(rest, PageLimit)
        more == Cardinality(rest) > PageLimit IN
    /\ visits' = [r \in Row |-> IF r \in items THEN visits[r] + 1 ELSE visits[r]]
    /\ walk' = IF more THEN "more" ELSE "done"
    /\ cursor' = IF more THEN LastOf(items) ELSE NoRow

\* audit.listPage()
ListPage ==
    /\ paged
    /\ Show(PastCursor(trail))
    /\ UNCHANGED strayed

\* audit.list({ limit: 500 }), then paginate().
ListAndPaginate ==
    /\ ~paged
    /\ LET rows == FirstOf(trail, ListLimit) IN
        /\ Show(PastPosition(rows))
        /\ strayed' = (strayed \/ rows # trail \/ (walk = "more" /\ cursor \notin rows))

NextPage ==
    /\ walk # "done"
    /\ first' = IF walk = "new" THEN trail ELSE first
    /\ ListPage \/ ListAndPaginate
    /\ UNCHANGED <<paged, trail, retired>>

AuditNext == WriteAudit \/ Retire \/ NextPage

AuditSpec == AuditInit /\ [][AuditNext]_auditVars

------------------------------------------------------------------------------

\* A walk shows every record that is there from its first page to its last
\* exactly once, and none twice, whatever is written or retired meanwhile and
\* however many rows share a moment.  Without listPage() that is so as long as
\* all records fit into list() and the cursor's row is not retired.
WalkIsComplete ==
    ~strayed =>
        /\ \A r \in Row : visits[r] <= 1
        /\ walk = "done" => \A r \in first \ retired : visits[r] = 1
==============================================================================
