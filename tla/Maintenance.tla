---------------------------- MODULE Maintenance -----------------------------
(***************************************************************************)
(* Who gets their turn: server.maintain runs Cleanup every five minutes,   *)
(* and Cleanup pages through the stale reservations, as cleanupRetired     *)
(* does through the retired keys, with a cursor that is kept between the   *)
(* passes in memory.  What happens to a row that is visited, and under     *)
(* which locks, is in MediaRemoval; here a visit disposes of the row or    *)
(* fails, always so for the rows of a backend that is gone.                *)
(***************************************************************************)
EXTENDS Integers, FiniteSets

CONSTANTS
    DueRow,         \* keys, in their order
    Broken,         \* rows whose backend cannot be resolved or never answers
    PageSize,       \* LIMIT 1000
    MaxLaunches     \* bound: starts of the process

ASSUME MaintenanceAssumption ==
    DueRow \subseteq Nat \ {0} /\ Broken \subseteq DueRow /\ PageSize \in Nat \ {0} /\ MaxLaunches \in Nat

VARIABLES
    due,            \* rows that the query would find
    cursor,         \* cleanupAfter, or retiredAfter; 0 for ""
    page,           \* what is left of the page of this pass
    wasFull,        \* the page had PageSize rows
    passing,        \* a pass is running
    launches

maintenanceVars == <<due, cursor, page, wasFull, passing, launches>>

MaintenanceInit ==
    /\ due = {} /\ cursor = 0 /\ page = {} /\ wasFull = FALSE /\ passing = FALSE /\ launches = 0

\* An hour passes for a reservation, or for a retired key since it was checked.
ComesDue(r) ==
    /\ launches > 0 /\ r \notin due /\ due' = due \cup {r}
    /\ UNCHANGED <<cursor, page, wasFull, passing, launches>>

\* Mutant: every pass begins with the first row.
PageFromStart == {r \in due : Cardinality({q \in due : q < r}) < PageSize}

\* WHERE ... AND id > cursor ORDER BY id LIMIT 1000
PageAfterCursor ==
    LET rest == {r \in due : r > cursor} IN
    {r \in rest : Cardinality({q \in rest : q < r}) < PageSize}

PassBegins ==
    /\ launches > 0 /\ ~passing /\ passing' = TRUE
    /\ page' = PageAfterCursor
    /\ wasFull' = (Cardinality(PageAfterCursor) >= PageSize)
    /\ UNCHANGED <<due, cursor, launches>>

IsFirst(r) == r \in page /\ \A q \in page : r <= q

\* The cursor advances first, whatever becomes of the row.
Visit(r) ==
    /\ passing /\ IsFirst(r)
    /\ cursor' = r /\ page' = page \ {r}
    /\ UNCHANGED <<wasFull, passing, launches>>

Disposes(r) == r \notin Broken /\ Visit(r) /\ due' = due \ {r}
VisitFails(r) == Visit(r) /\ UNCHANGED due

PassEnds ==
    /\ passing /\ page = {} /\ passing' = FALSE
    /\ cursor' = IF wasFull THEN cursor ELSE 0
    /\ UNCHANGED <<due, page, wasFull, launches>>

\* A statement failed or the time of the cycle is up.
PassAborted ==
    /\ passing /\ passing' = FALSE /\ page' = {}
    /\ UNCHANGED <<due, cursor, wasFull, launches>>

\* The process starts, after a crash or an update; server.New runs a pass too.
Launched ==
    /\ launches < MaxLaunches /\ launches' = launches + 1
    /\ cursor' = 0 /\ page' = {} /\ passing' = FALSE
    /\ UNCHANGED <<due, wasFull>>

Visits == \E r \in DueRow : Disposes(r) \/ VisitFails(r)

MaintenanceNext ==
    \/ PassBegins \/ Visits \/ PassEnds \/ PassAborted \/ Launched
    \/ \E r \in DueRow : ComesDue(r)

\* The ticker goes on for as long as the process runs; not every pass fails
\* before it visited a row or before its end, and a backend that is there
\* does not fail every time.
MaintenanceFairness ==
    /\ WF_maintenanceVars(PassBegins)
    /\ SF_maintenanceVars(Visits) /\ SF_maintenanceVars(PassEnds)
    /\ \A r \in DueRow \ Broken : SF_maintenanceVars(Disposes(r))

-----------------------------------------------------------------------------
\* "A bounded in-memory cursor keeps unavailable historical backends from
\* permanently starving later reservations": every row of a backend that works
\* gets its turn, however many rows before it fail for ever.
CleanupReaches == \A r \in DueRow \ Broken : r \in due ~> r \notin due

=============================================================================
