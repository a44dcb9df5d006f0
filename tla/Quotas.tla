------------------------------- MODULE Quotas -------------------------------
(***************************************************************************)
(* The capacity rules of internal/media/quotas.go as pure operators over   *)
(* the rows of the assets table.  A reservation has no table of its own:   *)
(* the pending row IS the reservation, counted with its expected size,     *)
(* and completion replaces the expected bytes by the actual ones.          *)
(***************************************************************************)
EXTENDS Integers, FiniteSets, FiniteSetsExt

\* SQL NULL in one of the event's limit columns.
NoLimit == -1

\* The values of media_class that are not NULL.
Class == {"photo", "video"}

\* What one event row says about capacity: the overall pair, and per class a
\* count, a largest file and a byte total.
Limit == Nat \cup {NoLimit}
Limits == [assets : Limit, bytes : Limit,
           count : [Class -> Limit], file : [Class -> Limit], storage : [Class -> Limit]]

-----------------------------------------------------------------------------
\* The rows that exist, and the ones each quota scope selects.
Live(rows) == {a \in DOMAIN rows : rows[a].status \in {"pending", "ready"}}
OfEvent(rows, e) == {a \in Live(rows) : rows[a].event = e}
OfSession(rows, s) == {a \in Live(rows) : rows[a].session = s}
OfClass(rows, e, c) == {a \in OfEvent(rows, e) : rows[a].class = c}

\* CASE WHEN status='ready' THEN size_bytes ELSE expected_size_bytes END
Counted(row) == IF row.status = "ready" THEN row.size ELSE row.expected

\* The sum of the counted bytes over a set of rows.
Used(rows, S) == LET bytes(a) == Counted(rows[a]) IN MapThenSumSet(bytes, S)

\* Mutant: one row too many.
FitsOneMore(rows, S, size, maxCount, maxBytes) ==
    /\ maxCount = NoLimit \/ Cardinality(S) <= maxCount
    /\ maxBytes = NoLimit \/ size <= maxBytes - Used(rows, S)

\* One scope has room for one more row of the given size.  The subtraction
\* form is the code's: it never adds two sizes.
Fits(rows, S, size, maxCount, maxBytes) ==
    /\ maxCount = NoLimit \/ Cardinality(S) < maxCount
    /\ \/ maxBytes = NoLimit
       \/ LET used == Used(rows, S) IN used <= maxBytes /\ size <= maxBytes - used

\* Room in the typed bucket.  It counts classified rows only.
reserveClass(rows, limits, e, c, size) ==
    /\ c \in Class
    /\ Fits(rows, OfClass(rows, e, c), size, limits.count[c], limits.storage[c])

\* Room overall, in the session and in the typed bucket.
reserve(rows, limits, e, s, c, size, sessionAssets, sessionBytes) ==
    /\ Fits(rows, OfEvent(rows, e), size, limits.assets, limits.bytes)
    /\ Fits(rows, OfSession(rows, s), size, sessionAssets, sessionBytes)
    /\ reserveClass(rows, limits, e, c, size)

EffectiveFileLimit(server, event) ==
    IF event # NoLimit /\ event < server THEN event ELSE server

fileLimit(limits, c, server) ==
    EffectiveFileLimit(server, limits.file[IF c = "video" THEN "video" ELSE "photo"])

=============================================================================
