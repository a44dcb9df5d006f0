---------------------------- MODULE MediaLedger -----------------------------
(***************************************************************************)
(* The media service implements the ledger.  An album is an event by its   *)
(* public id, because the internal one is used again; a medium is an asset *)
(* row.  Nobody vouches for the object behind a key that was retired while *)
(* the row was pending (see ReadyIsBacked).                                *)
(***************************************************************************)
EXTENDS MediaInv

AlbumState(k) ==
    IF \E e \in Event : events[e].pub = k /\ events[e].deleting THEN "closing"
    ELSE IF \E e \in Event : events[e].pub = k THEN "open"
    ELSE IF k <= lastPub THEN "gone" ELSE "never"

Place(a) == CASE assets[a].status = "pending" -> "private"
              [] assets[a].status = "ready" -> "published"
              [] OTHER -> assets[a].status

Vouched(a) == assets[a].status = "ready" /\ retired[a] = "none"

Ledger == INSTANCE AssetLedger WITH
    Medium  <- Asset,
    Album   <- 1..MaxPub,
    Content <- Bodies,
    Unknown <- None,
    album   <- [k \in 1..MaxPub |-> AlbumState(k)],
    place   <- [a \in Asset |-> Place(a)],
    home    <- [a \in Asset |-> IF HasRow(a) THEN events[assets[a].event].pub ELSE 0],
    content <- [a \in Asset |-> IF Vouched(a) THEN objects[a] ELSE None]

\* Whatever requests, cleanup, late PUTs, expiry and crashes do at the same
\* time, what guests and administrators see is a behaviour of the ledger: a
\* medium never moves to a new event that took over an internal id, nothing is
\* published into an event that is being deleted, nothing published changes or
\* leaves before its event is deleted, and an event goes last.
ImplementsLedger == Ledger!LedgerSpec

=============================================================================
