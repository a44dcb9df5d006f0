----------------------------- MODULE MediaState -----------------------------
(***************************************************************************)
(* State shared by every operation of internal/media: the SQLite tables,   *)
(* the object stores, the in-memory locks of Service and one control state *)
(* per goroutine that is inside the package.                               *)
(*                                                                         *)
(* SQLite is opened with one connection and BEGIN IMMEDIATE, so one        *)
(* statement or one transaction is one atomic step; file and network I/O   *)
(* are steps of their own.  Waiting for a lock is a control state; taking  *)
(* it is one step with the first statement that it protects, and releasing *)
(* it one step with the last, because nobody can tell these apart.         *)
(***************************************************************************)
EXTENDS Quotas

CONSTANTS
    None,           \* SQL NULL, no object, no holder
    Event,          \* internal event ids: SQLite reuses one after deletion
    Session,        \* random upload session ids, never reused
    Asset,          \* random asset ids, ordered, never reused; also the keys
    Request,        \* client request ids of direct preparations
    Proc,           \* goroutines serving requests
    Cleaner,        \* the one goroutine running Cleanup (cleanupMu)
    Stripe,         \* indices of assetLocks
    StripeOf,       \* the stripe an asset id hashes to
    Bodies,         \* what a guest may send: a size and what it sniffs as
    Claims,         \* Content-Length of a local upload, -1 when unknown
    LimitSet,       \* the limit columns an administrator may save
    ServerLimit,    \* MAX_FILE_SIZE
    SessionMaxAssets, SessionMaxBytes,   \* config.Security
    PrefixLen,      \* the 512 bytes that are sniffed
    Page,           \* the LIMIT 1000 of one cleanup page
    MaxPub,         \* bound: how many events are ever created
    Backends,       \* backend types the process may be configured with
    Legacy,         \* pending direct rows from before media_class existed
    Ops             \* bound: the operations that requests ask for

OpName == {"session", "upload", "prepare", "authorize", "complete",
           "snapshot", "delete"}
\* Bound: besides requests, what a run lets happen from outside.
OutsideName == {"cleanup", "update", "expire", "restart"}

\* What the bytes of an object are: a supported photo or video, a video whose
\* second box runs past the end of the object, or anything else.
Kind == Class \cup {"torn", "bad"}

Actor == Proc \cup {Cleaner}

ASSUME IdsAssumption ==
    /\ Event \subseteq Nat \ {0} /\ Asset \subseteq Nat \ {0}
    /\ None \notin Event /\ None \notin Session /\ None \notin Asset
    /\ None \notin Request /\ None \notin Bodies /\ None \notin Actor /\ None \notin Class
    /\ Cleaner \notin Proc
    /\ StripeOf \in [Asset -> Stripe]
    /\ Legacy \subseteq Asset
    /\ Backends \subseteq {"local", "s3"}
    /\ Ops \subseteq OpName \cup OutsideName
ASSUME SizesAssumption ==
    /\ Bodies \subseteq [size : Nat, kind : Kind]
    /\ Claims \subseteq Nat \cup {-1}
    /\ LimitSet \subseteq Limits /\ LimitSet # {}
    /\ ServerLimit \in Nat \ {0} /\ PrefixLen \in Nat \ {0}
    /\ SessionMaxAssets \in Nat \ {0} /\ SessionMaxBytes \in Nat \ {0}
    /\ Page \in Nat \ {0} /\ MaxPub \in Nat \ {0}
\* The table that is migrated has finitely many rows.
ASSUME LegacyAssumption == IsFiniteSet(Legacy)

VARIABLES
    \* SQLite
    events,         \* events
    sessions,       \* upload_sessions
    assets,         \* assets
    retired,        \* s3_cleanup: keys whose objects must be deleted again
    lastPub,        \* how many public ids were handed out
    \* object stores and bearer credentials
    objects,        \* the object under the key of each asset
    parts,          \* keys with a temporary .part file in the local store
    urls,           \* keys for which a presigned PUT was handed to a guest
    \* memory of the process
    active,         \* type of the active backend (Backends.ActiveID)
    readers, writer,    \* the sync.RWMutex of each event
    stripes,        \* assetLocks
    cleanupAfter, retiredAfter, fullPage,   \* cursors of Cleanup
    pc, loc         \* where each goroutine is, and its local variables

dbVars == <<events, sessions, assets, retired, lastPub>>
storeVars == <<objects, parts, urls>>
lockVars == <<readers, writer, stripes>>
cursorVars == <<cleanupAfter, retiredAfter, fullPage>>
vars == <<dbVars, storeVars, active, lockVars, cursorVars, pc, loc>>

-----------------------------------------------------------------------------
(* Rows *)

\* pub is the public id; 0 when there is no row.  lapsed: the expiry passed.
EventRow == [pub : 0..MaxPub, enabled : BOOLEAN, deleting : BOOLEAN,
             lapsed : BOOLEAN, limits : LimitSet]
NoEvent == [pub |-> 0, enabled |-> FALSE, deleting |-> FALSE, lapsed |-> FALSE,
            limits |-> CHOOSE l \in LimitSet : TRUE]

SessionRow == [state : {"unused", "live", "expired", "gone"}, event : Event \cup {None}]
NoSession == [state |-> "unused", event |-> None]

\* stale: created_at and authorized_until are both more than an hour old.
AssetRow == [status : {"unused", "pending", "ready", "gone"},
             event : Event \cup {None}, session : Session \cup {None},
             backend : {"local", "s3"}, expected : Nat, size : Nat,
             class : Class \cup {None}, request : Request \cup {None},
             stale : BOOLEAN]
NoAsset == [status |-> "unused", event |-> None, session |-> None,
            backend |-> "local", expected |-> 0, size |-> 0, class |-> None,
            request |-> None, stale |-> FALSE]

\* A deleted row; its event stays known to a page of Cleanup that read it.
Gone(row) == [NoAsset EXCEPT !.status = "gone", !.event = row.event]

\* Local variables of a goroutine.  list is a page of Cleanup or a Snapshot.
Local == [op : OpName \cup {"none", "cleanup"}, ev : Event \cup {None},
          pub : 0..MaxPub, at : Asset \cup {None}, session : Session \cup {None},
          size : Int, class : Class \cup {None}, body : Bodies \cup {None},
          request : Request \cup {None}, list : SUBSET Asset]
NoLocal == [op |-> "none", ev |-> None, pub |-> 0, at |-> None, session |-> None,
            size |-> 0, class |-> None, body |-> None, request |-> None, list |-> {}]

HandlerPC == {"idle", "rlock", "stripe", "u_reserve", "u_open", "u_write", "u_finish",
              "a_sign", "f_head", "f_prefix", "f_reject", "f_commit",
              "s_open", "d_lock", "d_pick", "d_drop"}
CleanerPC == {"idle", "c_next", "r_next", "r_mark"}
RemovalPC == {"rm_read", "rm_retire", "rm_object", "rm_row"}

TypeOK ==
    /\ events \in [Event -> EventRow]
    /\ sessions \in [Session -> SessionRow]
    /\ assets \in [Asset -> AssetRow]
    /\ retired \in [Asset -> {"none", "fresh", "due"}]
    /\ lastPub \in 0..MaxPub
    /\ objects \in [Asset -> Bodies \cup {None}]
    /\ parts \subseteq Asset /\ urls \subseteq Asset
    /\ active \in {"local", "s3"}
    /\ readers \in [Event -> SUBSET Actor]
    /\ writer \in [Event -> Actor \cup {None}]
    /\ stripes \in [Stripe -> Actor \cup {None}]
    /\ cleanupAfter \in Asset \cup {0} /\ retiredAfter \in Asset \cup {0}
    /\ fullPage \in BOOLEAN
    /\ pc \in [Actor -> HandlerPC \cup CleanerPC \cup RemovalPC]
    /\ loc \in [Actor -> Local]

-----------------------------------------------------------------------------
(* Checks that several transactions make *)

HasRow(a) == assets[a].status \in {"pending", "ready"}

\* Mutant: the flags are not read again inside the transaction.
checkOpenNoFlags(e, pub) == events[e].pub = pub /\ pub # 0 /\ ~events[e].lapsed

\* checkOpen: the row with this id AND this public id, enabled and unexpired.
checkOpen(e, pub) ==
    /\ events[e].pub = pub /\ pub # 0
    /\ events[e].enabled /\ ~events[e].deleting /\ ~events[e].lapsed

checkSession(s, e) == sessions[s].state = "live" /\ sessions[s].event = e

\* Sniff(prefix, -1): a short prefix is the whole object, so a box that runs
\* past the end is seen; in a full prefix it is not.
SniffPrefix(b) ==
    b.size > 0 /\ (b.kind \in Class \/ (b.kind = "torn" /\ b.size >= PrefixLen))
\* Sniff(prefix, size) once the length is known.
Sniff(b) == b.size > 0 /\ b.kind \in Class
ClassOf(b) == IF b.kind = "photo" THEN "photo" ELSE "video"

PrefixOf(b) == IF b.size < PrefixLen THEN b.size ELSE PrefixLen

-----------------------------------------------------------------------------
(* Control *)

Goto(p, l) == pc' = [pc EXCEPT ![p] = l]

\* Mutant: a deletion or a cleanup leaves the event locked.
UnlockNoWriter(p) ==
    /\ readers' = [e \in Event |-> readers[e] \ {p}]
    /\ stripes' = [i \in Stripe |-> IF stripes[i] = p THEN None ELSE stripes[i]]
    /\ UNCHANGED writer

\* Every deferred unlock has run, nothing of the call is left.
Unlock(p) ==
    /\ readers' = [e \in Event |-> readers[e] \ {p}]
    /\ writer' = [e \in Event |-> IF writer[e] = p THEN None ELSE writer[e]]
    /\ stripes' = [i \in Stripe |-> IF stripes[i] = p THEN None ELSE stripes[i]]

Return(p) == Goto(p, "idle") /\ loc' = [loc EXCEPT ![p] = NoLocal] /\ Unlock(p)

\* lock.RLock() returns: writers only TryLock, so a reader waits for a holder
\* only and no waiting writer stops it.
RLockReturns(p, op) ==
    pc[p] = "rlock" /\ loc[p].op = op /\ writer[loc[p].ev] = None

\* Mutant: the lock is released right after the first statement.
KeepRLockNot(p) == UNCHANGED readers

\* The read lock is kept beyond this step.
KeepRLock(p) == readers' = [readers EXCEPT ![loc[p].ev] = @ \cup {p}]

\* Mutant: only other writers are excluded.
TryLockOverReaders(p, e) ==
    /\ writer[e] = None
    /\ writer' = [writer EXCEPT ![e] = p]
    /\ UNCHANGED <<readers, stripes>>

\* lock.TryLock() succeeds only when nobody holds the event's lock.
TryLock(p, e) ==
    /\ readers[e] = {} /\ writer[e] = None
    /\ writer' = [writer EXCEPT ![e] = p]
    /\ UNCHANGED <<readers, stripes>>

\* A step that returns an error before changing anything, at one of the labels.
FailAt(p, labels) ==
    /\ pc[p] \in labels
    /\ Return(p)
    /\ UNCHANGED <<dbVars, storeVars, active, cursorVars>>

=============================================================================
