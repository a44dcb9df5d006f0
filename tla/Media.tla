-------------------------------- MODULE Media -------------------------------
(***************************************************************************)
(* The media service as a whole: requests, the cleanup goroutine, event    *)
(* administration, the passage of time, guests holding upload URLs, and    *)
(* crashes of the process.                                                 *)
(***************************************************************************)
EXTENDS MediaDirect

\* A row that version 012 of the schema found pending, its class unknown.
LegacyRow(e, s, size, r) ==
    [NoAsset EXCEPT !.status = "pending", !.event = e, !.session = s, !.backend = "s3",
                    !.expected = size, !.request = r]

InitDB ==
    \/ /\ Legacy = {}
       /\ events = [e \in Event |-> NoEvent]
       /\ sessions = [s \in Session |-> NoSession]
       /\ assets = [a \in Asset |-> NoAsset]
       /\ lastPub = 0 /\ urls = {}
    \/ \E home \in Event, owner \in Session, limits \in LimitSet,
          f \in Injection(Legacy, Request), b \in Bodies :
       /\ Legacy # {} /\ b.size > 0
       /\ events = [e \in Event |-> IF e = home
             THEN [pub |-> 1, enabled |-> TRUE, deleting |-> FALSE, lapsed |-> FALSE,
                   limits |-> limits]
             ELSE NoEvent]
       /\ sessions = [s \in Session |-> IF s = owner THEN [state |-> "live", event |-> home]
                                                     ELSE NoSession]
       /\ assets = [a \in Asset |-> IF a \in Legacy THEN LegacyRow(home, owner, b.size, f[a])
                                                    ELSE NoAsset]
       /\ lastPub = 1 /\ urls = Legacy

Init ==
    /\ InitDB
    /\ retired = [a \in Asset |-> "none"]
    /\ objects = [a \in Asset |-> None] /\ parts = {}
    /\ active \in Backends
    /\ readers = [e \in Event |-> {}] /\ writer = [e \in Event |-> None]
    /\ stripes = [i \in Stripe |-> None]
    /\ cleanupAfter = 0 /\ retiredAfter = 0 /\ fullPage = FALSE
    /\ pc = [p \in Actor |-> "idle"] /\ loc = [p \in Actor |-> NoLocal]

(* -------------------- event administration and time ------------------- *)

\* events.create: a new public id, an internal id that no row uses now.
CreateEvent(e, limits) ==
    /\ events[e].pub = 0 /\ lastPub < MaxPub
    /\ lastPub' = lastPub + 1
    /\ events' = [events EXCEPT ![e] = [pub |-> lastPub + 1, enabled |-> TRUE,
                     deleting |-> FALSE, lapsed |-> FALSE, limits |-> limits]]
    /\ UNCHANGED <<sessions, assets, retired, storeVars, active, lockVars, cursorVars, pc, loc>>

\* events.Update: WHERE id = ? AND deleting = 0, under no event lock.  A new
\* expiry lies ahead; one in the past is an update that EventExpires follows.
UpdateEvent(e, enabled, limits) ==
    /\ "update" \in Ops
    /\ events[e].pub # 0 /\ ~events[e].deleting
    /\ events' = [events EXCEPT ![e] = [@ EXCEPT !.enabled = enabled, !.lapsed = FALSE,
                                                !.limits = limits]]
    /\ UNCHANGED <<sessions, assets, retired, lastPub, storeVars, active, lockVars,
                   cursorVars, pc, loc>>

EventExpires(e) ==
    /\ "expire" \in Ops
    /\ events[e].pub # 0 /\ ~events[e].lapsed
    /\ events' = [events EXCEPT ![e].lapsed = TRUE]
    /\ UNCHANGED <<sessions, assets, retired, lastPub, storeVars, active, lockVars,
                   cursorVars, pc, loc>>

SessionExpires(s) ==
    /\ sessions[s].state = "live"
    /\ sessions' = [sessions EXCEPT ![s].state = "expired"]
    /\ UNCHANGED <<events, assets, retired, lastPub, storeVars, active, lockVars,
                   cursorVars, pc, loc>>

\* An hour passes after both the creation and the last authorization.
AssetAges(a) ==
    /\ assets[a].status = "pending" /\ ~assets[a].stale
    /\ assets' = [assets EXCEPT ![a].stale = TRUE]
    /\ UNCHANGED <<events, sessions, retired, lastPub, storeVars, active, lockVars,
                   cursorVars, pc, loc>>

\* An hour passes since the retired key was last checked.
RetiredAges(a) ==
    /\ retired[a] = "fresh"
    /\ retired' = [retired EXCEPT ![a] = "due"]
    /\ UNCHANGED <<events, sessions, assets, lastPub, storeVars, active, lockVars,
                   cursorVars, pc, loc>>

\* The process stops anywhere and is started again, perhaps with another
\* active backend.  Tables, objects and temporary files stay as they are.
Restart ==
    /\ "restart" \in Ops
    /\ pc' = [p \in Actor |-> "idle"] /\ loc' = [p \in Actor |-> NoLocal]
    /\ readers' = [e \in Event |-> {}] /\ writer' = [e \in Event |-> None]
    /\ stripes' = [i \in Stripe |-> None]
    /\ cleanupAfter' = 0 /\ retiredAfter' = 0 /\ fullPage' = FALSE
    /\ active' \in Backends
    /\ UNCHANGED <<dbVars, storeVars>>

Environment ==
    \/ \E e \in Event, l \in LimitSet : CreateEvent(e, l)
    \/ \E e \in Event, on \in BOOLEAN, l \in LimitSet : UpdateEvent(e, on, l)
    \/ \E e \in Event : EventExpires(e)
    \/ \E s \in Session : SessionExpires(s)
    \/ \E a \in Asset : AssetAges(a) \/ RetiredAges(a)
    \/ \E a \in Asset, b \in Bodies : GuestPut(a, b)
    \/ Restart

-----------------------------------------------------------------------------
\* A request arrives at an idle goroutine.
Accept(p) ==
    \E e \in Event :
        \/ SessionBegin(p, e) \/ SnapshotBegin(p, e) \/ DeleteBegin(p, e)
        \/ \E s \in Session :
             \/ \E c \in Claims, b \in Bodies : UploadBegin(p, e, s, c, b)
             \/ \E d \in Bodies, r \in Request : PrepareBegin(p, e, s, d, r)
             \/ \E a \in Asset, o \in {"authorize", "complete"} : DirectBegin(p, o, e, s, a)

\* A goroutine goes on with its request.
Serve(p) ==
    \/ CreateSession(p) \/ Upload(p) \/ Snapshot(p)
    \/ Prepare(p) \/ DirectLock(p) \/ Authorize(p) \/ Complete(p)
    \/ DeleteEvent(p)

Next ==
    \/ \E p \in Proc : Accept(p) \/ Serve(p)
    \/ Cleanup
    \/ \E p \in Actor : removeAttempt(p)
    \/ Environment

Spec == Init /\ [][Next]_vars

(***************************************************************************)
(* Fairness.  A goroutine that can go on does: no operation waits for      *)
(* anything but a lock, every transfer and every call has a deadline, and  *)
(* both Go mutexes hand themselves to a waiter instead of passing it over  *)
(* for ever (strong fairness).  A deletion that failed is asked for again, *)
(* and the database and the stores do not fail every time from then on.    *)
(***************************************************************************)
ServeFairness == \A p \in Actor : SF_vars(Serve(p) \/ removeAttempt(p) \/ (p = Cleaner /\ Cleanup))

DeleteFairness ==
    /\ \A e \in Event : SF_vars(\E p \in Proc : /\ DeleteBegin(p, e)
                                              /\ readers[e] = {} /\ writer[e] = None)
    /\ SF_vars(\E p \in Proc : DeleteMark(p))
    /\ SF_vars(\E p \in Proc, a \in Asset : DeleteDemote(p, a))
    /\ SF_vars(\E p \in Proc : RemoveRead(p))
    /\ SF_vars(\E p \in Proc : RemoveRetire(p) /\ pc'[p] = "rm_object")
    /\ SF_vars(\E p \in Proc : RemoveObject(p) /\ pc'[p] = "rm_row")
    /\ SF_vars(\E p \in Proc : RemoveRow(p))
    /\ SF_vars(\E p \in Proc : DeleteEmpty(p))
    /\ SF_vars(\E p \in Proc : DeleteDrop(p))

LiveSpec == Spec /\ ServeFairness
RetrySpec == LiveSpec /\ DeleteFairness

-----------------------------------------------------------------------------
(* Safety *)

\* No bytes without a record: an object, a temporary file or a URL that can
\* still create an object belongs to an asset row, or its key is retired.
\* This is what removeAttempt's order (retire, delete object, delete row),
\* the event lock around Put and Authorize, and the cascade that only runs
\* on an emptied event are for.
NothingOrphaned ==
    \A a \in Asset :
        objects[a] # None \/ a \in parts \/ a \in urls => HasRow(a) \/ retired[a] # "none"

\* A ready row promises its file: the object is there with the recorded size
\* and class unless the key was retired (see ReadyHasObject).
ReadyIsBacked ==
    \A a \in Asset : assets[a].status = "ready" =>
        \/ retired[a] # "none"
        \/ /\ objects[a] # None
           /\ Sniff(objects[a])
           /\ objects[a].size = assets[a].size /\ ClassOf(objects[a]) = assets[a].class

\* docs/storage.md: cleanup never touches ready assets.
ReadyHasObject == \A a \in Asset : assets[a].status = "ready" => objects[a] # None

\* Snapshot pins its event: what it listed stays ready, in an event that still
\* exists, until it is closed.
SnapshotPinned ==
    \A p \in Proc : pc[p] = "s_open" => \A a \in loc[p].list : assets[a].status = "ready"

\* The bytes behind a ready asset never change while it stays ready: no PUT,
\* no second completion and no cleanup of another attempt replaces them.
SealedBody ==
    [][\A a \in Asset :
         assets[a].status = "ready" /\ assets'[a].status = "ready" /\ retired[a] = "none"
         => objects'[a] = objects[a]]_vars

\* Once an event is marked deleting it gains no row and no ready asset, and it
\* is dropped only when no asset row is left to be cascaded away.
DeletionDrains ==
    [][\A e \in Event : events[e].deleting =>
         /\ OfEvent(assets', e) \subseteq OfEvent(assets, e)
         /\ \A a \in OfEvent(assets', e) :
                assets'[a].status = "ready" => assets[a].status = "ready"
         /\ events'[e].pub # events[e].pub => OfEvent(assets, e) = {}]_vars

\* A ready asset is never taken back outside the deletion of its event, and
\* never loses its row while ready.
ReadyIsKept ==
    [][\A a \in Asset :
         assets[a].status = "ready" /\ assets'[a].status # "ready"
         => assets'[a].status = "pending" /\ events[assets[a].event].deleting]_vars

\* SQLite hands the id of a deleted event to the next one.  A deletion that
\* was asked for under the old public id never marks or drops the new event.
DeletesWhatWasAsked ==
    [][\A e \in Event :
         \/ events[e].pub # 0 /\ events'[e].pub # events[e].pub
         \/ ~events[e].deleting /\ events'[e].deleting
         => \E p \in Proc : /\ loc[p].op = "delete" /\ loc[p].ev = e
                            /\ loc[p].pub = events[e].pub]_vars

\* Rows and bytes that a scope counts, and whether they are within its limits.
Usage(S) == [count |-> Cardinality(S), bytes |-> Used(assets, S)]
EventUsage(e) == Usage(OfEvent(assets, e))
ClassUsage(e, c) == Usage(OfClass(assets, e, c))
SessionUsage(s) == Usage(OfSession(assets, s))
Within(usage, maxCount, maxBytes) ==
    /\ maxCount = NoLimit \/ usage.count <= maxCount
    /\ maxBytes = NoLimit \/ usage.bytes <= maxBytes
Grows(old, new) == new.count > old.count \/ new.bytes > old.bytes

\* No step takes a scope over the limits in force when it commits: whenever
\* what an event, a session or a class counts grows, the new total is within
\* the current limits.  Deleting events are exempt: DeleteEvent's demotion
\* counts the expected bytes again.  Lowering a limit below usage is allowed.
NoOvercommit ==
    [][assets' # assets =>
       /\ \A e \in Event : ~events'[e].deleting =>
            LET l == events'[e].limits IN
            /\ Grows(EventUsage(e), EventUsage(e)') => Within(EventUsage(e)', l.assets, l.bytes)
            /\ \A c \in Class :
                 Grows(ClassUsage(e, c), ClassUsage(e, c)')
                 => Within(ClassUsage(e, c)', l.count[c], l.storage[c])
       /\ \A s \in Session :
            /\ Grows(SessionUsage(s), SessionUsage(s)')
            /\ sessions'[s].event # None => ~events'[sessions'[s].event].deleting
            => Within(SessionUsage(s)', SessionMaxAssets, SessionMaxBytes)]_vars

-----------------------------------------------------------------------------
(* Liveness *)

\* No lock is left behind and no two operations wait for each other: every
\* call into the service returns.
EveryCallReturns == \A p \in Actor : pc[p] # "idle" ~> pc[p] = "idle"

\* A deletion that was begun is finished by retries, whatever was left by
\* failures, crashes, late uploads and other requests for the event.
DeletionFinishes == \A e \in Event : events[e].deleting ~> events[e].pub = 0

=============================================================================
