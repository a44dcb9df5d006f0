---------------------------- MODULE MediaRemoval ----------------------------
(***************************************************************************)
(* Everything that takes media away: removeAttempt, which Upload's         *)
(* deferred cleanup, DeleteEvent and Cleanup share; DeleteEvent; the pass  *)
(* of Cleanup over stale pending rows; cleanupRetired.                     *)
(***************************************************************************)
EXTENDS MediaState

(* ------------------------- removeAttempt ------------------------------ *)

\* removeAttempt returns to its caller.  Upload only logs the error and its
\* deferred unlock follows; DeleteEvent goes on with the next row or gives up;
\* Cleanup unlocks the event and goes on either way.
RemoveReturns(p, ok) ==
    \/ /\ loc[p].op = "upload" \/ (loc[p].op = "delete" /\ ~ok)
       /\ Return(p)
    \/ /\ loc[p].op = "delete" /\ ok
       /\ Goto(p, "d_pick")
       /\ loc' = [loc EXCEPT ![p].at = None]
       /\ UNCHANGED lockVars
    \/ /\ loc[p].op = "cleanup"
       /\ Goto(p, "c_next")
       /\ loc' = [loc EXCEPT ![p] = [@ EXCEPT !.at = None, !.ev = None]]
       /\ Unlock(p)

\* Mutants: a ready row is removed too; an S3 key is not retired first.
RemovableAny(row) == row.status \in {"pending", "ready"}
AfterReadNoRetire(row) == "rm_object"

\* A commit of uncertain outcome may have made the row ready: leave that alone.
Removable(row) == row.status = "pending"

\* An S3 key is retired before its object is deleted.
AfterRead(row) == IF row.backend = "s3" THEN "rm_retire" ELSE "rm_object"

\* SELECT status: no row is success, a ready row is refused.
RemoveRead(p) ==
    LET row == assets[loc[p].at] IN
    /\ pc[p] = "rm_read"
    /\ \/ Removable(row) /\ Goto(p, AfterRead(row)) /\ UNCHANGED <<loc, lockVars>>
       \/ ~Removable(row) /\ RemoveReturns(p, ~HasRow(loc[p].at))
    /\ UNCHANGED <<dbVars, storeVars, active, cursorVars>>

\* INSERT OR IGNORE INTO s3_cleanup, before the DELETE of the object.
RemoveRetire(p) ==
    /\ pc[p] = "rm_retire"
    /\ retired' = [retired EXCEPT ![loc[p].at] = IF @ = "none" THEN "fresh" ELSE @]
    /\ \/ Goto(p, "rm_object") /\ UNCHANGED <<loc, lockVars>>
       \/ RemoveReturns(p, FALSE)      \* applied, reported as failed
    /\ UNCHANGED <<events, sessions, assets, lastPub, storeVars, active, cursorVars>>

\* storage.Delete removes the temporary and the final file, direct.Delete the
\* object.  A failed delete may have been carried out, the local one in part.
RemoveObject(p) ==
    LET a == loc[p].at IN
    /\ pc[p] = "rm_object"
    /\ \/ /\ objects' = [objects EXCEPT ![a] = None]
          /\ parts' = parts \ {a}
          /\ Goto(p, "rm_row") /\ UNCHANGED <<loc, lockVars>>
       \/ /\ objects' \in {objects, [objects EXCEPT ![a] = None]}
          /\ parts' = parts \ {a}
          /\ RemoveReturns(p, FALSE)
    /\ UNCHANGED <<dbVars, urls, active, cursorVars>>

\* DELETE FROM assets WHERE ... AND status = 'pending'
RemoveRow(p) ==
    LET a == loc[p].at IN
    /\ pc[p] = "rm_row"
    /\ assets' = [assets EXCEPT ![a] = IF @.status = "pending" THEN Gone(@) ELSE @]
    /\ \E ok \in BOOLEAN : RemoveReturns(p, ok)     \* FALSE: reported as failed
    /\ UNCHANGED <<events, sessions, retired, lastPub, storeVars, active, cursorVars>>

\* The backend cannot be resolved, a statement or the context fails.
RemoveFails(p) ==
    /\ pc[p] \in RemovalPC
    /\ RemoveReturns(p, FALSE)
    /\ UNCHANGED <<dbVars, storeVars, active, cursorVars>>

removeAttempt(p) ==
    RemoveRead(p) \/ RemoveRetire(p) \/ RemoveObject(p) \/ RemoveRow(p) \/ RemoveFails(p)

(* --------------------------- DeleteEvent ------------------------------ *)

\* events.Get, which remembers the public id of the row it found.
DeleteBegin(p, e) ==
    /\ "delete" \in Ops /\ pc[p] = "idle" /\ events[e].pub # 0
    /\ loc' = [loc EXCEPT ![p] = [NoLocal EXCEPT !.op = "delete", !.ev = e,
                                                 !.pub = events[e].pub]]
    /\ Goto(p, "d_lock")
    /\ UNCHANGED <<dbVars, storeVars, active, lockVars, cursorVars>>

\* Mutants: the durable flag is not set; the public id is not compared; the
\* row stays ready.
MarkedClosed(row) == [row EXCEPT !.enabled = FALSE]
SameId(p) == events[loc[p].ev].pub # 0
NotDemoted(row) == row

Marked(row) == [row EXCEPT !.deleting = TRUE, !.enabled = FALSE]
SameEvent(p) == events[loc[p].ev].pub = loc[p].pub
Demoted(row) == [row EXCEPT !.status = "pending"]

\* TryLock, or ErrBusy while an upload, a snapshot or a pass holds the lock;
\* UPDATE events SET deleting = 1, enabled = 0 WHERE id = ? AND public_id = ?
DeleteMark(p) ==
    LET e == loc[p].ev IN
    /\ pc[p] = "d_lock"
    /\ SameEvent(p) /\ TryLock(p, e)
    /\ events' = [events EXCEPT ![e] = Marked(@)]
    /\ Goto(p, "d_pick")
    /\ UNCHANGED <<sessions, assets, retired, lastPub, storeVars, active, cursorVars, loc>>

\* SELECT ... FROM assets WHERE event_id = ? LIMIT 1, then UPDATE assets SET
\* status = 'pending': the row leaves ready before its file is touched.
DeleteDemote(p, a) ==
    /\ pc[p] = "d_pick"
    /\ a \in OfEvent(assets, loc[p].ev)
    /\ assets' = [assets EXCEPT ![a] = Demoted(@)]
    /\ loc' = [loc EXCEPT ![p].at = a]
    /\ Goto(p, "rm_read")
    /\ UNCHANGED <<events, sessions, retired, lastPub, storeVars, active, lockVars, cursorVars>>

\* The SELECT finds no row.
DeleteEmpty(p) ==
    /\ pc[p] = "d_pick" /\ OfEvent(assets, loc[p].ev) = {}
    /\ Goto(p, "d_drop")
    /\ UNCHANGED <<dbVars, storeVars, active, lockVars, cursorVars, loc>>

\* DELETE FROM events, which cascades to its sessions and assets.
DeleteDrop(p) ==
    LET e == loc[p].ev IN
    /\ pc[p] = "d_drop"
    /\ events' = [events EXCEPT ![e] = NoEvent]
    /\ sessions' = [s \in Session |-> IF sessions[s].event = e
                                      THEN [state |-> "gone", event |-> None]
                                      ELSE sessions[s]]
    /\ assets' = [a \in Asset |-> IF a \in OfEvent(assets, e)
                                  THEN Gone(assets[a]) ELSE assets[a]]
    /\ Return(p)
    /\ UNCHANGED <<retired, lastPub, storeVars, active, cursorVars>>

\* ErrBusy and sql.ErrNoRows from the first two statements, ErrDeleting and
\* database errors later: the deleting flag stays and a retry resumes.
DeleteEvent(p) ==
    \/ DeleteMark(p)
    \/ \E a \in Asset : DeleteDemote(p, a)
    \/ DeleteEmpty(p) \/ DeleteDrop(p)
    \/ FailAt(p, {"d_lock", "d_pick", "d_drop"})

(* ----------------------------- Cleanup -------------------------------- *)

\* The first Page keys after the cursor.
FirstPage(S, after) ==
    LET rest == {a \in S : a > after} IN
    {a \in rest : Cardinality({b \in rest : b < a}) < Page}

Stale(a) == assets[a].status = "pending" /\ assets[a].stale

\* Reclaim expired sessions that own no asset row; SELECT the stale pending
\* rows after cleanupAfter, one page of them.
CleanupStart ==
    LET page == FirstPage({a \in Asset : Stale(a)}, cleanupAfter) IN
    /\ "cleanup" \in Ops /\ pc[Cleaner] = "idle"
    /\ sessions' = [s \in Session |->
          IF sessions[s].state = "expired" /\ OfSession(assets, s) = {}
          THEN [state |-> "gone", event |-> None] ELSE sessions[s]]
    /\ loc' = [loc EXCEPT ![Cleaner] = [@ EXCEPT !.op = "cleanup", !.list = page]]
    /\ fullPage' = (Cardinality(page) >= Page)
    /\ Goto(Cleaner, "c_next")
    /\ UNCHANGED <<events, assets, retired, lastPub, storeVars, active, lockVars,
                   cleanupAfter, retiredAfter>>

\* The lowest key left of the page.
IsNext(a) == a \in loc[Cleaner].list /\ \A b \in loc[Cleaner].list : a <= b

\* Advance the cursor.  TryLock and read the row again: it may have been
\* refreshed, completed or removed since the page was read.
CleanupTake(a) ==
    /\ pc[Cleaner] = "c_next" /\ IsNext(a)
    /\ Stale(a) /\ TryLock(Cleaner, assets[a].event)
    /\ cleanupAfter' = a
    /\ loc' = [loc EXCEPT ![Cleaner] = [@ EXCEPT !.list = loc[Cleaner].list \ {a},
                                                  !.at = a, !.ev = assets[a].event]]
    /\ Goto(Cleaner, "rm_read")
    /\ UNCHANGED <<dbVars, storeVars, active, retiredAfter, fullPage>>

\* The event is busy, the row is not stale any more, or the query fails.
CleanupSkip(a) ==
    /\ pc[Cleaner] = "c_next" /\ IsNext(a)
    /\ cleanupAfter' = a
    /\ loc' = [loc EXCEPT ![Cleaner].list = @ \ {a}]
    /\ UNCHANGED <<dbVars, storeVars, active, lockVars, retiredAfter, fullPage, pc>>

\* The page is done; SELECT the retired keys not checked for an hour.
RetiredStart ==
    LET page == FirstPage({a \in Asset : retired[a] = "due"}, retiredAfter) IN
    /\ pc[Cleaner] = "c_next" /\ loc[Cleaner].list = {}
    /\ cleanupAfter' = IF fullPage THEN cleanupAfter ELSE 0
    /\ loc' = [loc EXCEPT ![Cleaner].list = page]
    /\ fullPage' = (Cardinality(page) >= Page)
    /\ Goto(Cleaner, "r_next")
    /\ UNCHANGED <<dbVars, storeVars, active, lockVars, retiredAfter>>

\* direct.Delete under no lock and whatever the asset row says by now.
RetiredDelete(a) ==
    /\ pc[Cleaner] = "r_next" /\ IsNext(a)
    /\ retiredAfter' = a
    /\ objects' = [objects EXCEPT ![a] = None]
    /\ \/ /\ Goto(Cleaner, "r_mark")
          /\ loc' = [loc EXCEPT ![Cleaner] = [@ EXCEPT !.list = loc[Cleaner].list \ {a},
                                                     !.at = a]]
       \/ /\ loc' = [loc EXCEPT ![Cleaner].list = @ \ {a}]     \* reported as failed
          /\ UNCHANGED pc
    /\ UNCHANGED <<dbVars, parts, urls, active, lockVars, cleanupAfter, fullPage>>

\* The backend cannot be resolved or refuses: the next key is tried.
RetiredSkip(a) ==
    /\ pc[Cleaner] = "r_next" /\ IsNext(a)
    /\ retiredAfter' = a
    /\ loc' = [loc EXCEPT ![Cleaner].list = @ \ {a}]
    /\ UNCHANGED <<dbVars, storeVars, active, lockVars, cleanupAfter, fullPage, pc>>

\* UPDATE s3_cleanup SET checked_at = now
RetiredMark ==
    /\ pc[Cleaner] = "r_mark"
    /\ retired' = [retired EXCEPT ![loc[Cleaner].at] = "fresh"]
    /\ Goto(Cleaner, "r_next")
    /\ loc' = [loc EXCEPT ![Cleaner].at = None]
    /\ UNCHANGED <<events, sessions, assets, lastPub, storeVars, active, lockVars, cursorVars>>

RetiredDone ==
    /\ pc[Cleaner] = "r_next" /\ loc[Cleaner].list = {}
    /\ retiredAfter' = IF fullPage THEN retiredAfter ELSE 0
    /\ Return(Cleaner)
    /\ UNCHANGED <<dbVars, storeVars, active, cleanupAfter, fullPage>>

\* A statement fails or the budget of the pass is spent: the cursors stay.
CleanupAborts == FailAt(Cleaner, CleanerPC \ {"idle"})

Cleanup ==
    \/ CleanupStart \/ RetiredStart \/ RetiredMark \/ RetiredDone
    \/ \E a \in Asset : CleanupTake(a) \/ CleanupSkip(a) \/ RetiredDelete(a) \/ RetiredSkip(a)
    \/ CleanupAborts

=============================================================================
