----------------------------- MODULE MediaUpload ----------------------------
(***************************************************************************)
(* The operations that hold the event's read lock from their first lookup  *)
(* to their return: CreateAttributedSession, the local Upload that streams *)
(* through the server, and Snapshot, the reader behind export and Immich.  *)
(***************************************************************************)
EXTENDS MediaRemoval

\* openEvent: the row with this public id, open now.  Its id names the lock.
BeginOpen(p, o, e, l) ==
    /\ o \in Ops /\ pc[p] = "idle"
    /\ checkOpen(e, events[e].pub)
    /\ loc' = [loc EXCEPT ![p] = [l EXCEPT !.op = o, !.ev = e, !.pub = events[e].pub]]
    /\ Goto(p, "rlock")
    /\ UNCHANGED <<dbVars, storeVars, active, lockVars, cursorVars>>

(* ---------------------- CreateAttributedSession ----------------------- *)

SessionBegin(p, e) == BeginOpen(p, "session", e, NoLocal)

\* Recheck, INSERT, commit, return.  A fresh random id each time.
SessionCreate(p, s) ==
    /\ RLockReturns(p, "session")
    /\ checkOpen(loc[p].ev, loc[p].pub)
    /\ sessions[s].state = "unused"
    /\ sessions' = [sessions EXCEPT ![s] = [state |-> "live", event |-> loc[p].ev]]
    /\ Return(p)
    /\ UNCHANGED <<events, assets, retired, lastPub, storeVars, active, cursorVars>>

CreateSession(p) ==
    \/ \E s \in Session : SessionCreate(p, s)
    \/ RLockReturns(p, "session") /\ FailAt(p, {"rlock"})

(* ------------------------------ Upload -------------------------------- *)

\* Only when the active backend is local; a claimed size over the server's
\* limit and a prefix that does not sniff are refused before the transaction.
UploadBegin(p, e, s, claimed, b) ==
    /\ active = "local"
    /\ claimed <= ServerLimit
    /\ BeginOpen(p, "upload", e, [NoLocal EXCEPT !.session = s, !.size = claimed, !.body = b])

\* RLock, held until the return; the prefix is read from the client under it.
UploadLock(p) ==
    /\ RLockReturns(p, "upload") /\ KeepRLock(p)
    /\ Goto(p, "u_reserve")
    /\ UNCHANGED <<dbVars, storeVars, active, writer, stripes, cursorVars, loc>>

\* The limit in force, and what an upload of unknown length reserves.
UploadLimit(p) == fileLimit(events[loc[p].ev].limits, ClassOf(loc[p].body), ServerLimit)
\* Mutant: the unknown length itself is reserved.
UploadClaimed(p) == loc[p].size
UploadExpected(p) == IF loc[p].size < 0 THEN UploadLimit(p) ELSE loc[p].size

UploadAdmits(p) ==
    LET l == loc[p] IN
    /\ PrefixOf(l.body) <= ServerLimit /\ SniffPrefix(l.body)
    /\ checkOpen(l.ev, l.pub) /\ checkSession(l.session, l.ev)
    /\ l.size <= UploadLimit(p) /\ PrefixOf(l.body) <= UploadLimit(p)
    /\ reserve(assets, events[l.ev].limits, l.ev, l.session, ClassOf(l.body),
               UploadExpected(p), SessionMaxAssets, SessionMaxBytes)

\* The reserving transaction.  A commit that reports an error returns at once:
\* if it was applied, the pending row waits for Cleanup.
UploadReserve(p, a) ==
    LET l == loc[p] IN
    /\ pc[p] = "u_reserve"
    /\ UploadAdmits(p)
    /\ assets[a].status = "unused"
    /\ assets' = [assets EXCEPT ![a] =
          [NoAsset EXCEPT !.status = "pending", !.event = l.ev, !.session = l.session,
                          !.backend = "local", !.expected = UploadExpected(p),
                          !.class = ClassOf(l.body)]]
    /\ \/ /\ loc' = [loc EXCEPT ![p].at = a]
          /\ Goto(p, IF PrefixOf(l.body) > UploadExpected(p) THEN "rm_read" ELSE "u_open")
          /\ UNCHANGED lockVars
       \/ Return(p)
    /\ UNCHANGED <<events, sessions, retired, lastPub, storeVars, active, cursorVars>>

\* storage.Put opens key.part exclusively; a limit of zero is refused.
UploadOpen(p) ==
    LET a == loc[p].at IN
    /\ pc[p] = "u_open"
    /\ \/ /\ assets[a].expected > 0 /\ a \notin parts
          /\ parts' = parts \cup {a}
          /\ Goto(p, "u_write")
       \/ Goto(p, "rm_read") /\ UNCHANGED parts
    /\ UNCHANGED <<dbVars, objects, urls, active, lockVars, cursorVars, loc>>

\* Put streams the body and renames the temporary file, or fails and removes
\* it as far as it can; it may fail after the rename too.  Upload then checks
\* the counted size against the claim and sniffs again with the length known.
UploadWrite(p) ==
    LET l == loc[p]  a == l.at  fits == l.body.size \in 1..assets[a].expected IN
    /\ pc[p] = "u_write"
    /\ \/ /\ fits /\ objects[a] = None
          /\ objects' = [objects EXCEPT ![a] = l.body]
          /\ parts' = parts \ {a}
          /\ \/ /\ l.size < 0 \/ l.body.size = l.size
                /\ Sniff(l.body)
                /\ Goto(p, "u_finish")
             \/ Goto(p, "rm_read")
       \/ /\ parts' \in {parts, parts \ {a}}
          /\ Goto(p, "rm_read") /\ UNCHANGED objects
    /\ UNCHANGED <<dbVars, urls, active, lockVars, cursorVars, loc>>

\* The finishing transaction: reopen check, UPDATE ... WHERE status = 'pending'.
\* A commit reported as failed goes to the deferred removeAttempt either way.
UploadFinish(p) ==
    LET l == loc[p]  a == l.at IN
    /\ pc[p] = "u_finish"
    /\ checkOpen(l.ev, l.pub) /\ assets[a].status = "pending"
    /\ assets' = [assets EXCEPT ![a] = [@ EXCEPT !.status = "ready", !.size = l.body.size]]
    /\ \/ Return(p)
       \/ Goto(p, "rm_read") /\ UNCHANGED <<loc, lockVars>>
    /\ UNCHANGED <<events, sessions, retired, lastPub, storeVars, active, cursorVars>>

\* The event closed meanwhile, or the transaction failed without effect.
UploadFinishFails(p) ==
    /\ pc[p] = "u_finish"
    /\ Goto(p, "rm_read")
    /\ UNCHANGED <<dbVars, storeVars, active, lockVars, cursorVars, loc>>

Upload(p) ==
    \/ UploadLock(p)
    \/ \E a \in Asset : UploadReserve(p, a)
    \/ UploadOpen(p) \/ UploadWrite(p) \/ UploadFinish(p) \/ UploadFinishFails(p)
    \/ FailAt(p, {"u_reserve"})

(* ----------------------------- Snapshot ------------------------------- *)

SnapshotBegin(p, e) ==
    /\ "snapshot" \in Ops /\ pc[p] = "idle" /\ events[e].pub # 0
    /\ loc' = [loc EXCEPT ![p] = [NoLocal EXCEPT !.op = "snapshot", !.ev = e]]
    /\ Goto(p, "rlock")
    /\ UNCHANGED <<dbVars, storeVars, active, lockVars, cursorVars>>

\* Read the event again under the lock, then list its ready assets.
SnapshotList(p) ==
    LET e == loc[p].ev IN
    /\ RLockReturns(p, "snapshot") /\ KeepRLock(p)
    /\ events[e].pub # 0 /\ ~events[e].deleting
    /\ loc' = [loc EXCEPT ![p].list =
                  {a \in OfEvent(assets, e) : assets[a].status = "ready"}]
    /\ Goto(p, "s_open")
    /\ UNCHANGED <<dbVars, storeVars, active, writer, stripes, cursorVars>>

SnapshotClose(p) == FailAt(p, {"s_open"})

Snapshot(p) ==
    \/ SnapshotList(p) \/ SnapshotClose(p)
    \/ RLockReturns(p, "snapshot") /\ FailAt(p, {"rlock"})

=============================================================================
