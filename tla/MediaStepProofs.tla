-------------------------- MODULE MediaStepProofs ---------------------------
(***************************************************************************)
(* What a step of the media service may never do, for all values of the    *)
(* constants.  MarksOK joins IInv; RowSteps and EventSteps then say every  *)
(* way in which one step can change one row, and the action properties of  *)
(* Media follow from these two lists, and so does the refinement of the    *)
(* ledger.  Capacity needs CapacityOK besides, and a list of its own.      *)
(***************************************************************************)
EXTENDS MediaLedger, MediaProofs

\* Goroutines in the middle of a deletion hold their event for writing.
LEMMA DeletersWrite ==
    ASSUME IInv, NEW p \in Proc, Deleting(p)
    PROVE  Writing(p) /\ loc[p].ev \in Event /\ writer[loc[p].ev] = p /\ p \in Actor
<1>1. p \in Actor /\ Writing(p)
  BY DEF Actor, Deleting, Writing
<1> QED
  BY <1>1, LabelTypes DEF IInv, LocksOK

\* A step that leaves the event rows alone and begins no deletion.
LEMMA MarksKept ==
    ASSUME MarksOK, NEW p \in Actor, OnlyActor(p), UNCHANGED events,
           Deleting(p)' => /\ Deleting(p)
                           /\ loc'[p].ev = loc[p].ev /\ loc'[p].pub = loc[p].pub,
           p \in Proc /\ pc'[p] = "d_lock" => loc'[p].pub # 0
    PROVE  MarksOK'
BY DEF MarksOK, OnlyActor, Deleting, Removing, Actor

\* A call that does not delete never stands where a deletion would.
LEMMA ServeMarks ==
    ASSUME IInv, MarksOK, NEW p \in Proc,
           \/ Accept(p) \/ CreateSession(p) \/ Upload(p) \/ Snapshot(p)
           \/ Prepare(p) \/ DirectLock(p) \/ Authorize(p) \/ Complete(p)
    PROVE  MarksOK'
<1> USE DEF dbVars, storeVars
<1>1. p \in Actor /\ OnlyActor(p)
  BY AcceptLocals, UploadLocals, ReaderLocals, DirectLocals DEF IInv, Actor
<1>2. pc \in [Actor -> HandlerPC \cup CleanerPC \cup RemovalPC] /\ loc \in [Actor -> Local]
  BY DEF IInv, TypeOK
<1>3. CASE /\ pc'[p] \in (HandlerPC \ {"d_pick", "d_drop"}) /\ UNCHANGED events
           /\ pc'[p] = "d_lock" => loc'[p].pub # 0
  <2>1. ~Deleting(p)'
    BY <1>3 DEF Deleting, Removing, HandlerPC, RemovalPC
  <2> QED
    BY <1>1, <1>3, <2>1, MarksKept
<1>4. ASSUME NEW l \in HandlerPC \ {"d_pick", "d_drop"}, Goto(p, l)
      PROVE  pc'[p] \in (HandlerPC \ {"d_pick", "d_drop"}) /\ pc'[p] = l
  BY <1>1, <1>2, <1>4 DEF Goto
<1>5. ASSUME Return(p)
      PROVE  pc'[p] \in (HandlerPC \ {"d_pick", "d_drop"}) /\ pc'[p] # "d_lock"
  BY <1>4, <1>5 DEF Return, HandlerPC
<1>6. CASE Accept(p)
  <2>1. /\ Goto(p, "rlock") \/ (Goto(p, "d_lock") /\ \E e \in Event : DeleteBegin(p, e))
        /\ UNCHANGED events
    BY <1>6 DEF Accept, SessionBegin, SnapshotBegin, DeleteBegin, UploadBegin, PrepareBegin,
                DirectBegin, BeginOpen
  <2>2. ASSUME NEW e \in Event, DeleteBegin(p, e) PROVE loc'[p].pub # 0
    BY <1>1, <1>2, <2>2 DEF DeleteBegin, NoLocal
  <2> QED
    BY <1>3, <1>4, <2>1, <2>2 DEF HandlerPC
<1>7. CASE CreateSession(p) \/ Snapshot(p)
  <2>1. (Goto(p, "s_open") \/ Return(p)) /\ UNCHANGED events
    BY <1>7 DEF CreateSession, SessionCreate, Snapshot, SnapshotList, SnapshotClose, FailAt
  <2> QED
    BY <1>3, <1>4, <1>5, <2>1 DEF HandlerPC
<1>8. CASE Prepare(p) \/ DirectLock(p) \/ Authorize(p) \/ Complete(p)
  <2>1. /\ UNCHANGED events
        /\ \/ Return(p)
           \/ \E l \in {"stripe", "a_sign", "f_head", "f_prefix", "f_reject", "f_commit"} : Goto(p, l)
           \/ pc[p] = "rlock" /\ pc' = pc
    BY <1>8 DEF Prepare, PrepareReserve, PrepareThenAuthorize, RLockReturns, DirectLock,
                Authorize, AuthorizeLoad, AuthorizeSave, Complete, CompleteLoad, CompleteHead,
                CompletePrefix, CompleteReject, CompleteCommit, FailAt
  <2> QED
    BY <1>3, <1>4, <1>5, <2>1 DEF HandlerPC
<1>9. CASE Upload(p)
  <2>1. /\ UNCHANGED events
        /\ \/ Return(p)
           \/ \E l \in {"u_reserve", "u_open", "u_write", "u_finish"} : Goto(p, l)
           \/ /\ Goto(p, "rm_read") /\ pc[p] \in UploadPC \cup {"u_reserve"}
              /\ loc' = loc \/ \E a \in Asset : loc' = [loc EXCEPT ![p].at = a]
    BY <1>9 DEF Upload, UploadLock, UploadReserve, UploadOpen, UploadWrite, UploadFinish,
                UploadFinishFails, FailAt, UploadPC
  <2>2. CASE /\ Goto(p, "rm_read") /\ pc[p] \in UploadPC \cup {"u_reserve"}
             /\ loc' = loc \/ \E a \in Asset : loc' = [loc EXCEPT ![p].at = a]
    <3>1. loc[p].op = "upload" /\ pc'[p] = "rm_read"
      BY <1>1, <1>2, <2>2 DEF IInv, LocalsOK, HandlerOK, Goto
    <3>2. loc'[p].op = loc[p].op
      BY <1>1, <1>2, <2>2 DEF Local
    <3>3. ~Deleting(p)'
      BY <3>1, <3>2 DEF Deleting
    <3> QED
      BY <1>1, <2>1, <3>1, <3>3, MarksKept
  <2> QED
    BY <1>3, <1>4, <1>5, <2>1, <2>2 DEF HandlerPC
<1> QED
  BY <1>6, <1>7, <1>8, <1>9

\* DeleteEvent sets the mark, keeps it, and drops the row only as its writer.
LEMMA DeleteMarks ==
    ASSUME IInv, MarksOK, NEW p \in Proc, DeleteEvent(p)
    PROVE  MarksOK'
<1> USE DEF dbVars, storeVars
<1>1. p \in Actor /\ OnlyActor(p)
  BY DeleteLocals DEF IInv, Actor
<1>2. /\ pc \in [Actor -> HandlerPC \cup CleanerPC \cup RemovalPC] /\ loc \in [Actor -> Local]
      /\ events \in [Event -> EventRow]
  BY DEF IInv, TypeOK
<1>3. pc[p] \in {"d_lock", "d_pick", "d_drop"} /\ loc[p].ev \in Event
  BY DEF DeleteEvent, DeleteMark, DeleteDemote, DeleteEmpty, DeleteDrop, FailAt, IInv, LocalsOK,
         HandlerOK
<1>4. CASE DeleteMark(p)
  <2>1. /\ events[loc[p].ev].pub = loc[p].pub /\ loc[p].pub # 0
        /\ loc' = loc /\ pc'[p] = "d_pick"
    BY <1>1, <1>2, <1>4 DEF DeleteMark, SameEvent, MarksOK, Goto
  <2>2. /\ \A e \in Event : e # loc[p].ev => events'[e] = events[e]
        /\ events'[loc[p].ev] = [events[loc[p].ev] EXCEPT !.deleting = TRUE, !.enabled = FALSE]
    BY <1>2, <1>3, <1>4 DEF DeleteMark, Marked
  <2>3. events'[loc[p].ev].deleting /\ events'[loc[p].ev].pub = events[loc[p].ev].pub
    BY <1>2, <1>3, <2>2 DEF EventRow
  <2>4. ASSUME NEW q \in Proc, q # p
        PROVE  pc'[q] = pc[q] /\ (Deleting(q)' <=> Deleting(q)) /\ (Deleting(q) => loc[q].ev \in Event)
    BY <1>1, <2>4, DeletersWrite DEF OnlyActor, Deleting, Removing, Actor
  <2>5. ASSUME NEW e \in Event, events'[e].deleting PROVE events'[e].pub # 0
    BY <2>1, <2>2, <2>3, <2>5 DEF MarksOK
  <2>6. ASSUME NEW q \in Proc, pc'[q] = "d_lock" PROVE loc'[q].pub # 0
    BY <2>1, <2>4, <2>6 DEF MarksOK
  <2>7. ASSUME NEW q \in Proc, Deleting(q)'
        PROVE  events'[loc'[q].ev].deleting /\ events'[loc'[q].ev].pub = loc'[q].pub
    <3>1. CASE q = p
      BY <2>1, <2>3, <3>1
    <3>2. CASE q # p
      <4>1. /\ loc[q].ev \in Event /\ events[loc[q].ev].deleting
            /\ events[loc[q].ev].pub = loc[q].pub
        BY <2>4, <2>7, <3>2 DEF MarksOK
      <4> QED
        BY <2>1, <2>2, <2>3, <4>1
    <3> QED
      BY <3>1, <3>2
  <2> QED
    BY <2>5, <2>6, <2>7 DEF MarksOK
<1>5. CASE DeleteDrop(p)
  <2>1. Deleting(p) /\ pc'[p] = "idle"
    BY <1>1, <1>5, ReturnFrame DEF DeleteDrop, Deleting, IInv
  <2>2. \A e \in Event : e # loc[p].ev => events'[e] = events[e]
    BY <1>2, <1>5 DEF DeleteDrop
  <2>3. ~events'[loc[p].ev].deleting
    BY <1>2, <1>3, <1>5 DEF DeleteDrop, NoEvent
  <2>0. ASSUME NEW q \in Proc, pc'[q] = "d_lock" PROVE pc[q] = "d_lock" /\ loc'[q] = loc[q]
    BY <1>1, <2>0, <2>1 DEF OnlyActor, Actor
  <2>4. ASSUME NEW q \in Proc, Deleting(q)'
        PROVE  Deleting(q) /\ q # p /\ loc'[q] = loc[q]
    BY <1>1, <2>1, <2>4 DEF OnlyActor, Deleting, Removing, RemovalPC, Actor
  <2>5. ASSUME NEW q \in Proc, Deleting(q)' PROVE loc[q].ev # loc[p].ev /\ loc[q].ev \in Event
    BY <2>1, <2>4, <2>5, DeletersWrite
  <2> QED
    BY <2>0, <2>2, <2>3, <2>4, <2>5 DEF MarksOK
<1>6. CASE (\E a \in Asset : DeleteDemote(p, a)) \/ DeleteEmpty(p)
  <2>1. UNCHANGED events /\ Deleting(p) /\ pc'[p] # "d_lock"
    BY <1>1, <1>2, <1>6 DEF DeleteDemote, DeleteEmpty, Deleting, Goto
  <2>2. loc'[p].ev = loc[p].ev /\ loc'[p].pub = loc[p].pub
    BY <1>1, <1>2, <1>6 DEF DeleteDemote, DeleteEmpty, Local
  <2> QED
    BY <1>1, <2>1, <2>2, MarksKept
<1>7. CASE FailAt(p, {"d_lock", "d_pick", "d_drop"})
  <2>1. pc'[p] = "idle" /\ UNCHANGED events
    BY <1>1, <1>7, FailFrame DEF FailAt, IInv
  <2>2. ~Deleting(p)'
    BY <2>1 DEF Deleting, Removing, RemovalPC
  <2> QED
    BY <1>1, <2>1, <2>2, MarksKept
<1> QED
  BY <1>4, <1>5, <1>6, <1>7 DEF DeleteEvent

\* removeAttempt leaves the events alone.
LEMMA RemovalMarks ==
    ASSUME IInv, MarksOK, NEW p \in Actor, removeAttempt(p)
    PROVE  MarksOK'
<1> USE DEF dbVars, storeVars
<1>1. OnlyActor(p) /\ loc \in [Actor -> Local] /\ pc \in [Actor -> HandlerPC \cup CleanerPC \cup RemovalPC]
  BY RemovalFrame DEF IInv, TypeOK
<1>2. UNCHANGED events /\ Removing(p)
  BY DEF removeAttempt, RemoveRead, RemoveRetire, RemoveObject, RemoveRow, RemoveFails, Removing,
         RemovalPC
<1>3. CASE \E ok : RemoveReturns(p, ok)
  <2>1. PICK ok : RemoveReturns(p, ok)
    BY <1>3
  <2>2. CASE pc'[p] \in {"idle", "c_next"}
    <3>1. ~Deleting(p)'
      BY <2>2 DEF Deleting, Removing, RemovalPC
    <3> QED
      BY <1>1, <1>2, <2>2, <3>1, MarksKept
  <2>3. CASE /\ loc[p].op = "delete" /\ Goto(p, "d_pick")
             /\ loc' = [loc EXCEPT ![p].at = None]
    <3>1. Deleting(p) /\ loc'[p].ev = loc[p].ev /\ loc'[p].pub = loc[p].pub /\ pc'[p] = "d_pick"
      BY <1>1, <1>2, <2>3 DEF Deleting, Local, Goto
    <3> QED
      BY <1>1, <1>2, <3>1, MarksKept
  <2> QED
    BY <1>1, <2>1, <2>2, <2>3 DEF RemoveReturns, Return, Goto
<1>4. CASE (\E l \in RemovalPC : Goto(p, l)) /\ UNCHANGED loc
  <2>1. pc'[p] \in RemovalPC
    BY <1>1, <1>4 DEF Goto
  <2>2. pc'[p] \notin {"d_pick", "d_drop", "d_lock"}
    BY <2>1 DEF RemovalPC
  <2>3. Deleting(p)' => Deleting(p)
    BY <1>2, <1>4, <2>2 DEF Deleting
  <2> QED
    BY <1>1, <1>2, <1>4, <2>2, <2>3, MarksKept
<1> QED
  BY <1>3, <1>4
  DEF removeAttempt, RemoveRead, RemoveRetire, RemoveObject, RemoveRow, RemoveFails, AfterRead,
      RemovalPC

\* Cleanup leaves the events alone.
LEMMA CleanupMarks ==
    ASSUME IInv, MarksOK, Cleanup
    PROVE  MarksOK'
<1>1. Cleaner \in Actor /\ Cleaner \notin Proc /\ OnlyActor(Cleaner)
  BY CleanupLocals, IdsAssumption DEF IInv, Actor
<1>2. UNCHANGED events
  BY DEF Cleanup, CleanupStart, CleanupTake, CleanupSkip, RetiredStart, RetiredDelete,
         RetiredSkip, RetiredMark, RetiredDone, CleanupAborts, FailAt, dbVars
<1> QED
  BY <1>1, <1>2 DEF MarksOK, OnlyActor, Deleting, Removing, Actor

\* No update or creation touches a row that is marked.
LEMMA EnvironmentMarks ==
    ASSUME IInv, MarksOK, Environment
    PROVE  MarksOK'
<1> USE DEF dbVars, storeVars
<1>1. events \in [Event -> EventRow] /\ lastPub \in Nat
  BY SizesAssumption DEF IInv, TypeOK
<1>2. CASE Restart
  <2>1. \A p \in Proc : pc'[p] = "idle" /\ ~Deleting(p)'
    BY <1>2 DEF Restart, Deleting, Removing, RemovalPC, Actor
  <2> QED
    BY <1>2, <2>1 DEF Restart, MarksOK
<1>3. CASE UNCHANGED <<pc, loc>>
  <2>1. ASSUME \A e \in Event :
                  /\ events'[e].deleting => events[e].deleting
                  /\ events[e].deleting => events'[e].deleting /\ events'[e].pub = events[e].pub
        PROVE  MarksOK'
    <3>1. \A p \in Proc : Deleting(p)' => Deleting(p) /\ loc[p].ev \in Event
      BY <1>3, DeletersWrite DEF Deleting, Removing
    <3> QED
      BY <1>3, <2>1, <3>1 DEF MarksOK
  <2>2. ASSUME NEW e \in Event, NEW l \in LimitSet, CreateEvent(e, l) PROVE MarksOK'
    BY <1>1, <2>1, <2>2 DEF CreateEvent, MarksOK
  <2>3. ASSUME NEW e \in Event, NEW on \in BOOLEAN, NEW l \in LimitSet, UpdateEvent(e, on, l)
        PROVE  MarksOK'
    <3>1. events'[e] = [events[e] EXCEPT !.enabled = on, !.lapsed = FALSE, !.limits = l]
      BY <1>1, <2>3 DEF UpdateEvent
    <3>2. events'[e].deleting = events[e].deleting /\ events'[e].pub = events[e].pub
      BY <1>1, <3>1 DEF EventRow
    <3>3. \A f \in Event : f # e => events'[f] = events[f]
      BY <1>1, <2>3 DEF UpdateEvent
    <3> QED
      BY <2>1, <3>2, <3>3
  <2>4. ASSUME NEW e \in Event, EventExpires(e) PROVE MarksOK'
    BY <1>1, <2>1, <2>4 DEF EventExpires, EventRow
  <2>5. CASE UNCHANGED events
    BY <2>1, <2>5
  <2> QED
    BY <2>2, <2>3, <2>4, <2>5, <1>2 DEF Environment, SessionExpires, AssetAges, RetiredAges, GuestPut
<1> QED
  BY <1>2, <1>3 DEF Environment, CreateEvent, UpdateEvent, EventExpires, SessionExpires,
                    AssetAges, RetiredAges, GuestPut

\* Every step keeps the marks.
LEMMA NextMarks ==
    ASSUME IInv, MarksOK, [Next]_vars
    PROVE  MarksOK'
<1>1. CASE UNCHANGED vars
  BY <1>1 DEF vars, dbVars, MarksOK, Deleting, Removing
<1>2. ASSUME NEW p \in Proc, Serve(p) PROVE MarksOK'
  BY <1>2, ServeMarks, DeleteMarks DEF Serve
<1> QED
  BY <1>1, <1>2, ServeMarks, RemovalMarks, CleanupMarks, EnvironmentMarks DEF Next

\* The mark that DeleteEvent sets stays on the row it was asked to delete for
\* as long as the deletion goes on, although the internal id may be reused.
THEOREM Marks == Spec => []MarksOK
<1>1. Init => MarksOK
  <2> SUFFICES ASSUME Init PROVE MarksOK
    OBVIOUS
  <2>1. \A p \in Proc : pc[p] = "idle" /\ ~Deleting(p)
    BY DEF Init, Deleting, Removing, RemovalPC, Actor
  <2>2. \A e \in Event : ~events[e].deleting
    BY DEF Init, InitDB, NoEvent
  <2> QED
    BY <2>1, <2>2 DEF MarksOK
<1>2. IInv /\ MarksOK /\ [Next]_vars => MarksOK'
  BY NextMarks
<1> QED
  BY <1>1, <1>2, Invariant, PTL DEF Spec

-----------------------------------------------------------------------------
(* What a step may do to one asset row *)

\* The ways: nothing the properties see, reserved, finished, demoted, removed.
RowKept(a) == assets'[a].status = assets[a].status /\ assets'[a].event = assets[a].event
RowReserved(a) ==
    /\ assets[a].status = "unused" /\ assets'[a].status = "pending"
    /\ assets'[a].event \in Event /\ ~events[assets'[a].event].deleting
RowFinished(a) ==
    /\ assets[a].status = "pending" /\ assets'[a].status = "ready"
    /\ assets'[a].event = assets[a].event /\ ~events[assets[a].event].deleting
RowDemoted(a) ==
    /\ HasRow(a) /\ assets'[a].status = "pending" /\ assets'[a].event = assets[a].event
    /\ events[assets[a].event].deleting
RowRemoved(a) == assets[a].status = "pending" /\ assets'[a].status = "gone"
RowStep(a) ==
    RowKept(a) \/ RowReserved(a) \/ RowFinished(a) \/ RowDemoted(a) \/ RowRemoved(a)

\* A key that one action touches, and all the others.
LEMMA OneRow ==
    ASSUME IInv, NEW b \in Asset, NEW row, assets' = [assets EXCEPT ![b] = row],
           NEW a \in Asset, a = b /\ assets'[a] = row => RowStep(a)
    PROVE  RowStep(a)
BY DEF IInv, TypeOK, RowStep, RowKept

\* Every step changes a row in one of these ways: one case per action that
\* writes the assets table.
LEMMA RowSteps ==
    ASSUME IInv, MarksOK, [Next]_vars, NEW a \in Asset
    PROVE  RowStep(a)
<1> USE DEF dbVars
<1>1. assets \in [Asset -> AssetRow] /\ assets[a] \in AssetRow
  BY DEF IInv, TypeOK
<1>2. CASE UNCHANGED assets
  BY <1>2 DEF RowStep, RowKept
<1>3. ASSUME NEW p \in Proc, NEW b \in Asset, UploadReserve(p, b) PROVE RowStep(a)
  <2>1. loc[p].ev \in Event /\ ~events[loc[p].ev].deleting /\ assets[b].status = "unused"
    BY <1>3 DEF UploadReserve, UploadAdmits, checkOpen, IInv, LocalsOK, HandlerOK
  <2>2. PICK row : /\ assets' = [assets EXCEPT ![b] = row]
                   /\ row = [NoAsset EXCEPT !.status = "pending", !.event = loc[p].ev,
                              !.session = loc[p].session, !.backend = "local",
                              !.expected = UploadExpected(p), !.class = ClassOf(loc[p].body)]
    BY <1>3 DEF UploadReserve
  <2>3. row.status = "pending" /\ row.event = loc[p].ev
    BY <2>2 DEF NoAsset
  <2> QED
    BY <2>1, <2>2, <2>3, OneRow DEF RowStep, RowReserved
<1>4. ASSUME NEW p \in Proc, NEW b \in Asset, PrepareReserve(p, b) PROVE RowStep(a)
  <2> SUFFICES ASSUME assets' # assets PROVE RowStep(a)
    BY <1>2
  <2>1. loc[p].ev \in Event /\ ~events[loc[p].ev].deleting /\ assets[b].status = "unused"
    BY <1>4 DEF PrepareReserve, RLockReturns, checkOpen, IInv, LocalsOK, HandlerOK
  <2>2. PICK row : /\ assets' = [assets EXCEPT ![b] = row]
                   /\ row = [NoAsset EXCEPT !.status = "pending", !.event = loc[p].ev,
                                !.session = loc[p].session, !.backend = "s3",
                                !.expected = loc[p].size, !.class = loc[p].class,
                                !.request = loc[p].request]
    BY <1>4 DEF PrepareReserve
  <2>3. row.status = "pending" /\ row.event = loc[p].ev
    BY <2>2 DEF NoAsset
  <2> QED
    BY <2>1, <2>2, <2>3, OneRow DEF RowStep, RowReserved
<1>5. ASSUME NEW p \in Proc, UploadFinish(p) \/ AuthorizeSave(p) \/ CompleteCommit(p)
      PROVE  RowStep(a)
  <2>1. p \in Actor /\ Holding(p)
    BY <1>5 DEF UploadFinish, AuthorizeSave, CompleteCommit, Actor, Holding, UploadPC, StripedPC,
                VerifyPC
  <2>2. PICK b \in Asset : b = loc[p].at
    BY <2>1, HolderFacts
  <2>3. assets[b].event = loc[p].ev /\ assets[b] \in AssetRow /\ assets[b].status = "pending"
    <3>1. RowOK(p) /\ pc[p] # "rm_read"
      BY <1>5, <2>1, HolderFacts DEF UploadFinish, AuthorizeSave, CompleteCommit
    <3> QED
      BY <1>1, <2>2, <3>1 DEF RowOK
  <2>4. CASE UploadFinish(p)
    <3>1. PICK row : /\ assets' = [assets EXCEPT ![b] = row]
                     /\ row = [assets[b] EXCEPT !.status = "ready", !.size = loc[p].body.size]
      BY <2>2, <2>4 DEF UploadFinish
    <3>2. row.status = "ready" /\ row.event = assets[b].event
      BY <2>3, <3>1 DEF AssetRow
    <3>3. ~events[loc[p].ev].deleting
      BY <2>4 DEF UploadFinish, checkOpen
    <3> QED
      BY <2>3, <3>1, <3>2, <3>3, OneRow DEF RowStep, RowFinished
  <2>5. CASE CompleteCommit(p)
    <3>1. PICK row : /\ assets' = [assets EXCEPT ![b] = row]
                     /\ row = [assets[b] EXCEPT !.status = "ready", !.size = loc[p].body.size,
                                               !.class = ClassOf(loc[p].body)]
      BY <2>2, <2>5 DEF CompleteCommit
    <3>2. row.status = "ready" /\ row.event = assets[b].event
      BY <2>3, <3>1 DEF AssetRow
    <3>3. ~events[loc[p].ev].deleting
      BY <2>5 DEF CompleteCommit
    <3> QED
      BY <2>3, <3>1, <3>2, <3>3, OneRow DEF RowStep, RowFinished
  <2>6. CASE AuthorizeSave(p)
    <3>1. PICK row : /\ assets' = [assets EXCEPT ![b] = row]
                     /\ row = [assets[b] EXCEPT !.stale = FALSE]
      BY <1>1, <2>2, <2>3, <2>6 DEF AuthorizeSave
    <3>2. row.status = assets[b].status /\ row.event = assets[b].event
      BY <2>3, <3>1 DEF AssetRow
    <3> QED
      BY <3>1, <3>2, OneRow DEF RowStep, RowKept
  <2> QED
    BY <1>5, <2>4, <2>5, <2>6
<1>6. ASSUME NEW p \in Proc, NEW b \in Asset, DeleteDemote(p, b) PROVE RowStep(a)
  <2>1. b \in OfEvent(assets, loc[p].ev) /\ Deleting(p)
    BY <1>6 DEF DeleteDemote, Deleting
  <2>2. /\ HasRow(b) /\ assets[b].event = loc[p].ev /\ events[loc[p].ev].deleting
        /\ assets[b] \in AssetRow
    BY <1>1, <2>1 DEF OfEvent, Live, HasRow, MarksOK
  <2>3. PICK row : /\ assets' = [assets EXCEPT ![b] = row]
                   /\ row = [assets[b] EXCEPT !.status = "pending"]
    BY <1>6 DEF DeleteDemote, Demoted
  <2>4. row.status = "pending" /\ row.event = assets[b].event
    BY <2>2, <2>3 DEF AssetRow
  <2> QED
    BY <2>2, <2>3, <2>4, OneRow DEF RowStep, RowDemoted
<1>7. ASSUME NEW p \in Proc, DeleteDrop(p) PROVE RowStep(a)
  <2>1. OfEvent(assets, loc[p].ev) = {}
    BY <1>7 DEF DeleteDrop, IInv, EmptiedOK, Actor
  <2>2. assets' = assets
    BY <1>1, <1>7, <2>1 DEF DeleteDrop
  <2> QED
    BY <1>2, <2>2
<1>8. ASSUME NEW p \in Actor, RemoveRow(p) PROVE RowStep(a)
  <2>1. PICK row : /\ assets' = [assets EXCEPT ![loc[p].at] = row]
                   /\ \/ /\ assets[loc[p].at].status = "pending"
                         /\ row = Gone(assets[loc[p].at])
                      \/ row = assets[loc[p].at]
    BY <1>8 DEF RemoveRow
  <2>2. loc[p].at \in Asset
    BY <1>8, LabelTypes DEF RemoveRow, IInv, Holding, RemovalPC
  <2>3. Gone(assets[loc[p].at]).status = "gone"
    BY DEF Gone, NoAsset
  <2> QED
    BY <2>1, <2>2, <2>3, OneRow DEF RowStep, RowKept, RowRemoved
<1>9. ASSUME NEW b \in Asset, AssetAges(b) PROVE RowStep(a)
  <2>1. PICK row : /\ assets' = [assets EXCEPT ![b] = row]
                   /\ row = [assets[b] EXCEPT !.stale = TRUE]
    BY <1>9 DEF AssetAges
  <2>2. row.status = assets[b].status /\ row.event = assets[b].event
    BY <1>1, <2>1 DEF AssetRow
  <2> QED
    BY <2>1, <2>2, OneRow DEF RowStep, RowKept
<1>10. ASSUME NEW p \in Proc, Accept(p) PROVE UNCHANGED assets
  BY <1>10 DEF Accept, SessionBegin, SnapshotBegin, DeleteBegin, UploadBegin, PrepareBegin,
               DirectBegin, BeginOpen
<1>11. ASSUME NEW p \in Proc, Serve(p) PROVE RowStep(a)
  <2>1. \/ UNCHANGED assets
        \/ \E b \in Asset : UploadReserve(p, b) \/ PrepareReserve(p, b) \/ DeleteDemote(p, b)
        \/ UploadFinish(p) \/ AuthorizeSave(p) \/ CompleteCommit(p) \/ DeleteDrop(p)
    BY <1>11 DEF Serve, CreateSession, SessionCreate, Upload, UploadLock, UploadOpen, UploadWrite,
                 UploadFinishFails, Snapshot, SnapshotList, SnapshotClose, Prepare, DirectLock,
                 Authorize, AuthorizeLoad, Complete, CompleteLoad, CompleteHead, CompletePrefix,
                 CompleteReject, DeleteEvent, DeleteMark, DeleteEmpty, FailAt
  <2> QED
    BY <1>2, <1>3, <1>4, <1>5, <1>6, <1>7, <2>1
<1>12. ASSUME NEW p \in Actor, removeAttempt(p) PROVE RowStep(a)
  <2>1. UNCHANGED assets \/ RemoveRow(p)
    BY <1>12 DEF removeAttempt, RemoveRead, RemoveRetire, RemoveObject, RemoveFails
  <2> QED
    BY <1>2, <1>8, <2>1
<1>13. ASSUME Cleanup PROVE UNCHANGED assets
  BY <1>13 DEF Cleanup, CleanupStart, CleanupTake, CleanupSkip, RetiredStart, RetiredDelete,
               RetiredSkip, RetiredMark, RetiredDone, CleanupAborts, FailAt
<1>14. ASSUME Environment PROVE RowStep(a)
  <2>1. UNCHANGED assets \/ \E b \in Asset : AssetAges(b)
    BY <1>14 DEF Environment, CreateEvent, UpdateEvent, EventExpires, SessionExpires,
                 RetiredAges, GuestPut, Restart
  <2> QED
    BY <1>2, <1>9, <2>1
<1> QED
  BY <1>2, <1>10, <1>11, <1>12, <1>13, <1>14 DEF Next, vars

-----------------------------------------------------------------------------
(* What a step may do to one event row *)

\* The deletion of event e that goroutine p was asked for.
Asked(p, e) == loc[p].op = "delete" /\ loc[p].ev = e /\ loc[p].pub = events[e].pub

\* The ways: nothing the properties see, created, marked, dropped when empty.
EventKept(e) == events'[e].pub = events[e].pub /\ events'[e].deleting = events[e].deleting
EventCreated(e) == events[e].pub = 0 /\ ~events'[e].deleting
EventMarked(e) == events'[e].pub = events[e].pub /\ \E p \in Proc : Asked(p, e)
EventDropped(e) ==
    /\ OfEvent(assets, e) = {} /\ ~events'[e].deleting
    /\ \E p \in Proc : Asked(p, e)
EventStep(e) == EventKept(e) \/ EventCreated(e) \/ EventMarked(e) \/ EventDropped(e)

\* Every step changes an event row in one of these ways.
LEMMA EventSteps ==
    ASSUME IInv, MarksOK, [Next]_vars, NEW e \in Event
    PROVE  EventStep(e)
<1> USE DEF dbVars
<1>1. events \in [Event -> EventRow] /\ events[e] \in EventRow
  BY DEF IInv, TypeOK
<1>2. CASE UNCHANGED events
  BY <1>2 DEF EventStep, EventKept
<1>3. ASSUME NEW p \in Proc, DeleteMark(p) PROVE EventStep(e)
  <2>1. loc[p].op = "delete" /\ events[loc[p].ev].pub = loc[p].pub
    BY <1>3 DEF DeleteMark, SameEvent, IInv, LocalsOK, HandlerOK
  <2>2. \/ events'[e] = events[e]
        \/ e = loc[p].ev /\ events'[e] = [events[e] EXCEPT !.deleting = TRUE, !.enabled = FALSE]
    BY <1>1, <1>3 DEF DeleteMark, Marked
  <2>3. events'[e].pub = events[e].pub
    BY <1>1, <2>2 DEF EventRow
  <2> QED
    BY <2>1, <2>2, <2>3 DEF EventStep, EventKept, EventMarked, Asked
<1>4. ASSUME NEW p \in Proc, DeleteDrop(p) PROVE EventStep(e)
  <2>1. Deleting(p) /\ loc[p].op = "delete" /\ OfEvent(assets, loc[p].ev) = {}
    BY <1>4 DEF DeleteDrop, Deleting, IInv, LocalsOK, HandlerOK, EmptiedOK, Actor
  <2>2. events[loc[p].ev].pub = loc[p].pub
    BY <2>1 DEF MarksOK
  <2>3. events'[e] = events[e] \/ (e = loc[p].ev /\ events'[e] = NoEvent)
    BY <1>1, <1>4 DEF DeleteDrop
  <2> QED
    BY <2>1, <2>2, <2>3 DEF EventStep, EventKept, EventDropped, Asked, NoEvent
<1>5. ASSUME NEW f \in Event, NEW l \in LimitSet, CreateEvent(f, l) PROVE EventStep(e)
  BY <1>1, <1>5 DEF CreateEvent, EventStep, EventKept, EventCreated
<1>6. ASSUME NEW f \in Event, NEW on \in BOOLEAN, NEW l \in LimitSet, UpdateEvent(f, on, l)
      PROVE  EventStep(e)
  <2>1. \/ events'[e] = events[e]
        \/ events'[e] = [events[e] EXCEPT !.enabled = on, !.lapsed = FALSE, !.limits = l]
    BY <1>1, <1>6 DEF UpdateEvent
  <2>2. events'[e].pub = events[e].pub /\ events'[e].deleting = events[e].deleting
    BY <1>1, <2>1 DEF EventRow
  <2> QED
    BY <2>2 DEF EventStep, EventKept
<1>7. ASSUME NEW f \in Event, EventExpires(f) PROVE EventStep(e)
  BY <1>1, <1>7 DEF EventExpires, EventRow, EventStep, EventKept
<1>8. ASSUME NEW p \in Proc, Accept(p) PROVE UNCHANGED events
  BY <1>8 DEF Accept, SessionBegin, SnapshotBegin, DeleteBegin, UploadBegin, PrepareBegin,
              DirectBegin, BeginOpen
<1>9. ASSUME NEW p \in Proc, Serve(p) PROVE EventStep(e)
  <2>1. UNCHANGED events \/ DeleteMark(p) \/ DeleteDrop(p)
    BY <1>9 DEF Serve, CreateSession, SessionCreate, Upload, UploadLock, UploadReserve, UploadOpen,
                UploadWrite, UploadFinish, UploadFinishFails, Snapshot, SnapshotList, SnapshotClose,
                Prepare, PrepareReserve, DirectLock, Authorize, AuthorizeLoad, AuthorizeSave,
                Complete, CompleteLoad, CompleteHead, CompletePrefix, CompleteReject,
                CompleteCommit, DeleteEvent, DeleteDemote, DeleteEmpty, FailAt
  <2> QED
    BY <1>2, <1>3, <1>4, <2>1
<1>10. ASSUME NEW p \in Actor, removeAttempt(p) PROVE UNCHANGED events
  BY <1>10 DEF removeAttempt, RemoveRead, RemoveRetire, RemoveObject, RemoveRow, RemoveFails
<1>11. ASSUME Cleanup PROVE UNCHANGED events
  BY <1>11 DEF Cleanup, CleanupStart, CleanupTake, CleanupSkip, RetiredStart, RetiredDelete,
               RetiredSkip, RetiredMark, RetiredDone, CleanupAborts, FailAt
<1>12. ASSUME Environment PROVE EventStep(e)
  BY <1>2, <1>5, <1>6, <1>7, <1>12
  DEF Environment, SessionExpires, AssetAges, RetiredAges, GuestPut, Restart
<1> QED
  BY <1>2, <1>8, <1>9, <1>10, <1>11, <1>12 DEF Next, vars

-----------------------------------------------------------------------------
(* What a step may do to the object behind a ready row *)

\* No step changes the object under the key of a ready row that is not retired.
LEMMA BodyKept ==
    ASSUME IInv, [Next]_vars, NEW a \in Asset, assets[a].status = "ready", retired[a] = "none"
    PROVE  objects'[a] = objects[a]
<1> USE DEF dbVars, storeVars
<1>1. objects \in [Asset -> Bodies \cup {None}]
  BY DEF IInv, TypeOK
<1>2. CASE UNCHANGED objects
  BY <1>2
<1>3. ASSUME NEW p \in Actor, UploadWrite(p) \/ CompleteReject(p) \/ RemoveObject(p)
      PROVE  objects'[a] = objects[a]
  <2>1. Holding(p) /\ pc[p] # "rm_read"
    BY <1>3 DEF UploadWrite, CompleteReject, RemoveObject, Holding, UploadPC, StripedPC, VerifyPC,
                RemovalPC
  <2>2. loc[p].at # a
    BY <2>1, HolderFacts DEF RowOK
  <2>3. \E x : objects' = [objects EXCEPT ![loc[p].at] = x]
    <3>1. loc[p].at \in Asset /\ objects = [objects EXCEPT ![loc[p].at] = objects[loc[p].at]]
      BY <1>1, <2>1, HolderFacts
    <3> QED
      BY <1>3, <3>1 DEF UploadWrite, CompleteReject, RemoveObject
  <2> QED
    BY <1>1, <2>2, <2>3
<1>4. ASSUME NEW b \in Asset, RetiredDelete(b) PROVE objects'[a] = objects[a]
  <2>1. b # a
    BY <1>4 DEF RetiredDelete, IsNext, IInv, PassOK
  <2> QED
    BY <1>1, <1>4, <2>1 DEF RetiredDelete
<1>5. ASSUME NEW b \in Asset, NEW x \in Bodies, GuestPut(b, x) PROVE objects'[a] = objects[a]
  <2>1. b # a
    BY <1>5 DEF GuestPut, PutAccepted, IInv, ReadyIsBacked
  <2> QED
    BY <1>1, <1>5, <2>1 DEF GuestPut
<1>6. ASSUME NEW p \in Proc, Accept(p) PROVE UNCHANGED objects
  BY <1>6 DEF Accept, SessionBegin, SnapshotBegin, DeleteBegin, UploadBegin, PrepareBegin,
              DirectBegin, BeginOpen
<1>7. ASSUME NEW p \in Proc, Serve(p) PROVE objects'[a] = objects[a]
  <2>1. UNCHANGED objects \/ UploadWrite(p) \/ CompleteReject(p)
    BY <1>7 DEF Serve, CreateSession, SessionCreate, Upload, UploadLock, UploadReserve, UploadOpen,
                UploadFinish, UploadFinishFails, Snapshot, SnapshotList, SnapshotClose,
                Prepare, PrepareReserve, DirectLock, Authorize, AuthorizeLoad, AuthorizeSave,
                Complete, CompleteLoad, CompleteHead, CompletePrefix, CompleteCommit,
                DeleteEvent, DeleteMark, DeleteDemote, DeleteEmpty, DeleteDrop, FailAt
  <2> QED
    BY <1>2, <1>3, <2>1 DEF Actor
<1>8. ASSUME NEW p \in Actor, removeAttempt(p) PROVE objects'[a] = objects[a]
  <2>1. UNCHANGED objects \/ RemoveObject(p)
    BY <1>8 DEF removeAttempt, RemoveRead, RemoveRetire, RemoveRow, RemoveFails
  <2> QED
    BY <1>2, <1>3, <2>1
<1>9. ASSUME Cleanup PROVE objects'[a] = objects[a]
  <2>1. UNCHANGED objects \/ \E b \in Asset : RetiredDelete(b)
    BY <1>9 DEF Cleanup, CleanupStart, CleanupTake, CleanupSkip, RetiredStart, RetiredSkip,
                RetiredMark, RetiredDone, CleanupAborts, FailAt
  <2> QED
    BY <1>2, <1>4, <2>1
<1>10. ASSUME Environment PROVE objects'[a] = objects[a]
  BY <1>2, <1>5, <1>10
  DEF Environment, CreateEvent, UpdateEvent, EventExpires, SessionExpires, AssetAges,
      RetiredAges, Restart
<1> QED
  BY <1>2, <1>6, <1>7, <1>8, <1>9, <1>10 DEF Next, vars

-----------------------------------------------------------------------------
(* The action properties of Media *)

\* The bytes behind a ready asset never change while it stays ready: no PUT
\* with an old URL, no second completion, no removal of another attempt.
THEOREM BodiesSealed == Spec => SealedBody
<1>1. IInv /\ [Next]_vars =>
        [\A a \in Asset :
           assets[a].status = "ready" /\ assets'[a].status = "ready" /\ retired[a] = "none"
           => objects'[a] = objects[a]]_vars
  BY BodyKept
<1> QED
  BY <1>1, Invariant, PTL DEF Spec, SealedBody

\* A ready asset leaves ready only in the deletion of its event, and goes
\* through pending: the row outlives the file.
THEOREM ReadyKept == Spec => ReadyIsKept
<1>1. IInv /\ MarksOK /\ [Next]_vars =>
        [\A a \in Asset :
           assets[a].status = "ready" /\ assets'[a].status # "ready"
           => assets'[a].status = "pending" /\ events[assets[a].event].deleting]_vars
  BY RowSteps DEF RowStep, RowKept, RowReserved, RowFinished, RowDemoted, RowRemoved
<1> QED
  BY <1>1, Invariant, Marks, PTL DEF Spec, ReadyIsKept

\* A deletion asked for under one public id never marks or drops the event
\* that SQLite later stores under the same internal id.
THEOREM DeletionAsked == Spec => DeletesWhatWasAsked
<1>1. ASSUME IInv, MarksOK, [Next]_vars, NEW e \in Event,
             \/ events[e].pub # 0 /\ events'[e].pub # events[e].pub
             \/ ~events[e].deleting /\ events'[e].deleting
      PROVE  \E p \in Proc : /\ loc[p].op = "delete" /\ loc[p].ev = e
                             /\ loc[p].pub = events[e].pub
  BY <1>1, EventSteps
  DEF EventStep, EventKept, EventCreated, EventMarked, EventDropped, Asked
<1>2. IInv /\ MarksOK /\ [Next]_vars =>
        [\A e \in Event :
           (\/ events[e].pub # 0 /\ events'[e].pub # events[e].pub
            \/ ~events[e].deleting /\ events'[e].deleting)
           => \E p \in Proc : /\ loc[p].op = "delete" /\ loc[p].ev = e
                              /\ loc[p].pub = events[e].pub]_vars
  BY <1>1
<1> QED
  BY <1>2, Invariant, Marks, PTL DEF Spec, DeletesWhatWasAsked

\* An event marked deleting gains no row and no ready asset, and is dropped
\* only when the cascade has nothing left to take.
THEOREM DeletionOnlyDrains == Spec => DeletionDrains
<1>1. ASSUME IInv, MarksOK, [Next]_vars, NEW e \in Event, events[e].deleting
      PROVE  /\ OfEvent(assets', e) \subseteq OfEvent(assets, e)
             /\ \A a \in OfEvent(assets', e) :
                    assets'[a].status = "ready" => assets[a].status = "ready"
             /\ events'[e].pub # events[e].pub => OfEvent(assets, e) = {}
  <2>1. TypeOK /\ TypeOK'
    BY <1>1, NextInv DEF IInv
  <2>2. ASSUME NEW a \in OfEvent(assets', e)
        PROVE  /\ a \in OfEvent(assets, e)
               /\ assets'[a].status = "ready" => assets[a].status = "ready"
    <3>1. /\ a \in Asset /\ assets'[a].status \in {"pending", "ready"}
          /\ assets'[a].event = e
      BY <2>1, <2>2 DEF OfEvent, Live, TypeOK
    <3>2. RowStep(a)
      BY <1>1, <3>1, RowSteps
    <3>3. assets[a].status \in {"pending", "ready"} /\ assets[a].event = e
      BY <1>1, <3>1, <3>2
      DEF RowStep, RowKept, RowReserved, RowFinished, RowDemoted, RowRemoved, HasRow
    <3>4. assets'[a].status = "ready" => assets[a].status = "ready"
      BY <1>1, <3>1, <3>2
      DEF RowStep, RowKept, RowReserved, RowFinished, RowDemoted, RowRemoved
    <3> QED
      BY <2>1, <3>1, <3>3, <3>4 DEF OfEvent, Live, TypeOK
  <2>3. events'[e].pub # events[e].pub => OfEvent(assets, e) = {}
    BY <1>1, EventSteps DEF EventStep, EventKept, EventCreated, EventMarked, EventDropped, MarksOK
  <2> QED
    BY <2>2, <2>3
<1>2. IInv /\ MarksOK /\ [Next]_vars =>
        [\A e \in Event : events[e].deleting =>
           /\ OfEvent(assets', e) \subseteq OfEvent(assets, e)
           /\ \A a \in OfEvent(assets', e) :
                  assets'[a].status = "ready" => assets[a].status = "ready"
           /\ events'[e].pub # events[e].pub => OfEvent(assets, e) = {}]_vars
  BY <1>1
<1> QED
  BY <1>2, Invariant, Marks, PTL DEF Spec, DeletionDrains

(* ------------------------------ the ledger ---------------------------- *)

\* The media service implements the ledger (MediaLedger).  What the ledger sees of
\* a step is one of eight kinds (StepKinds); each kind is then one step of the
\* ledger or none.

\* Public ids are handed out once and in order, and an asset row belongs to an
\* event that exists.
PubsOK ==
    /\ \A e \in Event : events[e].pub <= lastPub
    /\ \A e, f \in Event : events[e].pub # 0 /\ events[e].pub = events[f].pub => e = f
    /\ \A a \in Asset : HasRow(a) => events[assets[a].event].pub # 0

(* ------------------------- the kinds of steps ------------------------- *)

\* Nothing that the ledger sees of the tables; one asset row and nothing else.
Quiet == /\ \A a \in Asset : RowKept(a)
         /\ \A e \in Event : EventKept(e)
         /\ lastPub' = lastPub
OnlyRow(b) == /\ \A a \in Asset : a # b => assets'[a] = assets[a]
              /\ UNCHANGED <<events, lastPub>>

Noted(b) == /\ OnlyRow(b) /\ RowReserved(b) /\ events[assets'[b].event].pub # 0
Finished(b) == OnlyRow(b) /\ RowFinished(b) /\ UNCHANGED <<objects, retired>>
Withdrawn(b) == OnlyRow(b) /\ RowDemoted(b) /\ assets[b].status = "ready"
Removed(b) == OnlyRow(b) /\ RowRemoved(b)

StepKind ==
    \/ Quiet
    \/ \E e \in Event, l \in LimitSet : CreateEvent(e, l)
    \/ \E p \in Proc : DeleteMark(p)
    \/ \E p \in Proc : DeleteDrop(p)
    \/ \E b \in Asset : Noted(b) \/ Finished(b) \/ Withdrawn(b) \/ Removed(b)

\* One row is written: what the ledger sees of it.
LEMMA RowWritten ==
    ASSUME IInv, MarksOK, [Next]_vars, NEW b \in Asset, NEW row,
           assets' = [assets EXCEPT ![b] = row], UNCHANGED <<events, lastPub>>
    PROVE  /\ OnlyRow(b) /\ assets'[b] = row
           /\ RowKept(b) => Quiet
<1>1. assets \in [Asset -> AssetRow]
  BY DEF IInv, TypeOK
<1>2. OnlyRow(b) /\ assets'[b] = row
  BY <1>1 DEF OnlyRow
<1> QED
  BY <1>2 DEF OnlyRow, Quiet, RowKept, EventKept

LEMMA RowQuiet ==
    ASSUME UNCHANGED <<assets, lastPub>>, \A e \in Event : EventKept(e)
    PROVE  Quiet
BY DEF Quiet, RowKept

\* The steps of requests.
LEMMA ServeKinds ==
    ASSUME IInv, MarksOK, [Next]_vars, NEW p \in Proc, Serve(p)
    PROVE  StepKind
<1> USE DEF dbVars, storeVars
<1>1. assets \in [Asset -> AssetRow]
  BY DEF IInv, TypeOK
<1>2. CASE UNCHANGED <<assets, events, lastPub>>
  BY <1>2, RowQuiet DEF StepKind, EventKept
<1>3. ASSUME NEW b \in Asset, UploadReserve(p, b) PROVE StepKind
  <2>1. /\ loc[p].ev \in Event /\ ~events[loc[p].ev].deleting /\ events[loc[p].ev].pub # 0
        /\ assets[b].status = "unused" /\ UNCHANGED <<events, lastPub>>
    BY <1>3 DEF UploadReserve, UploadAdmits, checkOpen, IInv, LocalsOK, HandlerOK
  <2>2. PICK row : /\ assets' = [assets EXCEPT ![b] = row]
                   /\ row = [NoAsset EXCEPT !.status = "pending", !.event = loc[p].ev,
                              !.session = loc[p].session, !.backend = "local",
                              !.expected = UploadExpected(p), !.class = ClassOf(loc[p].body)]
    BY <1>3 DEF UploadReserve
  <2>3. row.status = "pending" /\ row.event = loc[p].ev
    BY <2>2 DEF NoAsset
  <2>4. Noted(b)
    BY <2>1, <2>2, <2>3, RowWritten DEF Noted, RowReserved
  <2> QED
    BY <2>4 DEF StepKind
<1>4. ASSUME NEW b \in Asset, PrepareReserve(p, b) PROVE StepKind
  <2>0. UNCHANGED <<events, lastPub>>
    BY <1>4 DEF PrepareReserve
  <2> SUFFICES ASSUME assets' # assets PROVE StepKind
    BY <1>2, <2>0
  <2>1. /\ loc[p].ev \in Event /\ ~events[loc[p].ev].deleting /\ events[loc[p].ev].pub # 0
        /\ assets[b].status = "unused"
    BY <1>4 DEF PrepareReserve, RLockReturns, checkOpen, IInv, LocalsOK, HandlerOK
  <2>2. PICK row : /\ assets' = [assets EXCEPT ![b] = row]
                   /\ row = [NoAsset EXCEPT !.status = "pending", !.event = loc[p].ev,
                                !.session = loc[p].session, !.backend = "s3",
                                !.expected = loc[p].size, !.class = loc[p].class,
                                !.request = loc[p].request]
    BY <1>4 DEF PrepareReserve
  <2>3. row.status = "pending" /\ row.event = loc[p].ev
    BY <2>2 DEF NoAsset
  <2>4. Noted(b)
    BY <2>0, <2>1, <2>2, <2>3, RowWritten DEF Noted, RowReserved
  <2> QED
    BY <2>4 DEF StepKind
<1>5. ASSUME UploadFinish(p) \/ AuthorizeSave(p) \/ CompleteCommit(p)
      PROVE  StepKind
  <2>1. p \in Actor /\ Holding(p)
    BY <1>5 DEF UploadFinish, AuthorizeSave, CompleteCommit, Actor, Holding, UploadPC, StripedPC,
                VerifyPC
  <2>2. PICK b \in Asset : b = loc[p].at
    BY <2>1, HolderFacts
  <2>3. assets[b].event = loc[p].ev /\ assets[b] \in AssetRow /\ assets[b].status = "pending"
    <3>1. RowOK(p) /\ pc[p] # "rm_read"
      BY <1>5, <2>1, HolderFacts DEF UploadFinish, AuthorizeSave, CompleteCommit
    <3> QED
      BY <1>1, <2>2, <3>1 DEF RowOK
  <2>4. CASE UploadFinish(p)
    <3>1. PICK row : /\ assets' = [assets EXCEPT ![b] = row]
                     /\ row = [assets[b] EXCEPT !.status = "ready", !.size = loc[p].body.size]
      BY <2>2, <2>4 DEF UploadFinish
    <3>2. row.status = "ready" /\ row.event = assets[b].event
      BY <2>3, <3>1 DEF AssetRow
    <3>3. ~events[loc[p].ev].deleting /\ UNCHANGED <<events, lastPub, objects, retired>>
      BY <2>4 DEF UploadFinish, checkOpen
    <3>4. Finished(b)
      BY <2>3, <3>1, <3>2, <3>3, RowWritten DEF Finished, RowFinished
    <3> QED
      BY <3>4 DEF StepKind
  <2>5. CASE CompleteCommit(p)
    <3>1. PICK row : /\ assets' = [assets EXCEPT ![b] = row]
                     /\ row = [assets[b] EXCEPT !.status = "ready", !.size = loc[p].body.size,
                                               !.class = ClassOf(loc[p].body)]
      BY <2>2, <2>5 DEF CompleteCommit
    <3>2. row.status = "ready" /\ row.event = assets[b].event
      BY <2>3, <3>1 DEF AssetRow
    <3>3. ~events[loc[p].ev].deleting /\ UNCHANGED <<events, lastPub, objects, retired>>
      BY <2>5 DEF CompleteCommit
    <3>4. Finished(b)
      BY <2>3, <3>1, <3>2, <3>3, RowWritten DEF Finished, RowFinished
    <3> QED
      BY <3>4 DEF StepKind
  <2>6. CASE AuthorizeSave(p)
    <3>1. PICK row : /\ assets' = [assets EXCEPT ![b] = row]
                     /\ row = [assets[b] EXCEPT !.stale = FALSE]
      BY <1>1, <2>2, <2>3, <2>6 DEF AuthorizeSave
    <3>2. row.status = assets[b].status /\ row.event = assets[b].event
      BY <2>3, <3>1 DEF AssetRow
    <3>3. UNCHANGED <<events, lastPub>>
      BY <2>6 DEF AuthorizeSave
    <3>4. Quiet
      BY <3>1, <3>2, <3>3, RowWritten DEF RowKept
    <3> QED
      BY <3>4 DEF StepKind
  <2> QED
    BY <1>5, <2>4, <2>5, <2>6
<1>6. ASSUME NEW b \in Asset, DeleteDemote(p, b) PROVE StepKind
  <2>1. b \in OfEvent(assets, loc[p].ev) /\ Deleting(p)
    BY <1>6 DEF DeleteDemote, Deleting
  <2>2. /\ HasRow(b) /\ assets[b].event = loc[p].ev /\ events[loc[p].ev].deleting
        /\ assets[b] \in AssetRow
    BY <1>1, <2>1 DEF OfEvent, Live, HasRow, MarksOK
  <2>3. PICK row : /\ assets' = [assets EXCEPT ![b] = row]
                   /\ row = [assets[b] EXCEPT !.status = "pending"]
    BY <1>6 DEF DeleteDemote, Demoted
  <2>4. row.status = "pending" /\ row.event = assets[b].event
    BY <2>2, <2>3 DEF AssetRow
  <2>5. UNCHANGED <<events, lastPub>>
    BY <1>6 DEF DeleteDemote
  <2>6. CASE assets[b].status = "ready"
    <3>1. Withdrawn(b)
      BY <2>2, <2>3, <2>4, <2>5, <2>6, RowWritten DEF Withdrawn, RowDemoted
    <3> QED
      BY <3>1 DEF StepKind
  <2>7. CASE assets[b].status # "ready"
    <3>1. Quiet
      BY <2>2, <2>3, <2>4, <2>5, <2>7, RowWritten DEF RowKept, HasRow
    <3> QED
      BY <3>1 DEF StepKind
  <2> QED
    BY <2>6, <2>7
<1>7. \/ UNCHANGED <<assets, events, lastPub>>
      \/ \E b \in Asset : UploadReserve(p, b) \/ PrepareReserve(p, b) \/ DeleteDemote(p, b)
      \/ UploadFinish(p) \/ AuthorizeSave(p) \/ CompleteCommit(p) \/ DeleteDrop(p) \/ DeleteMark(p)
  BY DEF Serve, CreateSession, SessionCreate, Upload, UploadLock, UploadOpen, UploadWrite,
         UploadFinishFails, Snapshot, SnapshotList, SnapshotClose, Prepare, DirectLock,
         Authorize, AuthorizeLoad, Complete, CompleteLoad, CompleteHead, CompletePrefix,
         CompleteReject, DeleteEvent, DeleteEmpty, FailAt
<1> QED
  BY <1>2, <1>3, <1>4, <1>5, <1>6, <1>7 DEF StepKind

\* Every step is of one of the kinds.
LEMMA StepKinds ==
    ASSUME IInv, MarksOK, [Next]_vars
    PROVE  StepKind
<1> USE DEF dbVars, storeVars
<1>1. assets \in [Asset -> AssetRow] /\ events \in [Event -> EventRow]
  BY DEF IInv, TypeOK
<1>2. CASE UNCHANGED <<assets, events, lastPub>>
  BY <1>2, RowQuiet DEF StepKind, EventKept
<1>3. ASSUME NEW p \in Proc, Accept(p) PROVE UNCHANGED <<assets, events, lastPub>>
  BY <1>3 DEF Accept, SessionBegin, SnapshotBegin, DeleteBegin, UploadBegin, PrepareBegin,
              DirectBegin, BeginOpen
<1>4. ASSUME Cleanup PROVE UNCHANGED <<assets, events, lastPub>>
  BY <1>4 DEF Cleanup, CleanupStart, CleanupTake, CleanupSkip, RetiredStart, RetiredDelete,
              RetiredSkip, RetiredMark, RetiredDone, CleanupAborts, FailAt
<1>5. ASSUME NEW p \in Actor, removeAttempt(p) PROVE StepKind
  <2>1. UNCHANGED <<assets, events, lastPub>> \/ RemoveRow(p)
    BY <1>5 DEF removeAttempt, RemoveRead, RemoveRetire, RemoveObject, RemoveFails
  <2>2. CASE RemoveRow(p)
    <3> DEFINE b == loc[p].at
    <3>1. b \in Asset
      BY <2>2, LabelTypes DEF RemoveRow, IInv, Holding, RemovalPC
    <3>2. UNCHANGED <<events, lastPub>>
      BY <2>2 DEF RemoveRow
    <3>3. PICK row : /\ assets' = [assets EXCEPT ![b] = row]
                     /\ \/ assets[b].status = "pending" /\ row = Gone(assets[b])
                        \/ row = assets[b]
      BY <2>2 DEF RemoveRow
    <3>4. Gone(assets[b]).status = "gone"
      BY DEF Gone, NoAsset
    <3> HIDE DEF b
    <3>5. Removed(b) \/ Quiet
      BY <3>1, <3>2, <3>3, <3>4, RowWritten DEF Removed, RowRemoved, RowKept
    <3> QED
      BY <3>1, <3>5 DEF StepKind
  <2> QED
    BY <1>2, <2>1, <2>2
<1>6. ASSUME Environment PROVE StepKind
  <2>1. \/ UNCHANGED <<assets, events, lastPub>>
        \/ \E b \in Asset : AssetAges(b)
        \/ \E e \in Event, l \in LimitSet : CreateEvent(e, l)
        \/ \E e \in Event, on \in BOOLEAN, l \in LimitSet : UpdateEvent(e, on, l)
        \/ \E e \in Event : EventExpires(e)
    BY <1>6 DEF Environment, SessionExpires, RetiredAges, GuestPut, Restart
  <2>2. ASSUME NEW b \in Asset, AssetAges(b) PROVE StepKind
    <3>1. PICK row : /\ assets' = [assets EXCEPT ![b] = row]
                     /\ row = [assets[b] EXCEPT !.stale = TRUE]
      BY <2>2 DEF AssetAges
    <3>2. row.status = assets[b].status /\ row.event = assets[b].event
      BY <1>1, <3>1 DEF AssetRow
    <3>3. UNCHANGED <<events, lastPub>>
      BY <2>2 DEF AssetAges
    <3>4. Quiet
      BY <3>1, <3>2, <3>3, RowWritten DEF RowKept
    <3> QED
      BY <3>4 DEF StepKind
  <2>3. ASSUME NEW f \in Event, NEW on \in BOOLEAN, NEW l \in LimitSet, UpdateEvent(f, on, l)
        PROVE  StepKind
    <3>1. ASSUME NEW e \in Event PROVE EventKept(e)
      <4>1. \/ events'[e] = events[e]
            \/ events'[e] = [events[e] EXCEPT !.enabled = on, !.lapsed = FALSE, !.limits = l]
        BY <1>1, <2>3 DEF UpdateEvent
      <4>2. events[e] \in EventRow
        BY <1>1
      <4> QED
        BY <4>1, <4>2 DEF EventKept, EventRow
    <3>2. UNCHANGED <<assets, lastPub>>
      BY <2>3 DEF UpdateEvent
    <3> QED
      BY <3>1, <3>2, RowQuiet DEF StepKind
  <2>4. ASSUME NEW f \in Event, EventExpires(f) PROVE StepKind
    <3>1. ASSUME NEW e \in Event PROVE EventKept(e)
      <4>1. events'[e] = events[e] \/ events'[e] = [events[e] EXCEPT !.lapsed = TRUE]
        BY <1>1, <2>4 DEF EventExpires
      <4>2. events[e] \in EventRow
        BY <1>1
      <4> QED
        BY <4>1, <4>2 DEF EventKept, EventRow
    <3>2. UNCHANGED <<assets, lastPub>>
      BY <2>4 DEF EventExpires
    <3> QED
      BY <3>1, <3>2, RowQuiet DEF StepKind
  <2> QED
    BY <1>2, <2>1, <2>2, <2>3, <2>4 DEF StepKind
<1> QED
  BY <1>2, <1>3, <1>4, <1>5, <1>6, ServeKinds DEF Next, vars

\* What marking and dropping do to the event rows.
LEMMA MarkRows ==
    ASSUME IInv, MarksOK, NEW p \in Proc, DeleteMark(p)
    PROVE  /\ loc[p].ev \in Event /\ events[loc[p].ev].pub # 0
           /\ \A e \in Event : e # loc[p].ev => events'[e] = events[e]
           /\ events'[loc[p].ev].pub = events[loc[p].ev].pub /\ events'[loc[p].ev].deleting
           /\ UNCHANGED <<assets, retired, objects, lastPub>>
<1>1. events \in [Event -> EventRow] /\ loc[p].ev \in Event
  BY DEF IInv, TypeOK, DeleteMark, LocalsOK, HandlerOK
<1>2. events[loc[p].ev].pub # 0 /\ UNCHANGED <<assets, retired, objects, lastPub>>
  BY DEF DeleteMark, SameEvent, MarksOK, storeVars
<1>3. /\ \A e \in Event : e # loc[p].ev => events'[e] = events[e]
      /\ events'[loc[p].ev] = [events[loc[p].ev] EXCEPT !.deleting = TRUE, !.enabled = FALSE]
  BY <1>1 DEF DeleteMark, Marked
<1>4. events[loc[p].ev] \in EventRow
  BY <1>1
<1> QED
  BY <1>1, <1>2, <1>3, <1>4 DEF EventRow

LEMMA DropRows ==
    ASSUME IInv, MarksOK, NEW p \in Proc, DeleteDrop(p)
    PROVE  /\ loc[p].ev \in Event /\ events[loc[p].ev].deleting /\ events[loc[p].ev].pub # 0
           /\ \A e \in Event : e # loc[p].ev => events'[e] = events[e]
           /\ events'[loc[p].ev].pub = 0 /\ ~events'[loc[p].ev].deleting
           /\ \A a \in Asset : HasRow(a) => assets[a].event # loc[p].ev
           /\ UNCHANGED <<assets, retired, objects, lastPub>>
<1>1. /\ events \in [Event -> EventRow] /\ assets \in [Asset -> AssetRow] /\ loc[p].ev \in Event
      /\ OfEvent(assets, loc[p].ev) = {} /\ Deleting(p)
  BY DEF IInv, TypeOK, DeleteDrop, LocalsOK, HandlerOK, EmptiedOK, Actor, Deleting
<1>2. events[loc[p].ev].deleting /\ events[loc[p].ev].pub # 0
  BY <1>1 DEF MarksOK
<1>3. /\ \A e \in Event : e # loc[p].ev => events'[e] = events[e]
      /\ events'[loc[p].ev] = NoEvent
  BY <1>1 DEF DeleteDrop
<1>4. assets' = assets /\ UNCHANGED <<retired, objects, lastPub>>
  BY <1>1 DEF DeleteDrop, storeVars
<1>5. \A a \in Asset : HasRow(a) => assets[a].event # loc[p].ev
  BY <1>1 DEF HasRow, OfEvent, Live
<1> QED
  BY <1>1, <1>2, <1>3, <1>4, <1>5 DEF NoEvent

\* Every step keeps the public ids apart and the rows in events that exist.
LEMMA NextPubs ==
    ASSUME IInv, MarksOK, PubsOK, [Next]_vars
    PROVE  PubsOK'
<1>0. /\ \A e \in Event : events[e].pub \in Nat
      /\ \A a \in Asset : HasRow(a) => assets[a].event \in Event
      /\ lastPub \in Nat /\ lastPub' \in Nat
  <2>1. TypeOK /\ TypeOK' /\ TablesOK
    BY NextInv DEF IInv
  <2> QED
    BY <2>1, SizesAssumption DEF TypeOK, EventRow, TablesOK, KeyOK
<1>1. CASE Quiet
  <2>1. \A a \in Asset : HasRow(a)' => HasRow(a) /\ assets'[a].event = assets[a].event
    BY <1>1 DEF Quiet, RowKept, HasRow
  <2> QED
    BY <1>0, <1>1, <2>1 DEF Quiet, EventKept, PubsOK
<1>2. ASSUME NEW e \in Event, NEW l \in LimitSet, CreateEvent(e, l) PROVE PubsOK'
  <2>1. /\ events[e].pub = 0 /\ events'[e].pub = lastPub + 1 /\ lastPub' = lastPub + 1
        /\ \A f \in Event : f # e => events'[f] = events[f]
        /\ UNCHANGED assets
    BY <1>2 DEF CreateEvent, IInv, TypeOK
  <2>2. \A f \in Event : events'[f].pub <= lastPub'
    BY <1>0, <2>1 DEF PubsOK
  <2>3. \A f, g \in Event : events'[f].pub # 0 /\ events'[f].pub = events'[g].pub => f = g
    BY <1>0, <2>1 DEF PubsOK
  <2>4. \A a \in Asset : HasRow(a)' => events'[assets'[a].event].pub # 0
    BY <1>0, <2>1 DEF PubsOK, HasRow
  <2> QED
    BY <2>2, <2>3, <2>4 DEF PubsOK
<1>3. ASSUME NEW p \in Proc, DeleteMark(p) PROVE PubsOK'
  BY <1>0, <1>3, MarkRows DEF PubsOK, HasRow
<1>4. ASSUME NEW p \in Proc, DeleteDrop(p) PROVE PubsOK'
  BY <1>0, <1>4, DropRows DEF PubsOK, HasRow
<1>5. ASSUME NEW b \in Asset, Noted(b) \/ Finished(b) \/ Withdrawn(b) \/ Removed(b) PROVE PubsOK'
  <2>1. OnlyRow(b)
    BY <1>5 DEF Noted, Finished, Withdrawn, Removed
  <2>2. HasRow(b)' => events[assets'[b].event].pub # 0
    BY <1>5 DEF Noted, Finished, Withdrawn, Removed, RowReserved, RowFinished, RowDemoted,
                RowRemoved, HasRow, PubsOK
  <2> QED
    BY <2>1, <2>2 DEF OnlyRow, PubsOK, HasRow
<1> QED
  BY <1>1, <1>2, <1>3, <1>4, <1>5, StepKinds DEF StepKind

\* A public id names one event for ever, and no row outlives its event.
THEOREM PublicIds == Spec => []PubsOK
<1>1. Init => PubsOK
  <2> SUFFICES ASSUME Init PROVE PubsOK
    OBVIOUS
  <2>1. CASE /\ events = [e \in Event |-> NoEvent] /\ assets = [a \in Asset |-> NoAsset]
             /\ lastPub = 0
    BY <2>1 DEF PubsOK, NoEvent, NoAsset, HasRow
  <2>2. ASSUME NEW home \in Event, NEW owner \in Session, NEW limits \in LimitSet,
               NEW f \in Injection(Legacy, Request), NEW b \in Bodies,
               events = [e \in Event |-> IF e = home
                 THEN [pub |-> 1, enabled |-> TRUE, deleting |-> FALSE, lapsed |-> FALSE,
                       limits |-> limits]
                 ELSE NoEvent],
               assets = [a \in Asset |-> IF a \in Legacy THEN LegacyRow(home, owner, b.size, f[a])
                                                        ELSE NoAsset],
               lastPub = 1
        PROVE  PubsOK
    <3>1. \A e \in Event : events[e].pub = IF e = home THEN 1 ELSE 0
      BY <2>2 DEF NoEvent
    <3>2. \A a \in Asset : HasRow(a) => assets[a].event = home
      BY <2>2 DEF HasRow, LegacyRow, NoAsset
    <3> QED
      BY <2>2, <3>1, <3>2 DEF PubsOK
  <2> QED
    <3>1. InitDB
      BY DEF Init
    <3>2. CASE /\ Legacy = {}
               /\ events = [e \in Event |-> NoEvent]
               /\ sessions = [s \in Session |-> NoSession]
               /\ assets = [a \in Asset |-> NoAsset]
               /\ lastPub = 0 /\ urls = {}
      BY <2>1, <3>2
    <3>3. CASE ~(/\ Legacy = {}
                 /\ events = [e \in Event |-> NoEvent]
                 /\ sessions = [s \in Session |-> NoSession]
                 /\ assets = [a \in Asset |-> NoAsset]
                 /\ lastPub = 0 /\ urls = {})
      <4>1. \E home \in Event, owner \in Session, limits \in LimitSet,
               f \in Injection(Legacy, Request), b \in Bodies :
              /\ events = [e \in Event |-> IF e = home
                   THEN [pub |-> 1, enabled |-> TRUE, deleting |-> FALSE, lapsed |-> FALSE,
                         limits |-> limits]
                   ELSE NoEvent]
              /\ assets = [a \in Asset |-> IF a \in Legacy
                             THEN LegacyRow(home, owner, b.size, f[a]) ELSE NoAsset]
              /\ lastPub = 1
        BY <3>1, <3>3 DEF InitDB
      <4> QED
        BY <2>2, <4>1
    <3> QED
      BY <3>2, <3>3
<1>2. IInv /\ MarksOK /\ PubsOK /\ [Next]_vars => PubsOK'
  BY NextPubs
<1> QED
  BY <1>1, <1>2, Invariant, Marks, PTL DEF Spec

(* ------------------------- what the ledger sees ------------------------ *)

HomeOf(a) == IF HasRow(a) THEN events[assets[a].event].pub ELSE 0
ContentOf(a) == IF Vouched(a) THEN objects[a] ELSE None

\* While a row is ready its key is neither retired nor taken off the retired ones.
LEMMA RetirementKept ==
    ASSUME IInv, [Next]_vars, NEW a \in Asset, assets[a].status = "ready"
    PROVE  retired'[a] = "none" <=> retired[a] = "none"
<1> USE DEF dbVars, storeVars
<1>1. retired \in [Asset -> {"none", "fresh", "due"}]
  BY DEF IInv, TypeOK
<1>2. CASE UNCHANGED retired
  BY <1>2
<1>3. ASSUME NEW p \in Actor, RemoveRetire(p) PROVE retired'[a] = retired[a]
  <2>1. Holding(p) /\ pc[p] # "rm_read"
    BY <1>3 DEF RemoveRetire, Holding, RemovalPC
  <2>2. loc[p].at # a
    BY <2>1, HolderFacts DEF RowOK
  <2> QED
    BY <1>1, <1>3, <2>2 DEF RemoveRetire
<1>4. CASE RetiredMark
  BY <1>1, <1>4 DEF RetiredMark, IInv, PassOK
<1>5. ASSUME NEW b \in Asset, RetiredAges(b) PROVE retired'[a] = "none" <=> retired[a] = "none"
  BY <1>1, <1>5 DEF RetiredAges
<1>6. ASSUME NEW p \in Proc, Accept(p) PROVE UNCHANGED retired
  BY <1>6 DEF Accept, SessionBegin, SnapshotBegin, DeleteBegin, UploadBegin, PrepareBegin,
              DirectBegin, BeginOpen
<1>7. ASSUME NEW p \in Proc, Serve(p) PROVE UNCHANGED retired
  BY <1>7 DEF Serve, CreateSession, SessionCreate, Upload, UploadLock, UploadReserve, UploadOpen,
              UploadWrite, UploadFinish, UploadFinishFails, Snapshot, SnapshotList, SnapshotClose,
              Prepare, PrepareReserve, DirectLock, Authorize, AuthorizeLoad, AuthorizeSave,
              Complete, CompleteLoad, CompleteHead, CompletePrefix, CompleteReject, CompleteCommit,
              DeleteEvent, DeleteMark, DeleteDemote, DeleteEmpty, DeleteDrop, FailAt
<1>8. ASSUME NEW p \in Actor, removeAttempt(p) PROVE UNCHANGED retired \/ RemoveRetire(p)
  BY <1>8 DEF removeAttempt, RemoveRead, RemoveObject, RemoveRow, RemoveFails
<1>9. ASSUME Cleanup PROVE UNCHANGED retired \/ RetiredMark
  BY <1>9 DEF Cleanup, CleanupStart, CleanupTake, CleanupSkip, RetiredStart, RetiredDelete,
              RetiredSkip, RetiredDone, CleanupAborts, FailAt
<1>10. ASSUME Environment PROVE UNCHANGED retired \/ \E b \in Asset : RetiredAges(b)
  BY <1>10 DEF Environment, CreateEvent, UpdateEvent, EventExpires, SessionExpires, AssetAges,
               GuestPut, Restart
<1> QED
  BY <1>2, <1>3, <1>4, <1>5, <1>6, <1>7, <1>8, <1>9, <1>10 DEF Next, vars

\* What a row that keeps its status shows stays as it is.
LEMMA RowSeenKept ==
    ASSUME IInv, [Next]_vars, NEW a \in Asset, assets'[a].status = assets[a].status
    PROVE  Place(a)' = Place(a) /\ ContentOf(a)' = ContentOf(a)
<1>1. Place(a)' = Place(a)
  BY DEF Place
<1>2. CASE assets[a].status # "ready"
  BY <1>1, <1>2 DEF ContentOf, Vouched
<1>3. CASE assets[a].status = "ready"
  <2>1. retired'[a] = "none" <=> retired[a] = "none"
    BY <1>3, RetirementKept
  <2>2. retired[a] = "none" => objects'[a] = objects[a]
    BY <1>3, BodyKept
  <2> QED
    BY <1>1, <2>1, <2>2 DEF ContentOf, Vouched
<1> QED
  BY <1>2, <1>3

\* An album is the one event that has its number.
LEMMA AlbumOf ==
    ASSUME PubsOK, NEW e \in Event, events[e].pub # 0
    PROVE  AlbumState(events[e].pub) = IF events[e].deleting THEN "closing" ELSE "open"
BY DEF PubsOK, AlbumState

LEMMA AlbumsKept ==
    ASSUME \A e \in Event : EventKept(e), lastPub' = lastPub, NEW k \in 1..MaxPub
    PROVE  AlbumState(k)' = AlbumState(k)
BY DEF AlbumState, EventKept

LEMMA PubTypes ==
    ASSUME IInv, MarksOK, PubsOK
    PROVE  /\ lastPub \in 0..MaxPub /\ MaxPub \in Nat \ {0}
           /\ \A e \in Event : events[e].pub \in Nat /\ events[e].pub <= lastPub
           /\ \A e \in Event : events[e].pub # 0 => events[e].pub \in 1..MaxPub
           /\ \A a \in Asset : HasRow(a) => assets[a].event \in Event /\ HomeOf(a) \in 1..MaxPub
           /\ \A a \in Asset : ~HasRow(a) => HomeOf(a) = 0
<1>1. /\ lastPub \in 0..MaxPub /\ MaxPub \in Nat \ {0}
      /\ \A e \in Event : events[e].pub \in Nat
  BY SizesAssumption DEF IInv, TypeOK, EventRow
<1>2. \A e \in Event : events[e].pub <= lastPub
  BY DEF PubsOK
<1>3. \A e \in Event : events[e].pub # 0 => events[e].pub \in 1..MaxPub
  BY <1>1, <1>2
<1>4. \A a \in Asset : HasRow(a) => assets[a].event \in Event /\ events[assets[a].event].pub # 0
  BY DEF IInv, TablesOK, KeyOK, PubsOK
<1> QED
  BY <1>1, <1>2, <1>3, <1>4 DEF HomeOf

\* What the ledger sees of the whole state, as functions.
Albums == [k \in 1..MaxPub |-> AlbumState(k)]
Places == [a \in Asset |-> Place(a)]
Homes == [a \in Asset |-> HomeOf(a)]
Contents == [a \in Asset |-> ContentOf(a)]

\* Steps that change no event row the ledger sees; that touch one asset row.
LEMMA AlbumsSame ==
    ASSUME \A e \in Event : EventKept(e), lastPub' = lastPub
    PROVE  Albums' = Albums
<1>1. \A k \in 1..MaxPub : AlbumState(k)' = AlbumState(k)
  BY AlbumsKept
<1> QED
  BY <1>1 DEF Albums

LEMMA OneRowSeen ==
    ASSUME IInv, [Next]_vars, NEW b \in Asset, OnlyRow(b)
    PROVE  /\ Albums' = Albums
           /\ Places' = [Places EXCEPT ![b] = Place(b)']
           /\ Homes' = [Homes EXCEPT ![b] = HomeOf(b)']
           /\ Contents' = [Contents EXCEPT ![b] = ContentOf(b)']
<1>1. Albums' = Albums
  BY AlbumsSame DEF OnlyRow, EventKept
<1>2. \A a \in Asset : a # b => Place(a)' = Place(a) /\ ContentOf(a)' = ContentOf(a)
  BY RowSeenKept DEF OnlyRow
<1>3. \A a \in Asset : a # b => HomeOf(a)' = HomeOf(a)
  BY DEF OnlyRow, HomeOf, HasRow
<1> QED
  BY <1>1, <1>2, <1>3 DEF Places, Homes, Contents

\* Steps that leave the asset rows alone as far as the ledger sees them.
LEMMA RowsSeenKept ==
    ASSUME IInv, [Next]_vars, \A a \in Asset : RowKept(a),
           \A a \in Asset : HasRow(a) => events'[assets[a].event].pub = events[assets[a].event].pub
    PROVE  Places' = Places /\ Homes' = Homes /\ Contents' = Contents
<1>1. \A a \in Asset : Place(a)' = Place(a) /\ ContentOf(a)' = ContentOf(a)
  BY RowSeenKept DEF RowKept
<1>2. \A a \in Asset : HomeOf(a)' = HomeOf(a)
  BY DEF RowKept, HomeOf, HasRow
<1> QED
  BY <1>1, <1>2 DEF Places, Homes, Contents

(* ------------------------ the steps of the ledger ---------------------- *)

\* A row is reserved.
LEMMA NotedIsNote ==
    ASSUME IInv, MarksOK, PubsOK, [Next]_vars, NEW b \in Asset, Noted(b)
    PROVE  \E k \in 1..MaxPub : Ledger!Note(b, k)
<1> DEFINE e == assets'[b].event
           k == events[e].pub
<1>1. /\ OnlyRow(b) /\ assets[b].status = "unused" /\ assets'[b].status = "pending"
      /\ e \in Event /\ ~events[e].deleting /\ k # 0 /\ events' = events
  BY DEF Noted, RowReserved, OnlyRow
<1>2. k \in 1..MaxPub /\ AlbumState(k) = "open"
  BY <1>1, PubTypes, AlbumOf
<1>3. /\ Place(b) = "unused" /\ Place(b)' = "private" /\ HomeOf(b)' = k
      /\ ContentOf(b)' = ContentOf(b)
  BY <1>1 DEF Place, HomeOf, HasRow, ContentOf, Vouched
<1> HIDE DEF e, k
<1>4. /\ Places[b] = "unused" /\ Albums[k] = "open" /\ Albums' = Albums
      /\ Places' = [Places EXCEPT ![b] = "private"] /\ Homes' = [Homes EXCEPT ![b] = k]
      /\ Contents' = Contents
  <2>1. Contents[b] = ContentOf(b) /\ Places[b] = Place(b) /\ Albums[k] = AlbumState(k)
    BY <1>2 DEF Contents, Places, Albums
  <2>2. Contents = [Contents EXCEPT ![b] = Contents[b]]
    BY DEF Contents
  <2> QED
    BY <1>1, <1>2, <1>3, <2>1, <2>2, OneRowSeen
<1> QED
  BY <1>2, <1>4 DEF Ledger!Note, Albums, Places, Homes, Contents, HomeOf, ContentOf

\* The album of a row that exists, and what one entry of each function is.
LEMMA RowAlbum ==
    ASSUME IInv, MarksOK, PubsOK, NEW b \in Asset, HasRow(b)
    PROVE  /\ Homes[b] \in 1..MaxPub
           /\ Albums[Homes[b]] = IF events[assets[b].event].deleting THEN "closing" ELSE "open"
<1>1. /\ assets[b].event \in Event /\ HomeOf(b) \in 1..MaxPub
      /\ HomeOf(b) = events[assets[b].event].pub
  BY PubTypes DEF HomeOf
<1>2. Homes[b] = HomeOf(b) /\ Albums[HomeOf(b)] = AlbumState(HomeOf(b))
  BY <1>1 DEF Homes, Albums
<1>3. AlbumState(HomeOf(b)) = IF events[assets[b].event].deleting THEN "closing" ELSE "open"
  BY <1>1, AlbumOf
<1> QED
  BY <1>1, <1>2, <1>3

LEMMA Entries ==
    ASSUME NEW b \in Asset
    PROVE  /\ Places[b] = Place(b) /\ Homes[b] = HomeOf(b) /\ Contents[b] = ContentOf(b)
           /\ Places = [Places EXCEPT ![b] = Places[b]] /\ Homes = [Homes EXCEPT ![b] = Homes[b]]
           /\ Contents = [Contents EXCEPT ![b] = Contents[b]]
BY DEF Places, Homes, Contents

\* A row becomes ready.
LEMMA FinishedIsPublish ==
    ASSUME IInv, MarksOK, PubsOK, [Next]_vars, NEW b \in Asset, Finished(b)
    PROVE  \E c \in Bodies \cup {None} : Ledger!Publish(b, c)
<1> DEFINE c == IF retired[b] = "none" THEN objects[b] ELSE None
<1>1. /\ OnlyRow(b) /\ assets[b].status = "pending" /\ assets'[b].status = "ready"
      /\ assets'[b].event = assets[b].event /\ ~events[assets[b].event].deleting
      /\ UNCHANGED <<objects, retired, events>>
  BY DEF Finished, RowFinished, OnlyRow
<1>2. c \in Bodies \cup {None}
  BY DEF IInv, TypeOK
<1>3. /\ Place(b) = "private" /\ Place(b)' = "published" /\ HomeOf(b)' = HomeOf(b)
      /\ ContentOf(b)' = c
  BY <1>1 DEF Place, HomeOf, HasRow, ContentOf, Vouched
<1>4. Albums[Homes[b]] = "open"
  BY <1>1, RowAlbum DEF HasRow
<1> HIDE DEF c
<1>5. /\ Places[b] = "private" /\ Albums[Homes[b]] = "open" /\ Albums' = Albums
      /\ Places' = [Places EXCEPT ![b] = "published"] /\ Homes' = Homes
      /\ Contents' = [Contents EXCEPT ![b] = c]
  BY <1>1, <1>3, <1>4, OneRowSeen, Entries
<1> QED
  BY <1>2, <1>5 DEF Ledger!Publish, Albums, Places, Homes, Contents, HomeOf, ContentOf

\* A ready row becomes pending again.
LEMMA WithdrawnIsWithdraw ==
    ASSUME IInv, MarksOK, PubsOK, [Next]_vars, NEW b \in Asset, Withdrawn(b)
    PROVE  Ledger!Withdraw(b)
<1>1. /\ OnlyRow(b) /\ assets[b].status = "ready" /\ assets'[b].status = "pending"
      /\ assets'[b].event = assets[b].event /\ events[assets[b].event].deleting
      /\ events' = events
  BY DEF Withdrawn, RowDemoted, OnlyRow
<1>2. /\ Place(b) = "published" /\ Place(b)' = "private" /\ HomeOf(b)' = HomeOf(b)
      /\ ContentOf(b)' = None
  BY <1>1 DEF Place, HomeOf, HasRow, ContentOf, Vouched
<1>3. Albums[Homes[b]] = "closing"
  BY <1>1, RowAlbum DEF HasRow
<1>4. /\ Places[b] = "published" /\ Albums[Homes[b]] = "closing" /\ Albums' = Albums
      /\ Places' = [Places EXCEPT ![b] = "private"] /\ Homes' = Homes
      /\ Contents' = [Contents EXCEPT ![b] = None]
  BY <1>1, <1>2, <1>3, OneRowSeen, Entries
<1> QED
  BY <1>4 DEF Ledger!Withdraw, Albums, Places, Homes, Contents, HomeOf, ContentOf

\* A pending row goes.
LEMMA RemovedIsErase ==
    ASSUME IInv, MarksOK, PubsOK, [Next]_vars, NEW b \in Asset, Removed(b)
    PROVE  Ledger!Erase(b)
<1>1. OnlyRow(b) /\ assets[b].status = "pending" /\ assets'[b].status = "gone"
  BY DEF Removed, RowRemoved
<1>2. /\ Place(b) = "private" /\ Place(b)' = "gone" /\ HomeOf(b)' = 0
      /\ ContentOf(b)' = ContentOf(b)
  BY <1>1 DEF Place, HomeOf, HasRow, ContentOf, Vouched
<1>3. /\ Places[b] = "private" /\ Albums' = Albums
      /\ Places' = [Places EXCEPT ![b] = "gone"] /\ Homes' = [Homes EXCEPT ![b] = 0]
      /\ Contents' = Contents
  BY <1>1, <1>2, OneRowSeen, Entries
<1> QED
  BY <1>3 DEF Ledger!Erase, Albums, Places, Homes, Contents, HomeOf, ContentOf

\* An event is created.
LEMMA CreatedIsOpen ==
    ASSUME IInv, MarksOK, PubsOK, [Next]_vars, NEW e \in Event, NEW l \in LimitSet,
           CreateEvent(e, l)
    PROVE  \E k \in 1..MaxPub : Ledger!OpenAlbum(k)
<1>0. lastPub \in 0..MaxPub /\ lastPub < MaxPub /\ MaxPub \in Nat
  BY PubTypes DEF CreateEvent
<1>2. PICK k \in 1..MaxPub : k = lastPub + 1
  BY <1>0
<1>1. /\ events[e].pub = 0 /\ events'[e].pub = k /\ ~events'[e].deleting /\ lastPub' = k
      /\ \A f \in Event : f # e => events'[f] = events[f]
      /\ UNCHANGED assets
  BY <1>2 DEF CreateEvent, IInv, TypeOK
<1>3. \A f \in Event : events[f].pub \in Nat /\ events[f].pub <= lastPub
  BY PubTypes
<1>4. AlbumState(k) = "never" /\ AlbumState(k)' = "open"
  BY <1>0, <1>1, <1>2, <1>3 DEF AlbumState
<1>5. \A j \in 1..MaxPub : j < k => AlbumState(j) # "never"
  BY <1>0, <1>2 DEF AlbumState
<1>6. \A j \in 1..MaxPub : j # k => AlbumState(j)' = AlbumState(j)
  BY <1>0, <1>1, <1>2, <1>3 DEF AlbumState
<1>7. Places' = Places /\ Homes' = Homes /\ Contents' = Contents
  <2>1. \A a \in Asset : HasRow(a) => assets[a].event \in Event /\ assets[a].event # e
    BY <1>1, PubTypes DEF PubsOK
  <2> QED
    BY <1>1, <2>1, RowsSeenKept DEF RowKept
<1>8. /\ Albums[k] = "never" /\ \A j \in 1..MaxPub : j < k => Albums[j] # "never"
      /\ Albums' = [Albums EXCEPT ![k] = "open"]
  BY <1>2, <1>4, <1>5, <1>6 DEF Albums
<1> QED
  BY <1>2, <1>7, <1>8 DEF Ledger!OpenAlbum, Albums, Places, Homes, Contents, HomeOf, ContentOf

\* An event is marked, for the first time or again.
LEMMA MarkedIsClose ==
    ASSUME IInv, MarksOK, PubsOK, [Next]_vars, NEW p \in Proc, DeleteMark(p)
    PROVE  \/ UNCHANGED Ledger!ledgerVars
           \/ \E k \in 1..MaxPub : Ledger!CloseAlbum(k)
<1>0. PICK e \in Event, k \in 1..MaxPub : e = loc[p].ev /\ k = events[e].pub
  BY MarkRows, PubTypes
<1>1. /\ k # 0 /\ \A f \in Event : f # e => events'[f] = events[f]
      /\ events[e].pub = k /\ events'[e].pub = k /\ events'[e].deleting
      /\ UNCHANGED <<assets, retired, objects, lastPub>>
  BY <1>0, MarkRows
<1>2. Places' = Places /\ Homes' = Homes /\ Contents' = Contents
  <2>1. \A a \in Asset : HasRow(a) => assets[a].event \in Event
    BY PubTypes
  <2> QED
    BY <1>1, <2>1, RowsSeenKept DEF RowKept
<1>4. CASE events[e].deleting
  <2>1. events[e].deleting \in BOOLEAN /\ events'[e].deleting \in BOOLEAN
    BY NextInv DEF IInv, TypeOK, EventRow
  <2>2. \A f \in Event : EventKept(f)
    BY <1>1, <1>4, <2>1 DEF EventKept
  <2>3. Albums' = Albums
    BY <1>1, <2>2, AlbumsSame
  <2> QED
    BY <1>2, <2>3 DEF Ledger!ledgerVars, Albums, Places, Homes, Contents, HomeOf, ContentOf
<1>5. CASE ~events[e].deleting
  <2>1. AlbumState(k) = "open"
    BY <1>1, <1>5, AlbumOf
  <2>2. AlbumState(k)' = "closing"
    BY <1>1 DEF AlbumState
  <2>3. \A j \in 1..MaxPub : j # k => AlbumState(j)' = AlbumState(j)
    BY <1>1 DEF AlbumState
  <2>4. Albums[k] = "open" /\ Albums' = [Albums EXCEPT ![k] = "closing"]
    BY <2>1, <2>2, <2>3 DEF Albums
  <2> QED
    BY <1>2, <2>4 DEF Ledger!CloseAlbum, Albums, Places, Homes, Contents, HomeOf, ContentOf
<1> QED
  BY <1>4, <1>5

\* An event row goes, when no asset row belongs to it.
LEMMA DroppedIsDrop ==
    ASSUME IInv, MarksOK, PubsOK, [Next]_vars, NEW p \in Proc, DeleteDrop(p)
    PROVE  \E k \in 1..MaxPub : Ledger!DropAlbum(k)
<1>0. PICK e \in Event, k \in 1..MaxPub : e = loc[p].ev /\ k = events[e].pub
  BY DropRows, PubTypes
<1>1. /\ events[e].deleting /\ k # 0 /\ events[e].pub = k
      /\ \A f \in Event : f # e => events'[f] = events[f]
      /\ events'[e].pub = 0 /\ ~events'[e].deleting
      /\ \A a \in Asset : HasRow(a) => assets[a].event # e
      /\ UNCHANGED <<assets, retired, objects, lastPub>>
  BY <1>0, DropRows
<1>2. \A a \in Asset : HasRow(a) => assets[a].event \in Event
  BY PubTypes
<1>3. Places' = Places /\ Homes' = Homes /\ Contents' = Contents
  BY <1>1, <1>2, RowsSeenKept DEF RowKept
<1>4. k <= lastPub
  BY <1>1, PubTypes
<1>5. \A f \in Event : f # e => events[f].pub # k
  BY <1>1 DEF PubsOK
<1>6. AlbumState(k) = "closing"
  BY <1>1, AlbumOf
<1>7. AlbumState(k)' = "gone"
  BY <1>1, <1>4, <1>5 DEF AlbumState
<1>8. \A j \in 1..MaxPub : j # k => AlbumState(j)' = AlbumState(j)
  BY <1>1 DEF AlbumState
<1>9. \A a \in Asset : HomeOf(a) # k
  BY <1>1, <1>2, <1>5 DEF HomeOf
<1>10. Albums[k] = "closing" /\ Albums' = [Albums EXCEPT ![k] = "gone"]
  BY <1>6, <1>7, <1>8 DEF Albums
<1>11. \A a \in Asset : Homes[a] # k
  BY <1>9 DEF Homes
<1> QED
  BY <1>3, <1>10, <1>11
  DEF Ledger!DropAlbum, Albums, Places, Homes, Contents, HomeOf, ContentOf

\* Every step of the media service is a step of the ledger or none.
LEMMA NextLedger ==
    ASSUME IInv, MarksOK, PubsOK, [Next]_vars
    PROVE  Ledger!LedgerNext \/ UNCHANGED Ledger!ledgerVars
<1>1. CASE Quiet
  <2>1. Albums' = Albums
    BY <1>1, AlbumsSame DEF Quiet
  <2>2. \A a \in Asset : HasRow(a) => assets[a].event \in Event
    BY PubTypes
  <2>3. Places' = Places /\ Homes' = Homes /\ Contents' = Contents
    BY <1>1, <2>2, RowsSeenKept DEF Quiet, EventKept
  <2> QED
    BY <2>1, <2>3 DEF Ledger!ledgerVars, Albums, Places, Homes, Contents, HomeOf, ContentOf
<1>2. ASSUME NEW e \in Event, NEW l \in LimitSet, CreateEvent(e, l) PROVE Ledger!LedgerNext
  BY <1>2, CreatedIsOpen DEF Ledger!LedgerNext
<1>3. ASSUME NEW p \in Proc, DeleteMark(p)
      PROVE  Ledger!LedgerNext \/ UNCHANGED Ledger!ledgerVars
  BY <1>3, MarkedIsClose DEF Ledger!LedgerNext
<1>4. ASSUME NEW p \in Proc, DeleteDrop(p) PROVE Ledger!LedgerNext
  BY <1>4, DroppedIsDrop DEF Ledger!LedgerNext
<1>5. ASSUME NEW b \in Asset, Noted(b) \/ Finished(b) \/ Withdrawn(b) \/ Removed(b)
      PROVE  Ledger!LedgerNext
  BY <1>5, NotedIsNote, FinishedIsPublish, WithdrawnIsWithdraw, RemovedIsErase
  DEF Ledger!LedgerNext
<1> QED
  BY <1>1, <1>2, <1>3, <1>4, <1>5, StepKinds DEF StepKind

\* The service starts as a ledger does.
LEMMA InitLedger ==
    ASSUME Init, IInv, MarksOK, PubsOK
    PROVE  Ledger!LedgerInit
<1>1. \A e \in Event : ~events[e].deleting
  BY DEF Init, InitDB, NoEvent
<1>2. \A a \in Asset : assets[a].status \in {"unused", "pending"}
  <2>1. CASE assets = [a \in Asset |-> NoAsset]
    BY <2>1 DEF NoAsset
  <2>2. ASSUME NEW h \in Event, NEW s \in Session, NEW f \in Injection(Legacy, Request),
               NEW b \in Bodies,
               assets = [a \in Asset |-> IF a \in Legacy THEN LegacyRow(h, s, b.size, f[a])
                                                        ELSE NoAsset]
        PROVE  \A a \in Asset : assets[a].status \in {"unused", "pending"}
    BY <2>2 DEF NoAsset, LegacyRow
  <2> QED
    <3>1. \/ assets = [a \in Asset |-> NoAsset]
          \/ \E h \in Event, s \in Session, f \in Injection(Legacy, Request), b \in Bodies :
               assets = [a \in Asset |-> IF a \in Legacy THEN LegacyRow(h, s, b.size, f[a])
                                                        ELSE NoAsset]
      BY DEF Init, InitDB
    <3> QED
      BY <2>1, <2>2, <3>1
<1>3. \A k \in 1..MaxPub : AlbumState(k) \in {"never", "open"}
  <2>1. \A k \in 1..lastPub : \E e \in Event : events[e].pub = k
    <3>1. CASE lastPub = 0
      BY <3>1
    <3>2. CASE lastPub # 0
      <4>1. \E home \in Event, limits \in LimitSet :
              /\ events = [e \in Event |-> IF e = home
                   THEN [pub |-> 1, enabled |-> TRUE, deleting |-> FALSE, lapsed |-> FALSE,
                         limits |-> limits]
                   ELSE NoEvent]
              /\ lastPub = 1
        BY <3>2 DEF Init, InitDB
      <4> QED
        BY <4>1
    <3> QED
      BY <3>1, <3>2
  <2> QED
    BY <1>1, <2>1, PubTypes DEF AlbumState
<1>4. \A a \in Asset : /\ Place(a) \in {"unused", "private"} /\ ContentOf(a) = None
                       /\ HasRow(a) <=> Place(a) = "private"
  BY <1>2 DEF Place, ContentOf, Vouched, HasRow
<1>5. \A a \in Asset : IF Places[a] = "private"
                       THEN Homes[a] \in 1..MaxPub /\ Albums[Homes[a]] = "open"
                       ELSE Homes[a] = 0
  <2> TAKE a \in Asset
  <2>1. Places[a] = Place(a) /\ Homes[a] = HomeOf(a)
    BY Entries
  <2>2. CASE HasRow(a)
    <3>1. assets[a].event \in Event
      BY <2>2, PubTypes
    <3> QED
      BY <1>1, <1>4, <2>1, <2>2, <3>1, RowAlbum
  <2>3. CASE ~HasRow(a)
    BY <1>4, <2>1, <2>3, PubTypes
  <2> QED
    BY <2>2, <2>3
<1>6. /\ Albums \in [1..MaxPub -> {"never", "open"}] /\ Places \in [Asset -> {"unused", "private"}]
      /\ Contents = [a \in Asset |-> None]
  BY <1>3, <1>4 DEF Albums, Places, Contents
<1> QED
  BY <1>5, <1>6 DEF Ledger!LedgerInit, Albums, Places, Homes, Contents, HomeOf, ContentOf

\* The media service implements the ledger: for any number of events, assets,
\* goroutines and sizes, whatever uploads, completions, deletions, cleanup,
\* late PUTs, expiry and crashes do at the same time.
THEOREM ServiceIsALedger == Spec => ImplementsLedger
<1>1. Init /\ IInv /\ MarksOK /\ PubsOK => Ledger!LedgerInit
  BY InitLedger
<1>2. IInv /\ MarksOK /\ PubsOK /\ [Next]_vars
        => [Ledger!LedgerNext]_Ledger!ledgerVars
  BY NextLedger
<1> QED
  BY <1>1, <1>2, Invariant, Marks, PublicIds, PTL
  DEF Spec, ImplementsLedger, Ledger!LedgerSpec

-----------------------------------------------------------------------------
(* Capacity *)

(* ------------------------ the sums of Quotas -------------------------- *)

\* it adds up the rows of every subset of S the way Used does.
Sums(it, rows, S) ==
    it = [s \in SUBSET S |->
            IF s = {} THEN 0
            ELSE LET x == CHOOSE x \in s : TRUE IN Counted(rows[x]) + it[s \ {x}]]

First(s) == CHOOSE x \in s : TRUE

LEMMA SumsAre ==
    ASSUME NEW it, NEW rows, NEW S, Sums(it, rows, S)
    PROVE  /\ it[{}] = 0
           /\ \A s \in SUBSET S : s # {} =>
                 /\ First(s) \in s
                 /\ it[s] = Counted(rows[First(s)]) + it[s \ {First(s)}]
<1> HIDE DEF First
<1>1. it = [s \in SUBSET S |->
              IF s = {} THEN 0 ELSE Counted(rows[First(s)]) + it[s \ {First(s)}]]
  BY DEF Sums, First
<1>2. \A s \in SUBSET S : s # {} => First(s) \in s
  BY DEF First
<1>3. {} \in SUBSET S
  OBVIOUS
<1>4. it[{}] = 0
  BY <1>1, <1>3
<1>5. \A s \in SUBSET S : s # {} => it[s] = Counted(rows[First(s)]) + it[s \ {First(s)}]
  BY <1>1
<1> QED
  BY <1>2, <1>4, <1>5

LEMMA SumsNat ==
    ASSUME NEW it, NEW rows, NEW S, Sums(it, rows, S), IsFiniteSet(S),
           \A x \in S : Counted(rows[x]) \in Nat
    PROVE  \A s \in SUBSET S : it[s] \in Nat
<1> DEFINE P == {s \in SUBSET S : it[s] \in Nat}
<1>1. ASSUME NEW s \in SUBSET S, \A t \in SUBSET s : t # s => t \in P PROVE s \in P
  <2>1. CASE s = {}
    BY <2>1, SumsAre
  <2>2. CASE s # {}
    <3>1. First(s) \in s /\ it[s] = Counted(rows[First(s)]) + it[s \ {First(s)}]
      BY <2>2, SumsAre
    <3>2. PICK x \in s : x = First(s)
      BY <3>1
    <3>3. s \ {x} \in SUBSET s /\ s \ {x} # s
      BY <3>2
    <3>4. it[s \ {x}] \in Nat /\ Counted(rows[x]) \in Nat
      BY <1>1, <3>3
    <3> QED
      BY <3>1, <3>2, <3>4
  <2> QED
    BY <2>1, <2>2
<1>2. \A s \in SUBSET S : s \in P
  <2> HIDE DEF P
  <2> QED
    BY <1>1, Gather
<1> QED
  BY <1>2

\* The order in which rows are chosen does not matter.
LEMMA SumsSplit ==
    ASSUME NEW it, NEW rows, NEW S, Sums(it, rows, S), IsFiniteSet(S),
           \A x \in S : Counted(rows[x]) \in Nat
    PROVE  \A s \in SUBSET S : \A x \in s : it[s] = Counted(rows[x]) + it[s \ {x}]
<1> DEFINE P == {s \in SUBSET S : \A x \in s : it[s] = Counted(rows[x]) + it[s \ {x}]}
<1>1. ASSUME NEW s \in SUBSET S, \A t \in SUBSET s : t # s => t \in P PROVE s \in P
  <2> SUFFICES ASSUME NEW x \in s PROVE it[s] = Counted(rows[x]) + it[s \ {x}]
    OBVIOUS
  <2>1. First(s) \in s /\ it[s] = Counted(rows[First(s)]) + it[s \ {First(s)}]
    BY SumsAre
  <2>2. PICK y \in s : y = First(s)
    BY <2>1
  <2>3. CASE x = y
    BY <2>1, <2>2, <2>3
  <2>4. CASE x # y
    <3> DEFINE X == s \ {x}
               Y == s \ {y}
               R == (s \ {x}) \ {y}
    <3>1. X \in SUBSET s /\ X # s /\ Y \in SUBSET s /\ Y # s /\ y \in X /\ x \in Y
      BY <2>4
    <3>2. X \ {y} = R /\ Y \ {x} = R /\ R \in SUBSET S
      OBVIOUS
    <3>3. X \in P /\ Y \in P
      BY <1>1, <3>1
    <3>4. it[X] = Counted(rows[y]) + it[R] /\ it[Y] = Counted(rows[x]) + it[R]
      BY <3>1, <3>2, <3>3
    <3>5. it[R] \in Nat /\ Counted(rows[x]) \in Nat /\ Counted(rows[y]) \in Nat
      BY <3>2, SumsNat
    <3>6. it[s] = Counted(rows[y]) + it[Y]
      BY <2>1, <2>2
    <3> HIDE DEF X, Y, R
    <3>7. it[s] = Counted(rows[x]) + it[X]
      BY <3>4, <3>5, <3>6
    <3> QED
      BY <3>7 DEF X
  <2> QED
    BY <2>3, <2>4
<1>2. \A s \in SUBSET S : s \in P
  <2> HIDE DEF P
  <2> QED
    BY <1>1, Gather
<1> QED
  BY <1>2

\* Two sums over rows that count alike agree.
LEMMA SumsAgree ==
    ASSUME NEW it, NEW rows, NEW S, Sums(it, rows, S),
           NEW jt, NEW rows2, NEW T, Sums(jt, rows2, T),
           NEW U \in SUBSET (S \cap T), IsFiniteSet(U),
           \A x \in U : Counted(rows[x]) = Counted(rows2[x])
    PROVE  it[U] = jt[U]
<1> DEFINE P == {s \in SUBSET U : it[s] = jt[s]}
<1>1. ASSUME NEW s \in SUBSET U, \A t \in SUBSET s : t # s => t \in P PROVE s \in P
  <2>0. s \in SUBSET S /\ s \in SUBSET T
    OBVIOUS
  <2>1. CASE s = {}
    BY <2>1, SumsAre
  <2>2. CASE s # {}
    <3>1. First(s) \in s /\ it[s] = Counted(rows[First(s)]) + it[s \ {First(s)}]
      BY <2>0, <2>2, SumsAre
    <3>2. jt[s] = Counted(rows2[First(s)]) + jt[s \ {First(s)}]
      BY <2>0, <2>2, SumsAre
    <3>3. PICK x \in s : x = First(s)
      BY <3>1
    <3>4. s \ {x} \in SUBSET s /\ s \ {x} # s
      OBVIOUS
    <3>5. it[s \ {x}] = jt[s \ {x}] /\ Counted(rows[x]) = Counted(rows2[x])
      BY <1>1, <3>4
    <3> QED
      BY <3>1, <3>2, <3>3, <3>5
  <2> QED
    BY <2>1, <2>2
<1>2. \A s \in SUBSET U : s \in P
  <2> HIDE DEF P
  <2> QED
    BY <1>1, Gather
<1> QED
  BY <1>2

\* Every finite set of rows can be added up.
LEMMA SumsExist ==
    ASSUME NEW rows, NEW S, IsFiniteSet(S)
    PROVE  \E it : Sums(it, rows, S)
<1> DEFINE P == {s \in SUBSET S : \E it : Sums(it, rows, s)}
           val(t) == (CHOOSE it : Sums(it, rows, t))[t]
<1>1. ASSUME NEW s \in SUBSET S, \A t \in SUBSET s : t # s => t \in P PROVE s \in P
  <2> DEFINE sum(t) == Counted(rows[First(t)]) + val(t \ {First(t)})
             g == [t \in SUBSET s |-> IF t = {} THEN 0 ELSE IF t = s THEN sum(s) ELSE val(t)]
  <2>1. \A t \in SUBSET s : t # {} => First(t) \in t
    BY DEF First
  <2>2. ASSUME NEW t \in SUBSET s, t # s, t # {} PROVE val(t) = sum(t)
    <3>1. PICK x \in t : x = First(t)
      BY <2>1, <2>2
    <3>2. t \in P /\ t \ {x} \in P
      BY <1>1, <2>2
    <3> DEFINE it == CHOOSE f : Sums(f, rows, t)
               jt == CHOOSE f : Sums(f, rows, t \ {x})
    <3>3. Sums(it, rows, t) /\ Sums(jt, rows, t \ {x})
      BY <3>2
    <3>4. val(t) = it[t] /\ val(t \ {x}) = jt[t \ {x}]
      OBVIOUS
    <3>5. IsFiniteSet(t \ {x}) /\ t \ {x} \in SUBSET (t \cap (t \ {x})) /\ t \in SUBSET t
      BY FS_Subset
    <3> HIDE DEF it, jt, val
    <3>6. it[t \ {x}] = jt[t \ {x}]
      BY <3>3, <3>5, SumsAgree
    <3>7. it[t] = Counted(rows[x]) + it[t \ {x}]
      BY <2>2, <3>1, <3>3, <3>5, SumsAre
    <3> QED
      BY <3>1, <3>4, <3>6, <3>7
  <2>3. ASSUME NEW t \in SUBSET s, t # {}, NEW x \in t, x = First(t)
        PROVE  g[t] = Counted(rows[x]) + g[t \ {x}]
    <3>1. t \ {x} \in SUBSET s /\ t \ {x} # s
      OBVIOUS
    <3>2. g[t] = sum(t)
      <4> HIDE DEF sum, val
      <4> QED
        BY <2>2, <2>3
    <3>3. g[t \ {x}] = val(t \ {x})
      <4>1. CASE t \ {x} # {}
        <5> HIDE DEF val
        <5> QED
          BY <3>1, <4>1
      <4>2. CASE t \ {x} = {}
        <5>1. {} \in P
          BY <1>1, <3>1, <4>2
        <5>2. val({}) = 0
          BY <5>1, SumsAre
        <5> HIDE DEF val
        <5> QED
          BY <3>1, <4>2, <5>2
      <4> QED
        BY <4>1, <4>2
    <3> HIDE DEF val, g
    <3> QED
      BY <2>3, <3>2, <3>3
  <2>4. g[{}] = 0 /\ g = [t \in SUBSET s |-> g[t]]
    OBVIOUS
  <2> HIDE DEF g, sum, val
  <2>5. \A t \in SUBSET s :
          g[t] = IF t = {} THEN 0 ELSE Counted(rows[First(t)]) + g[t \ {First(t)}]
    BY <2>1, <2>3, <2>4
  <2>6. g = [t \in SUBSET s |->
               IF t = {} THEN 0 ELSE Counted(rows[First(t)]) + g[t \ {First(t)}]]
    BY <2>4, <2>5
  <2>7. Sums(g, rows, s)
    BY <2>6 DEF Sums, First
  <2> QED
    BY <2>7
<1>2. \A s \in SUBSET S : s \in P
  <2> HIDE DEF P
  <2> QED
    BY <1>1, Gather
<1>3. S \in SUBSET S
  OBVIOUS
<1> QED
  BY <1>2, <1>3

LEMMA UsedIs ==
    ASSUME NEW rows, NEW S, IsFiniteSet(S)
    PROVE  \E it : Sums(it, rows, S) /\ Used(rows, S) = it[S]
<1> DEFINE it == CHOOSE f : Sums(f, rows, S)
<1>1. Sums(it, rows, S)
  BY SumsExist
<1>2. Used(rows, S) = it[S]
  BY DEF Used, MapThenSumSet, MapThenFoldSet, Sums
<1> QED
  BY <1>1, <1>2

\* What Used(rows, S) is, as far as capacity goes: a number; the bytes of one
\* row and of the rest; the same for rows that count alike.
LEMMA UsedNat ==
    ASSUME NEW rows, NEW S, IsFiniteSet(S), \A x \in S : Counted(rows[x]) \in Nat
    PROVE  Used(rows, S) \in Nat
<1>1. S \in SUBSET S
  OBVIOUS
<1> QED
  BY <1>1, UsedIs, SumsNat

LEMMA UsedSplit ==
    ASSUME NEW rows, NEW S, IsFiniteSet(S), \A x \in S : Counted(rows[x]) \in Nat, NEW b \in S
    PROVE  Used(rows, S) = Counted(rows[b]) + Used(rows, S \ {b})
<1>0. S \in SUBSET S /\ S \ {b} \in SUBSET (S \cap (S \ {b})) /\ IsFiniteSet(S \ {b})
  BY FS_Subset
<1>1. PICK it : Sums(it, rows, S) /\ Used(rows, S) = it[S]
  BY UsedIs
<1>2. PICK jt : Sums(jt, rows, S \ {b}) /\ Used(rows, S \ {b}) = jt[S \ {b}]
  BY <1>0, UsedIs
<1>3. it[S] = Counted(rows[b]) + it[S \ {b}]
  BY <1>0, <1>1, SumsSplit
<1>4. it[S \ {b}] = jt[S \ {b}]
  BY <1>0, <1>1, <1>2, SumsAgree
<1> QED
  BY <1>1, <1>2, <1>3, <1>4

LEMMA UsedSame ==
    ASSUME NEW rows, NEW rows2, NEW S, IsFiniteSet(S),
           \A x \in S : Counted(rows[x]) = Counted(rows2[x])
    PROVE  Used(rows, S) = Used(rows2, S)
<1>0. S \in SUBSET (S \cap S)
  OBVIOUS
<1>1. PICK it : Sums(it, rows, S) /\ Used(rows, S) = it[S]
  BY UsedIs
<1>2. PICK jt : Sums(jt, rows2, S) /\ Used(rows2, S) = jt[S]
  BY UsedIs
<1> QED
  BY <1>0, <1>1, <1>2, SumsAgree

(* ----------------------- one scope, one row ---------------------------- *)

\* One scope before and after a step that touches one row b: unless b stays
\* with fewer bytes or is new and fits, nothing grows.
LEMMA ScopeStep ==
    ASSUME NEW old, NEW new, NEW S, NEW T, NEW b, NEW mc \in Limit, NEW mb \in Limit,
           IsFiniteSet(S), T \ {b} = S \ {b},
           \A x \in S : Counted(old[x]) \in Nat,
           \A x \in T : Counted(new[x]) \in Nat,
           \A x \in S \ {b} : Counted(new[x]) = Counted(old[x]),
           b \in T => \/ b \in S /\ Counted(new[b]) <= Counted(old[b])
                      \/ b \notin S /\ Fits(old, S, Counted(new[b]), mc, mb)
    PROVE  LET before == [count |-> Cardinality(S), bytes |-> Used(old, S)]
               after == [count |-> Cardinality(T), bytes |-> Used(new, T)]
           IN  Grows(before, after) => Within(after, mc, mb)
<1> DEFINE R == S \ {b}
           rest == Used(old, R)
<1>1. IsFiniteSet(R) /\ Cardinality(R) \in Nat
  BY FS_Subset, FS_CardinalityType
<1>2. rest \in Nat
  BY <1>1, UsedNat
<1>3. Used(new, R) = rest
  BY <1>1, UsedSame
<1>4. CASE b \in S
  <2>1. Cardinality(S) = Cardinality(R) + 1
    <3>1. Cardinality(R) = Cardinality(S) - 1 /\ Cardinality(S) \in Nat
      BY <1>4, FS_RemoveElement, FS_CardinalityType
    <3> QED
      BY <3>1
  <2>2. Used(old, S) = Counted(old[b]) + rest /\ Counted(old[b]) \in Nat
    BY <1>4, UsedSplit
  <2>3. CASE b \notin T
    <3>1. T = R
      BY <2>3
    <3> HIDE DEF R, rest
    <3>2. ~(Cardinality(R) > Cardinality(S)) /\ ~(rest > Used(old, S))
      BY <1>1, <1>2, <2>1, <2>2
    <3> QED
      BY <1>3, <3>1, <3>2 DEF Grows
  <2>4. CASE b \in T
    <3>1. T = S
      BY <1>4, <2>4
    <3>2. Used(new, T) = Counted(new[b]) + rest
      BY <1>3, <2>4, <3>1, UsedSplit
    <3>3. Counted(new[b]) <= Counted(old[b]) /\ Counted(new[b]) \in Nat
      BY <1>4, <2>4
    <3> HIDE DEF R, rest
    <3>4. ~(Used(new, T) > Used(old, S)) /\ ~(Cardinality(T) > Cardinality(S))
      BY <1>1, <1>2, <2>1, <2>2, <3>1, <3>2, <3>3
    <3> QED
      BY <3>4 DEF Grows
  <2> QED
    BY <2>3, <2>4
<1>5. CASE b \notin S
  <2>1. R = S
    BY <1>5
  <2>2. CASE b \notin T
    <3>1. T = S
      BY <1>5, <2>2
    <3>2. ~(Cardinality(T) > Cardinality(S)) /\ ~(Used(new, T) > Used(old, S))
      <4> HIDE DEF R, rest
      <4> QED
        BY <1>1, <1>2, <1>3, <2>1, <3>1 DEF rest
    <3> QED
      BY <3>2 DEF Grows
  <2>3. CASE b \in T
    <3>1. T \ {b} = S /\ IsFiniteSet(T) /\ T = S \cup {b}
      <4>1. T = S \cup {b}
        BY <1>5, <2>3
      <4> QED
        BY <1>5, <4>1, FS_AddElement
    <3>2. Cardinality(T) = Cardinality(S) + 1
      BY <1>5, <3>1, FS_AddElement
    <3>3. Used(new, T) = Counted(new[b]) + Used(new, S)
      BY <2>3, <3>1, UsedSplit
    <3>4. Used(new, S) = Used(old, S)
      BY <1>3, <2>1
    <3>5. Counted(new[b]) \in Nat /\ Fits(old, S, Counted(new[b]), mc, mb)
      BY <1>5, <2>3
    <3>6. Used(old, S) \in Nat /\ Cardinality(S) \in Nat
      BY <1>1, <1>2, <2>1
    <3>7. mc = NoLimit \/ Cardinality(T) <= mc
      BY <3>2, <3>5, <3>6 DEF Fits, Limit, NoLimit
    <3>8. mb = NoLimit \/ Used(new, T) <= mb
      BY <3>3, <3>4, <3>5, <3>6 DEF Fits, Limit, NoLimit
    <3> QED
      BY <3>7, <3>8 DEF Within
  <2> QED
    BY <2>2, <2>3
<1> QED
  BY <1>4, <1>5

(* -------------- what a step may do to what is counted ---------------- *)

\* Everything that a limit or a completion depends on.
ChargeKept(a) ==
    LET row == assets[a]  new == assets'[a] IN
    /\ new.status = row.status /\ new.event = row.event /\ new.session = row.session
    /\ new.class = row.class /\ new.expected = row.expected /\ new.size = row.size

\* Nobody whose label stays relies on the row.
Alone(b) == \A q \in Actor : Holding(q) /\ pc'[q] = pc[q] => loc[q].at # b

\* A reservation, a completion, a demotion and a removal.
Charged(b) ==
    LET new == assets'[b] IN
    /\ assets[b].status = "unused" /\ new.status = "pending"
    /\ new.event \in Event /\ new.session \in Session
    /\ sessions[new.session].event = new.event
    /\ reserve(assets, events[new.event].limits, new.event, new.session, new.class,
               new.expected, SessionMaxAssets, SessionMaxBytes)
Settled(b) ==
    LET row == assets[b]  new == assets'[b] IN
    /\ row.status = "pending" /\ new.status = "ready" /\ Alone(b)
    /\ new.event = row.event /\ new.session = row.session /\ new.expected = row.expected
    /\ new.size <= row.expected
    /\ \/ new.class = row.class
       \/ /\ row.class = None
          /\ reserveClass(assets, events[row.event].limits, row.event, new.class, new.size)
Reopened(b) ==
    LET row == assets[b]  new == assets'[b] IN
    /\ HasRow(b) /\ new.status = "pending" /\ events[row.event].deleting
    /\ new.event = row.event /\ new.session = row.session
    /\ new.class = row.class /\ new.expected = row.expected
Released(b) == RowRemoved(b) /\ Alone(b)

ChargeStep(b) ==
    /\ \A a \in Asset : a # b => assets'[a] = assets[a]
    /\ UNCHANGED <<events, sessions>>
    /\ Charged(b) \/ Settled(b) \/ Reopened(b) \/ Released(b)

\* Who holds a row and moves on leaves it to nobody.
LEMMA HolderLeaves ==
    ASSUME IInv, NEW p \in Actor, Holding(p), pc'[p] # pc[p]
    PROVE  Alone(loc[p].at)
BY HolderFacts DEF Alone, NoOtherHolder

\* The transactions of Upload, Authorize and Complete, and of a preparation.
LEMMA ServeCharges ==
    ASSUME IInv, MarksOK, CapacityOK, NEW p \in Proc,
           \/ \E a \in Asset : UploadReserve(p, a) \/ PrepareReserve(p, a)
           \/ UploadFinish(p) \/ AuthorizeSave(p) \/ CompleteCommit(p)
    PROVE  (\A a \in Asset : ChargeKept(a)) \/ \E b \in Asset : ChargeStep(b)
<1>1. assets \in [Asset -> AssetRow] /\ p \in Actor
  BY DEF IInv, TypeOK, Actor
<1>2. CASE UNCHANGED assets
  BY <1>2 DEF ChargeKept
<1>3. ASSUME NEW b \in Asset, UploadReserve(p, b) PROVE ChargeStep(b)
  <2>1. /\ assets'[b] = [NoAsset EXCEPT !.status = "pending", !.event = loc[p].ev,
                            !.session = loc[p].session, !.backend = "local",
                            !.expected = UploadExpected(p), !.class = ClassOf(loc[p].body)]
        /\ \A a \in Asset : a # b => assets'[a] = assets[a]
    BY <1>1, <1>3 DEF UploadReserve
  <2>2. /\ assets'[b].status = "pending" /\ assets'[b].event = loc[p].ev
        /\ assets'[b].session = loc[p].session /\ assets'[b].expected = UploadExpected(p)
        /\ assets'[b].class = ClassOf(loc[p].body)
    BY <2>1 DEF NoAsset
  <2>3. /\ UNCHANGED <<events, sessions>> /\ assets[b].status = "unused"
        /\ loc[p].ev \in Event /\ loc[p].session \in Session
    BY <1>3 DEF UploadReserve, IInv, LocalsOK, HandlerOK
  <2>4. UploadAdmits(p)
    BY <1>3 DEF UploadReserve
  <2> QED
    BY <2>1, <2>2, <2>3, <2>4 DEF UploadAdmits, checkSession, ChargeStep, Charged
<1>4. ASSUME NEW b \in Asset, PrepareReserve(p, b), assets' # assets PROVE ChargeStep(b)
  <2>1. /\ assets'[b] = [NoAsset EXCEPT !.status = "pending", !.event = loc[p].ev,
                            !.session = loc[p].session, !.backend = "s3",
                            !.expected = loc[p].size, !.class = loc[p].class,
                            !.request = loc[p].request]
        /\ \A a \in Asset : a # b => assets'[a] = assets[a]
    BY <1>1, <1>4 DEF PrepareReserve
  <2>2. /\ assets'[b].status = "pending" /\ assets'[b].event = loc[p].ev
        /\ assets'[b].session = loc[p].session /\ assets'[b].expected = loc[p].size
        /\ assets'[b].class = loc[p].class
    BY <2>1 DEF NoAsset
  <2>3. /\ UNCHANGED <<events, sessions>> /\ assets[b].status = "unused"
        /\ loc[p].ev \in Event /\ loc[p].session \in Session
    BY <1>4 DEF PrepareReserve, RLockReturns, IInv, LocalsOK, HandlerOK
  <2>4. PrepareAdmits(p) /\ checkSession(loc[p].session, loc[p].ev)
    BY <1>4 DEF PrepareReserve
  <2> QED
    BY <2>1, <2>2, <2>3, <2>4 DEF PrepareAdmits, checkSession, ChargeStep, Charged
<1>5. CASE UploadFinish(p) \/ AuthorizeSave(p) \/ CompleteCommit(p)
  <2>1. Holding(p)
    BY <1>5 DEF UploadFinish, AuthorizeSave, CompleteCommit, Holding, UploadPC, StripedPC, VerifyPC
  <2>2. PICK b \in Asset : b = loc[p].at
    BY <1>1, <2>1, HolderFacts
  <2>3. /\ assets[b].event = loc[p].ev /\ assets[b] \in AssetRow /\ assets[b].status = "pending"
        /\ pc[p] \in UploadPC => assets[b].class = ClassOf(loc[p].body)
    <3>1. RowOK(p) /\ pc[p] # "rm_read"
      BY <1>1, <1>5, <2>1, HolderFacts DEF UploadFinish, AuthorizeSave, CompleteCommit
    <3> QED
      BY <1>1, <2>2, <3>1 DEF RowOK
  <2>4. SizesOK(p)
    BY <1>1 DEF CapacityOK
  <2>5. CASE UploadFinish(p)
    <3>1. /\ assets'[b] = [assets[b] EXCEPT !.status = "ready", !.size = loc[p].body.size]
          /\ \A a \in Asset : a # b => assets'[a] = assets[a]
          /\ UNCHANGED <<events, sessions>>
      BY <1>1, <2>2, <2>5 DEF UploadFinish
    <3>2. /\ assets'[b].status = "ready" /\ assets'[b].event = assets[b].event
          /\ assets'[b].session = assets[b].session /\ assets'[b].expected = assets[b].expected
          /\ assets'[b].class = assets[b].class /\ assets'[b].size = loc[p].body.size
      BY <2>3, <3>1 DEF AssetRow
    <3>3. loc[p].body.size <= assets[b].expected
      BY <2>2, <2>4, <2>5 DEF SizesOK, UploadFinish
    <3>4. pc'[p] \in {"idle", "rm_read"} /\ pc[p] = "u_finish"
      BY <1>1, <2>5, ReturnFrame DEF UploadFinish, Goto, IInv, TypeOK
    <3>5. Alone(b)
      BY <1>1, <2>1, <2>2, <3>4, HolderLeaves
    <3> QED
      BY <2>3, <3>1, <3>2, <3>3, <3>5 DEF ChargeStep, Settled
  <2>6. CASE CompleteCommit(p)
    <3>1. /\ assets'[b] = [assets[b] EXCEPT !.status = "ready", !.size = loc[p].body.size,
                              !.class = ClassOf(loc[p].body)]
          /\ \A a \in Asset : a # b => assets'[a] = assets[a]
          /\ UNCHANGED <<events, sessions>>
      BY <1>1, <2>2, <2>6 DEF CompleteCommit
    <3>2. /\ assets'[b].status = "ready" /\ assets'[b].event = assets[b].event
          /\ assets'[b].session = assets[b].session /\ assets'[b].expected = assets[b].expected
          /\ assets'[b].class = ClassOf(loc[p].body) /\ assets'[b].size = loc[p].body.size
      BY <2>3, <3>1 DEF AssetRow
    <3>3. /\ loc[p].body.size = assets[b].expected /\ loc[p].class = assets[b].class
          /\ loc[p].class \in {None, ClassOf(loc[p].body)}
      BY <2>2, <2>4, <2>6 DEF SizesOK, CompleteCommit, VerifyPC
    <3>4. pc'[p] = "idle" /\ pc[p] = "f_commit"
      BY <1>1, <2>6, ReturnFrame DEF CompleteCommit, IInv
    <3>5. Alone(b)
      BY <1>1, <2>1, <2>2, <3>4, HolderLeaves
    <3>6. loc[p].body.size <= assets[b].expected
      <4>1. assets[b].expected \in Nat
        BY <2>3 DEF AssetRow
      <4> QED
        BY <3>3, <4>1
    <3>7. loc[p].class = None =>
             reserveClass(assets, events[assets[b].event].limits, assets[b].event,
                          ClassOf(loc[p].body), loc[p].body.size)
      BY <2>3, <2>6 DEF CompleteCommit, CompleteAdmits
    <3> QED
      BY <2>3, <3>1, <3>2, <3>3, <3>5, <3>6, <3>7 DEF ChargeStep, Settled
  <2>7. CASE AuthorizeSave(p)
    <3>1. /\ assets'[b] = [assets[b] EXCEPT !.stale = FALSE]
          /\ \A a \in Asset : a # b => assets'[a] = assets[a]
      BY <1>1, <2>2, <2>3, <2>7 DEF AuthorizeSave
    <3>2. ChargeKept(b)
      BY <2>3, <3>1 DEF AssetRow, ChargeKept
    <3> QED
      BY <3>1, <3>2 DEF ChargeKept
  <2> QED
    BY <1>5, <2>2, <2>5, <2>6, <2>7
<1> QED
  BY <1>2, <1>3, <1>4, <1>5

\* Every step charges, settles, reopens or releases one row, or none.
LEMMA Charges ==
    ASSUME IInv, MarksOK, CapacityOK, [Next]_vars
    PROVE  (\A a \in Asset : ChargeKept(a)) \/ \E b \in Asset : ChargeStep(b)
<1> USE DEF dbVars, storeVars
<1>1. assets \in [Asset -> AssetRow]
  BY DEF IInv, TypeOK
<1>2. CASE UNCHANGED assets
  BY <1>2 DEF ChargeKept
<1>3. ASSUME NEW p \in Proc, NEW b \in Asset, DeleteDemote(p, b) PROVE ChargeStep(b)
  <2>1. b \in OfEvent(assets, loc[p].ev) /\ Deleting(p)
    BY <1>3 DEF DeleteDemote, Deleting
  <2>2. /\ HasRow(b) /\ events[assets[b].event].deleting /\ assets[b] \in AssetRow
    BY <1>1, <2>1 DEF OfEvent, Live, HasRow, MarksOK
  <2>3. /\ assets'[b] = [assets[b] EXCEPT !.status = "pending"]
        /\ \A a \in Asset : a # b => assets'[a] = assets[a]
        /\ UNCHANGED <<events, sessions>>
    BY <1>1, <1>3 DEF DeleteDemote, Demoted
  <2>4. /\ assets'[b].status = "pending" /\ assets'[b].event = assets[b].event
        /\ assets'[b].session = assets[b].session /\ assets'[b].expected = assets[b].expected
        /\ assets'[b].class = assets[b].class
    BY <2>2, <2>3 DEF AssetRow
  <2> QED
    BY <2>2, <2>3, <2>4 DEF ChargeStep, Reopened
<1>4. ASSUME NEW p \in Proc, DeleteDrop(p) PROVE UNCHANGED assets
  <2>1. OfEvent(assets, loc[p].ev) = {}
    BY <1>4 DEF DeleteDrop, IInv, EmptiedOK, Actor
  <2> QED
    BY <1>1, <1>4, <2>1 DEF DeleteDrop
<1>5. ASSUME NEW p \in Actor, RemoveRow(p), assets' # assets
      PROVE  \E b \in Asset : ChargeStep(b)
  <2>1. PICK b \in Asset : b = loc[p].at
    BY <1>5, LabelTypes DEF RemoveRow, IInv, Holding, RemovalPC
  <2>2. /\ assets'[b] = Gone(assets[b]) /\ assets[b].status = "pending"
        /\ \A a \in Asset : a # b => assets'[a] = assets[a]
        /\ UNCHANGED <<events, sessions>>
    BY <1>1, <1>5, <2>1 DEF RemoveRow
  <2>3. assets'[b].status = "gone"
    BY <2>2 DEF Gone, NoAsset
  <2>4. Holding(p) /\ pc'[p] \in {"idle", "c_next", "d_pick"} /\ pc[p] = "rm_row"
    BY <1>5, RemoveReturnsFrame DEF RemoveRow, Holding, RemovalPC, IInv
  <2>5. Alone(b)
    BY <2>1, <2>4, HolderLeaves
  <2> QED
    BY <2>2, <2>3, <2>5 DEF ChargeStep, Released, RowRemoved
<1>6. ASSUME NEW b \in Asset, AssetAges(b) PROVE \A a \in Asset : ChargeKept(a)
  <2>1. /\ assets'[b] = [assets[b] EXCEPT !.stale = TRUE]
        /\ \A a \in Asset : a # b => assets'[a] = assets[a]
    BY <1>1, <1>6 DEF AssetAges
  <2>2. ChargeKept(b)
    BY <1>1, <2>1 DEF AssetRow, ChargeKept
  <2> QED
    BY <2>1, <2>2 DEF ChargeKept
<1>7. ASSUME NEW p \in Proc, Accept(p) PROVE UNCHANGED assets
  BY <1>7 DEF Accept, SessionBegin, SnapshotBegin, DeleteBegin, UploadBegin, PrepareBegin,
              DirectBegin, BeginOpen
<1>8. ASSUME Cleanup PROVE UNCHANGED assets
  BY <1>8 DEF Cleanup, CleanupStart, CleanupTake, CleanupSkip, RetiredStart, RetiredDelete,
              RetiredSkip, RetiredMark, RetiredDone, CleanupAborts, FailAt
<1>9. ASSUME NEW p \in Actor, removeAttempt(p) PROVE UNCHANGED assets \/ RemoveRow(p)
  BY <1>9 DEF removeAttempt, RemoveRead, RemoveRetire, RemoveObject, RemoveFails
<1>10. ASSUME Environment PROVE UNCHANGED assets \/ \E b \in Asset : AssetAges(b)
  BY <1>10 DEF Environment, CreateEvent, UpdateEvent, EventExpires, SessionExpires, RetiredAges,
               GuestPut, Restart
<1>11. ASSUME NEW p \in Proc, Serve(p)
       PROVE  \/ UNCHANGED assets
              \/ \E b \in Asset : UploadReserve(p, b) \/ PrepareReserve(p, b) \/ DeleteDemote(p, b)
              \/ UploadFinish(p) \/ AuthorizeSave(p) \/ CompleteCommit(p) \/ DeleteDrop(p)
  BY <1>11 DEF Serve, CreateSession, SessionCreate, Upload, UploadLock, UploadOpen, UploadWrite,
         UploadFinishFails, Snapshot, SnapshotList, SnapshotClose, Prepare, DirectLock,
         Authorize, AuthorizeLoad, Complete, CompleteLoad, CompleteHead, CompletePrefix,
         CompleteReject, DeleteEvent, DeleteMark, DeleteEmpty, FailAt
<1>12. CASE UNCHANGED vars
  BY <1>2, <1>12 DEF vars
<1>13. ASSUME NEW p \in Proc, Serve(p)
       PROVE  (\A a \in Asset : ChargeKept(a)) \/ \E b \in Asset : ChargeStep(b)
  BY <1>2, <1>3, <1>4, <1>11, <1>13, ServeCharges
<1>14. ASSUME NEW p \in Actor, removeAttempt(p)
       PROVE  (\A a \in Asset : ChargeKept(a)) \/ \E b \in Asset : ChargeStep(b)
  BY <1>2, <1>5, <1>9, <1>14
<1> QED
  BY <1>2, <1>6, <1>7, <1>8, <1>10, <1>12, <1>13, <1>14 DEF Next

(* -------------- what capacity relies on, and what it is for ------------ *)

\* A session keeps its event as long as a row belongs to it.
LEMMA SessionSteps ==
    ASSUME IInv, CapacityOK, [Next]_vars, NEW s \in Session
    PROVE  /\ sessions'[s].event = sessions[s].event \/ OfSession(assets, s) = {}
           /\ sessions'[s].state = "unused" => sessions'[s] = sessions[s]
<1> USE DEF dbVars, storeVars
<1>1. sessions \in [Session -> SessionRow] /\ assets \in [Asset -> AssetRow]
  BY DEF IInv, TypeOK
<1>2. CASE UNCHANGED sessions
  BY <1>2
<1>3. ASSUME NEW p \in Proc, NEW t \in Session, SessionCreate(p, t)
      PROVE  /\ sessions'[s].event = sessions[s].event \/ OfSession(assets, s) = {}
             /\ sessions'[s].state = "unused" => sessions'[s] = sessions[s]
  <2>1. sessions[t].state = "unused" /\ sessions[t].event = None
    BY <1>3 DEF SessionCreate, CapacityOK, SessionsOK
  <2>2. /\ sessions'[t] = [state |-> "live", event |-> loc[p].ev]
        /\ s # t => sessions'[s] = sessions[s]
    BY <1>1, <1>3 DEF SessionCreate
  <2>3. OfSession(assets, t) = {}
    <3> SUFFICES ASSUME NEW a \in OfSession(assets, t) PROVE FALSE
      OBVIOUS
    <3>1. a \in Asset /\ HasRow(a) /\ assets[a].session = t
      BY <1>1 DEF OfSession, Live, HasRow
    <3>2. assets[a].event = None
      BY <2>1, <3>1 DEF CapacityOK, SessionsOK
    <3>3. assets[a].event \in Event
      BY <3>1 DEF IInv, TablesOK, KeyOK
    <3> QED
      BY <3>2, <3>3, IdsAssumption
  <2> QED
    BY <2>2, <2>3
<1>4. ASSUME NEW p \in Proc, DeleteDrop(p)
      PROVE  /\ sessions'[s].event = sessions[s].event \/ OfSession(assets, s) = {}
             /\ sessions'[s].state = "unused" => sessions'[s] = sessions[s]
  <2>1. OfEvent(assets, loc[p].ev) = {}
    BY <1>4 DEF DeleteDrop, IInv, EmptiedOK, Actor
  <2>2. sessions'[s] = IF sessions[s].event = loc[p].ev THEN [state |-> "gone", event |-> None]
                       ELSE sessions[s]
    BY <1>4 DEF DeleteDrop
  <2>3. ASSUME sessions[s].event = loc[p].ev PROVE OfSession(assets, s) = {}
    BY <1>1, <2>1, <2>3 DEF CapacityOK, SessionsOK, OfSession, OfEvent, Live, HasRow
  <2> QED
    BY <2>2, <2>3
<1>5. ASSUME CleanupStart
      PROVE  /\ sessions'[s].event = sessions[s].event \/ OfSession(assets, s) = {}
             /\ sessions'[s].state = "unused" => sessions'[s] = sessions[s]
  BY <1>5 DEF CleanupStart
<1>6. ASSUME NEW t \in Session, SessionExpires(t)
      PROVE  /\ sessions'[s].event = sessions[s].event
             /\ sessions'[s].state = "unused" => sessions'[s] = sessions[s]
  <2>1. sessions'[s] = IF s = t THEN [sessions[s] EXCEPT !.state = "expired"] ELSE sessions[s]
    BY <1>1, <1>6 DEF SessionExpires
  <2>2. sessions[s] \in SessionRow
    BY <1>1
  <2> QED
    BY <2>1, <2>2 DEF SessionRow
<1>7. ASSUME NEW p \in Proc, Accept(p) PROVE UNCHANGED sessions
  BY <1>7 DEF Accept, SessionBegin, SnapshotBegin, DeleteBegin, UploadBegin, PrepareBegin,
              DirectBegin, BeginOpen
<1>8. ASSUME Cleanup PROVE UNCHANGED sessions \/ CleanupStart
  BY <1>8 DEF Cleanup, CleanupTake, CleanupSkip, RetiredStart, RetiredDelete,
              RetiredSkip, RetiredMark, RetiredDone, CleanupAborts, FailAt
<1>9. ASSUME NEW p \in Actor, removeAttempt(p) PROVE UNCHANGED sessions
  BY <1>9 DEF removeAttempt, RemoveRead, RemoveRetire, RemoveObject, RemoveRow, RemoveFails
<1>10. ASSUME Environment PROVE UNCHANGED sessions \/ \E t \in Session : SessionExpires(t)
  BY <1>10 DEF Environment, CreateEvent, UpdateEvent, EventExpires, AssetAges, RetiredAges,
               GuestPut, Restart
<1>11. ASSUME NEW p \in Proc, Serve(p)
       PROVE  UNCHANGED sessions \/ (\E t \in Session : SessionCreate(p, t)) \/ DeleteDrop(p)
  BY <1>11 DEF Serve, CreateSession, Upload, UploadLock, UploadReserve, UploadOpen, UploadWrite,
         UploadFinish, UploadFinishFails, Snapshot, SnapshotList, SnapshotClose, Prepare,
         PrepareReserve, DirectLock, Authorize, AuthorizeLoad, AuthorizeSave, Complete,
         CompleteLoad, CompleteHead, CompletePrefix, CompleteReject, CompleteCommit,
         DeleteEvent, DeleteMark, DeleteDemote, DeleteEmpty, FailAt
<1>12. CASE UNCHANGED vars
  BY <1>2, <1>12 DEF vars
<1> QED
  BY <1>2, <1>3, <1>4, <1>5, <1>6, <1>7, <1>8, <1>9, <1>10, <1>11, <1>12 DEF Next

\* The labels at which SizesOK says something.
Sized(l) == l \in VerifyPC \cup {"u_finish"}

\* Only four steps bring a goroutine to such a label.
LEMMA SizedSteps ==
    ASSUME IInv, CapacityOK, [Next]_vars, NEW q \in Actor
    PROVE  ~Sized(pc'[q]) \/ (pc'[q] = pc[q] /\ loc'[q] = loc[q]) \/ SizesOK(q)'
<1> DEFINE Goal == ~Sized(pc'[q]) \/ (pc'[q] = pc[q] /\ loc'[q] = loc[q]) \/ SizesOK(q)'
<1>0. SUFFICES Goal
  OBVIOUS
<1> USE DEF dbVars, storeVars
<1>1. /\ pc \in [Actor -> HandlerPC \cup CleanerPC \cup RemovalPC]
      /\ loc \in [Actor -> Local] /\ assets \in [Asset -> AssetRow]
  BY DEF IInv, TypeOK
<1>2. CASE UNCHANGED <<pc, loc>>
  BY <1>2
<1>3. ASSUME pc'[q] \in {"idle", "rlock", "stripe", "u_reserve", "u_open", "u_write", "a_sign",
                         "s_open", "d_lock", "d_pick", "d_drop", "c_next", "r_next", "r_mark",
                         "rm_read", "rm_retire", "rm_object", "rm_row"}
      PROVE  Goal
  BY <1>3 DEF Sized, VerifyPC
<1> HIDE DEF Goal
<1>4. ASSUME NEW p \in Actor, OnlyActor(p), q # p PROVE Goal
  BY <1>4 DEF OnlyActor, Goal
<1>5. ASSUME NEW labels, FailAt(q, labels) PROVE Goal
  BY <1>3, <1>5, FailFrame DEF IInv
<1>6. ASSUME NEW p \in Proc, Accept(p) PROVE Goal
  <2>1. OnlyActor(p) /\ p \in Actor
    BY <1>6, AcceptLocals DEF IInv, Actor
  <2>2. Goto(p, "rlock") \/ Goto(p, "d_lock")
    BY <1>6 DEF Accept, SessionBegin, SnapshotBegin, DeleteBegin, UploadBegin, PrepareBegin,
                DirectBegin, BeginOpen
  <2>3. pc'[p] \in {"rlock", "d_lock"}
    BY <1>1, <2>1, <2>2 DEF Goto
  <2> QED
    BY <1>3, <1>4, <2>1, <2>3
<1>7. ASSUME NEW p \in Actor, removeAttempt(p) PROVE Goal
  <2>1. OnlyActor(p)
    BY <1>7, RemovalFrame DEF IInv
  <2>2. (\E ok : RemoveReturns(p, ok)) \/ (\E l \in RemovalPC : Goto(p, l))
    BY <1>7 DEF removeAttempt, RemoveRead, RemoveRetire, RemoveObject, RemoveRow, RemoveFails,
                AfterRead, RemovalPC
  <2>3. pc'[p] \in RemovalPC \cup {"idle", "c_next", "d_pick"}
    BY <1>1, <2>2, RemoveReturnsFrame DEF Goto, IInv
  <2> QED
    BY <1>3, <1>4, <2>1, <2>3 DEF RemovalPC
<1>8. CASE Cleanup
  <2>1. OnlyActor(Cleaner) /\ CleanerOK' /\ Cleaner \in Actor
    BY <1>8, CleanupLocals DEF IInv, Actor
  <2>2. pc'[Cleaner] \in CleanerPC \cup RemovalPC
    BY <2>1 DEF CleanerOK
  <2> QED
    BY <1>3, <1>4, <2>1, <2>2 DEF CleanerPC, RemovalPC
<1>9. CASE Environment
  <2>1. CASE Restart
    <3>1. pc'[q] = "idle"
      BY <2>1 DEF Restart
    <3> QED
      BY <1>3, <3>1
  <2>2. UNCHANGED <<pc, loc>> \/ Restart
    BY <1>9 DEF Environment, CreateEvent, UpdateEvent, EventExpires, SessionExpires, AssetAges,
                RetiredAges, GuestPut
  <2> QED
    BY <2>1, <2>2 DEF Goal
<1>10. ASSUME NEW p \in Proc, Serve(p) PROVE Goal
  <2>0. p \in Actor /\ OnlyActor(p)
    BY <1>10, UploadLocals, ReaderLocals, DirectLocals, DeleteLocals DEF Serve, IInv, Actor
  <2> SUFFICES ASSUME q = p PROVE Goal
    BY <1>4, <2>0
  <2>1. SizesOK(p) /\ loc[p] \in Local
    BY <1>1, <2>0 DEF CapacityOK
  <2>2. CASE UploadWrite(p)
    <3>1. loc' = loc /\ assets' = assets /\ pc[p] = "u_write"
      BY <2>2 DEF UploadWrite
    <3>2. \/ Goto(p, "rm_read")
          \/ Goto(p, "u_finish") /\ loc[p].body.size \in 1..assets[loc[p].at].expected
      BY <2>2 DEF UploadWrite
    <3>3. loc[p].body \in Bodies /\ loc[p].at \in Asset
      BY <3>1 DEF IInv, LocalsOK, HandlerOK, UploadPC
    <3>4. loc[p].body.size \in Nat /\ assets[loc[p].at].expected \in Nat
      BY <1>1, <3>3, SizesAssumption DEF AssetRow
    <3>5. \/ pc'[p] = "rm_read"
          \/ pc'[p] = "u_finish" /\ loc[p].body.size <= assets[loc[p].at].expected
      BY <1>1, <2>0, <3>2, <3>4 DEF Goto
    <3>6. CASE pc'[p] = "u_finish" /\ loc[p].body.size <= assets[loc[p].at].expected
      <4>1. SizesOK(p)'
        BY <3>1, <3>6 DEF SizesOK, VerifyPC
      <4> QED
        BY <4>1 DEF Goal
    <3> QED
      BY <1>3, <3>5, <3>6
  <2>3. CASE CompleteLoad(p)
    <3>1. /\ loc'[p] = [loc[p] EXCEPT !.size = assets[loc[p].at].expected,
                                     !.class = assets[loc[p].at].class]
          /\ pc'[p] = "f_head" /\ assets' = assets
      BY <1>1, <2>0, <2>3 DEF CompleteLoad, Goto
    <3>2. /\ loc'[p].size = assets[loc[p].at].expected
          /\ loc'[p].class = assets[loc[p].at].class /\ loc'[p].at = loc[p].at
      BY <2>1, <3>1 DEF Local
    <3>3. SizesOK(p)'
      BY <3>1, <3>2 DEF SizesOK
    <3> QED
      BY <3>3 DEF Goal
  <2>4. CASE CompleteHead(p)
    <3>1. /\ loc'[p] = [loc[p] EXCEPT !.body = objects[loc[p].at]]
          /\ pc[p] = "f_head" /\ assets' = assets
          /\ \/ pc'[p] = "f_prefix" /\ objects[loc[p].at].size = loc[p].size
             \/ pc'[p] = "f_reject"
      BY <1>1, <2>0, <2>4 DEF CompleteHead, Goto
    <3>2. /\ loc'[p].size = loc[p].size /\ loc'[p].class = loc[p].class /\ loc'[p].at = loc[p].at
          /\ loc'[p].body = objects[loc[p].at]
      BY <2>1, <3>1 DEF Local
    <3>3. loc[p].size = assets[loc[p].at].expected /\ loc[p].class = assets[loc[p].at].class
      BY <2>1, <3>1 DEF SizesOK, VerifyPC
    <3>4. SizesOK(p)'
      BY <3>1, <3>2, <3>3 DEF SizesOK
    <3> QED
      BY <3>4 DEF Goal
  <2>5. CASE CompletePrefix(p)
    <3>1. /\ loc' = loc /\ assets' = assets /\ pc[p] = "f_prefix"
          /\ \/ pc'[p] = "f_commit" /\ loc[p].class \in {None, ClassOf(loc[p].body)}
             \/ pc'[p] = "f_reject"
      BY <1>1, <2>0, <2>5 DEF CompletePrefix, Goto
    <3>2. /\ loc[p].size = assets[loc[p].at].expected /\ loc[p].class = assets[loc[p].at].class
          /\ loc[p].body.size = loc[p].size
      BY <2>1, <3>1 DEF SizesOK, VerifyPC
    <3>3. SizesOK(p)'
      BY <3>1, <3>2 DEF SizesOK
    <3> QED
      BY <3>3 DEF Goal
  <2>6. CASE Return(p)
    BY <1>3, <2>0, <2>6, ReturnFrame DEF IInv
  <2>7. ASSUME NEW l \in {"u_reserve", "u_open", "rm_read", "u_write", "s_open", "stripe", "a_sign",
                          "d_pick", "d_drop"}, Goto(p, l)
        PROVE  Goal
    <3>1. pc'[p] = l
      BY <1>1, <2>0, <2>7 DEF Goto
    <3> QED
      BY <1>3, <3>1
  <2>8. CASE pc[p] = "rlock" /\ UNCHANGED pc
    BY <1>3, <2>8
  <2>9. \/ UploadWrite(p) \/ CompleteLoad(p) \/ CompleteHead(p) \/ CompletePrefix(p)
        \/ Return(p) \/ (pc[p] = "rlock" /\ UNCHANGED pc)
        \/ \E l \in {"u_reserve", "u_open", "rm_read", "u_write", "s_open", "stripe", "a_sign",
                     "d_pick", "d_drop"} : Goto(p, l)
    <3>1. ASSUME CreateSession(p) \/ Snapshot(p) \/ DirectLock(p) \/ Authorize(p) \/ DeleteEvent(p)
          PROVE  Return(p) \/ \E l \in {"s_open", "stripe", "a_sign", "rm_read", "d_pick", "d_drop"} :
                                 Goto(p, l)
      BY <3>1 DEF CreateSession, SessionCreate, Snapshot, SnapshotList, SnapshotClose, DirectLock,
                  Authorize, AuthorizeLoad, AuthorizeSave, DeleteEvent, DeleteMark, DeleteDemote,
                  DeleteEmpty, DeleteDrop, FailAt
    <3>2. ASSUME Upload(p)
          PROVE  UploadWrite(p) \/ Return(p) \/ \E l \in {"u_reserve", "u_open", "rm_read", "u_write"} :
                                 Goto(p, l)
      BY <3>2 DEF Upload, UploadLock, UploadReserve, UploadOpen, UploadFinish, UploadFinishFails,
                  FailAt
    <3>3. ASSUME Prepare(p) PROVE Return(p) \/ (pc[p] = "rlock" /\ UNCHANGED pc)
      BY <3>3 DEF Prepare, PrepareReserve, PrepareThenAuthorize, RLockReturns, FailAt
    <3>4. ASSUME Complete(p)
          PROVE  CompleteLoad(p) \/ CompleteHead(p) \/ CompletePrefix(p) \/ Return(p)
      BY <3>4 DEF Complete, CompleteReject, CompleteCommit, FailAt
    <3> QED
      BY <1>10, <3>1, <3>2, <3>3, <3>4 DEF Serve
  <2> QED
    BY <2>2, <2>3, <2>4, <2>5, <2>6, <2>7, <2>8, <2>9
<1>11. CASE UNCHANGED vars
  BY <1>2, <1>11 DEF vars, Goal
<1> QED
  BY <1>6, <1>7, <1>8, <1>9, <1>10, <1>11 DEF Next

\* Every step keeps what capacity relies on.
LEMMA NextCapacity ==
    ASSUME IInv, IInv', MarksOK, CapacityOK, [Next]_vars
    PROVE  CapacityOK'
<1>1. /\ assets \in [Asset -> AssetRow] /\ assets' \in [Asset -> AssetRow]
      /\ sessions \in [Session -> SessionRow]
  BY DEF IInv, TypeOK
<1>2. (\A a \in Asset : ChargeKept(a)) \/ \E b \in Asset : ChargeStep(b)
  BY Charges
<1>3. IsFiniteSet(Live(assets))'
  <2>1. PICK b : Live(assets') \subseteq Live(assets) \cup {b}
    <3>1. CASE \A a \in Asset : ChargeKept(a)
      BY <1>1, <3>1 DEF ChargeKept, Live
    <3>2. ASSUME NEW b \in Asset, ChargeStep(b) PROVE Live(assets') \subseteq Live(assets) \cup {b}
      BY <1>1, <3>2 DEF ChargeStep, Live
    <3> QED
      BY <1>2, <3>1, <3>2
  <2>2. IsFiniteSet(Live(assets) \cup {b})
    BY FS_AddElement DEF CapacityOK
  <2> QED
    BY <2>1, <2>2, FS_Subset
<1>4. SessionsOK'
  <2>1. ASSUME NEW s \in Session, sessions'[s].state = "unused" PROVE sessions'[s].event = None
    BY <2>1, SessionSteps DEF CapacityOK, SessionsOK
  <2>2. ASSUME NEW a \in Asset, HasRow(a)'
        PROVE  assets'[a].session \in Session /\ sessions'[assets'[a].session].event = assets'[a].event
    <3>1. CASE HasRow(a) /\ assets'[a].session = assets[a].session /\ assets'[a].event = assets[a].event
      <4>1. assets[a].session \in Session /\ sessions[assets[a].session].event = assets[a].event
        BY <3>1 DEF CapacityOK, SessionsOK
      <4>2. a \in OfSession(assets, assets[a].session)
        BY <1>1, <3>1 DEF OfSession, Live, HasRow
      <4>3. sessions'[assets[a].session].event = sessions[assets[a].session].event
        BY <4>1, <4>2, SessionSteps
      <4> QED
        BY <3>1, <4>1, <4>3
    <3>2. CASE Charged(a) /\ UNCHANGED sessions
      BY <3>2 DEF Charged
    <3>3. CASE ChargeKept(a)
      BY <2>2, <3>1, <3>3 DEF ChargeKept, HasRow
    <3>4. ASSUME NEW b \in Asset, ChargeStep(b)
          PROVE  \/ ChargeKept(a) \/ (Charged(a) /\ UNCHANGED sessions)
                 \/ HasRow(a) /\ assets'[a].session = assets[a].session
                    /\ assets'[a].event = assets[a].event
      BY <2>2, <3>4 DEF ChargeStep, ChargeKept, Settled, Reopened, Released, RowRemoved, HasRow
    <3> QED
      BY <1>2, <3>1, <3>2, <3>3, <3>4
  <2> QED
    BY <2>1, <2>2 DEF SessionsOK
<1>5. ASSUME NEW q \in Actor PROVE SizesOK(q)'
  <2>1. CASE ~Sized(pc'[q])
    BY <2>1 DEF Sized, SizesOK, VerifyPC
  <2>2. CASE Sized(pc[q]) /\ pc'[q] = pc[q] /\ loc'[q] = loc[q]
    <3>1. Holding(q) /\ pc[q] # "rm_read"
      BY <2>2 DEF Sized, Holding, UploadPC, StripedPC, VerifyPC
    <3>2. PICK a \in Asset : a = loc[q].at
      BY <3>1, HolderFacts
    <3>3. assets[a].status = "pending"
      BY <3>1, <3>2, HolderFacts DEF RowOK
    <3>4. assets'[a].expected = assets[a].expected /\ assets'[a].class = assets[a].class
      <4>1. ASSUME NEW b \in Asset, ChargeStep(b), a = b
            PROVE  assets'[a].expected = assets[a].expected /\ assets'[a].class = assets[a].class
        BY <2>2, <3>1, <3>2, <3>3, <4>1 DEF ChargeStep, Charged, Settled, Reopened, Released, Alone
      <4>2. ASSUME NEW b \in Asset, ChargeStep(b), a # b PROVE assets'[a] = assets[a]
        BY <4>2 DEF ChargeStep
      <4> QED
        BY <1>2, <4>1, <4>2 DEF ChargeKept
    <3>5. SizesOK(q)
      BY DEF CapacityOK
    <3> QED
      BY <2>2, <3>2, <3>4, <3>5 DEF SizesOK
  <2> QED
    BY <2>1, <2>2, SizedSteps
<1> QED
  BY <1>3, <1>4, <1>5 DEF CapacityOK

\* A row that is counted in some scopes.
LEMMA CountedNat ==
    ASSUME IInv
    PROVE  \A a \in Asset : Counted(assets[a]) \in Nat
BY DEF IInv, TypeOK, AssetRow, Counted

\* The limits of an event are limits.
LEMMA LimitTypes ==
    ASSUME IInv, NEW e \in Event, NEW c \in Class
    PROVE  /\ events[e].limits.assets \in Limit /\ events[e].limits.bytes \in Limit
           /\ events[e].limits.count[c] \in Limit /\ events[e].limits.storage[c] \in Limit
           /\ SessionMaxAssets \in Limit /\ SessionMaxBytes \in Limit
<1>1. events[e].limits \in Limits
  BY SizesAssumption DEF IInv, TypeOK, EventRow
<1> QED
  BY <1>1, SizesAssumption DEF Limits, Limit

\* One scope, given by the rows it selects before and after: only a charge or
\* a settlement that moves row b into it can make it grow, and then it fits.
ScopeHolds(S, T, mc, mb) ==
    Grows(Usage(S), [count |-> Cardinality(T), bytes |-> Used(assets', T)])
    => Within([count |-> Cardinality(T), bytes |-> Used(assets', T)], mc, mb)

LEMMA ScopeKept ==
    ASSUME IInv, IInv', CapacityOK, NEW b \in Asset, ChargeStep(b),
           NEW S \in SUBSET Live(assets), NEW T \in SUBSET Live(assets'), T \ {b} = S \ {b},
           NEW mc \in Limit, NEW mb \in Limit,
           b \in T => \/ b \in S /\ Counted(assets'[b]) <= Counted(assets[b])
                      \/ b \notin S /\ Fits(assets, S, Counted(assets'[b]), mc, mb)
    PROVE  ScopeHolds(S, T, mc, mb)
<1>1. assets \in [Asset -> AssetRow] /\ assets' \in [Asset -> AssetRow]
  BY DEF IInv, TypeOK
<1>2. S \subseteq Asset /\ T \subseteq Asset
  BY <1>1 DEF Live
<1>3. IsFiniteSet(S)
  BY FS_Subset DEF CapacityOK
<1>4. \A x \in S : Counted(assets[x]) \in Nat
  BY <1>2, CountedNat
<1>5. \A x \in T : Counted(assets'[x]) \in Nat
  <2>1. \A a \in Asset : Counted(assets'[a]) \in Nat
    BY DEF IInv, TypeOK, AssetRow, Counted
  <2> QED
    BY <1>2, <2>1
<1>6. \A x \in S \ {b} : Counted(assets'[x]) = Counted(assets[x])
  BY <1>2 DEF ChargeStep
<1> QED
  BY <1>3, <1>4, <1>5, <1>6, ScopeStep DEF ScopeHolds, Usage

\* A step that changes no charge lets nothing grow.
LEMMA NothingGrows ==
    ASSUME IInv, IInv', CapacityOK, \A a \in Asset : ChargeKept(a),
           NEW S \in SUBSET Live(assets), NEW mc, NEW mb
    PROVE  ScopeHolds(S, S, mc, mb)
<1>1. assets \in [Asset -> AssetRow] /\ assets' \in [Asset -> AssetRow]
  BY DEF IInv, TypeOK
<1>2. S \subseteq Asset /\ IsFiniteSet(S)
  BY <1>1, FS_Subset DEF Live, CapacityOK
<1>3. \A x \in S : Counted(assets[x]) = Counted(assets'[x])
  BY <1>2 DEF ChargeKept, Counted
<1>4. Used(assets, S) = Used(assets', S) /\ Used(assets, S) \in Nat /\ Cardinality(S) \in Nat
  BY <1>2, <1>3, UsedSame, UsedNat, CountedNat, FS_CardinalityType
<1>5. ~(Used(assets', S) > Used(assets, S)) /\ ~(Cardinality(S) > Cardinality(S))
  BY <1>4
<1> QED
  BY <1>5 DEF ScopeHolds, Grows, Usage

\* Which rows a scope selects.
LEMMA Selected ==
    ASSUME NEW rows \in [Asset -> AssetRow]
    PROVE  /\ \A e, a : a \in OfEvent(rows, e) <=>
                          /\ a \in Asset /\ rows[a].status \in {"pending", "ready"}
                          /\ rows[a].event = e
           /\ \A s, a : a \in OfSession(rows, s) <=>
                          /\ a \in Asset /\ rows[a].status \in {"pending", "ready"}
                          /\ rows[a].session = s
           /\ \A e, c, a : a \in OfClass(rows, e, c) <=>
                          /\ a \in Asset /\ rows[a].status \in {"pending", "ready"}
                          /\ rows[a].event = e /\ rows[a].class = c
           /\ \A e : OfEvent(rows, e) \in SUBSET Live(rows)
           /\ \A s : OfSession(rows, s) \in SUBSET Live(rows)
           /\ \A e, c : OfClass(rows, e, c) \in SUBSET Live(rows)
BY DEF OfEvent, OfSession, OfClass, Live

\* The event scope.
LEMMA EventScope ==
    ASSUME IInv, IInv', CapacityOK, NEW b \in Asset, ChargeStep(b),
           NEW e \in Event, ~events[e].deleting
    PROVE  ScopeHolds(OfEvent(assets, e), OfEvent(assets', e), events[e].limits.assets,
                      events[e].limits.bytes)
<1> DEFINE S == OfEvent(assets, e)
           T == OfEvent(assets', e)
           In(a, row) == a \in Asset /\ row.status \in {"pending", "ready"} /\ row.event = e
<1>0. assets \in [Asset -> AssetRow] /\ assets' \in [Asset -> AssetRow]
  BY DEF IInv, TypeOK
<1>1. /\ S \in SUBSET Live(assets) /\ T \in SUBSET Live(assets')
      /\ \A a : a \in S <=> In(a, assets[a])
      /\ \A a : a \in T <=> In(a, assets'[a])
  BY <1>0, Selected
<1> HIDE DEF S, T
<1>2. T \ {b} = S \ {b}
  BY <1>1 DEF ChargeStep, HasRow
<1>3. ASSUME b \in T
      PROVE  \/ b \in S /\ Counted(assets'[b]) <= Counted(assets[b])
             \/ /\ b \notin S
                /\ Fits(assets, S, Counted(assets'[b]), events[e].limits.assets, events[e].limits.bytes)
  <2>1. CASE Charged(b)
    <3>1. b \notin S /\ assets'[b].event = e /\ Counted(assets'[b]) = assets'[b].expected
      BY <1>1, <1>3, <2>1 DEF Charged, HasRow, Counted
    <3> QED
      BY <2>1, <3>1 DEF Charged, reserve, S
  <2>2. CASE Settled(b)
    BY <1>1, <1>3, <2>2 DEF Settled, HasRow, Counted
  <2>3. ~Reopened(b) /\ ~Released(b)
    BY <1>1, <1>3 DEF Reopened, Released, RowRemoved, HasRow
  <2> QED
    BY <2>1, <2>2, <2>3 DEF ChargeStep
<1>4. events[e].limits.assets \in Limit /\ events[e].limits.bytes \in Limit
  BY LimitTypes, ClassTyped
<1>5. ScopeHolds(S, T, events[e].limits.assets, events[e].limits.bytes)
  BY <1>1, <1>2, <1>3, <1>4, ScopeKept
<1> QED
  BY <1>5 DEF S, T

\* The typed bucket of an event.
LEMMA ClassScope ==
    ASSUME IInv, IInv', CapacityOK, NEW b \in Asset, ChargeStep(b),
           NEW e \in Event, ~events[e].deleting, NEW c \in Class
    PROVE  ScopeHolds(OfClass(assets, e, c), OfClass(assets', e, c), events[e].limits.count[c],
                      events[e].limits.storage[c])
<1> DEFINE S == OfClass(assets, e, c)
           T == OfClass(assets', e, c)
           In(a, row) == /\ a \in Asset /\ row.status \in {"pending", "ready"}
                         /\ row.event = e /\ row.class = c
<1>0. assets \in [Asset -> AssetRow] /\ assets' \in [Asset -> AssetRow]
  BY DEF IInv, TypeOK
<1>1. /\ S \in SUBSET Live(assets) /\ T \in SUBSET Live(assets')
      /\ \A a : a \in S <=> In(a, assets[a])
      /\ \A a : a \in T <=> In(a, assets'[a])
  BY <1>0, Selected
<1> HIDE DEF S, T
<1>2. T \ {b} = S \ {b}
  BY <1>1 DEF ChargeStep
<1>3. ASSUME b \in T
      PROVE  \/ b \in S /\ Counted(assets'[b]) <= Counted(assets[b])
             \/ /\ b \notin S
                /\ Fits(assets, S, Counted(assets'[b]), events[e].limits.count[c],
                        events[e].limits.storage[c])
  <2>0. In(b, assets'[b])
    BY <1>1, <1>3
  <2>1. CASE Charged(b)
    <3>1. /\ b \notin S /\ assets'[b].event = e /\ assets'[b].class = c
          /\ Counted(assets'[b]) = assets'[b].expected
      BY <1>1, <2>0, <2>1 DEF Charged, Counted
    <3> QED
      BY <2>1, <3>1 DEF Charged, reserve, reserveClass, S
  <2>2. CASE Settled(b) /\ assets'[b].class = assets[b].class
    BY <1>1, <2>0, <2>2 DEF Settled, Counted
  <2>3. CASE Settled(b) /\ assets'[b].class # assets[b].class
    <3>1. /\ b \notin S /\ assets[b].event = e /\ assets'[b].class = c
          /\ Counted(assets'[b]) = assets'[b].size
      BY <1>1, <2>0, <2>3 DEF Settled, Counted
    <3> QED
      BY <2>3, <3>1 DEF Settled, reserveClass, S
  <2>4. ~Reopened(b) /\ ~Released(b)
    BY <2>0 DEF Reopened, Released, RowRemoved
  <2> QED
    BY <2>1, <2>2, <2>3, <2>4 DEF ChargeStep
<1>4. events[e].limits.count[c] \in Limit /\ events[e].limits.storage[c] \in Limit
  BY LimitTypes
<1>5. ScopeHolds(S, T, events[e].limits.count[c], events[e].limits.storage[c])
  BY <1>1, <1>2, <1>3, <1>4, ScopeKept
<1> QED
  BY <1>5 DEF S, T

\* The upload session; one of an event that is being deleted is exempt.
LEMMA SessionScope ==
    ASSUME IInv, IInv', CapacityOK, NEW b \in Asset, ChargeStep(b), NEW s \in Session,
           sessions[s].event # None => ~events[sessions[s].event].deleting
    PROVE  ScopeHolds(OfSession(assets, s), OfSession(assets', s), SessionMaxAssets, SessionMaxBytes)
<1> DEFINE S == OfSession(assets, s)
           T == OfSession(assets', s)
           In(a, row) == a \in Asset /\ row.status \in {"pending", "ready"} /\ row.session = s
<1>0. assets \in [Asset -> AssetRow] /\ assets' \in [Asset -> AssetRow]
  BY DEF IInv, TypeOK
<1>1. /\ S \in SUBSET Live(assets) /\ T \in SUBSET Live(assets')
      /\ \A a : a \in S <=> In(a, assets[a])
      /\ \A a : a \in T <=> In(a, assets'[a])
  BY <1>0, Selected
<1> HIDE DEF S, T
<1>2. T \ {b} = S \ {b}
  BY <1>1 DEF ChargeStep, HasRow
<1>3. ASSUME b \in T
      PROVE  \/ b \in S /\ Counted(assets'[b]) <= Counted(assets[b])
             \/ /\ b \notin S
                /\ Fits(assets, S, Counted(assets'[b]), SessionMaxAssets, SessionMaxBytes)
  <2>1. CASE Charged(b)
    <3>1. b \notin S /\ assets'[b].session = s /\ Counted(assets'[b]) = assets'[b].expected
      BY <1>1, <1>3, <2>1 DEF Charged, HasRow, Counted
    <3> QED
      BY <2>1, <3>1 DEF Charged, reserve, S
  <2>2. CASE Settled(b)
    BY <1>1, <1>3, <2>2 DEF Settled, HasRow, Counted
  <2>3. ~Released(b)
    BY <1>1, <1>3 DEF Released, RowRemoved, HasRow
  <2>4. CASE Reopened(b)
    <3>1. /\ HasRow(b) /\ assets[b].session = s /\ events[assets[b].event].deleting
      BY <1>1, <1>3, <2>4 DEF Reopened
    <3>2. sessions[s].event = assets[b].event /\ assets[b].event \in Event
      BY <3>1 DEF CapacityOK, SessionsOK, IInv, TablesOK, KeyOK
    <3> QED
      BY <3>1, <3>2, IdsAssumption
  <2> QED
    BY <2>1, <2>2, <2>3, <2>4 DEF ChargeStep
<1>4. SessionMaxAssets \in Limit /\ SessionMaxBytes \in Limit
  BY SizesAssumption DEF Limit
<1>5. ScopeHolds(S, T, SessionMaxAssets, SessionMaxBytes)
  BY <1>1, <1>2, <1>3, <1>4, ScopeKept
<1> QED
  BY <1>5 DEF S, T

\* The rows that were there when the program started are in one session of
\* one event, and finitely many.
LEMMA InitCapacity == Init => CapacityOK
<1> SUFFICES ASSUME Init PROVE CapacityOK
  OBVIOUS
<1>1. \A p \in Actor : pc[p] = "idle"
  BY DEF Init
<1>2. \A p \in Actor : SizesOK(p)
  BY <1>1 DEF SizesOK, VerifyPC
<1>3. InitDB
  BY DEF Init
<1>4. IsFiniteSet(Live(assets)) /\ SessionsOK
  <2>1. CASE /\ sessions = [s \in Session |-> NoSession]
             /\ assets = [a \in Asset |-> NoAsset]
    <3>1. Live(assets) = {}
      BY <2>1 DEF Live, NoAsset
    <3>2. IsFiniteSet(Live(assets))
      BY <3>1, FS_EmptySet
    <3> QED
      BY <2>1, <3>2 DEF SessionsOK, HasRow, NoAsset, NoSession
  <2>2. ASSUME NEW home \in Event, NEW owner \in Session, NEW f, NEW size,
               sessions = [s \in Session |-> IF s = owner THEN [state |-> "live", event |-> home]
                                                        ELSE NoSession],
               assets = [a \in Asset |-> IF a \in Legacy THEN LegacyRow(home, owner, size, f[a])
                                                       ELSE NoAsset]
        PROVE  IsFiniteSet(Live(assets)) /\ SessionsOK
    <3>1. \A a \in Asset : /\ a \in Legacy => assets[a].event = home /\ assets[a].session = owner
                           /\ a \notin Legacy => assets[a].status = "unused"
      BY <2>2 DEF LegacyRow, NoAsset
    <3>2. Live(assets) \subseteq Legacy
      BY <2>2, <3>1 DEF Live
    <3>3. IsFiniteSet(Live(assets))
      BY <3>2, LegacyAssumption, FS_Subset
    <3>4. \A s \in Session : /\ s = owner => sessions[s].state = "live" /\ sessions[s].event = home
                             /\ s # owner => sessions[s].event = None
      BY <2>2 DEF NoSession
    <3> QED
      BY <3>1, <3>3, <3>4 DEF SessionsOK, HasRow
  <2> QED
    BY <1>3, <2>1, <2>2 DEF InitDB
<1> QED
  BY <1>2, <1>4 DEF CapacityOK

\* A row belongs to a session of its event, and what an upload writes or a
\* completion verifies is what its row has reserved.
THEOREM CapacityRelied == Spec => []CapacityOK
BY InitCapacity, NextCapacity, Invariant, Marks, PTL DEF Spec

\* No step takes an event, a class of it or a session over the limits in force
\* when it commits, whatever is reserved, finished, completed, demoted and
\* removed in between and however the limits are changed.
THEOREM NeverOvercommitted == Spec => NoOvercommit
<1>1. ASSUME IInv, IInv', MarksOK, CapacityOK, [Next]_vars, assets' # assets
      PROVE  /\ \A e \in Event : ~events'[e].deleting =>
                   /\ ScopeHolds(OfEvent(assets, e), OfEvent(assets', e),
                                 events'[e].limits.assets, events'[e].limits.bytes)
                   /\ \A c \in Class :
                         ScopeHolds(OfClass(assets, e, c), OfClass(assets', e, c),
                                    events'[e].limits.count[c], events'[e].limits.storage[c])
             /\ \A s \in Session :
                   (sessions'[s].event # None => ~events'[sessions'[s].event].deleting)
                   => ScopeHolds(OfSession(assets, s), OfSession(assets', s), SessionMaxAssets,
                                 SessionMaxBytes)
  <2>1. CASE \E b \in Asset : ChargeStep(b)
    <3>1. PICK b \in Asset : ChargeStep(b)
      BY <2>1
    <3>2. events' = events /\ sessions' = sessions
      BY <3>1 DEF ChargeStep
    <3> QED
      BY <1>1, <3>1, <3>2, EventScope, ClassScope, SessionScope
  <2>2. CASE \A a \in Asset : ChargeKept(a)
    <3>1. assets \in [Asset -> AssetRow] /\ assets' \in [Asset -> AssetRow]
      BY <1>1 DEF IInv, TypeOK
    <3>2. /\ \A e : OfEvent(assets', e) = OfEvent(assets, e)
          /\ \A s : OfSession(assets', s) = OfSession(assets, s)
          /\ \A e, c : OfClass(assets', e, c) = OfClass(assets, e, c)
      <4>1. \A a \in Asset : /\ assets'[a].status = assets[a].status
                             /\ assets'[a].event = assets[a].event
                             /\ assets'[a].session = assets[a].session
                             /\ assets'[a].class = assets[a].class
        BY <2>2 DEF ChargeKept
      <4>2. DOMAIN assets = Asset /\ DOMAIN assets' = Asset
        BY <3>1
      <4> QED
        BY <4>1, <4>2 DEF OfEvent, OfSession, OfClass, Live
    <3>3. /\ \A e : OfEvent(assets, e) \in SUBSET Live(assets)
          /\ \A s : OfSession(assets, s) \in SUBSET Live(assets)
          /\ \A e, c : OfClass(assets, e, c) \in SUBSET Live(assets)
      BY <3>1, Selected
    <3> QED
      BY <1>1, <2>2, <3>2, <3>3, NothingGrows
  <2> QED
    BY <1>1, <2>1, <2>2, Charges
<1>2. ASSUME IInv, IInv', MarksOK, CapacityOK, [Next]_vars
      PROVE  [assets' # assets =>
                /\ \A e \in Event : ~events'[e].deleting =>
                     LET l == events'[e].limits IN
                     /\ Grows(EventUsage(e), EventUsage(e)')
                        => Within(EventUsage(e)', l.assets, l.bytes)
                     /\ \A c \in Class :
                          Grows(ClassUsage(e, c), ClassUsage(e, c)')
                          => Within(ClassUsage(e, c)', l.count[c], l.storage[c])
                /\ \A s \in Session :
                     /\ Grows(SessionUsage(s), SessionUsage(s)')
                     /\ sessions'[s].event # None => ~events'[sessions'[s].event].deleting
                     => Within(SessionUsage(s)', SessionMaxAssets, SessionMaxBytes)]_vars
  BY <1>1, <1>2 DEF ScopeHolds, EventUsage, ClassUsage, SessionUsage, Usage
<1> QED
  BY <1>2, Invariant, Marks, CapacityRelied, PTL DEF Spec, NoOvercommit

=============================================================================
