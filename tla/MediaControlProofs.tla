------------------------- MODULE MediaControlProofs -------------------------
(***************************************************************************)
(* What holds of types, labels, local variables and locks: every step      *)
(* keeps TypeOK, given what LocalsOK says about the locals at each label;  *)
(* every label has the locals it needs (LocalsOK) and the locks it needs   *)
(* (LocksOK), and with these no two goroutines hold the same row           *)
(* (NoOtherHolder).                                                        *)
(***************************************************************************)
EXTENDS MediaInv, NumberLemmas

(* -------------------------------- types -------------------------------- *)

\* The empty rows and the empty locals have the types of rows and locals.
LEMMA ConstantsTyped ==
    /\ NoLocal \in Local /\ NoAsset \in AssetRow /\ NoSession \in SessionRow
    /\ NoEvent \in EventRow
BY IdsAssumption, SizesAssumption
   DEF NoLocal, Local, NoAsset, AssetRow, NoSession, SessionRow, NoEvent, EventRow, OpName

\* An empty database, and one that schema version 012 found, are well typed.
LEMMA InitTyped == Init => TypeOK
<1> SUFFICES ASSUME Init PROVE TypeOK
  OBVIOUS
<1>1. /\ retired \in [Asset -> {"none", "fresh", "due"}]
      /\ objects \in [Asset -> Bodies \cup {None}]
      /\ parts \subseteq Asset
      /\ active \in {"local", "s3"}
      /\ readers \in [Event -> SUBSET Actor]
      /\ writer \in [Event -> Actor \cup {None}]
      /\ stripes \in [Stripe -> Actor \cup {None}]
      /\ cleanupAfter \in Asset \cup {0} /\ retiredAfter \in Asset \cup {0}
      /\ fullPage \in BOOLEAN
      /\ pc \in [Actor -> HandlerPC \cup CleanerPC \cup RemovalPC]
      /\ loc \in [Actor -> Local]
  BY ConstantsTyped, IdsAssumption DEF Init, HandlerPC
<1>2. /\ events \in [Event -> EventRow]
      /\ sessions \in [Session -> SessionRow]
      /\ assets \in [Asset -> AssetRow]
      /\ lastPub \in 0..MaxPub
      /\ urls \subseteq Asset
  <2>1. CASE Legacy = {}
    BY <2>1, ConstantsTyped, SizesAssumption DEF Init, InitDB
  <2>2. CASE Legacy # {}
    <3>1. PICK home \in Event, owner \in Session, limits \in LimitSet,
          f \in Injection(Legacy, Request), b \in Bodies :
       /\ events = [e \in Event |-> IF e = home
             THEN [pub |-> 1, enabled |-> TRUE, deleting |-> FALSE, lapsed |-> FALSE,
                   limits |-> limits]
             ELSE NoEvent]
       /\ sessions = [s \in Session |-> IF s = owner THEN [state |-> "live", event |-> home]
                                                     ELSE NoSession]
       /\ assets = [a \in Asset |-> IF a \in Legacy THEN LegacyRow(home, owner, b.size, f[a])
                                                    ELSE NoAsset]
       /\ lastPub = 1 /\ urls = Legacy
      BY <2>2 DEF Init, InitDB
    <3>2. b.size \in Nat
      BY SizesAssumption
    <3>3. \A a \in Legacy : f[a] \in Request
      BY DEF Injection
    <3>4. \A a \in Legacy : LegacyRow(home, owner, b.size, f[a]) \in AssetRow
      BY <3>2, <3>3 DEF LegacyRow, NoAsset, AssetRow
    <3> QED
      BY <3>1, <3>4, ConstantsTyped, IdsAssumption, SizesAssumption DEF EventRow, SessionRow
  <2> QED
    BY <2>1, <2>2
<1> QED
  BY <1>1, <1>2 DEF TypeOK


-----------------------------------------------------------------------------
(* What every way of returning leaves typed. *)

ControlTyped ==
    /\ readers \in [Event -> SUBSET Actor]
    /\ writer \in [Event -> Actor \cup {None}]
    /\ stripes \in [Stripe -> Actor \cup {None}]
    /\ pc \in [Actor -> HandlerPC \cup CleanerPC \cup RemovalPC]
    /\ loc \in [Actor -> Local]

\* A goroutine moves to one of the labels.
LEMMA GotoTyped ==
    ASSUME TypeOK, NEW p \in Actor, NEW l \in HandlerPC \cup CleanerPC \cup RemovalPC,
           Goto(p, l)
    PROVE  pc' \in [Actor -> HandlerPC \cup CleanerPC \cup RemovalPC]
BY DEF TypeOK, Goto

\* The deferred unlocks leave well typed locks.
LEMMA UnlockTyped ==
    ASSUME TypeOK, NEW p \in Actor, Unlock(p)
    PROVE  /\ readers' \in [Event -> SUBSET Actor]
           /\ writer' \in [Event -> Actor \cup {None}]
           /\ stripes' \in [Stripe -> Actor \cup {None}]
BY DEF TypeOK, Unlock

\* A return leaves control, locals and locks well typed.
LEMMA ReturnTyped ==
    ASSUME TypeOK, NEW p \in Actor, Return(p)
    PROVE  ControlTyped'
<1>1. "idle" \in HandlerPC
  BY DEF HandlerPC
<1>2. pc' \in [Actor -> HandlerPC \cup CleanerPC \cup RemovalPC]
  BY <1>1, GotoTyped DEF Return
<1>3. loc' \in [Actor -> Local]
  BY ConstantsTyped DEF TypeOK, Return
<1> QED
  BY <1>2, <1>3, UnlockTyped DEF Return, ControlTyped

\* An error return leaves every variable well typed.
LEMMA FailTyped ==
    ASSUME TypeOK, NEW p \in Actor, NEW labels, FailAt(p, labels)
    PROVE  TypeOK'
BY ReturnTyped DEF FailAt, TypeOK, ControlTyped, dbVars, storeVars, cursorVars

\* So does removeAttempt's return to each of its three callers.
LEMMA RemoveReturnsTyped ==
    ASSUME TypeOK, NEW p \in Actor, NEW ok, RemoveReturns(p, ok)
    PROVE  ControlTyped'
<1>1. CASE Return(p)
  BY <1>1, ReturnTyped
<1>2. CASE /\ Goto(p, "d_pick")
           /\ loc' = [loc EXCEPT ![p].at = None]
           /\ UNCHANGED lockVars
  <2>1. pc' \in [Actor -> HandlerPC \cup CleanerPC \cup RemovalPC]
    BY <1>2, GotoTyped DEF HandlerPC
  <2>2. [loc[p] EXCEPT !.at = None] \in Local
    BY DEF TypeOK, Local
  <2> QED
    BY <1>2, <2>1, <2>2 DEF TypeOK, ControlTyped, lockVars
<1>3. CASE /\ Goto(p, "c_next")
           /\ loc' = [loc EXCEPT ![p] = [@ EXCEPT !.at = None, !.ev = None]]
           /\ Unlock(p)
  <2>1. pc' \in [Actor -> HandlerPC \cup CleanerPC \cup RemovalPC]
    BY <1>3, GotoTyped DEF CleanerPC
  <2>2. [loc[p] EXCEPT !.at = None, !.ev = None] \in Local
    BY DEF TypeOK, Local
  <2> QED
    BY <1>3, <2>1, <2>2, UnlockTyped DEF TypeOK, ControlTyped
<1> QED
  BY <1>1, <1>2, <1>3 DEF RemoveReturns

-----------------------------------------------------------------------------
(* One lemma per group of actions. *)

\* removeAttempt: retired keys, objects and rows keep their types.
LEMMA RemovalTyped ==
    ASSUME TypeOK, LocalsOK, NEW p \in Actor, removeAttempt(p)
    PROVE  TypeOK'
<1> USE DEF dbVars, storeVars, cursorVars
<1>1. CASE RemoveRead(p)
  <2>1. AfterRead(assets[loc[p].at]) \in RemovalPC
    BY DEF AfterRead, RemovalPC
  <2>2. CASE Goto(p, AfterRead(assets[loc[p].at])) /\ UNCHANGED <<loc, lockVars>>
    BY <1>1, <2>1, <2>2, GotoTyped DEF RemoveRead, TypeOK, lockVars
  <2>3. CASE RemoveReturns(p, ~HasRow(loc[p].at))
    BY <1>1, <2>3, RemoveReturnsTyped DEF RemoveRead, TypeOK, ControlTyped
  <2> QED
    BY <1>1, <2>2, <2>3 DEF RemoveRead
<1>2. CASE RemoveRetire(p)
  <2>1. retired' \in [Asset -> {"none", "fresh", "due"}]
    BY <1>2 DEF RemoveRetire, TypeOK
  <2>2. CASE Goto(p, "rm_object") /\ UNCHANGED <<loc, lockVars>>
    BY <1>2, <2>1, <2>2, GotoTyped DEF RemoveRetire, TypeOK, lockVars, RemovalPC
  <2>3. CASE RemoveReturns(p, FALSE)
    BY <1>2, <2>1, <2>3, RemoveReturnsTyped DEF RemoveRetire, TypeOK, ControlTyped
  <2> QED
    BY <1>2, <2>2, <2>3 DEF RemoveRetire
<1>3. CASE RemoveObject(p)
  <2>1. objects' \in [Asset -> Bodies \cup {None}] /\ parts' \subseteq Asset
    BY <1>3 DEF RemoveObject, TypeOK
  <2>2. CASE Goto(p, "rm_row") /\ UNCHANGED <<loc, lockVars>>
    BY <1>3, <2>1, <2>2, GotoTyped DEF RemoveObject, TypeOK, lockVars, RemovalPC
  <2>3. CASE RemoveReturns(p, FALSE)
    BY <1>3, <2>1, <2>3, RemoveReturnsTyped DEF RemoveObject, TypeOK, ControlTyped
  <2> QED
    BY <1>3, <2>2, <2>3 DEF RemoveObject
<1>4. CASE RemoveRow(p)
  <2>1. \A row \in AssetRow : Gone(row) \in AssetRow
    BY DEF Gone, NoAsset, AssetRow
  <2>2. assets' \in [Asset -> AssetRow]
    BY <1>4, <2>1 DEF RemoveRow, TypeOK
  <2>3. PICK ok \in BOOLEAN : RemoveReturns(p, ok)
    BY <1>4 DEF RemoveRow
  <2> QED
    BY <1>4, <2>2, <2>3, RemoveReturnsTyped DEF RemoveRow, TypeOK, ControlTyped
<1>5. CASE RemoveFails(p)
  BY <1>5, RemoveReturnsTyped DEF RemoveFails, TypeOK, ControlTyped
<1> QED
  BY <1>1, <1>2, <1>3, <1>4, <1>5 DEF removeAttempt

\* TryLock makes an actor the writer.
LEMMA TryLockTyped ==
    ASSUME TypeOK, NEW p \in Actor, NEW e, TryLock(p, e)
    PROVE  /\ readers' \in [Event -> SUBSET Actor]
           /\ writer' \in [Event -> Actor \cup {None}]
           /\ stripes' \in [Stripe -> Actor \cup {None}]
BY DEF TypeOK, TryLock

\* DeleteEvent: marked, demoted and dropped rows are rows.
LEMMA DeletionTyped ==
    ASSUME TypeOK, LocalsOK, NEW p \in Proc, DeleteEvent(p)
    PROVE  TypeOK'
<1> USE DEF dbVars, storeVars, cursorVars
<1> p \in Actor
  BY DEF Actor
<1>1. CASE DeleteMark(p)
  <2>1. \A row \in EventRow : Marked(row) \in EventRow
    BY DEF Marked, EventRow
  <2>2. events' \in [Event -> EventRow]
    BY <1>1, <2>1 DEF DeleteMark, TypeOK
  <2>3. pc' \in [Actor -> HandlerPC \cup CleanerPC \cup RemovalPC]
    BY <1>1, GotoTyped DEF DeleteMark, HandlerPC
  <2> QED
    BY <1>1, <2>2, <2>3, TryLockTyped DEF DeleteMark, TypeOK
<1>2. ASSUME NEW a \in Asset, DeleteDemote(p, a) PROVE TypeOK'
  <2>1. \A row \in AssetRow : Demoted(row) \in AssetRow
    BY DEF Demoted, AssetRow
  <2>2. assets' \in [Asset -> AssetRow]
    BY <1>2, <2>1 DEF DeleteDemote, TypeOK
  <2>3. pc' \in [Actor -> HandlerPC \cup CleanerPC \cup RemovalPC]
    BY <1>2, GotoTyped DEF DeleteDemote, RemovalPC
  <2>4. [loc[p] EXCEPT !.at = a] \in Local
    BY DEF TypeOK, Local
  <2> QED
    BY <1>2, <2>2, <2>3, <2>4 DEF DeleteDemote, TypeOK, lockVars
<1>3. CASE DeleteEmpty(p)
  BY <1>3, GotoTyped DEF DeleteEmpty, TypeOK, lockVars, HandlerPC
<1>4. CASE DeleteDrop(p)
  <2>1. \A row \in AssetRow : Gone(row) \in AssetRow
    BY DEF Gone, NoAsset, AssetRow
  <2>2. [state |-> "gone", event |-> None] \in SessionRow
    BY DEF SessionRow
  <2>3. assets' \in [Asset -> AssetRow]
    BY <1>4, <2>1 DEF DeleteDrop, TypeOK
  <2>4. sessions' \in [Session -> SessionRow]
    BY <1>4, <2>2 DEF DeleteDrop, TypeOK
  <2>5. events' \in [Event -> EventRow]
    BY <1>4, ConstantsTyped DEF DeleteDrop, TypeOK
  <2> QED
    BY <1>4, <2>3, <2>4, <2>5, ReturnTyped DEF DeleteDrop, TypeOK, ControlTyped
<1>5. CASE FailAt(p, {"d_lock", "d_pick", "d_drop"})
  BY <1>5, FailTyped
<1> QED
  BY <1>1, <1>2, <1>3, <1>4, <1>5 DEF DeleteEvent

\* Cleanup: pages hold asset ids and the cursors stay asset ids or zero.
LEMMA CleanupTyped ==
    ASSUME TypeOK, LocalsOK, Cleanup
    PROVE  TypeOK'
<1> USE DEF dbVars, storeVars, cursorVars
<1> Cleaner \in Actor
  BY DEF Actor
<1>1. CASE CleanupStart
  <2> DEFINE page == FirstPage({a \in Asset : Stale(a)}, cleanupAfter)
  <2>1. page \subseteq Asset
    BY DEF FirstPage
  <2>2. [loc[Cleaner] EXCEPT !.op = "cleanup", !.list = page] \in Local
    BY <2>1 DEF TypeOK, Local
  <2>3. [state |-> "gone", event |-> None] \in SessionRow
    BY DEF SessionRow
  <2>4. sessions' \in [Session -> SessionRow]
    BY <1>1, <2>3 DEF CleanupStart, TypeOK
  <2>5. pc' \in [Actor -> HandlerPC \cup CleanerPC \cup RemovalPC]
    BY <1>1, GotoTyped DEF CleanupStart, CleanerPC
  <2> HIDE DEF page
  <2>6. loc' \in [Actor -> Local] /\ fullPage' \in BOOLEAN
    BY <1>1, <2>2 DEF CleanupStart, TypeOK, page
  <2> QED
    BY <1>1, <2>4, <2>5, <2>6 DEF CleanupStart, TypeOK, lockVars
<1>2. CASE RetiredStart
  <2> DEFINE page == FirstPage({a \in Asset : retired[a] = "due"}, retiredAfter)
  <2>1. page \subseteq Asset
    BY DEF FirstPage
  <2>2. [loc[Cleaner] EXCEPT !.list = page] \in Local
    BY <2>1 DEF TypeOK, Local
  <2>5. pc' \in [Actor -> HandlerPC \cup CleanerPC \cup RemovalPC]
    BY <1>2, GotoTyped DEF RetiredStart, CleanerPC
  <2> HIDE DEF page
  <2>6. loc' \in [Actor -> Local] /\ fullPage' \in BOOLEAN
    BY <1>2, <2>2 DEF RetiredStart, TypeOK, page
  <2> QED
    BY <1>2, <2>5, <2>6 DEF RetiredStart, TypeOK, lockVars
<1>3. CASE RetiredMark
  <2>1. [loc[Cleaner] EXCEPT !.at = None] \in Local
    BY DEF TypeOK, Local
  <2>2. retired' \in [Asset -> {"none", "fresh", "due"}]
    BY <1>3 DEF RetiredMark, TypeOK
  <2> QED
    BY <1>3, <2>1, <2>2, GotoTyped DEF RetiredMark, TypeOK, lockVars, CleanerPC
<1>4. CASE RetiredDone
  BY <1>4, ReturnTyped DEF RetiredDone, TypeOK, ControlTyped
<1>5. ASSUME NEW a \in Asset, CleanupTake(a) PROVE TypeOK'
  <2> DEFINE l == loc[Cleaner]
  <2>3. l \in Local /\ assets[a].event \in Event \cup {None}
    BY DEF TypeOK, AssetRow
  <2>1. [l EXCEPT !.list = l.list \ {a}, !.at = a, !.ev = assets[a].event] \in Local
    BY <2>3 DEF Local
  <2>2. pc' \in [Actor -> HandlerPC \cup CleanerPC \cup RemovalPC]
    BY <1>5, GotoTyped DEF CleanupTake, RemovalPC
  <2> QED
    BY <1>5, <2>1, <2>2, TryLockTyped DEF CleanupTake, TypeOK
<1>6. ASSUME NEW a \in Asset, CleanupSkip(a) \/ RetiredSkip(a) PROVE TypeOK'
  <2>1. [loc[Cleaner] EXCEPT !.list = loc[Cleaner].list \ {a}] \in Local
    BY DEF TypeOK, Local
  <2> QED
    BY <1>6, <2>1 DEF CleanupSkip, RetiredSkip, TypeOK, lockVars
<1>7. ASSUME NEW a \in Asset, RetiredDelete(a) PROVE TypeOK'
  <2>1. [loc[Cleaner] EXCEPT !.list = loc[Cleaner].list \ {a}] \in Local
    BY DEF TypeOK, Local
  <2>2. [loc[Cleaner] EXCEPT !.list = loc[Cleaner].list \ {a}, !.at = a] \in Local
    BY DEF TypeOK, Local
  <2>3. loc' \in [Actor -> Local]
    BY <1>7, <2>1, <2>2 DEF RetiredDelete, TypeOK
  <2>4. pc' \in [Actor -> HandlerPC \cup CleanerPC \cup RemovalPC]
    BY <1>7, GotoTyped DEF RetiredDelete, CleanerPC, TypeOK
  <2>5. objects' \in [Asset -> Bodies \cup {None}]
    BY <1>7 DEF RetiredDelete, TypeOK
  <2> QED
    BY <1>7, <2>3, <2>4, <2>5 DEF RetiredDelete, TypeOK, lockVars
<1>8. CASE CleanupAborts
  BY <1>8, FailTyped DEF CleanupAborts
<1> QED
  BY <1>1, <1>2, <1>3, <1>4, <1>5, <1>6, <1>7, <1>8 DEF Cleanup

\* openEvent fills the locals of a request.
LEMMA BeginTyped ==
    ASSUME TypeOK, NEW p \in Proc, NEW e \in Event, NEW o \in OpName, NEW l \in Local,
           BeginOpen(p, o, e, l)
    PROVE  TypeOK'
<1> USE DEF dbVars, storeVars, cursorVars, lockVars
<1> p \in Actor
  BY DEF Actor
<1>1. events[e].pub \in 0..MaxPub
  BY DEF TypeOK, EventRow
<1>2. [l EXCEPT !.op = o, !.ev = e, !.pub = events[e].pub] \in Local
  BY <1>1 DEF Local
<1>3. loc' \in [Actor -> Local]
  BY <1>2 DEF BeginOpen, TypeOK
<1> QED
  BY <1>3, GotoTyped DEF BeginOpen, TypeOK, HandlerPC

\* RLock adds an actor to the readers.
LEMMA KeepRLockTyped ==
    ASSUME TypeOK, NEW p \in Actor, KeepRLock(p)
    PROVE  readers' \in [Event -> SUBSET Actor]
BY DEF TypeOK, KeepRLock

\* A file limit is a size, whatever the event's row says.
LEMMA FileLimitTyped ==
    ASSUME NEW limits \in Limits, NEW c
    PROVE  fileLimit(limits, c, ServerLimit) \in Nat
BY SizesAssumption DEF Limits, Limit, NoLimit, Class, fileLimit, EffectiveFileLimit

\* What sniffing returns is one of the two classes.
LEMMA ClassTyped == \A b : ClassOf(b) \in Class
BY DEF ClassOf, Class

\* CreateAttributedSession stores a session row.
LEMMA SessionsTyped ==
    ASSUME TypeOK, LocalsOK, NEW p \in Proc, CreateSession(p)
    PROVE  TypeOK'
<1> USE DEF dbVars, storeVars, cursorVars
<1> p \in Actor
  BY DEF Actor
<1>1. ASSUME NEW s \in Session, SessionCreate(p, s) PROVE TypeOK'
  <2>1. loc[p].ev \in Event
    BY <1>1 DEF LocalsOK, HandlerOK, SessionCreate, RLockReturns
  <2>2. [state |-> "live", event |-> loc[p].ev] \in SessionRow
    BY <2>1 DEF SessionRow
  <2>3. sessions' \in [Session -> SessionRow]
    BY <1>1, <2>2 DEF SessionCreate, TypeOK
  <2> QED
    BY <1>1, <2>3, ReturnTyped DEF SessionCreate, TypeOK, ControlTyped
<1>2. CASE FailAt(p, {"rlock"})
  BY <1>2, FailTyped
<1> QED
  BY <1>1, <1>2 DEF CreateSession

\* Upload: the reserved and the finished row are asset rows.
LEMMA UploadTyped ==
    ASSUME TypeOK, LocalsOK, NEW p \in Proc, Upload(p)
    PROVE  TypeOK'
<1> USE DEF dbVars, storeVars, cursorVars
<1> p \in Actor
  BY DEF Actor
<1>1. CASE UploadLock(p)
  BY <1>1, GotoTyped, KeepRLockTyped DEF UploadLock, TypeOK, HandlerPC
<1>2. ASSUME NEW a \in Asset, UploadReserve(p, a) PROVE TypeOK'
  <2> DEFINE l == loc[p]
  <2>1. /\ l \in Local /\ l.ev \in Event /\ l.session \in Session
        /\ l.body \in Bodies /\ l.size \in Int
    BY <1>2 DEF LocalsOK, HandlerOK, UploadReserve, TypeOK, Local
  <2>2. events[l.ev].limits \in Limits
    BY <2>1, SizesAssumption DEF TypeOK, EventRow
  <2>3. UploadExpected(p) \in Nat
    BY <2>1, <2>2, FileLimitTyped DEF UploadExpected, UploadLimit
  <2>4. [NoAsset EXCEPT !.status = "pending", !.event = l.ev, !.session = l.session,
                        !.backend = "local", !.expected = UploadExpected(p),
                        !.class = ClassOf(l.body)] \in AssetRow
    BY <2>1, <2>3, ClassTyped DEF NoAsset, AssetRow
  <2>5. assets' \in [Asset -> AssetRow]
    BY <1>2, <2>4 DEF UploadReserve, TypeOK
  <2>6. CASE Return(p)
    BY <1>2, <2>5, <2>6, ReturnTyped DEF UploadReserve, TypeOK, ControlTyped
  <2>7. CASE /\ loc' = [loc EXCEPT ![p].at = a]
             /\ Goto(p, IF PrefixOf(l.body) > UploadExpected(p) THEN "rm_read" ELSE "u_open")
             /\ UNCHANGED lockVars
    <3>1. [loc[p] EXCEPT !.at = a] \in Local
      BY <2>1 DEF Local
    <3>2. loc' \in [Actor -> Local]
      BY <2>7, <3>1 DEF TypeOK
    <3>3. pc' \in [Actor -> HandlerPC \cup CleanerPC \cup RemovalPC]
      BY <2>7, GotoTyped DEF HandlerPC, RemovalPC
    <3> QED
      BY <1>2, <2>5, <2>7, <3>2, <3>3 DEF UploadReserve, TypeOK, lockVars
  <2> QED
    BY <1>2, <2>6, <2>7 DEF UploadReserve
<1>3. CASE UploadOpen(p)
  <2>1. pc' \in [Actor -> HandlerPC \cup CleanerPC \cup RemovalPC]
    BY <1>3, GotoTyped DEF UploadOpen, HandlerPC, RemovalPC
  <2>2. parts' \subseteq Asset
    BY <1>3 DEF UploadOpen, TypeOK, LocalsOK, HandlerOK, UploadPC
  <2> QED
    BY <1>3, <2>1, <2>2 DEF UploadOpen, TypeOK, lockVars
<1>4. CASE UploadWrite(p)
  <2>1. pc' \in [Actor -> HandlerPC \cup CleanerPC \cup RemovalPC]
    BY <1>4, GotoTyped DEF UploadWrite, HandlerPC, RemovalPC
  <2>2. parts' \subseteq Asset
    BY <1>4 DEF UploadWrite, TypeOK
  <2>3. loc[p].body \in Bodies
    BY <1>4 DEF UploadWrite, LocalsOK, HandlerOK, UploadPC
  <2>4. objects' \in [Asset -> Bodies \cup {None}]
    BY <1>4, <2>3 DEF UploadWrite, TypeOK
  <2> QED
    BY <1>4, <2>1, <2>2, <2>4 DEF UploadWrite, TypeOK, lockVars
<1>5. CASE UploadFinish(p)
  <2>1. loc[p].body \in Bodies /\ loc[p].at \in Asset
    BY <1>5 DEF UploadFinish, LocalsOK, HandlerOK, UploadPC
  <2>2. loc[p].body.size \in Nat
    BY <2>1, SizesAssumption
  <2> DEFINE row == assets[loc[p].at]
  <2>7. row \in AssetRow
    BY <2>1 DEF TypeOK
  <2>3. [row EXCEPT !.status = "ready", !.size = loc[p].body.size] \in AssetRow
    BY <2>2, <2>7 DEF AssetRow
  <2>4. assets' \in [Asset -> AssetRow]
    BY <1>5, <2>3 DEF UploadFinish, TypeOK
  <2>5. CASE Return(p)
    BY <1>5, <2>4, <2>5, ReturnTyped DEF UploadFinish, TypeOK, ControlTyped
  <2>6. CASE Goto(p, "rm_read") /\ UNCHANGED <<loc, lockVars>>
    BY <1>5, <2>4, <2>6, GotoTyped DEF UploadFinish, TypeOK, lockVars, RemovalPC
  <2> QED
    BY <1>5, <2>5, <2>6 DEF UploadFinish
<1>6. CASE UploadFinishFails(p)
  BY <1>6, GotoTyped DEF UploadFinishFails, TypeOK, lockVars, RemovalPC
<1>7. CASE FailAt(p, {"u_reserve"})
  BY <1>7, FailTyped
<1> QED
  BY <1>1, <1>2, <1>3, <1>4, <1>5, <1>6, <1>7 DEF Upload

\* Snapshot: the listed ids are asset ids.
LEMMA SnapshotTyped ==
    ASSUME TypeOK, LocalsOK, NEW p \in Proc, Snapshot(p)
    PROVE  TypeOK'
<1> USE DEF dbVars, storeVars, cursorVars
<1> p \in Actor
  BY DEF Actor
<1>1. CASE SnapshotList(p)
  <2> DEFINE S == {a \in OfEvent(assets, loc[p].ev) : assets[a].status = "ready"}
  <2>1. S \subseteq Asset
    BY DEF OfEvent, Live, TypeOK
  <2>2. [loc[p] EXCEPT !.list = S] \in Local
    BY <2>1 DEF TypeOK, Local
  <2> HIDE DEF S
  <2>3. loc' \in [Actor -> Local]
    BY <1>1, <2>2 DEF SnapshotList, TypeOK, S
  <2> QED
    BY <1>1, <2>3, GotoTyped, KeepRLockTyped DEF SnapshotList, TypeOK, HandlerPC
<1>2. CASE SnapshotClose(p)
  BY <1>2, FailTyped DEF SnapshotClose
<1>3. CASE FailAt(p, {"rlock"})
  BY <1>3, FailTyped
<1> QED
  BY <1>1, <1>2, <1>3 DEF Snapshot

\* Prepare stores a pending S3 row or finds an earlier one.
LEMMA PrepareTyped ==
    ASSUME TypeOK, LocalsOK, NEW p \in Proc, Prepare(p)
    PROVE  TypeOK'
<1> USE DEF dbVars, storeVars, cursorVars
<1> p \in Actor
  BY DEF Actor
<1>1. ASSUME NEW a \in Asset, PrepareReserve(p, a) PROVE TypeOK'
  <2> DEFINE l == loc[p]
  <2> DEFINE row == [NoAsset EXCEPT !.status = "pending", !.event = l.ev,
                                    !.session = l.session, !.backend = "s3",
                                    !.expected = l.size, !.class = l.class,
                                    !.request = l.request]
  <2>1. /\ l \in Local /\ l.ev \in Event /\ l.session \in Session
        /\ l.size \in Nat /\ l.class \in Class /\ l.request \in Request \cup {None}
    BY <1>1 DEF LocalsOK, HandlerOK, PrepareReserve, RLockReturns, TypeOK, Local
  <2>2. row \in AssetRow
    BY <2>1 DEF NoAsset, AssetRow
  <2>3. assets' \in [Asset -> AssetRow]
    <3> HIDE DEF row
    <3>1. assets' = assets \/ assets' = [assets EXCEPT ![a] = row]
      BY <1>1 DEF PrepareReserve, row
    <3> QED
      BY <2>2, <3>1 DEF TypeOK
  <2>4. [loc[p] EXCEPT !.op = "authorize", !.at = a] \in Local
    BY <2>1 DEF Local, OpName
  <2>5. CASE PrepareThenAuthorize(p, a)
    <3>1. loc' \in [Actor -> Local]
      BY <2>4, <2>5 DEF PrepareThenAuthorize, TypeOK
    <3> QED
      BY <1>1, <2>3, <2>5, <3>1 DEF PrepareReserve, PrepareThenAuthorize, TypeOK, lockVars
  <2>6. CASE Return(p)
    BY <1>1, <2>3, <2>6, ReturnTyped DEF PrepareReserve, TypeOK, ControlTyped
  <2> QED
    BY <1>1, <2>5, <2>6 DEF PrepareReserve
<1>2. CASE FailAt(p, {"rlock"})
  BY <1>2, FailTyped
<1> QED
  BY <1>1, <1>2 DEF Prepare

\* The stripe of an asset gets an actor as its holder.
LEMMA LockStripeTyped ==
    ASSUME TypeOK, NEW p \in Actor, LockStripe(p)
    PROVE  stripes' \in [Stripe -> Actor \cup {None}]
BY DEF TypeOK, LockStripe

\* Authorize refreshes a row and hands out a URL for an asset id.
LEMMA AuthorizeTyped ==
    ASSUME TypeOK, LocalsOK, NEW p \in Proc, Authorize(p) \/ DirectLock(p)
    PROVE  TypeOK'
<1> USE DEF dbVars, storeVars, cursorVars
<1> p \in Actor
  BY DEF Actor
<1>1. CASE DirectLock(p)
  BY <1>1, GotoTyped, KeepRLockTyped DEF DirectLock, TypeOK, HandlerPC
<1>2. CASE AuthorizeLoad(p)
  BY <1>2, GotoTyped, LockStripeTyped DEF AuthorizeLoad, TypeOK, HandlerPC
<1>3. CASE AuthorizeSave(p)
  <2> DEFINE a == loc[p].at
  <2>1. a \in Asset
    BY <1>3 DEF AuthorizeSave, LocalsOK, HandlerOK, StripedPC
  <2>2. \A row \in AssetRow, b \in BOOLEAN : [row EXCEPT !.stale = b] \in AssetRow
    BY DEF AssetRow
  <2>3. assets' \in [Asset -> AssetRow]
    <3>1. assets[a].stale \in BOOLEAN
      BY <2>1 DEF TypeOK, AssetRow
    <3>2. PICK b \in BOOLEAN : assets' = [assets EXCEPT ![a].stale = b]
      BY <1>3, <3>1 DEF AuthorizeSave
    <3> QED
      BY <2>1, <2>2, <3>2 DEF TypeOK
  <2>4. urls' \subseteq Asset
    BY <1>3, <2>1 DEF AuthorizeSave, TypeOK
  <2> QED
    BY <1>3, <2>3, <2>4, ReturnTyped DEF AuthorizeSave, TypeOK, ControlTyped
<1>4. CASE FailAt(p, {"stripe"}) \/ FailAt(p, {"a_sign"})
  BY <1>4, FailTyped
<1> QED
  BY <1>1, <1>2, <1>3, <1>4 DEF Authorize

\* Complete keeps what HEAD saw and finishes an asset row.
LEMMA CompleteTyped ==
    ASSUME TypeOK, LocalsOK, NEW p \in Proc, Complete(p)
    PROVE  TypeOK'
<1> USE DEF dbVars, storeVars, cursorVars
<1> p \in Actor
  BY DEF Actor
<1>1. CASE CompleteLoad(p)
  <2> DEFINE row == assets[loc[p].at]
  <2>1. row.expected \in Int /\ row.class \in Class \cup {None}
    <3>1. loc[p].at \in Asset
      BY <1>1 DEF CompleteLoad, StripeFree, LocalsOK, HandlerOK
    <3> QED
      BY <3>1 DEF TypeOK, AssetRow
  <2>2. [loc[p] EXCEPT !.size = row.expected, !.class = row.class] \in Local
    BY <2>1 DEF TypeOK, Local
  <2>3. loc' \in [Actor -> Local]
    BY <1>1, <2>2 DEF CompleteLoad, TypeOK
  <2> QED
    BY <1>1, <2>3, GotoTyped, LockStripeTyped DEF CompleteLoad, TypeOK, HandlerPC
<1>2. CASE CompleteHead(p)
  <2>1. objects[loc[p].at] \in Bodies \cup {None}
    BY <1>2 DEF CompleteHead, LocalsOK, HandlerOK, StripedPC, VerifyPC, TypeOK
  <2>2. [loc[p] EXCEPT !.body = objects[loc[p].at]] \in Local
    BY <2>1 DEF TypeOK, Local
  <2>3. loc' \in [Actor -> Local]
    BY <1>2, <2>2 DEF CompleteHead, TypeOK
  <2>4. pc' \in [Actor -> HandlerPC \cup CleanerPC \cup RemovalPC]
    BY <1>2, GotoTyped DEF CompleteHead, HandlerPC
  <2> QED
    BY <1>2, <2>3, <2>4 DEF CompleteHead, TypeOK, lockVars
<1>3. CASE CompletePrefix(p)
  <2>1. pc' \in [Actor -> HandlerPC \cup CleanerPC \cup RemovalPC]
    BY <1>3, GotoTyped DEF CompletePrefix, HandlerPC
  <2> QED
    BY <1>3, <2>1 DEF CompletePrefix, TypeOK, lockVars
<1>4. CASE CompleteReject(p)
  <2>1. objects' \in [Asset -> Bodies \cup {None}]
    BY <1>4 DEF CompleteReject, TypeOK
  <2> QED
    BY <1>4, <2>1, ReturnTyped DEF CompleteReject, TypeOK, ControlTyped
<1>5. CASE CompleteCommit(p)
  <2> DEFINE row == assets[loc[p].at]
             body == loc[p].body
  <2>1. loc[p].at \in Asset /\ body \in Bodies
    BY <1>5 DEF CompleteCommit, LocalsOK, HandlerOK, StripedPC, VerifyPC
  <2>2. row \in AssetRow /\ body.size \in Nat
    BY <2>1, SizesAssumption DEF TypeOK
  <2>3. [row EXCEPT !.status = "ready", !.size = body.size, !.class = ClassOf(body)] \in AssetRow
    BY <2>2, ClassTyped DEF AssetRow
  <2>4. assets' \in [Asset -> AssetRow]
    BY <1>5, <2>3 DEF CompleteCommit, TypeOK
  <2> QED
    BY <1>5, <2>4, ReturnTyped DEF CompleteCommit, TypeOK, ControlTyped
<1>6. CASE FailAt(p, {"stripe"}) \/ FailAt(p, {"f_head", "f_prefix", "f_reject", "f_commit"})
  BY <1>6, FailTyped
<1> QED
  BY <1>1, <1>2, <1>3, <1>4, <1>5, <1>6 DEF Complete

\* A request starts with well typed locals.
LEMMA AcceptTyped ==
    ASSUME TypeOK, NEW p \in Proc, Accept(p)
    PROVE  TypeOK'
<1> USE DEF dbVars, storeVars, cursorVars, lockVars
<1> p \in Actor
  BY DEF Actor
<1>1. PICK e \in Event :
        \/ SessionBegin(p, e) \/ SnapshotBegin(p, e) \/ DeleteBegin(p, e)
        \/ \E s \in Session :
             \/ \E c \in Claims, b \in Bodies : UploadBegin(p, e, s, c, b)
             \/ \E d \in Bodies, r \in Request : PrepareBegin(p, e, s, d, r)
             \/ \E a \in Asset, o \in {"authorize", "complete"} : DirectBegin(p, o, e, s, a)
  BY DEF Accept
<1>2. events[e].pub \in 0..MaxPub
  BY DEF TypeOK, EventRow
<1>3. CASE SessionBegin(p, e)
  BY <1>3, BeginTyped, ConstantsTyped DEF SessionBegin, OpName
<1>4. CASE SnapshotBegin(p, e)
  <2>1. [NoLocal EXCEPT !.op = "snapshot", !.ev = e] \in Local
    BY ConstantsTyped DEF Local, OpName
  <2> QED
    BY <1>4, <2>1, GotoTyped DEF SnapshotBegin, TypeOK, HandlerPC
<1>5. CASE DeleteBegin(p, e)
  <2>1. [NoLocal EXCEPT !.op = "delete", !.ev = e, !.pub = events[e].pub] \in Local
    BY <1>2, ConstantsTyped DEF Local, OpName
  <2> QED
    BY <1>5, <2>1, GotoTyped DEF DeleteBegin, TypeOK, HandlerPC
<1>6. ASSUME NEW s \in Session, NEW c \in Claims, NEW b \in Bodies, UploadBegin(p, e, s, c, b)
      PROVE  TypeOK'
  <2>1. c \in Int
    BY SizesAssumption
  <2>2. [NoLocal EXCEPT !.session = s, !.size = c, !.body = b] \in Local
    BY <2>1, ConstantsTyped DEF Local
  <2> QED
    BY <1>6, <2>2, BeginTyped DEF UploadBegin, OpName
<1>7. ASSUME NEW s \in Session, NEW d \in Bodies, NEW r \in Request, PrepareBegin(p, e, s, d, r)
      PROVE  TypeOK'
  <2>1. d.size \in Int /\ d.kind \in Class
    BY <1>7, SizesAssumption DEF PrepareBegin
  <2>2. [NoLocal EXCEPT !.session = s, !.size = d.size, !.class = d.kind, !.request = r] \in Local
    BY <2>1, ConstantsTyped DEF Local
  <2> QED
    BY <1>7, <2>2, BeginTyped DEF PrepareBegin, OpName
<1>8. ASSUME NEW s \in Session, NEW a \in Asset, NEW o \in {"authorize", "complete"},
             DirectBegin(p, o, e, s, a)
      PROVE  TypeOK'
  <2>1. [NoLocal EXCEPT !.op = o, !.ev = e, !.pub = events[e].pub, !.session = s, !.at = a] \in Local
    BY <1>2, ConstantsTyped DEF Local, OpName
  <2> QED
    BY <1>8, <2>1, GotoTyped DEF DirectBegin, TypeOK, HandlerPC
<1> QED
  BY <1>1, <1>3, <1>4, <1>5, <1>6, <1>7, <1>8

\* Administration, time, guests and restarts keep every type.
LEMMA EnvironmentTyped ==
    ASSUME TypeOK, Environment
    PROVE  TypeOK'
<1> USE DEF dbVars, storeVars, cursorVars, lockVars
<1>1. ASSUME NEW e \in Event, NEW l \in LimitSet, CreateEvent(e, l) PROVE TypeOK'
  <2>1. lastPub + 1 \in 0..MaxPub
    BY <1>1, SizesAssumption DEF CreateEvent, TypeOK
  <2>2. [pub |-> lastPub + 1, enabled |-> TRUE, deleting |-> FALSE, lapsed |-> FALSE,
         limits |-> l] \in EventRow
    BY <2>1 DEF EventRow
  <2>3. events' \in [Event -> EventRow]
    BY <1>1, <2>2 DEF CreateEvent, TypeOK
  <2> QED
    BY <1>1, <2>1, <2>3 DEF CreateEvent, TypeOK
<1>2. ASSUME NEW e \in Event, NEW on \in BOOLEAN, NEW l \in LimitSet, UpdateEvent(e, on, l)
      PROVE  TypeOK'
  <2>1. \A row \in EventRow :
          [row EXCEPT !.enabled = on, !.lapsed = FALSE, !.limits = l] \in EventRow
    BY DEF EventRow
  <2>2. events' \in [Event -> EventRow]
    BY <1>2, <2>1 DEF UpdateEvent, TypeOK
  <2> QED
    BY <1>2, <2>2 DEF UpdateEvent, TypeOK
<1>3. ASSUME NEW e \in Event, EventExpires(e) PROVE TypeOK'
  <2>1. \A row \in EventRow : [row EXCEPT !.lapsed = TRUE] \in EventRow
    BY DEF EventRow
  <2>2. events' \in [Event -> EventRow]
    BY <1>3, <2>1 DEF EventExpires, TypeOK
  <2> QED
    BY <1>3, <2>2 DEF EventExpires, TypeOK
<1>4. ASSUME NEW s \in Session, SessionExpires(s) PROVE TypeOK'
  <2>1. [sessions[s] EXCEPT !.state = "expired"] \in SessionRow
    BY DEF TypeOK, SessionRow
  <2>2. sessions' \in [Session -> SessionRow]
    BY <1>4, <2>1 DEF SessionExpires, TypeOK
  <2> QED
    BY <1>4, <2>2 DEF SessionExpires, TypeOK
<1>5. ASSUME NEW a \in Asset, AssetAges(a) PROVE TypeOK'
  <2>1. \A row \in AssetRow : [row EXCEPT !.stale = TRUE] \in AssetRow
    BY DEF AssetRow
  <2>2. assets' \in [Asset -> AssetRow]
    BY <1>5, <2>1 DEF AssetAges, TypeOK
  <2> QED
    BY <1>5, <2>2 DEF AssetAges, TypeOK
<1>6. ASSUME NEW a \in Asset, RetiredAges(a) PROVE TypeOK'
  <2>1. retired' \in [Asset -> {"none", "fresh", "due"}]
    BY <1>6 DEF RetiredAges, TypeOK
  <2> QED
    BY <1>6, <2>1 DEF RetiredAges, TypeOK
<1>7. ASSUME NEW a \in Asset, NEW b \in Bodies, GuestPut(a, b) PROVE TypeOK'
  <2>1. objects' \in [Asset -> Bodies \cup {None}]
    BY <1>7 DEF GuestPut, TypeOK
  <2> QED
    BY <1>7, <2>1 DEF GuestPut, TypeOK
<1>8. CASE Restart
  BY <1>8, ConstantsTyped, IdsAssumption DEF Restart, TypeOK, HandlerPC
<1> QED
  BY <1>1, <1>2, <1>3, <1>4, <1>5, <1>6, <1>7, <1>8 DEF Environment

\* Every step keeps the types, given what the control states promise.
LEMMA NextTyped ==
    ASSUME TypeOK, LocalsOK, [Next]_vars
    PROVE  TypeOK'
<1>1. ASSUME NEW p \in Proc, Serve(p) PROVE TypeOK'
  BY <1>1, SessionsTyped, UploadTyped, SnapshotTyped, PrepareTyped, AuthorizeTyped,
     CompleteTyped, DeletionTyped DEF Serve
<1>2. CASE UNCHANGED vars
  BY <1>2 DEF TypeOK, vars, dbVars, storeVars, lockVars, cursorVars
<1> QED
  BY <1>1, <1>2, AcceptTyped, CleanupTyped, RemovalTyped, EnvironmentTyped DEF Next

(* ---------------------------- labels and locks ------------------------- *)

\* A step of goroutine p leaves every other goroutine where it is.
OnlyActor(p) == \A q \in Actor : q # p => pc'[q] = pc[q] /\ loc'[q] = loc[q]

\* A return moves one goroutine, to idle.
LEMMA ReturnFrame ==
    ASSUME TypeOK, NEW p \in Actor, Return(p)
    PROVE  OnlyActor(p) /\ pc'[p] = "idle" /\ loc'[p] = NoLocal
BY DEF TypeOK, OnlyActor, Return, Goto

\* An error return moves one goroutine, to idle.
LEMMA FailFrame ==
    ASSUME TypeOK, NEW p \in Actor, NEW labels, FailAt(p, labels)
    PROVE  OnlyActor(p) /\ pc'[p] = "idle" /\ loc'[p] = NoLocal
BY ReturnFrame DEF FailAt

\* Where removeAttempt's three callers go on, and with which locks.
LEMMA RemoveReturnsFrame ==
    ASSUME TypeOK, NEW p \in Actor, NEW ok, RemoveReturns(p, ok)
    PROVE  /\ OnlyActor(p)
           /\ \/ pc'[p] = "idle" /\ Unlock(p)
              \/ /\ pc'[p] = "c_next" /\ Unlock(p)
                 /\ loc[p].op = "cleanup" /\ loc'[p].op = "cleanup"
              \/ /\ pc'[p] = "d_pick" /\ UNCHANGED lockVars
                 /\ loc[p].op = "delete" /\ loc'[p].op = "delete" /\ loc'[p].ev = loc[p].ev
<1>1. CASE Return(p)
  BY <1>1, ReturnFrame DEF Return
<1>2. CASE /\ loc[p].op = "delete"
           /\ Goto(p, "d_pick")
           /\ loc' = [loc EXCEPT ![p].at = None]
           /\ UNCHANGED lockVars
  BY <1>2 DEF TypeOK, OnlyActor, Goto, Local
<1>3. CASE /\ loc[p].op = "cleanup"
           /\ Goto(p, "c_next")
           /\ loc' = [loc EXCEPT ![p] = [@ EXCEPT !.at = None, !.ev = None]]
           /\ Unlock(p)
  BY <1>3 DEF TypeOK, OnlyActor, Goto, Local
<1> QED
  BY <1>1, <1>2, <1>3 DEF RemoveReturns

\* removeAttempt moves the goroutine that runs it and no other.
LEMMA RemovalFrame ==
    ASSUME TypeOK, NEW p \in Actor, removeAttempt(p)
    PROVE  OnlyActor(p)
<1>1. CASE \E ok : RemoveReturns(p, ok)
  BY <1>1, RemoveReturnsFrame
<1>2. CASE (\E l : Goto(p, l)) /\ UNCHANGED loc
  BY <1>2 DEF TypeOK, OnlyActor, Goto
<1> QED
  BY <1>1, <1>2 DEF removeAttempt, RemoveRead, RemoveRetire, RemoveObject, RemoveRow, RemoveFails

-----------------------------------------------------------------------------
(* LocalsOK: one lemma per operation. *)

\* An idle goroutine needs no locals.
LEMMA IdleOK ==
    ASSUME NEW p, pc'[p] = "idle"
    PROVE  HandlerOK(p)'
BY DEF HandlerOK, HandlerPC, UploadPC, VerifyPC, StripedPC, RemovalPC, Removing

\* After an error return the locals are those of an idle goroutine.
LEMMA FailLocals ==
    ASSUME TypeOK, NEW p \in Proc, NEW labels, FailAt(p, labels)
    PROVE  OnlyActor(p) /\ HandlerOK(p)'
<1> p \in Actor
  BY DEF Actor
<1> QED
  BY FailFrame, IdleOK

\* A request begins with the locals its operation needs.
LEMMA AcceptLocals ==
    ASSUME TypeOK, NEW p \in Proc, Accept(p)
    PROVE  OnlyActor(p) /\ HandlerOK(p)'
<1> p \in Actor
  BY DEF Actor
<1>1. PICK e \in Event :
        \/ SessionBegin(p, e) \/ SnapshotBegin(p, e) \/ DeleteBegin(p, e)
        \/ \E s \in Session :
             \/ \E c \in Claims, b \in Bodies : UploadBegin(p, e, s, c, b)
             \/ \E d \in Bodies, r \in Request : PrepareBegin(p, e, s, d, r)
             \/ \E a \in Asset, o \in {"authorize", "complete"} : DirectBegin(p, o, e, s, a)
  BY DEF Accept
<1>2. ASSUME OnlyActor(p), pc'[p] = "rlock", loc'[p].ev = e,
             loc'[p].op \in OpName \ {"delete"},
             loc'[p].op = "upload" => loc'[p].body \in Bodies /\ loc'[p].session \in Session,
             loc'[p].op = "prepare" => /\ loc'[p].size \in Nat /\ loc'[p].session \in Session
                                       /\ loc'[p].class \in Class,
             loc'[p].op \in {"authorize", "complete"} => loc'[p].at \in Asset
      PROVE  OnlyActor(p) /\ HandlerOK(p)'
  BY <1>2 DEF HandlerOK, HandlerPC, UploadPC, VerifyPC, StripedPC, RemovalPC, Removing
<1>3. CASE SessionBegin(p, e)
  <2>1. /\ OnlyActor(p) /\ pc'[p] = "rlock"
        /\ loc'[p].ev = e /\ loc'[p].op = "session"
    BY <1>3 DEF SessionBegin, BeginOpen, NoLocal, OnlyActor, TypeOK, Goto
  <2> QED
    BY <1>2, <2>1 DEF OpName
<1>4. CASE SnapshotBegin(p, e)
  <2>1. /\ OnlyActor(p) /\ pc'[p] = "rlock"
        /\ loc'[p].ev = e /\ loc'[p].op = "snapshot"
    BY <1>4 DEF SnapshotBegin, NoLocal, OnlyActor, TypeOK, Goto
  <2> QED
    BY <1>2, <2>1 DEF OpName
<1>5. CASE DeleteBegin(p, e)
  <2>1. /\ OnlyActor(p) /\ pc'[p] = "d_lock"
        /\ loc'[p].ev = e /\ loc'[p].op = "delete"
    BY <1>5 DEF DeleteBegin, NoLocal, OnlyActor, TypeOK, Goto
  <2> QED
    BY <2>1 DEF HandlerOK, HandlerPC, UploadPC, VerifyPC, StripedPC, RemovalPC, Removing
<1>6. ASSUME NEW s \in Session, NEW c \in Claims, NEW b \in Bodies, UploadBegin(p, e, s, c, b)
      PROVE  OnlyActor(p) /\ HandlerOK(p)'
  <2>1. /\ OnlyActor(p) /\ pc'[p] = "rlock" /\ loc'[p].ev = e /\ loc'[p].op = "upload"
        /\ loc'[p].body = b /\ loc'[p].session = s
    BY <1>6 DEF UploadBegin, BeginOpen, NoLocal, OnlyActor, TypeOK, Goto
  <2> QED
    BY <1>2, <2>1 DEF OpName
<1>7. ASSUME NEW s \in Session, NEW d \in Bodies, NEW r \in Request, PrepareBegin(p, e, s, d, r)
      PROVE  OnlyActor(p) /\ HandlerOK(p)'
  <2>1. d.size \in Nat /\ d.kind \in Class
    BY <1>7, SizesAssumption DEF PrepareBegin
  <2>2. /\ OnlyActor(p) /\ pc'[p] = "rlock" /\ loc'[p].ev = e /\ loc'[p].op = "prepare"
        /\ loc'[p].size = d.size /\ loc'[p].session = s /\ loc'[p].class = d.kind
    BY <1>7 DEF PrepareBegin, BeginOpen, NoLocal, OnlyActor, TypeOK, Goto
  <2> QED
    BY <1>2, <2>1, <2>2 DEF OpName
<1>8. ASSUME NEW s \in Session, NEW a \in Asset, NEW o \in {"authorize", "complete"},
             DirectBegin(p, o, e, s, a)
      PROVE  OnlyActor(p) /\ HandlerOK(p)'
  <2>1. /\ OnlyActor(p) /\ pc'[p] = "rlock" /\ loc'[p].ev = e /\ loc'[p].op = o
        /\ loc'[p].at = a
    BY <1>8 DEF DirectBegin, NoLocal, OnlyActor, TypeOK, Goto
  <2> QED
    BY <1>2, <2>1 DEF OpName
<1> QED
  BY <1>1, <1>3, <1>4, <1>5, <1>6, <1>7, <1>8

\* Upload has its session, body and, from the reservation on, its asset id.
LEMMA UploadLocals ==
    ASSUME TypeOK, LocalsOK, NEW p \in Proc, Upload(p)
    PROVE  OnlyActor(p) /\ HandlerOK(p)'
<1> p \in Actor
  BY DEF Actor
<1> USE DEF HandlerOK, HandlerPC, UploadPC, VerifyPC, StripedPC, RemovalPC, Removing, Goto,
            TypeOK, LocalsOK, OnlyActor
<1>1. CASE UploadLock(p)
  BY <1>1 DEF UploadLock, RLockReturns
<1>2. ASSUME NEW a \in Asset, UploadReserve(p, a) PROVE OnlyActor(p) /\ HandlerOK(p)'
  <2>1. CASE Return(p)
    BY <2>1, ReturnFrame, IdleOK
  <2>2. CASE /\ loc' = [loc EXCEPT ![p].at = a]
             /\ Goto(p, IF PrefixOf(loc[p].body) > UploadExpected(p) THEN "rm_read" ELSE "u_open")
    <3>1. pc'[p] \in {"rm_read", "u_open"} /\ OnlyActor(p)
      BY <2>2
    <3>2. /\ loc'[p].at = a /\ loc'[p].op = loc[p].op /\ loc'[p].body = loc[p].body
          /\ loc'[p].session = loc[p].session /\ loc'[p].ev = loc[p].ev
      BY <2>2 DEF Local
    <3> QED
      BY <1>2, <3>1, <3>2 DEF UploadReserve
  <2> QED
    BY <1>2, <2>1, <2>2 DEF UploadReserve
<1>3. CASE UploadOpen(p)
  BY <1>3 DEF UploadOpen
<1>4. CASE UploadWrite(p)
  BY <1>4 DEF UploadWrite
<1>5. CASE UploadFinish(p)
  <2>1. CASE Return(p)
    BY <2>1, ReturnFrame, IdleOK
  <2> QED
    BY <1>5, <2>1 DEF UploadFinish
<1>6. CASE UploadFinishFails(p)
  BY <1>6 DEF UploadFinishFails
<1>7. CASE FailAt(p, {"u_reserve"})
  BY <1>7, FailLocals
<1> QED
  BY <1>1, <1>2, <1>3, <1>4, <1>5, <1>6, <1>7 DEF Upload

\* CreateAttributedSession and Snapshot have their event.
LEMMA ReaderLocals ==
    ASSUME TypeOK, LocalsOK, NEW p \in Proc, CreateSession(p) \/ Snapshot(p)
    PROVE  OnlyActor(p) /\ HandlerOK(p)'
<1> p \in Actor
  BY DEF Actor
<1>1. ASSUME NEW s \in Session, SessionCreate(p, s) PROVE OnlyActor(p) /\ HandlerOK(p)'
  BY <1>1, ReturnFrame, IdleOK DEF SessionCreate
<1>2. CASE SnapshotList(p)
  <2>1. loc[p] \in Local
    BY DEF TypeOK
  <2>2. loc'[p].op = loc[p].op /\ loc'[p].ev = loc[p].ev
    BY <1>2, <2>1 DEF SnapshotList, TypeOK, Local
  <2> QED
    BY <1>2, <2>2 DEF SnapshotList, RLockReturns, OnlyActor, TypeOK, Goto, LocalsOK, HandlerOK,
                      HandlerPC, UploadPC, VerifyPC, StripedPC, RemovalPC, Removing
<1> QED
  BY <1>1, <1>2, FailLocals DEF CreateSession, Snapshot, SnapshotClose

\* Prepare, Authorize and Complete have their event and asset id.
LEMMA DirectLocals ==
    ASSUME TypeOK, LocalsOK, NEW p \in Proc,
           Prepare(p) \/ DirectLock(p) \/ Authorize(p) \/ Complete(p)
    PROVE  OnlyActor(p) /\ HandlerOK(p)'
<1> p \in Actor
  BY DEF Actor
<1> loc[p] \in Local
  BY DEF TypeOK
<1> USE DEF HandlerOK, HandlerPC, UploadPC, VerifyPC, StripedPC, RemovalPC, Removing, Goto,
            LocalsOK, OnlyActor
<1>1. ASSUME NEW a \in Asset, PrepareReserve(p, a) PROVE OnlyActor(p) /\ HandlerOK(p)'
  <2>1. CASE Return(p)
    BY <2>1, ReturnFrame, IdleOK
  <2>2. CASE PrepareThenAuthorize(p, a)
    <3>1. OnlyActor(p) /\ pc'[p] = pc[p]
      BY <2>2 DEF PrepareThenAuthorize, TypeOK
    <3>2. loc'[p].op = "authorize" /\ loc'[p].at = a /\ loc'[p].ev = loc[p].ev
      BY <2>2 DEF PrepareThenAuthorize, TypeOK, Local
    <3> QED
      BY <1>1, <3>1, <3>2 DEF PrepareReserve, RLockReturns, OpName
  <2> QED
    BY <1>1, <2>1, <2>2 DEF PrepareReserve
<1>2. CASE DirectLock(p)
  BY <1>2 DEF DirectLock, RLockReturns, TypeOK
<1>3. CASE AuthorizeLoad(p)
  BY <1>3 DEF AuthorizeLoad, StripeFree, TypeOK
<1>4. CASE AuthorizeSave(p)
  BY <1>4, ReturnFrame, IdleOK DEF AuthorizeSave
<1>5. CASE CompleteLoad(p)
  <2>1. OnlyActor(p) /\ pc'[p] = "f_head"
    BY <1>5 DEF CompleteLoad, TypeOK
  <2>2. loc'[p].op = loc[p].op /\ loc'[p].at = loc[p].at /\ loc'[p].ev = loc[p].ev
    BY <1>5 DEF CompleteLoad, TypeOK, Local
  <2> QED
    BY <1>5, <2>1, <2>2 DEF CompleteLoad, StripeFree
<1>6. CASE CompleteHead(p)
  <2>1. OnlyActor(p) /\ pc'[p] \in {"f_prefix", "f_reject"}
    BY <1>6 DEF CompleteHead, TypeOK
  <2>2. /\ loc'[p].op = loc[p].op /\ loc'[p].at = loc[p].at /\ loc'[p].ev = loc[p].ev
        /\ loc'[p].body = objects[loc[p].at]
    BY <1>6 DEF CompleteHead, TypeOK, Local
  <2>3. objects[loc[p].at] \in Bodies
    BY <1>6 DEF CompleteHead, TypeOK
  <2> QED
    BY <1>6, <2>1, <2>2, <2>3 DEF CompleteHead
<1>7. CASE CompletePrefix(p)
  BY <1>7 DEF CompletePrefix, TypeOK
<1>8. CASE CompleteReject(p) \/ CompleteCommit(p)
  BY <1>8, ReturnFrame, IdleOK DEF CompleteReject, CompleteCommit
<1> QED
  BY <1>1, <1>2, <1>3, <1>4, <1>5, <1>6, <1>7, <1>8, FailLocals DEF Prepare, Authorize, Complete

\* DeleteEvent has its event and, while it removes, an asset id.
LEMMA DeleteLocals ==
    ASSUME TypeOK, LocalsOK, NEW p \in Proc, DeleteEvent(p)
    PROVE  OnlyActor(p) /\ HandlerOK(p)'
<1> p \in Actor
  BY DEF Actor
<1> loc[p] \in Local
  BY DEF TypeOK
<1> USE DEF HandlerOK, HandlerPC, UploadPC, VerifyPC, StripedPC, RemovalPC, Removing, Goto,
            LocalsOK, OnlyActor
<1>1. CASE DeleteMark(p)
  BY <1>1 DEF DeleteMark, TypeOK
<1>2. ASSUME NEW a \in Asset, DeleteDemote(p, a) PROVE OnlyActor(p) /\ HandlerOK(p)'
  <2>1. OnlyActor(p) /\ pc'[p] = "rm_read"
    BY <1>2 DEF DeleteDemote, TypeOK
  <2>2. loc'[p].op = loc[p].op /\ loc'[p].at = a /\ loc'[p].ev = loc[p].ev
    BY <1>2 DEF DeleteDemote, TypeOK, Local
  <2> QED
    BY <1>2, <2>1, <2>2 DEF DeleteDemote
<1>3. CASE DeleteEmpty(p)
  BY <1>3 DEF DeleteEmpty, TypeOK
<1>4. CASE DeleteDrop(p)
  BY <1>4, ReturnFrame, IdleOK DEF DeleteDrop
<1> QED
  BY <1>1, <1>2, <1>3, <1>4, FailLocals DEF DeleteEvent

\* removeAttempt, run by a request, returns to a label of its caller.
LEMMA RemoveLocals ==
    ASSUME TypeOK, LocalsOK, NEW p \in Proc, removeAttempt(p)
    PROVE  HandlerOK(p)'
<1> p \in Actor
  BY DEF Actor
<1> USE DEF HandlerOK, HandlerPC, UploadPC, VerifyPC, StripedPC, RemovalPC, Removing, LocalsOK
<1>1. pc[p] \in RemovalPC
  BY DEF removeAttempt, RemoveRead, RemoveRetire, RemoveObject, RemoveRow, RemoveFails
<1>2. ASSUME NEW ok, RemoveReturns(p, ok) PROVE HandlerOK(p)'
  <2>1. loc[p].op # "cleanup"
    BY <1>1
  <2>2. CASE pc'[p] = "idle"
    BY <2>2, IdleOK
  <2>3. CASE pc'[p] = "d_pick" /\ loc'[p].op = "delete" /\ loc'[p].ev = loc[p].ev
    BY <1>1, <2>3
  <2> QED
    BY <1>2, <2>1, <2>2, <2>3, RemoveReturnsFrame
<1>3. ASSUME NEW l \in RemovalPC, Goto(p, l), UNCHANGED loc PROVE HandlerOK(p)'
  BY <1>1, <1>3 DEF TypeOK, Goto
<1> QED
  BY <1>2, <1>3 DEF removeAttempt, RemoveRead, RemoveRetire, RemoveObject, RemoveRow, RemoveFails,
                    AfterRead

\* removeAttempt, run by Cleanup, returns to the page.
LEMMA CleanerRemoves ==
    ASSUME TypeOK, LocalsOK, removeAttempt(Cleaner)
    PROVE  CleanerOK'
<1> Cleaner \in Actor
  BY DEF Actor
<1> USE DEF CleanerOK, CleanerPC, RemovalPC, Removing, LocalsOK
<1>1. pc[Cleaner] \in RemovalPC
  BY DEF removeAttempt, RemoveRead, RemoveRetire, RemoveObject, RemoveRow, RemoveFails
<1>2. ASSUME NEW ok, RemoveReturns(Cleaner, ok) PROVE CleanerOK'
  <2>1. \/ pc'[Cleaner] = "idle"
        \/ pc'[Cleaner] = "c_next" /\ loc'[Cleaner].op = "cleanup"
    BY <1>1, <1>2, RemoveReturnsFrame
  <2> QED
    BY <2>1
<1>3. ASSUME NEW l \in RemovalPC, Goto(Cleaner, l), UNCHANGED loc PROVE CleanerOK'
  BY <1>1, <1>3 DEF TypeOK, Goto
<1> QED
  BY <1>2, <1>3 DEF removeAttempt, RemoveRead, RemoveRetire, RemoveObject, RemoveRow, RemoveFails,
                    AfterRead

\* Cleanup has the asset it works on, whose row names an event.
LEMMA CleanupLocals ==
    ASSUME TypeOK, LocalsOK, TablesOK, Cleanup
    PROVE  OnlyActor(Cleaner) /\ CleanerOK'
<1> Cleaner \in Actor
  BY DEF Actor
<1> loc[Cleaner] \in Local
  BY DEF TypeOK
<1> USE DEF CleanerOK, CleanerPC, RemovalPC, Removing, LocalsOK, OnlyActor, Goto
<1>1. CASE CleanupStart
  BY <1>1 DEF CleanupStart, TypeOK
<1>2. CASE RetiredStart
  BY <1>2 DEF RetiredStart, TypeOK
<1>3. CASE RetiredMark
  BY <1>3 DEF RetiredMark, TypeOK
<1>4. CASE RetiredDone
  BY <1>4, ReturnFrame DEF RetiredDone
<1>5. ASSUME NEW a \in Asset, CleanupTake(a) PROVE OnlyActor(Cleaner) /\ CleanerOK'
  <2>1. assets[a].event \in Event
    BY <1>5 DEF CleanupTake, Stale, TablesOK, KeyOK, HasRow
  <2>2. OnlyActor(Cleaner) /\ pc'[Cleaner] = "rm_read"
    BY <1>5 DEF CleanupTake, TypeOK
  <2>3. /\ loc'[Cleaner].op = loc[Cleaner].op /\ loc'[Cleaner].at = a
        /\ loc'[Cleaner].ev = assets[a].event
    BY <1>5 DEF CleanupTake, TypeOK, Local
  <2>4. loc[Cleaner].op = "cleanup"
    BY <1>5 DEF CleanupTake
  <2> QED
    BY <2>1, <2>2, <2>3, <2>4
<1>6. ASSUME NEW a \in Asset, CleanupSkip(a) \/ RetiredSkip(a)
      PROVE  OnlyActor(Cleaner) /\ CleanerOK'
  <2>1. /\ OnlyActor(Cleaner) /\ pc'[Cleaner] = pc[Cleaner]
        /\ loc'[Cleaner].op = loc[Cleaner].op
    BY <1>6 DEF CleanupSkip, RetiredSkip, TypeOK, Local
  <2> QED
    BY <1>6, <2>1 DEF CleanupSkip, RetiredSkip
<1>7. ASSUME NEW a \in Asset, RetiredDelete(a) PROVE OnlyActor(Cleaner) /\ CleanerOK'
  <2>1. loc[Cleaner].op = "cleanup" /\ pc[Cleaner] = "r_next"
    BY <1>7 DEF RetiredDelete
  <2>2. CASE /\ Goto(Cleaner, "r_mark")
             /\ loc' = [loc EXCEPT ![Cleaner] = [@ EXCEPT !.list = loc[Cleaner].list \ {a},
                                                        !.at = a]]
    <3>1. /\ OnlyActor(Cleaner) /\ pc'[Cleaner] = "r_mark"
          /\ loc'[Cleaner].at = a /\ loc'[Cleaner].op = loc[Cleaner].op
      BY <2>2 DEF TypeOK, Local
    <3> QED
      BY <2>1, <3>1
  <2>3. CASE UNCHANGED pc /\ loc' = [loc EXCEPT ![Cleaner].list = @ \ {a}]
    <3>1. OnlyActor(Cleaner) /\ loc'[Cleaner].op = loc[Cleaner].op
      BY <2>3 DEF TypeOK, Local
    <3> QED
      BY <2>1, <2>3, <3>1
  <2> QED
    BY <1>7, <2>2, <2>3 DEF RetiredDelete
<1>8. CASE CleanupAborts
  BY <1>8, FailFrame DEF CleanupAborts
<1> QED
  BY <1>1, <1>2, <1>3, <1>4, <1>5, <1>6, <1>7, <1>8 DEF Cleanup

\* Every step keeps the labels and the locals in order.
LEMMA NextLocals ==
    ASSUME TypeOK, LocalsOK, TablesOK, [Next]_vars
    PROVE  LocalsOK'
<1> Cleaner \in Actor /\ Cleaner \notin Proc /\ Proc \subseteq Actor
  BY IdsAssumption DEF Actor
<1>1. ASSUME NEW p \in Proc, OnlyActor(p), HandlerOK(p)' PROVE LocalsOK'
  BY <1>1 DEF LocalsOK, OnlyActor, HandlerOK, CleanerOK, Removing
<1>2. ASSUME OnlyActor(Cleaner), CleanerOK' PROVE LocalsOK'
  BY <1>2 DEF LocalsOK, OnlyActor, HandlerOK, Removing
<1>3. ASSUME NEW p \in Proc, Accept(p) \/ Serve(p) PROVE LocalsOK'
  BY <1>1, <1>3, AcceptLocals, UploadLocals, ReaderLocals, DirectLocals, DeleteLocals DEF Serve
<1>4. ASSUME NEW p \in Actor, removeAttempt(p) PROVE LocalsOK'
  BY <1>1, <1>2, <1>4, RemoveLocals, CleanerRemoves, RemovalFrame DEF Actor
<1>5. CASE Cleanup
  BY <1>2, <1>5, CleanupLocals
<1>6. CASE Environment
  <2>1. CASE Restart
    BY <2>1, IdleOK DEF Restart, LocalsOK, CleanerOK, CleanerPC, Removing, RemovalPC
  <2>2. CASE UNCHANGED <<pc, loc>>
    BY <2>2 DEF LocalsOK, HandlerOK, CleanerOK, Removing
  <2> QED
    BY <1>6, <2>1, <2>2 DEF Environment, CreateEvent, UpdateEvent, EventExpires, SessionExpires,
                            AssetAges, RetiredAges, GuestPut
<1>7. CASE UNCHANGED vars
  BY <1>7 DEF vars, LocalsOK, HandlerOK, CleanerOK, Removing
<1> QED
  BY <1>3, <1>4, <1>5, <1>6, <1>7 DEF Next

-----------------------------------------------------------------------------
(* LocksOK: one lemma per way a step may change the locks. *)

\* Locks are held for an event that exists, rows for an asset id.
LEMMA LabelTypes ==
    ASSUME LocalsOK, NEW q \in Actor
    PROVE  /\ Reading(q) \/ Writing(q) => loc[q].ev \in Event
           /\ Striped(q) \/ Holding(q) => loc[q].at \in Asset
           /\ pc[q] = "stripe" => loc[q].at \in Asset
BY DEF Actor, LocalsOK, HandlerOK, CleanerOK, Reading, Writing, Striped, Holding, Removing,
       HandlerPC, CleanerPC, RemovalPC, UploadPC, StripedPC, VerifyPC

\* A step that changes no lock and needs none that it did not hold.
LEMMA LocksKept ==
    ASSUME TypeOK, LocalsOK, LocksOK, NEW p \in Actor, OnlyActor(p), UNCHANGED lockVars,
           Reading(p)' => Reading(p) /\ loc'[p].ev = loc[p].ev,
           Writing(p)' => Writing(p) /\ loc'[p].ev = loc[p].ev,
           Striped(p)' => Striped(p) /\ loc'[p].at = loc[p].at
    PROVE  LocksOK'
BY DEF LocksOK, lockVars, OnlyActor, Reading, Writing, Striped, Removing

\* A step that releases everything the goroutine held.
LEMMA LocksReleased ==
    ASSUME TypeOK, LocalsOK, LocksOK, NEW p \in Actor, OnlyActor(p), Unlock(p),
           pc'[p] \in {"idle", "c_next"}
    PROVE  LocksOK'
<1>1. ~Reading(p)' /\ ~Writing(p)' /\ ~Striped(p)'
  BY DEF Reading, Writing, Striped, Removing, UploadPC, StripedPC, VerifyPC, RemovalPC
<1>2. ASSUME NEW q \in Actor, q # p
      PROVE  /\ (Reading(q)' <=> Reading(q)) /\ (Writing(q)' <=> Writing(q))
             /\ (Striped(q)' <=> Striped(q)) /\ loc'[q] = loc[q]
  BY <1>2 DEF OnlyActor, Reading, Writing, Striped, Removing
<1>3. \A e \in Event : writer'[e] # None => readers'[e] = {}
  BY DEF LocksOK, Unlock
<1>4. \A q \in Actor : Reading(q)' => q \in readers'[loc'[q].ev]
  BY <1>1, <1>2, LabelTypes DEF LocksOK, Unlock
<1>5. \A q \in Actor : Writing(q)' => writer'[loc'[q].ev] = q
  BY <1>1, <1>2, LabelTypes DEF LocksOK, Unlock
<1>6. ASSUME NEW q \in Actor, Striped(q)' PROVE stripes'[StripeOf[loc'[q].at]] = q
  <2>1. q # p /\ Striped(q) /\ loc'[q] = loc[q]
    BY <1>1, <1>2, <1>6
  <2>2. stripes[StripeOf[loc[q].at]] = q /\ StripeOf[loc[q].at] \in Stripe
    BY <2>1, LabelTypes, IdsAssumption DEF LocksOK
  <2> QED
    BY <2>1, <2>2 DEF Unlock
<1> QED
  BY <1>3, <1>4, <1>5, <1>6 DEF LocksOK

\* A return releases everything the goroutine held.
LEMMA LocksReturned ==
    ASSUME TypeOK, LocalsOK, LocksOK, NEW p \in Actor, Return(p)
    PROVE  LocksOK'
BY ReturnFrame, LocksReleased DEF Return

\* RLock: there is no writer, and readers share.
LEMMA LocksRead ==
    ASSUME TypeOK, LocalsOK, LocksOK, NEW p \in Proc, OnlyActor(p), KeepRLock(p),
           pc[p] = "rlock", writer[loc[p].ev] = None, UNCHANGED <<writer, stripes>>,
           pc'[p] \in {"u_reserve", "stripe", "s_open"}, loc'[p].ev = loc[p].ev
    PROVE  LocksOK'
<1> p \in Actor /\ loc[p].ev \in Event
  BY DEF Actor, LocalsOK, HandlerOK
<1>1. ~Writing(p)' /\ ~Striped(p)'
  BY DEF Writing, Striped, Removing, StripedPC, VerifyPC, RemovalPC
<1>2. ASSUME NEW q \in Actor, q # p
      PROVE  /\ (Reading(q)' <=> Reading(q)) /\ (Writing(q)' <=> Writing(q))
             /\ (Striped(q)' <=> Striped(q)) /\ loc'[q] = loc[q]
  BY <1>2 DEF OnlyActor, Reading, Writing, Striped, Removing
<1>3. \A e \in Event : writer'[e] # None => readers'[e] = {}
  BY DEF LocksOK, KeepRLock, TypeOK
<1>4. \A q \in Actor : Reading(q)' => q \in readers'[loc'[q].ev]
  BY <1>2, LabelTypes DEF LocksOK, KeepRLock, TypeOK
<1>5. \A q \in Actor : Writing(q)' => writer'[loc'[q].ev] = q
  BY <1>1, <1>2 DEF LocksOK
<1>6. \A q \in Actor : Striped(q)' => stripes'[StripeOf[loc'[q].at]] = q
  BY <1>1, <1>2 DEF LocksOK
<1> QED
  BY <1>3, <1>4, <1>5, <1>6 DEF LocksOK

\* TryLock: there is neither a reader nor another writer.
LEMMA LocksWritten ==
    ASSUME TypeOK, LocalsOK, LocksOK, NEW p \in Actor, NEW e \in Event, OnlyActor(p),
           TryLock(p, e), loc'[p].ev = e,
           \/ pc'[p] = "d_pick"
           \/ pc'[p] = "rm_read" /\ loc'[p].op = "cleanup"
    PROVE  LocksOK'
<1>1. ~Reading(p)' /\ ~Striped(p)'
  BY DEF Reading, Striped, Removing, UploadPC, StripedPC, VerifyPC, RemovalPC
<1>2. ASSUME NEW q \in Actor, q # p
      PROVE  /\ (Reading(q)' <=> Reading(q)) /\ (Writing(q)' <=> Writing(q))
             /\ (Striped(q)' <=> Striped(q)) /\ loc'[q] = loc[q]
  BY <1>2 DEF OnlyActor, Reading, Writing, Striped, Removing
<1>3. \A f \in Event : writer'[f] # None => readers'[f] = {}
  BY DEF LocksOK, TryLock, TypeOK
<1>4. \A q \in Actor : Reading(q)' => q \in readers'[loc'[q].ev]
  BY <1>1, <1>2, LabelTypes DEF LocksOK, TryLock, TypeOK
<1>5. \A q \in Actor : Writing(q)' => writer'[loc'[q].ev] = q
  BY <1>2, LabelTypes, IdsAssumption DEF LocksOK, TryLock, TypeOK
<1>6. \A q \in Actor : Striped(q)' => stripes'[StripeOf[loc'[q].at]] = q
  BY <1>1, <1>2 DEF LocksOK, TryLock
<1> QED
  BY <1>3, <1>4, <1>5, <1>6 DEF LocksOK

\* A free stripe gets its only holder.
LEMMA LocksStriped ==
    ASSUME TypeOK, LocalsOK, LocksOK, NEW p \in Proc, OnlyActor(p),
           pc[p] = "stripe", stripes[StripeOf[loc[p].at]] = None, LockStripe(p),
           UNCHANGED <<readers, writer>>, pc'[p] \in {"a_sign", "f_head"},
           loc'[p].ev = loc[p].ev, loc'[p].at = loc[p].at
    PROVE  LocksOK'
<1> p \in Actor /\ loc[p].at \in Asset
  BY DEF Actor, LocalsOK, HandlerOK
<1>1. ~Writing(p)' /\ Reading(p)
  BY DEF Reading, Writing, Removing, RemovalPC
<1>2. ASSUME NEW q \in Actor, q # p
      PROVE  /\ (Reading(q)' <=> Reading(q)) /\ (Writing(q)' <=> Writing(q))
             /\ (Striped(q)' <=> Striped(q)) /\ loc'[q] = loc[q]
  BY <1>2 DEF OnlyActor, Reading, Writing, Striped, Removing
<1>3. \A e \in Event : writer'[e] # None => readers'[e] = {}
  BY DEF LocksOK
<1>4. \A q \in Actor : Reading(q)' => q \in readers'[loc'[q].ev]
  BY <1>1, <1>2 DEF LocksOK
<1>5. \A q \in Actor : Writing(q)' => writer'[loc'[q].ev] = q
  BY <1>1, <1>2 DEF LocksOK
<1>6. ASSUME NEW q \in Actor, Striped(q)' PROVE stripes'[StripeOf[loc'[q].at]] = q
  <2>1. StripeOf[loc[p].at] \in Stripe
    BY IdsAssumption
  <2>2. CASE q = p
    BY <2>1, <2>2 DEF LockStripe, TypeOK
  <2>3. CASE q # p
    <3>1. stripes[StripeOf[loc[q].at]] = q /\ loc'[q] = loc[q]
      BY <1>2, <1>6, <2>3 DEF LocksOK
    <3>2. StripeOf[loc[q].at] # StripeOf[loc[p].at]
      BY <3>1, IdsAssumption
    <3> QED
      BY <2>1, <3>1, <3>2 DEF LockStripe, TypeOK
  <2> QED
    BY <2>2, <2>3
<1> QED
  BY <1>3, <1>4, <1>5, <1>6 DEF LocksOK

\* Labels at which no lock is held.
LEMMA LocksFree ==
    ASSUME TypeOK, LocalsOK, LocksOK, NEW p \in Actor, OnlyActor(p), UNCHANGED lockVars,
           pc'[p] \in {"idle", "rlock", "d_lock", "c_next", "r_next", "r_mark"}
    PROVE  LocksOK'
<1>1. ~Reading(p)' /\ ~Writing(p)' /\ ~Striped(p)'
  BY DEF Reading, Writing, Striped, Removing, UploadPC, StripedPC, VerifyPC, RemovalPC
<1> QED
  BY <1>1, LocksKept

\* Requests: one case per action, by the way it changes the locks.
LEMMA ServeLocks ==
    ASSUME TypeOK, LocalsOK, LocksOK, NEW p \in Proc, Accept(p) \/ Serve(p)
    PROVE  LocksOK'
<1> p \in Actor
  BY DEF Actor
<1> loc[p] \in Local /\ HandlerOK(p)
  BY DEF TypeOK, LocalsOK
<1>1. OnlyActor(p)
  BY AcceptLocals, UploadLocals, ReaderLocals, DirectLocals, DeleteLocals DEF Serve
<1>2. CASE Return(p)
  BY <1>2, LocksReturned
<1>3. CASE Accept(p)
  <2>1. pc'[p] \in {"rlock", "d_lock"} /\ UNCHANGED lockVars
    BY <1>3 DEF Accept, SessionBegin, SnapshotBegin, DeleteBegin, UploadBegin, PrepareBegin,
                DirectBegin, BeginOpen, Goto, TypeOK
  <2> QED
    BY <1>1, <2>1, LocksFree
<1>4. CASE UploadLock(p)
  <2>1. pc'[p] = "u_reserve" /\ loc'[p].ev = loc[p].ev
    BY <1>4 DEF UploadLock, Goto, TypeOK
  <2> QED
    BY <1>1, <1>4, <2>1, LocksRead DEF UploadLock, RLockReturns
<1>5. ASSUME NEW a \in Asset, UploadReserve(p, a), ~Return(p) PROVE LocksOK'
  <2>1. /\ pc[p] = "u_reserve" /\ pc'[p] \in {"rm_read", "u_open"}
        /\ loc'[p].ev = loc[p].ev /\ UNCHANGED lockVars
    BY <1>5 DEF UploadReserve, Goto, TypeOK, Local
  <2>2. loc'[p].op = loc[p].op /\ loc[p].op = "upload"
    BY <1>5, <2>1 DEF UploadReserve, TypeOK, Local, HandlerOK
  <2>3. Reading(p) /\ ~Writing(p)' /\ ~Striped(p)'
    BY <2>1, <2>2 DEF Reading, Writing, Striped, Removing, UploadPC, StripedPC, VerifyPC, RemovalPC
  <2> QED
    BY <1>1, <2>1, <2>3, LocksKept
<1>6. CASE UploadOpen(p) \/ UploadWrite(p) \/ (UploadFinish(p) /\ ~Return(p)) \/ UploadFinishFails(p)
  <2>1. /\ pc[p] \in UploadPC /\ pc'[p] \in UploadPC \cup {"rm_read"}
        /\ loc' = loc /\ UNCHANGED lockVars
    BY <1>6 DEF UploadOpen, UploadWrite, UploadFinish, UploadFinishFails, Goto, TypeOK, UploadPC
  <2>2. loc[p].op = "upload"
    BY <2>1 DEF HandlerOK
  <2>3. Reading(p) /\ ~Writing(p)' /\ ~Striped(p)'
    BY <2>1, <2>2 DEF Reading, Writing, Striped, Removing, UploadPC, StripedPC, VerifyPC, RemovalPC
  <2> QED
    BY <1>1, <2>1, <2>3, LocksKept
<1>7. CASE SnapshotList(p)
  <2>1. pc'[p] = "s_open" /\ loc'[p].ev = loc[p].ev
    BY <1>7 DEF SnapshotList, Goto, TypeOK, Local
  <2> QED
    BY <1>1, <1>7, <2>1, LocksRead DEF SnapshotList, RLockReturns
<1>8. ASSUME NEW a \in Asset, PrepareReserve(p, a), ~Return(p) PROVE LocksOK'
  <2>1. pc'[p] = "rlock" /\ UNCHANGED lockVars
    BY <1>8 DEF PrepareReserve, PrepareThenAuthorize, RLockReturns
  <2> QED
    BY <1>1, <2>1, LocksFree
<1>9. CASE DirectLock(p)
  <2>1. pc'[p] = "stripe" /\ loc'[p].ev = loc[p].ev
    BY <1>9 DEF DirectLock, Goto, TypeOK
  <2> QED
    BY <1>1, <1>9, <2>1, LocksRead DEF DirectLock, RLockReturns
<1>10. CASE AuthorizeLoad(p)
  <2>1. pc'[p] = "a_sign" /\ loc'[p] = loc[p]
    BY <1>10 DEF AuthorizeLoad, Goto, TypeOK
  <2> QED
    BY <1>1, <1>10, <2>1, LocksStriped DEF AuthorizeLoad, StripeFree
<1>11. CASE CompleteLoad(p)
  <2>1. pc'[p] = "f_head" /\ loc'[p].ev = loc[p].ev /\ loc'[p].at = loc[p].at
    BY <1>11 DEF CompleteLoad, Goto, TypeOK, Local
  <2> QED
    BY <1>1, <1>11, <2>1, LocksStriped DEF CompleteLoad, StripeFree
<1>12. CASE CompleteHead(p) \/ CompletePrefix(p)
  <2>1. pc[p] \in VerifyPC /\ pc'[p] \in VerifyPC /\ UNCHANGED lockVars
    BY <1>12 DEF CompleteHead, CompletePrefix, Goto, TypeOK, VerifyPC
  <2>2. loc'[p].ev = loc[p].ev /\ loc'[p].at = loc[p].at
    BY <1>12 DEF CompleteHead, CompletePrefix, TypeOK, Local
  <2>3. Reading(p) /\ ~Writing(p)' /\ Striped(p)
    BY <2>1 DEF Reading, Writing, Striped, Removing, StripedPC, VerifyPC, RemovalPC
  <2> QED
    BY <1>1, <2>1, <2>2, <2>3, LocksKept
<1>13. CASE DeleteMark(p)
  <2>1. pc'[p] = "d_pick" /\ loc'[p] = loc[p] /\ loc[p].ev \in Event
    BY <1>13 DEF DeleteMark, Goto, TypeOK, HandlerOK
  <2> QED
    BY <1>1, <1>13, <2>1, LocksWritten DEF DeleteMark
<1>14. ASSUME NEW a \in Asset, DeleteDemote(p, a) PROVE LocksOK'
  <2>1. /\ pc[p] = "d_pick" /\ pc'[p] = "rm_read" /\ UNCHANGED lockVars
        /\ loc'[p].ev = loc[p].ev /\ loc'[p].op = loc[p].op
    BY <1>14 DEF DeleteDemote, Goto, TypeOK, Local
  <2>2. loc[p].op = "delete"
    BY <2>1 DEF HandlerOK
  <2>3. Writing(p) /\ ~Reading(p)' /\ ~Striped(p)'
    BY <2>1, <2>2 DEF Reading, Writing, Striped, Removing, UploadPC, StripedPC, VerifyPC, RemovalPC
  <2> QED
    BY <1>1, <2>1, <2>3, LocksKept
<1>15. CASE DeleteEmpty(p)
  <2>1. pc[p] = "d_pick" /\ pc'[p] = "d_drop" /\ loc'[p] = loc[p] /\ UNCHANGED lockVars
    BY <1>15 DEF DeleteEmpty, Goto, TypeOK
  <2>2. Writing(p) /\ ~Reading(p)' /\ ~Striped(p)'
    BY <2>1 DEF Reading, Writing, Striped, Removing, UploadPC, StripedPC, VerifyPC, RemovalPC
  <2> QED
    BY <1>1, <2>1, <2>2, LocksKept
<1>16. ASSUME NEW labels, FailAt(p, labels) PROVE LocksOK'
  BY <1>2, <1>16 DEF FailAt
<1>17. CASE CreateSession(p) \/ Snapshot(p)
  BY <1>2, <1>7, <1>16, <1>17 DEF CreateSession, SessionCreate, Snapshot, SnapshotClose
<1>18. CASE Upload(p)
  BY <1>2, <1>4, <1>5, <1>6, <1>16, <1>18 DEF Upload
<1>19. CASE Prepare(p) \/ Authorize(p) \/ Complete(p)
  BY <1>2, <1>8, <1>10, <1>11, <1>12, <1>16, <1>19
     DEF Prepare, Authorize, AuthorizeSave, Complete, CompleteReject, CompleteCommit
<1>20. CASE DeleteEvent(p)
  BY <1>2, <1>13, <1>14, <1>15, <1>16, <1>20 DEF DeleteEvent, DeleteDrop
<1> QED
  BY <1>3, <1>9, <1>17, <1>18, <1>19, <1>20 DEF Serve

\* removeAttempt keeps its caller's locks or returns them.
LEMMA RemovalLocks ==
    ASSUME TypeOK, LocalsOK, LocksOK, NEW p \in Actor, removeAttempt(p)
    PROVE  LocksOK'
<1>1. OnlyActor(p)
  BY RemovalFrame
<1>2. pc[p] \in RemovalPC
  BY DEF removeAttempt, RemoveRead, RemoveRetire, RemoveObject, RemoveRow, RemoveFails,
         RemovalPC
<1>3. ASSUME NEW ok, RemoveReturns(p, ok) PROVE LocksOK'
  <2>1. CASE pc'[p] \in {"idle", "c_next"} /\ Unlock(p)
    BY <1>1, <2>1, LocksReleased
  <2>2. CASE /\ pc'[p] = "d_pick" /\ UNCHANGED lockVars
             /\ loc[p].op = "delete" /\ loc'[p].op = "delete" /\ loc'[p].ev = loc[p].ev
    <3>1. Writing(p) /\ ~Reading(p)' /\ ~Striped(p)'
      BY <1>2, <2>2 DEF Reading, Writing, Striped, Removing, UploadPC, StripedPC, VerifyPC, RemovalPC
    <3> QED
      BY <1>1, <2>2, <3>1, LocksKept
  <2> QED
    BY <1>3, <2>1, <2>2, RemoveReturnsFrame
<1>4. ASSUME NEW l \in RemovalPC, Goto(p, l), UNCHANGED <<loc, lockVars>> PROVE LocksOK'
  <2>1. pc'[p] \in RemovalPC /\ loc'[p] = loc[p]
    BY <1>4 DEF Goto, TypeOK
  <2>2. /\ Reading(p)' => Reading(p)
        /\ Writing(p)' => Writing(p)
        /\ ~Striped(p)'
    BY <1>2, <2>1 DEF Reading, Writing, Striped, Removing, UploadPC, StripedPC, VerifyPC, RemovalPC
  <2> QED
    BY <1>1, <1>4, <2>1, <2>2, LocksKept
<1> QED
  BY <1>3, <1>4 DEF removeAttempt, RemoveRead, RemoveRetire, RemoveObject, RemoveRow, RemoveFails,
                    AfterRead, RemovalPC

\* Cleanup takes an event's lock for one row at a time.
LEMMA CleanupLocks ==
    ASSUME TypeOK, LocalsOK, LocksOK, TablesOK, Cleanup
    PROVE  LocksOK'
<1> Cleaner \in Actor /\ loc[Cleaner] \in Local
  BY DEF Actor, TypeOK
<1>1. OnlyActor(Cleaner)
  BY CleanupLocals
<1>2. CASE Return(Cleaner)
  BY <1>2, LocksReturned
<1>3. CASE /\ UNCHANGED lockVars
           /\ pc'[Cleaner] \in {"c_next", "r_next", "r_mark"}
  BY <1>1, <1>3, LocksFree
<1>4. ASSUME NEW a \in Asset, CleanupTake(a) PROVE LocksOK'
  <2>1. assets[a].event \in Event
    BY <1>4 DEF CleanupTake, Stale, TablesOK, KeyOK, HasRow
  <2>2. /\ pc'[Cleaner] = "rm_read" /\ loc'[Cleaner].op = loc[Cleaner].op
        /\ loc'[Cleaner].ev = assets[a].event
    BY <1>4 DEF CleanupTake, TypeOK, Goto, Local
  <2>3. loc[Cleaner].op = "cleanup"
    BY <1>4 DEF CleanupTake, LocalsOK, CleanerOK
  <2> QED
    BY <1>1, <1>4, <2>1, <2>2, <2>3, LocksWritten DEF CleanupTake
<1> QED
  BY <1>2, <1>3, <1>4 DEF Cleanup, CleanupStart, CleanupSkip, RetiredStart, RetiredDelete,
     RetiredSkip, RetiredMark, RetiredDone, CleanupAborts, FailAt, Goto, TypeOK

\* Every step keeps the locks consistent with the labels.
LEMMA NextLocks ==
    ASSUME TypeOK, LocalsOK, LocksOK, TablesOK, [Next]_vars
    PROVE  LocksOK'
<1>1. CASE UNCHANGED <<lockVars, pc, loc>>
  BY <1>1 DEF LocksOK, lockVars, Reading, Writing, Striped, Removing
<1>2. CASE Environment
  <2>1. CASE Restart
    BY <2>1 DEF Restart, LocksOK, Reading, Writing, Striped, Removing, UploadPC, StripedPC,
                VerifyPC, RemovalPC
  <2> QED
    BY <1>1, <1>2, <2>1 DEF Environment, CreateEvent, UpdateEvent, EventExpires, SessionExpires,
                            AssetAges, RetiredAges, GuestPut
<1>3. CASE UNCHANGED vars
  BY <1>1, <1>3 DEF vars
<1> QED
  BY <1>2, <1>3, ServeLocks, RemovalLocks, CleanupLocks DEF Next

-----------------------------------------------------------------------------
(* Exclusion *)

\* No other goroutine relies on the row of key a.
NoOtherHolder(p, a) == \A q \in Actor : q # p /\ Holding(q) => loc[q].at # a

\* Holding a row means holding the lock of its event.
LEMMA HoldingLocks ==
    ASSUME LocalsOK, NEW q \in Actor, Holding(q)
    PROVE  /\ Reading(q) \/ Writing(q)
           /\ ~Writing(q) => Uploading(q) \/ Striped(q)
BY DEF Actor, LocalsOK, HandlerOK, CleanerOK, Holding, Reading, Writing, Uploading, Striped,
       Removing, RemovalPC, UploadPC, StripedPC, VerifyPC, CleanerPC

\* Who holds the event for writing is alone with all of its rows.
LEMMA WriterAlone ==
    ASSUME TypeOK, LocalsOK, LocksOK, WorkOK, NEW p \in Actor, Writing(p),
           NEW a \in Asset, HasRow(a) => assets[a].event = loc[p].ev
    PROVE  NoOtherHolder(p, a)
<1> SUFFICES ASSUME NEW q \in Actor, q # p, Holding(q), loc[q].at = a PROVE FALSE
  BY DEF NoOtherHolder
<1>1. HasRow(a) /\ assets[a].event = loc[q].ev
  BY DEF WorkOK, RowOK
<1>2. loc[q].ev = loc[p].ev /\ loc[p].ev \in Event
  BY <1>1, LabelTypes
<1>3. writer[loc[p].ev] = p /\ readers[loc[p].ev] = {}
  <2>1. p # None
    BY IdsAssumption
  <2>2. writer[loc[p].ev] = p
    BY DEF LocksOK
  <2> QED
    BY <1>2, <2>1, <2>2 DEF LocksOK
<1> QED
  BY <1>2, <1>3, HoldingLocks DEF LocksOK

\* Two holders of one row would hold one event lock, and then one stripe, or
\* be two uploads, or an upload and a direct upload.
LEMMA HolderAlone ==
    ASSUME TypeOK, LocalsOK, LocksOK, WorkOK, UploadsDisjoint, NEW p \in Actor, Holding(p)
    PROVE  NoOtherHolder(p, loc[p].at)
<1> DEFINE a == loc[p].at
<1>1. a \in Asset
  BY LabelTypes
<1>2. HasRow(a) /\ assets[a].event = loc[p].ev
  BY DEF WorkOK, RowOK
<1>3. CASE Writing(p)
  BY <1>1, <1>2, <1>3, WriterAlone
<1>4. CASE ~Writing(p)
  <2> SUFFICES ASSUME NEW q \in Actor, q # p, Holding(q), loc[q].at = a PROVE FALSE
    BY DEF NoOtherHolder
  <2>1. assets[a].event = loc[q].ev
    BY DEF WorkOK, RowOK
  <2>2. ~Writing(q)
    <3> SUFFICES ASSUME Writing(q) PROVE FALSE
      OBVIOUS
    <3>1. NoOtherHolder(q, a)
      BY <1>1, <2>1, WriterAlone
    <3> QED
      BY <3>1 DEF NoOtherHolder
  <2>3. Uploading(p) \/ Striped(p)
    BY <1>4, HoldingLocks
  <2>4. Uploading(q) \/ Striped(q)
    BY <2>2, HoldingLocks
  <2>5. CASE Uploading(p) /\ Uploading(q)
    BY <2>5 DEF UploadsDisjoint
  <2>6. CASE Striped(p) /\ Striped(q)
    BY <2>6 DEF LocksOK
  <2>7. CASE (Uploading(p) /\ Striped(q)) \/ (Striped(p) /\ Uploading(q))
    <3>1. Uploading(p) \/ Uploading(q) => assets[a].backend = "local"
      BY DEF WorkOK, RowOK
    <3>2. Striped(p) \/ Striped(q) => assets[a].backend = "s3"
      BY DEF WorkOK, RowOK
    <3> QED
      BY <2>7, <3>1, <3>2
  <2> QED
    BY <2>3, <2>4, <2>5, <2>6, <2>7
<1> QED
  BY <1>3, <1>4

=============================================================================
