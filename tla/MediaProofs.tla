---------------------------- MODULE MediaProofs -----------------------------
(***************************************************************************)
(* The inductive invariant IInv holds of Spec for all values of the        *)
(* constants, and with it the safety properties of Media.  A step of one   *)
(* goroutine touches at most one key; while it does, no other goroutine    *)
(* relies on that key (NoOtherHolder), so what the others know stays true. *)
(***************************************************************************)
EXTENDS MediaControlProofs

\* Nothing about key b changes; nothing about any key but a changes.
SameKey(b) ==
    /\ assets'[b] = assets[b] /\ objects'[b] = objects[b] /\ retired'[b] = retired[b]
    /\ (b \in parts') <=> (b \in parts)
    /\ (b \in urls') <=> (b \in urls)
OnlyKey(a) == \A b \in Asset : b # a => SameKey(b)

\* What the invariant says about one key.
Recorded(a) ==
    objects[a] # None \/ a \in parts \/ a \in urls => HasRow(a) \/ retired[a] # "none"
Backed(a) ==
    assets[a].status = "ready" =>
        \/ retired[a] # "none"
        \/ /\ objects[a] # None
           /\ Sniff(objects[a])
           /\ objects[a].size = assets[a].size /\ ClassOf(objects[a]) = assets[a].class
KeySafe(a) == KeyOK(a) /\ Recorded(a) /\ Backed(a)
KeysSafe == \A a \in Asset : KeySafe(a)

\* The properties of the keys, one key at a time.
LEMMA KeysSafeDef == KeysSafe <=> TablesOK /\ NothingOrphaned /\ ReadyIsBacked
BY DEF KeysSafe, KeySafe, TablesOK, NothingOrphaned, ReadyIsBacked, Recorded, Backed

\* A step that touches one key keeps the others safe.
LEMMA KeysKept ==
    ASSUME KeysSafe, NEW a, OnlyKey(a), a \in Asset => KeySafe(a)'
    PROVE  KeysSafe'
<1> SUFFICES ASSUME NEW b \in Asset PROVE KeySafe(b)'
  BY DEF KeysSafe
<1>1. CASE b = a
  BY <1>1
<1>2. CASE b # a
  BY <1>2 DEF OnlyKey, SameKey, KeysSafe, KeySafe, KeyOK, Recorded, Backed, HasRow
<1> QED
  BY <1>1, <1>2

\* What other goroutines rely on survives a step on a key none of them holds.
LEMMA WorkKept ==
    ASSUME LocalsOK, WorkOK, NEW p \in Actor, OnlyActor(p), NEW a, OnlyKey(a),
           NoOtherHolder(p, a), Holding(p)' => RowOK(p)'
    PROVE  WorkOK'
<1> SUFFICES ASSUME NEW q \in Actor, Holding(q)' PROVE RowOK(q)'
  BY DEF WorkOK
<1>1. CASE q = p
  BY <1>1
<1>2. CASE q # p
  <2>1. pc'[q] = pc[q] /\ loc'[q] = loc[q] /\ Holding(q)
    BY <1>2 DEF OnlyActor, Holding, Removing
  <2>2. RowOK(q) /\ loc[q].at \in Asset /\ SameKey(loc[q].at)
    BY <1>2, <2>1, LabelTypes DEF WorkOK, NoOtherHolder, OnlyKey
  <2> QED
    BY <2>1, <2>2 DEF RowOK, SameKey, HasRow, Uploading, Striped, Removing
<1> QED
  BY <1>1, <1>2

\* A new upload owns a row that nobody else holds.
LEMMA UploadsKept ==
    ASSUME UploadsDisjoint, NEW p \in Actor, OnlyActor(p),
           Uploading(p)' => NoOtherHolder(p, loc'[p].at)
    PROVE  UploadsDisjoint'
<1> SUFFICES ASSUME NEW q \in Actor, NEW r \in Actor, Uploading(q)', Uploading(r)', q # r
             PROVE  loc'[q].at # loc'[r].at
  BY DEF UploadsDisjoint
<1>1. ASSUME NEW s \in Actor, s # p, Uploading(s)'
      PROVE  Uploading(s) /\ Holding(s) /\ loc'[s] = loc[s]
  BY <1>1 DEF OnlyActor, Uploading, Holding, Removing
<1>2. CASE q = p
  BY <1>1, <1>2 DEF NoOtherHolder
<1>3. CASE r = p
  BY <1>1, <1>3 DEF NoOtherHolder
<1>4. CASE q # p /\ r # p
  BY <1>1, <1>4 DEF UploadsDisjoint
<1> QED
  BY <1>2, <1>3, <1>4

\* Nobody adds a row to an event that another goroutine holds for writing.
LEMMA EmptiedKept ==
    ASSUME TypeOK, TypeOK', LocalsOK, EmptiedOK, NEW p \in Actor, OnlyActor(p),
           \A b \in Asset : HasRow(b)' =>
              \/ HasRow(b) /\ assets'[b].event = assets[b].event
              \/ \A q \in Actor : q # p /\ Writing(q) => loc[q].ev # assets'[b].event,
           pc'[p] = "d_drop" => OfEvent(assets', loc'[p].ev) = {}
    PROVE  EmptiedOK'
<1> SUFFICES ASSUME NEW q \in Actor, pc'[q] = "d_drop" PROVE OfEvent(assets', loc'[q].ev) = {}
  BY DEF EmptiedOK
<1>1. CASE q = p
  BY <1>1
<1>2. CASE q # p
  <2>1. pc[q] = "d_drop" /\ loc'[q] = loc[q] /\ Writing(q)
    BY <1>2 DEF OnlyActor, Writing
  <2>2. \A b \in Asset : ~(HasRow(b) /\ assets[b].event = loc[q].ev)
    BY <2>1 DEF EmptiedOK, OfEvent, Live, HasRow, TypeOK
  <2>3. \A b \in Asset : ~(HasRow(b)' /\ assets'[b].event = loc[q].ev)
    BY <1>2, <2>1, <2>2
  <2> QED
    BY <2>1, <2>3 DEF OfEvent, Live, HasRow, TypeOK
<1> QED
  BY <1>1, <1>2

\* Only the writer of an event takes its ready rows back, and it excludes readers.
LEMMA SnapshotsKept ==
    ASSUME TypeOK, LocalsOK, LocksOK, SnapshotOK, NEW p \in Actor, OnlyActor(p),
           \A b \in Asset : assets[b].status = "ready" =>
              \/ assets'[b].status = "ready" /\ assets'[b].event = assets[b].event
              \/ Writing(p) /\ assets[b].event = loc[p].ev,
           pc'[p] = "s_open" => \A b \in loc'[p].list :
              assets'[b].status = "ready" /\ assets'[b].event = loc'[p].ev
    PROVE  SnapshotOK'
<1> SUFFICES ASSUME NEW q \in Actor, pc'[q] = "s_open", NEW b \in loc'[q].list
             PROVE  assets'[b].status = "ready" /\ assets'[b].event = loc'[q].ev
  BY DEF SnapshotOK
<1>1. CASE q = p
  BY <1>1
<1>2. CASE q # p
  <2>1. pc[q] = "s_open" /\ loc'[q] = loc[q] /\ Reading(q)
    BY <1>2 DEF OnlyActor, Reading
  <2>2. assets[b].status = "ready" /\ assets[b].event = loc[q].ev
    BY <2>1 DEF SnapshotOK
  <2>3. b \in Asset
    BY <2>1 DEF TypeOK, Local
  <2>4. ~(Writing(p) /\ loc[q].ev = loc[p].ev)
    <3> SUFFICES ASSUME Writing(p), loc[q].ev = loc[p].ev PROVE FALSE
      OBVIOUS
    <3>1. writer[loc[p].ev] = p /\ p # None /\ loc[p].ev \in Event
      BY LabelTypes, IdsAssumption DEF LocksOK
    <3>2. q \in readers[loc[p].ev]
      BY <2>1 DEF LocksOK
    <3> QED
      BY <3>1, <3>2 DEF LocksOK
  <2> QED
    BY <2>1, <2>2, <2>3, <2>4
<1> QED
  BY <1>1, <1>2

\* The keys of a pass over s3_cleanup stay retired.
LEMMA PassKept ==
    ASSUME TypeOK, LocalsOK, PassOK, NEW p \in Actor, OnlyActor(p),
           \A b \in Asset : retired[b] # "none" => retired'[b] # "none",
           pc'[p] \notin {"r_next", "r_mark"}
    PROVE  PassOK'
<1>1. CASE p = Cleaner
  BY <1>1 DEF PassOK
<1>2. CASE p # Cleaner
  BY <1>2 DEF PassOK, OnlyActor, TypeOK, Local, Actor, LocalsOK, CleanerOK
<1> QED
  BY <1>1, <1>2

-----------------------------------------------------------------------------
(* One step of one goroutine p that touches at most key a (None: no key). *)

\* All parts of IInv together, for such a step.
LEMMA StepKeeps ==
    ASSUME IInv, TypeOK', LocalsOK', LocksOK',
           NEW p \in Actor, NEW a, OnlyActor(p), OnlyKey(a), NoOtherHolder(p, a),
           a \in Asset =>
              /\ KeySafe(a)'
              /\ HasRow(a)' =>
                    \/ HasRow(a) /\ assets'[a].event = assets[a].event
                    \/ \A q \in Actor : q # p /\ Writing(q) => loc[q].ev # assets'[a].event
              /\ assets[a].status = "ready" =>
                    \/ assets'[a].status = "ready" /\ assets'[a].event = assets[a].event
                    \/ Writing(p) /\ assets[a].event = loc[p].ev
              /\ retired[a] # "none" => retired'[a] # "none",
           Holding(p)' => RowOK(p)',
           Uploading(p)' => NoOtherHolder(p, loc'[p].at),
           pc'[p] = "d_drop" => OfEvent(assets', loc'[p].ev) = {},
           pc'[p] = "s_open" => \A b \in loc'[p].list :
              assets'[b].status = "ready" /\ assets'[b].event = loc'[p].ev,
           pc'[p] \notin {"r_next", "r_mark"}
    PROVE  IInv'
<1> USE DEF IInv
<1>1. KeysSafe'
  BY KeysSafeDef, KeysKept
<1>2. TablesOK' /\ NothingOrphaned' /\ ReadyIsBacked'
  BY <1>1, KeysSafeDef, PTL
<1>3. WorkOK'
  BY WorkKept
<1>4. UploadsDisjoint'
  BY UploadsKept
<1>5. EmptiedOK'
  <2>1. \A b \in Asset : HasRow(b)' =>
              \/ HasRow(b) /\ assets'[b].event = assets[b].event
              \/ \A q \in Actor : q # p /\ Writing(q) => loc[q].ev # assets'[b].event
    BY DEF OnlyKey, SameKey, HasRow
  <2> QED
    BY <2>1, EmptiedKept
<1>6. SnapshotOK'
  <2>1. \A b \in Asset : assets[b].status = "ready" =>
              \/ assets'[b].status = "ready" /\ assets'[b].event = assets[b].event
              \/ Writing(p) /\ assets[b].event = loc[p].ev
    BY DEF OnlyKey, SameKey
  <2> QED
    BY <2>1, SnapshotsKept
<1>7. PassOK'
  <2>1. \A b \in Asset : retired[b] # "none" => retired'[b] # "none"
    BY DEF OnlyKey, SameKey
  <2> QED
    BY <2>1, PassKept
<1> QED
  BY <1>2, <1>3, <1>4, <1>5, <1>6, <1>7

\* A step that touches no key and ends where nothing is relied on.
LEMMA QuietStep ==
    ASSUME IInv, TypeOK', LocalsOK', LocksOK', NEW p \in Actor, OnlyActor(p),
           UNCHANGED <<assets, retired, objects, parts, urls>>,
           pc'[p] \in {"idle", "rlock", "d_lock", "stripe", "u_reserve", "d_pick", "c_next"}
    PROVE  IInv'
<1>1. OnlyKey(None) /\ None \notin Asset
  BY IdsAssumption DEF OnlyKey, SameKey
<1>2. NoOtherHolder(p, None)
  BY <1>1, LabelTypes DEF NoOtherHolder, IInv
<1>3. ~Holding(p)' /\ ~Uploading(p)'
  BY DEF Holding, Uploading, Removing, UploadPC, StripedPC, VerifyPC, RemovalPC
<1> QED
  BY <1>1, <1>2, <1>3, StepKeeps

-----------------------------------------------------------------------------
(* removeAttempt *)

\* removeAttempt: an S3 key is retired before its object and its row go; a
\* local row goes after its files.
LEMMA RemovalStep ==
    ASSUME IInv, TypeOK', LocalsOK', LocksOK', NEW p \in Actor, removeAttempt(p)
    PROVE  IInv'
<1> USE DEF dbVars, storeVars
<1>1. pc[p] \in RemovalPC
  BY DEF removeAttempt, RemoveRead, RemoveRetire, RemoveObject, RemoveRow, RemoveFails, RemovalPC
<1>2. Holding(p)
  BY <1>1 DEF Holding
<1>0. PICK a \in Asset : a = loc[p].at
  BY <1>2, LabelTypes DEF IInv
<1>3. a = loc[p].at /\ OnlyActor(p) /\ NoOtherHolder(p, a)
  BY <1>0, <1>2, RemovalFrame, HolderAlone DEF IInv
<1>4. /\ HasRow(a) /\ assets[a].event = loc[p].ev /\ assets[a].backend \in {"local", "s3"}
      /\ pc[p] # "rm_read" => assets[a].status = "pending"
  BY <1>2, <1>3 DEF IInv, WorkOK, RowOK, TypeOK, AssetRow
<1>5. KeySafe(a)
  BY <1>3, KeysSafeDef DEF IInv, KeysSafe
<1>6. ASSUME NEW ok, RemoveReturns(p, ok)
      PROVE  /\ ~Holding(p)' /\ ~Uploading(p)'
             /\ pc'[p] \notin {"d_drop", "s_open", "r_next", "r_mark"}
  <2>1. pc'[p] \in {"idle", "c_next", "d_pick"}
    BY <1>6, RemoveReturnsFrame DEF IInv
  <2> QED
    BY <2>1 DEF Holding, Uploading, Removing, UploadPC, StripedPC, VerifyPC, RemovalPC
<1>7. ASSUME NEW l \in RemovalPC, Goto(p, l), UNCHANGED loc
      PROVE  /\ pc'[p] = l /\ loc'[p] = loc[p]
             /\ l \notin {"d_drop", "s_open", "r_next", "r_mark"}
             /\ ~Striped(p)' /\ l \notin UploadPC
             /\ Uploading(p)' <=> Uploading(p)
  BY <1>1, <1>7 DEF IInv, TypeOK, Goto, Uploading, Striped, Removing, UploadPC, StripedPC,
                    VerifyPC, RemovalPC
<1>8. CASE RemoveRead(p)
  <2>1. OnlyKey(a) /\ SameKey(a)
    BY <1>8 DEF RemoveRead, OnlyKey, SameKey
  <2>2. KeySafe(a)'
    BY <1>5, <2>1 DEF SameKey, KeySafe, KeyOK, Recorded, Backed, HasRow
  <2>3. CASE RemoveReturns(p, ~HasRow(a))
    BY <1>3, <1>4, <1>6, <2>1, <2>2, <2>3, StepKeeps DEF SameKey, HasRow
  <2>4. CASE /\ Removable(assets[a]) /\ Goto(p, AfterRead(assets[a])) /\ UNCHANGED loc
    <3>1. AfterRead(assets[a]) \in {"rm_retire", "rm_object"}
      BY DEF AfterRead
    <3>2. /\ pc'[p] = AfterRead(assets[a]) /\ loc'[p] = loc[p]
          /\ ~Striped(p)' /\ pc'[p] \notin UploadPC /\ (Uploading(p)' <=> Uploading(p))
      BY <1>7, <2>4, <3>1 DEF RemovalPC
    <3>3. RowOK(p)'
      <4>1. RowOK(p) /\ assets[a].status = "pending"
        BY <1>2, <2>4 DEF IInv, WorkOK, Removable
      <4> QED
        BY <1>3, <1>4, <2>1, <3>1, <3>2, <4>1 DEF RowOK, SameKey, HasRow, AfterRead
    <3> QED
      BY <1>3, <1>4, <2>1, <2>2, <3>1, <3>2, <3>3, StepKeeps DEF SameKey, HasRow
  <2> QED
    BY <1>3, <1>8, <2>3, <2>4 DEF RemoveRead
<1>9. CASE RemoveRetire(p)
  <2>1. /\ OnlyKey(a) /\ assets' = assets /\ objects' = objects /\ parts' = parts /\ urls' = urls
        /\ retired'[a] # "none"
    BY <1>3, <1>9 DEF RemoveRetire, OnlyKey, SameKey, IInv, TypeOK
  <2>2. pc[p] = "rm_retire" /\ assets[a].backend = "s3" /\ assets[a].status = "pending"
    BY <1>3, <1>2, <1>4, <1>9 DEF RemoveRetire, IInv, WorkOK, RowOK
  <2>3. KeySafe(a)'
    BY <1>5, <2>1, <2>2 DEF KeySafe, KeyOK, Recorded, Backed, HasRow
  <2>4. CASE RemoveReturns(p, FALSE)
    BY <1>3, <1>4, <1>6, <2>1, <2>3, <2>4, StepKeeps DEF HasRow
  <2>5. CASE Goto(p, "rm_object") /\ UNCHANGED loc
    <3>1. /\ pc'[p] = "rm_object" /\ loc'[p] = loc[p]
          /\ ~Striped(p)' /\ pc'[p] \notin UploadPC /\ (Uploading(p)' <=> Uploading(p))
      BY <1>7, <2>5 DEF RemovalPC
    <3>2. RowOK(p)'
      <4>1. RowOK(p)
        BY <1>2 DEF IInv, WorkOK
      <4> QED
        BY <1>3, <2>1, <2>2, <3>1, <4>1 DEF RowOK, HasRow
    <3> QED
      BY <1>3, <1>4, <2>1, <2>3, <3>1, <3>2, StepKeeps DEF HasRow
  <2> QED
    BY <1>9, <2>4, <2>5 DEF RemoveRetire
<1>10. CASE RemoveObject(p)
  <2>1. /\ OnlyKey(a) /\ assets' = assets /\ retired' = retired /\ urls' = urls
        /\ objects'[a] \in {objects[a], None} /\ a \notin parts'
    BY <1>3, <1>10 DEF RemoveObject, OnlyKey, SameKey, IInv, TypeOK
  <2>2. pc[p] = "rm_object" /\ assets[a].status = "pending"
    BY <1>4, <1>10 DEF RemoveObject
  <2>3. KeySafe(a)'
    BY <1>5, <2>1, <2>2 DEF KeySafe, KeyOK, Recorded, Backed, HasRow
  <2>4. CASE RemoveReturns(p, FALSE)
    BY <1>3, <1>4, <1>6, <2>1, <2>3, <2>4, StepKeeps DEF HasRow
  <2>5. CASE objects' = [objects EXCEPT ![a] = None] /\ Goto(p, "rm_row") /\ UNCHANGED loc
    <3>1. /\ pc'[p] = "rm_row" /\ loc'[p] = loc[p]
          /\ ~Striped(p)' /\ pc'[p] \notin UploadPC /\ (Uploading(p)' <=> Uploading(p))
      BY <1>7, <2>5 DEF RemovalPC
    <3>2. objects'[a] = None
      BY <1>3, <2>5 DEF IInv, TypeOK
    <3>3. RowOK(p)'
      <4>1. RowOK(p)
        BY <1>2 DEF IInv, WorkOK
      <4> QED
        BY <1>3, <2>1, <2>2, <3>1, <3>2, <4>1 DEF RowOK, HasRow
    <3> QED
      BY <1>3, <1>4, <2>1, <2>3, <3>1, <3>3, StepKeeps DEF HasRow
  <2> QED
    BY <1>3, <1>10, <2>4, <2>5 DEF RemoveObject
<1>11. CASE RemoveRow(p)
  <2>1. assets[a].status = "pending" /\ pc[p] = "rm_row"
    BY <1>4, <1>11 DEF RemoveRow
  <2>2. /\ OnlyKey(a) /\ objects' = objects /\ retired' = retired /\ parts' = parts /\ urls' = urls
        /\ assets'[a] = Gone(assets[a])
    BY <1>3, <1>11, <2>1 DEF RemoveRow, OnlyKey, SameKey, IInv, TypeOK
  <2>3. assets'[a].status = "gone"
    BY <2>2 DEF Gone, NoAsset
  <2>4. \/ assets[a].backend = "s3" /\ retired[a] # "none"
        \/ assets[a].backend = "local" /\ objects[a] = None /\ a \notin parts
    BY <1>3, <1>2, <1>4, <2>1 DEF IInv, WorkOK, RowOK
  <2>5. KeySafe(a)'
    BY <1>4, <1>5, <2>2, <2>3, <2>4 DEF KeySafe, KeyOK, Recorded, Backed, HasRow
  <2>6. PICK ok \in BOOLEAN : RemoveReturns(p, ok)
    BY <1>11 DEF RemoveRow
  <2> QED
    BY <1>3, <1>6, <2>1, <2>2, <2>3, <2>5, <2>6, StepKeeps DEF HasRow
<1>12. CASE RemoveFails(p)
  <2>1. pc'[p] \in {"idle", "c_next", "d_pick"}
    BY <1>12, RemoveReturnsFrame DEF RemoveFails, IInv
  <2> QED
    BY <1>3, <1>12, <2>1, QuietStep DEF RemoveFails
<1> QED
  BY <1>8, <1>9, <1>10, <1>11, <1>12 DEF removeAttempt

-----------------------------------------------------------------------------
(* What a goroutine may rely on *)

\* Who holds a row is alone with it and knows what IInv says about it.
LEMMA HolderFacts ==
    ASSUME IInv, NEW p \in Actor, Holding(p)
    PROVE  /\ loc[p].at \in Asset /\ NoOtherHolder(p, loc[p].at)
           /\ RowOK(p) /\ KeySafe(loc[p].at)
BY LabelTypes, HolderAlone, KeysSafeDef DEF IInv, WorkOK, KeysSafe

\* Nobody relies on a key that was never used.
LEMMA UnusedFree ==
    ASSUME IInv, NEW p \in Actor, NEW a \in Asset, assets[a].status = "unused"
    PROVE  NoOtherHolder(p, a) /\ KeySafe(a)
BY KeysSafeDef DEF IInv, WorkOK, RowOK, HasRow, NoOtherHolder, KeysSafe

\* While an event is read, or not locked for writing, it has no writer.
LEMMA NoWriter ==
    ASSUME IInv, NEW p \in Actor, NEW e \in Event,
           (Reading(p) /\ loc[p].ev = e) \/ writer[e] = None
    PROVE  \A q \in Actor : q # p /\ Writing(q) => loc[q].ev # e
BY IdsAssumption DEF IInv, LocksOK

\* A label of Upload or of removeAttempt is none of the special ones.
LEMMA UploadLabels ==
    ASSUME NEW p, pc'[p] \in UploadPC \cup {"rm_read"}
    PROVE  /\ pc'[p] \notin {"d_drop", "s_open", "r_next", "r_mark", "f_commit", "rm_retire",
                              "rm_object", "rm_row"}
           /\ ~Striped(p)'
BY DEF UploadPC, StripedPC, VerifyPC, Striped

\* A step of a goroutine that returns relies on nothing any more.
LEMMA Returned ==
    ASSUME NEW p, pc'[p] = "idle"
    PROVE  /\ ~Holding(p)' /\ ~Uploading(p)'
           /\ pc'[p] \notin {"d_drop", "s_open", "r_next", "r_mark"}
BY DEF Holding, Uploading, Removing, UploadPC, StripedPC, VerifyPC, RemovalPC

-----------------------------------------------------------------------------
(* Upload *)

\* The new row is nobody else's, and its event has no writer.
LEMMA UploadReserveStep ==
    ASSUME IInv, TypeOK', LocalsOK', LocksOK', NEW p \in Proc, NEW a \in Asset,
           UploadReserve(p, a), OnlyActor(p)
    PROVE  IInv'
<1> USE DEF dbVars, storeVars
<1>1. p \in Actor /\ pc[p] = "u_reserve" /\ Reading(p) /\ loc[p].ev \in Event
  BY DEF UploadReserve, Actor, Reading, IInv, LocalsOK, HandlerOK
<1>2. NoOtherHolder(p, a) /\ KeySafe(a) /\ assets[a].status = "unused"
  BY <1>1, UnusedFree DEF UploadReserve
<1>3. \A q \in Actor : q # p /\ Writing(q) => loc[q].ev # loc[p].ev
  BY <1>1, NoWriter
<1>4. /\ OnlyKey(a) /\ objects' = objects /\ retired' = retired /\ parts' = parts /\ urls' = urls
      /\ assets'[a] = [NoAsset EXCEPT !.status = "pending", !.event = loc[p].ev,
                          !.session = loc[p].session, !.backend = "local",
                          !.expected = UploadExpected(p), !.class = ClassOf(loc[p].body)]
  BY DEF UploadReserve, OnlyKey, SameKey, IInv, TypeOK
<1>5. /\ assets'[a].status = "pending" /\ assets'[a].event = loc[p].ev
      /\ assets'[a].backend = "local" /\ assets'[a].class = ClassOf(loc[p].body)
  BY <1>4 DEF NoAsset
<1>6. KeySafe(a)'
  BY <1>1, <1>2, <1>4, <1>5 DEF KeySafe, KeyOK, Recorded, Backed, HasRow
<1>7. CASE Return(p)
  BY <1>1, <1>2, <1>3, <1>4, <1>5, <1>6, <1>7, ReturnFrame, Returned, StepKeeps DEF IInv
<1>8. CASE /\ loc' = [loc EXCEPT ![p].at = a]
           /\ Goto(p, IF PrefixOf(loc[p].body) > UploadExpected(p) THEN "rm_read" ELSE "u_open")
  <2>1. pc'[p] \in {"rm_read", "u_open"}
    BY <1>1, <1>8 DEF Goto, IInv, TypeOK
  <2>2. loc'[p].at = a /\ loc'[p].ev = loc[p].ev /\ loc'[p].body = loc[p].body
    BY <1>1, <1>8 DEF IInv, TypeOK, Local
  <2>3. RowOK(p)'
    <3>1. pc'[p] \in UploadPC \cup {"rm_read"} /\ pc'[p] # "u_finish"
      BY <2>1 DEF UploadPC
    <3> QED
      BY <1>5, <2>2, <3>1, UploadLabels DEF RowOK, HasRow
  <2>4. pc'[p] \notin {"d_drop", "s_open", "r_next", "r_mark"}
    BY <2>1
  <2> QED
    BY <1>1, <1>2, <1>3, <1>4, <1>5, <1>6, <2>2, <2>3, <2>4, StepKeeps
<1> QED
  BY <1>7, <1>8 DEF UploadReserve

\* Upload: what Put wrote and sniffing accepted is what the ready row records.
LEMMA UploadStep ==
    ASSUME IInv, TypeOK', LocalsOK', LocksOK', NEW p \in Proc, Upload(p)
    PROVE  IInv'
<1> USE DEF dbVars, storeVars
<1>1. p \in Actor /\ OnlyActor(p)
  BY UploadLocals DEF IInv, Actor
<1>2. CASE UploadLock(p)
  <2>1. pc'[p] = "u_reserve"
    BY <1>1, <1>2 DEF UploadLock, Goto, IInv, TypeOK
  <2> QED
    BY <1>1, <1>2, <2>1, QuietStep DEF UploadLock
<1>3. CASE FailAt(p, {"u_reserve"})
  <2>1. pc'[p] = "idle"
    BY <1>1, <1>3, FailFrame DEF IInv
  <2> QED
    BY <1>1, <1>3, <2>1, QuietStep DEF FailAt
<1>4. CASE \E a \in Asset : UploadReserve(p, a)
  BY <1>1, <1>4, UploadReserveStep
<1>5. CASE UploadOpen(p) \/ UploadWrite(p) \/ UploadFinish(p) \/ UploadFinishFails(p)
  <2>1. pc[p] \in UploadPC /\ Holding(p) /\ Uploading(p)
    BY <1>5 DEF UploadOpen, UploadWrite, UploadFinish, UploadFinishFails, UploadPC, Holding,
                Uploading
  <2>2. PICK a \in Asset : a = loc[p].at
    BY <1>1, <2>1, HolderFacts
  <2>3. NoOtherHolder(p, a) /\ RowOK(p) /\ KeySafe(a)
    BY <1>1, <2>1, <2>2, HolderFacts
  <2>4. /\ HasRow(a) /\ assets[a].event = loc[p].ev /\ assets[a].status = "pending"
        /\ assets[a].backend = "local" /\ assets[a].class = ClassOf(loc[p].body)
        /\ pc[p] = "u_finish" => objects[a] = loc[p].body /\ Sniff(loc[p].body)
    <3>1. pc[p] # "rm_read"
      BY <2>1 DEF UploadPC
    <3> QED
      BY <2>1, <2>2, <2>3, <3>1 DEF RowOK
  <2>5. loc[p].body \in Bodies
    BY <2>1 DEF IInv, LocalsOK, HandlerOK
  <2>6. ASSUME NEW l \in UploadPC \cup {"rm_read"}, Goto(p, l), UNCHANGED loc
        PROVE  pc'[p] = l /\ loc'[p] = loc[p]
    BY <1>1, <2>6 DEF Goto, IInv, TypeOK
  <2>7. CASE UploadOpen(p)
    <3>1. PICK l \in {"u_write", "rm_read"} : Goto(p, l)
      BY <2>7 DEF UploadOpen
    <3>2. /\ OnlyKey(a) /\ assets' = assets /\ objects' = objects /\ retired' = retired
          /\ urls' = urls /\ loc' = loc
      BY <2>2, <2>7 DEF UploadOpen, OnlyKey, SameKey
    <3>3. pc'[p] \in UploadPC \cup {"rm_read"} /\ pc'[p] # "u_finish" /\ loc'[p] = loc[p]
      BY <2>6, <3>1, <3>2 DEF UploadPC
    <3>4. KeySafe(a)'
      BY <2>3, <2>4, <3>2 DEF KeySafe, KeyOK, Recorded, Backed, HasRow
    <3>5. RowOK(p)'
      BY <2>2, <2>4, <3>2, <3>3, UploadLabels DEF RowOK, HasRow
    <3> QED
      BY <1>1, <2>2, <2>3, <2>4, <3>2, <3>3, <3>4, <3>5, UploadLabels, StepKeeps DEF HasRow
  <2>8. CASE UploadWrite(p)
    <3>1. PICK l \in {"u_finish", "rm_read"} : Goto(p, l)
      BY <2>8 DEF UploadWrite
    <3>2. /\ OnlyKey(a) /\ assets' = assets /\ retired' = retired
          /\ urls' = urls /\ loc' = loc
      BY <2>2, <2>8 DEF UploadWrite, OnlyKey, SameKey, IInv, TypeOK
    <3>3. pc'[p] \in UploadPC \cup {"rm_read"} /\ loc'[p] = loc[p] /\ pc'[p] = l
      BY <2>6, <3>1, <3>2 DEF UploadPC
    <3>4. KeySafe(a)'
      BY <2>3, <2>4, <3>2 DEF KeySafe, KeyOK, Recorded, Backed, HasRow
    <3>5. pc'[p] = "u_finish" => objects'[a] = loc[p].body /\ Sniff(loc[p].body)
      <4> SUFFICES ASSUME pc'[p] = "u_finish"
                   PROVE  objects'[a] = loc[p].body /\ Sniff(loc[p].body)
        OBVIOUS
      <4>1. ~Goto(p, "rm_read")
        BY <1>1 DEF Goto, IInv, TypeOK
      <4> QED
        BY <2>2, <2>8, <4>1 DEF UploadWrite, IInv, TypeOK
    <3>6. RowOK(p)'
      BY <2>2, <2>4, <3>2, <3>3, <3>5, UploadLabels DEF RowOK, HasRow
    <3> QED
      BY <1>1, <2>2, <2>3, <2>4, <3>2, <3>3, <3>4, <3>6, UploadLabels, StepKeeps DEF HasRow
  <2>9. CASE UploadFinish(p)
    <3>1. /\ OnlyKey(a) /\ objects' = objects /\ retired' = retired /\ parts' = parts
          /\ urls' = urls
          /\ assets'[a] = [assets[a] EXCEPT !.status = "ready", !.size = loc[p].body.size]
      BY <2>2, <2>9 DEF UploadFinish, OnlyKey, SameKey, IInv, TypeOK
    <3>2. assets[a] \in AssetRow
      BY DEF IInv, TypeOK
    <3>3. /\ assets'[a].status = "ready" /\ assets'[a].size = loc[p].body.size
          /\ assets'[a].event = assets[a].event /\ assets'[a].backend = assets[a].backend
          /\ assets'[a].class = assets[a].class
      BY <3>1, <3>2 DEF AssetRow
    <3>4. objects[a] = loc[p].body /\ Sniff(loc[p].body) /\ loc[p].body # None
      BY <2>4, <2>5, <2>9, IdsAssumption DEF UploadFinish
    <3>5. KeySafe(a)'
      BY <2>3, <2>4, <3>1, <3>3, <3>4 DEF KeySafe, KeyOK, Recorded, Backed, HasRow
    <3>6. CASE Return(p)
      BY <1>1, <2>3, <2>4, <3>1, <3>3, <3>5, <3>6, ReturnFrame, Returned, StepKeeps DEF IInv
    <3>7. CASE Goto(p, "rm_read") /\ UNCHANGED loc
      <4>1. pc'[p] = "rm_read" /\ loc'[p] = loc[p]
        BY <2>6, <3>7
      <4>2. RowOK(p)'
        BY <2>2, <2>4, <3>3, <4>1, UploadLabels DEF RowOK, HasRow, UploadPC
      <4> QED
        BY <1>1, <2>2, <2>3, <2>4, <3>1, <3>3, <3>5, <4>1, <4>2, StepKeeps
    <3> QED
      BY <2>9, <3>6, <3>7 DEF UploadFinish
  <2>10. CASE UploadFinishFails(p)
    <3>1. pc'[p] = "rm_read" /\ loc'[p] = loc[p]
      BY <2>6, <2>10 DEF UploadFinishFails
    <3>2. OnlyKey(a) /\ UNCHANGED <<assets, objects, retired, parts, urls>>
      BY <2>10 DEF UploadFinishFails, OnlyKey, SameKey
    <3>3. KeySafe(a)'
      BY <2>3, <3>2 DEF KeySafe, KeyOK, Recorded, Backed, HasRow
    <3>4. RowOK(p)'
      BY <2>2, <2>4, <3>1, <3>2, UploadLabels DEF RowOK, HasRow, UploadPC
    <3> QED
      BY <1>1, <2>2, <2>3, <2>4, <3>1, <3>2, <3>3, <3>4, StepKeeps DEF HasRow
  <2> QED
    BY <1>5, <2>7, <2>8, <2>9, <2>10
<1> QED
  BY <1>2, <1>3, <1>4, <1>5 DEF Upload

-----------------------------------------------------------------------------
(* Requests, sessions and snapshots *)

\* The begin of a request touches nothing.
LEMMA AcceptStep ==
    ASSUME IInv, TypeOK', LocalsOK', LocksOK', NEW p \in Proc, Accept(p)
    PROVE  IInv'
<1> USE DEF dbVars, storeVars
<1>1. p \in Actor /\ OnlyActor(p)
  BY AcceptLocals DEF IInv, Actor
<1>2. Goto(p, "rlock") \/ Goto(p, "d_lock")
  BY DEF Accept, SessionBegin, SnapshotBegin, DeleteBegin, UploadBegin, PrepareBegin,
         DirectBegin, BeginOpen
<1>3. UNCHANGED <<assets, retired, objects, parts, urls>>
  BY DEF Accept, SessionBegin, SnapshotBegin, DeleteBegin, UploadBegin, PrepareBegin,
         DirectBegin, BeginOpen
<1>4. pc'[p] \in {"rlock", "d_lock"}
  BY <1>1, <1>2 DEF Goto, IInv, TypeOK
<1> QED
  BY <1>1, <1>3, <1>4, QuietStep

\* An error return touches nothing.
LEMMA FailStep ==
    ASSUME IInv, TypeOK', LocalsOK', LocksOK', NEW p \in Actor, NEW labels, FailAt(p, labels)
    PROVE  IInv'
<1>1. OnlyActor(p) /\ pc'[p] = "idle"
  BY FailFrame DEF IInv
<1> QED
  BY <1>1, QuietStep DEF FailAt, dbVars, storeVars

\* A session is created; a snapshot lists ready rows under the read lock.
LEMMA ReaderStep ==
    ASSUME IInv, TypeOK', LocalsOK', LocksOK', NEW p \in Proc, CreateSession(p) \/ Snapshot(p)
    PROVE  IInv'
<1> USE DEF dbVars, storeVars
<1>1. p \in Actor /\ OnlyActor(p)
  BY ReaderLocals DEF IInv, Actor
<1>2. CASE \E s \in Session : SessionCreate(p, s)
  <2>1. pc'[p] = "idle" /\ UNCHANGED <<assets, retired, objects, parts, urls>>
    BY <1>1, <1>2, ReturnFrame DEF SessionCreate, IInv
  <2> QED
    BY <1>1, <2>1, QuietStep
<1>3. CASE SnapshotList(p)
  <2>1. OnlyKey(None) /\ None \notin Asset
    BY <1>3, IdsAssumption DEF SnapshotList, OnlyKey, SameKey
  <2>2. NoOtherHolder(p, None)
    BY <2>1, LabelTypes DEF NoOtherHolder, IInv
  <2>3. pc'[p] = "s_open" /\ assets' = assets
    BY <1>1, <1>3 DEF SnapshotList, Goto, IInv, TypeOK
  <2>4. loc'[p].ev = loc[p].ev
        /\ loc'[p].list = {a \in OfEvent(assets, loc[p].ev) : assets[a].status = "ready"}
    BY <1>1, <1>3 DEF SnapshotList, IInv, TypeOK, Local
  <2>5. \A b \in loc'[p].list : assets'[b].status = "ready" /\ assets'[b].event = loc'[p].ev
    BY <2>3, <2>4 DEF OfEvent
  <2>6. ~Holding(p)' /\ ~Uploading(p)'
    BY <2>3 DEF Holding, Uploading, Removing, UploadPC, StripedPC, VerifyPC, RemovalPC
  <2> QED
    BY <1>1, <2>1, <2>2, <2>3, <2>5, <2>6, StepKeeps
<1>4. CASE \E labels : FailAt(p, labels)
  BY <1>1, <1>4, FailStep
<1> QED
  BY <1>2, <1>3, <1>4 DEF CreateSession, Snapshot, SnapshotClose

-----------------------------------------------------------------------------
(* Direct uploads *)

\* A prepared row is nobody else's, and its event has no writer.
LEMMA PrepareStep ==
    ASSUME IInv, TypeOK', LocalsOK', LocksOK', NEW p \in Proc, NEW a \in Asset,
           PrepareReserve(p, a), OnlyActor(p)
    PROVE  IInv'
<1> USE DEF dbVars, storeVars
<1>1. /\ p \in Actor /\ pc[p] = "rlock" /\ loc[p].ev \in Event /\ writer[loc[p].ev] = None
  BY DEF PrepareReserve, RLockReturns, Actor, IInv, LocalsOK, HandlerOK
<1>2. pc'[p] \in {"rlock", "idle"}
  BY <1>1, ReturnFrame DEF PrepareReserve, PrepareThenAuthorize, IInv
<1>3. CASE UNCHANGED assets
  BY <1>1, <1>2, <1>3, QuietStep DEF PrepareReserve
<1>4. CASE /\ assets[a].status = "unused"
           /\ assets' = [assets EXCEPT ![a] =
                [NoAsset EXCEPT !.status = "pending", !.event = loc[p].ev,
                                !.session = loc[p].session, !.backend = "s3",
                                !.expected = loc[p].size, !.class = loc[p].class,
                                !.request = loc[p].request]]
  <2>1. NoOtherHolder(p, a) /\ KeySafe(a)
    BY <1>1, <1>4, UnusedFree
  <2>2. \A q \in Actor : q # p /\ Writing(q) => loc[q].ev # loc[p].ev
    BY <1>1, NoWriter
  <2>3. OnlyKey(a) /\ UNCHANGED <<retired, objects, parts, urls>>
    BY <1>4 DEF PrepareReserve, OnlyKey, SameKey, IInv, TypeOK
  <2>4. /\ assets'[a].status = "pending" /\ assets'[a].event = loc[p].ev
        /\ assets'[a].backend = "s3"
    BY <1>4 DEF NoAsset, IInv, TypeOK
  <2>5. KeySafe(a)'
    BY <1>1, <1>4, <2>1, <2>3, <2>4 DEF KeySafe, KeyOK, Recorded, Backed, HasRow
  <2>6. /\ ~Holding(p)' /\ ~Uploading(p)'
        /\ pc'[p] \notin {"d_drop", "s_open", "r_next", "r_mark"}
    BY <1>2 DEF Holding, Uploading, Removing, UploadPC, StripedPC, VerifyPC, RemovalPC
  <2> QED
    BY <1>1, <1>4, <2>1, <2>2, <2>3, <2>4, <2>5, <2>6, StepKeeps
<1> QED
  BY <1>3, <1>4 DEF PrepareReserve

\* AuthorizeLoad and CompleteLoad: the row that was loaded under the stripe.
LEMMA LoadStep ==
    ASSUME IInv, TypeOK', LocalsOK', LocksOK', NEW p \in Proc, OnlyActor(p),
           pc[p] = "stripe", Loads(p), assets[loc[p].at].status # "ready",
           pc'[p] \in {"a_sign", "f_head"},
           loc'[p].ev = loc[p].ev, loc'[p].at = loc[p].at,
           UNCHANGED <<assets, retired, objects, parts, urls>>
    PROVE  IInv'
<1>1. p \in Actor /\ OnlyKey(None) /\ None \notin Asset
  BY IdsAssumption DEF Actor, OnlyKey, SameKey
<1>2. NoOtherHolder(p, None)
  BY <1>1, LabelTypes DEF NoOtherHolder, IInv
<1>3. RowOK(p)'
  BY DEF RowOK, Loads, HasRow, Uploading, Removing, UploadPC, RemovalPC
<1>4. ~Uploading(p)' /\ pc'[p] \notin {"d_drop", "s_open", "r_next", "r_mark"}
  BY DEF Uploading, Removing, UploadPC, RemovalPC
<1> QED
  BY <1>1, <1>2, <1>3, <1>4, StepKeeps

\* Authorize and Complete work on a row that the stripe gives them alone; what
\* HEAD and the prefix saw is still there at the commit, or the key is retired.
LEMMA CompleteStep ==
    ASSUME IInv, TypeOK', LocalsOK', LocksOK', NEW p \in Proc, OnlyActor(p),
           \/ AuthorizeSave(p) \/ CompleteHead(p) \/ CompletePrefix(p)
           \/ CompleteReject(p) \/ CompleteCommit(p)
    PROVE  IInv'
<1> USE DEF dbVars, storeVars
<1>1. p \in Actor /\ pc[p] \in StripedPC /\ Striped(p) /\ Holding(p) /\ pc[p] # "rm_read"
  BY DEF AuthorizeSave, CompleteHead, CompletePrefix, CompleteReject, CompleteCommit, Actor,
         StripedPC, VerifyPC, Striped, Holding
<1>2. PICK a \in Asset : a = loc[p].at
  BY <1>1, HolderFacts
<1>3. NoOtherHolder(p, a) /\ RowOK(p) /\ KeySafe(a)
  BY <1>1, <1>2, HolderFacts
<1>4. /\ HasRow(a) /\ assets[a].event = loc[p].ev /\ assets[a].status = "pending"
      /\ assets[a].backend = "s3"
      /\ pc[p] = "f_commit" =>
            Sniff(loc[p].body) /\ (objects[a] = loc[p].body \/ retired[a] # "none")
  BY <1>1, <1>2, <1>3 DEF RowOK
<1>5. assets[a] \in AssetRow
  BY DEF IInv, TypeOK
<1>6. CASE AuthorizeSave(p)
  <2>1. /\ OnlyKey(a) /\ UNCHANGED <<retired, objects, parts>>
        /\ assets'[a] = [assets[a] EXCEPT !.stale = FALSE]
    BY <1>2, <1>4, <1>6 DEF AuthorizeSave, OnlyKey, SameKey, IInv, TypeOK
  <2>2. /\ assets'[a].status = assets[a].status /\ assets'[a].event = assets[a].event
        /\ assets'[a].backend = assets[a].backend
    BY <1>5, <2>1 DEF AssetRow
  <2>3. KeySafe(a)'
    BY <1>3, <1>4, <2>1, <2>2 DEF KeySafe, KeyOK, Recorded, Backed, HasRow
  <2>4. pc'[p] = "idle"
    BY <1>1, <1>6, ReturnFrame DEF AuthorizeSave, IInv
  <2> QED
    BY <1>1, <1>3, <1>4, <2>1, <2>2, <2>3, <2>4, Returned, StepKeeps
<1>7. CASE CompleteHead(p)
  <2>1. OnlyKey(a) /\ UNCHANGED <<assets, retired, objects, parts, urls>>
    BY <1>7 DEF CompleteHead, OnlyKey, SameKey
  <2>2. pc'[p] \in {"f_prefix", "f_reject"}
    BY <1>1, <1>7 DEF CompleteHead, Goto, IInv, TypeOK
  <2>3. loc'[p].at = loc[p].at /\ loc'[p].ev = loc[p].ev
    BY <1>1, <1>7 DEF CompleteHead, IInv, TypeOK, Local
  <2>4. ~Uploading(p)' /\ pc'[p] \notin {"d_drop", "s_open", "r_next", "r_mark"}
    BY <2>2 DEF Uploading, Removing, UploadPC, RemovalPC
  <2>5. RowOK(p)'
    BY <1>2, <1>4, <2>1, <2>2, <2>3, <2>4 DEF RowOK, HasRow, UploadPC
  <2>6. KeySafe(a)'
    BY <1>3, <2>1 DEF KeySafe, KeyOK, Recorded, Backed, HasRow
  <2> QED
    BY <1>1, <1>3, <1>4, <2>1, <2>4, <2>5, <2>6, StepKeeps DEF HasRow
<1>8. CASE CompletePrefix(p)
  <2>1. OnlyKey(a) /\ UNCHANGED <<assets, retired, objects, parts, urls>>
    BY <1>8 DEF CompletePrefix, OnlyKey, SameKey
  <2>2. /\ pc'[p] \in {"f_commit", "f_reject"} /\ loc'[p] = loc[p]
        /\ pc'[p] = "f_commit" => Sniff(loc[p].body) /\ objects[a] = loc[p].body
    BY <1>1, <1>2, <1>8 DEF CompletePrefix, Goto, IInv, TypeOK
  <2>4. ~Uploading(p)' /\ pc'[p] \notin {"d_drop", "s_open", "r_next", "r_mark"}
    BY <2>2 DEF Uploading, Removing, UploadPC, RemovalPC
  <2>5. RowOK(p)'
    BY <1>2, <1>4, <2>1, <2>2, <2>4 DEF RowOK, HasRow, UploadPC
  <2>6. KeySafe(a)'
    BY <1>3, <2>1 DEF KeySafe, KeyOK, Recorded, Backed, HasRow
  <2> QED
    BY <1>1, <1>3, <1>4, <2>1, <2>4, <2>5, <2>6, StepKeeps DEF HasRow
<1>9. CASE CompleteReject(p)
  <2>1. /\ OnlyKey(a) /\ UNCHANGED <<assets, retired, parts, urls>> /\ objects'[a] = None
    BY <1>2, <1>9 DEF CompleteReject, OnlyKey, SameKey, IInv, TypeOK
  <2>2. KeySafe(a)'
    BY <1>3, <1>4, <2>1 DEF KeySafe, KeyOK, Recorded, Backed, HasRow
  <2>3. pc'[p] = "idle"
    BY <1>1, <1>9, ReturnFrame DEF CompleteReject, IInv
  <2> QED
    BY <1>1, <1>3, <1>4, <2>1, <2>2, <2>3, Returned, StepKeeps DEF HasRow
<1>10. CASE CompleteCommit(p)
  <2>1. /\ OnlyKey(a) /\ UNCHANGED <<retired, objects, parts, urls>>
        /\ assets'[a] = [assets[a] EXCEPT !.status = "ready", !.size = loc[p].body.size,
                                         !.class = ClassOf(loc[p].body)]
    BY <1>2, <1>10 DEF CompleteCommit, OnlyKey, SameKey, IInv, TypeOK
  <2>2. /\ assets'[a].status = "ready" /\ assets'[a].event = assets[a].event
        /\ assets'[a].backend = assets[a].backend /\ assets'[a].size = loc[p].body.size
        /\ assets'[a].class = ClassOf(loc[p].body)
    BY <1>5, <2>1 DEF AssetRow
  <2>3. loc[p].body \in Bodies /\ loc[p].body # None
    BY <1>10, IdsAssumption DEF CompleteCommit, IInv, LocalsOK, HandlerOK, VerifyPC
  <2>4. /\ Sniff(loc[p].body)
        /\ objects[a] = loc[p].body \/ retired[a] # "none"
    <3>1. pc[p] = "f_commit"
      BY <1>10 DEF CompleteCommit
    <3> QED
      BY <1>4, <3>1
  <2>5. KeySafe(a)'
    BY <1>3, <1>4, <2>1, <2>2, <2>3, <2>4 DEF KeySafe, KeyOK, Recorded, Backed, HasRow
  <2>6. pc'[p] = "idle"
    BY <1>1, <1>10, ReturnFrame DEF CompleteCommit, IInv
  <2> QED
    BY <1>1, <1>3, <1>4, <2>1, <2>2, <2>5, <2>6, Returned, StepKeeps
<1> QED
  BY <1>6, <1>7, <1>8, <1>9, <1>10

\* Prepare, directLock, Authorize and Complete together.
LEMMA DirectStep ==
    ASSUME IInv, TypeOK', LocalsOK', LocksOK', NEW p \in Proc,
           Prepare(p) \/ DirectLock(p) \/ Authorize(p) \/ Complete(p)
    PROVE  IInv'
<1> USE DEF dbVars, storeVars
<1>1. p \in Actor /\ OnlyActor(p)
  BY DirectLocals DEF IInv, Actor
<1>2. CASE \E a \in Asset : PrepareReserve(p, a)
  BY <1>1, <1>2, PrepareStep
<1>3. CASE DirectLock(p)
  <2>1. pc'[p] = "stripe"
    BY <1>1, <1>3 DEF DirectLock, Goto, IInv, TypeOK
  <2> QED
    BY <1>1, <1>3, <2>1, QuietStep DEF DirectLock
<1>4. CASE AuthorizeLoad(p)
  <2>1. pc'[p] = "a_sign" /\ loc'[p] = loc[p]
    BY <1>1, <1>4 DEF AuthorizeLoad, Goto, IInv, TypeOK
  <2> QED
    BY <1>1, <1>4, <2>1, LoadStep DEF AuthorizeLoad, StripeFree
<1>5. CASE CompleteLoad(p)
  <2>1. pc'[p] = "f_head" /\ loc'[p].at = loc[p].at /\ loc'[p].ev = loc[p].ev
    BY <1>1, <1>5 DEF CompleteLoad, Goto, IInv, TypeOK, Local
  <2> QED
    BY <1>1, <1>5, <2>1, LoadStep DEF CompleteLoad, StripeFree
<1>6. CASE \/ AuthorizeSave(p) \/ CompleteHead(p) \/ CompletePrefix(p)
           \/ CompleteReject(p) \/ CompleteCommit(p)
  BY <1>1, <1>6, CompleteStep
<1>7. CASE \E labels : FailAt(p, labels)
  BY <1>1, <1>7, FailStep
<1> QED
  BY <1>2, <1>3, <1>4, <1>5, <1>6, <1>7 DEF Prepare, Authorize, Complete

-----------------------------------------------------------------------------
(* DeleteEvent *)

\* DeleteEvent: the writer demotes, empties and only then drops.
LEMMA DeleteStep ==
    ASSUME IInv, TypeOK', LocalsOK', LocksOK', NEW p \in Proc, DeleteEvent(p)
    PROVE  IInv'
<1> USE DEF dbVars, storeVars
<1>1. p \in Actor /\ OnlyActor(p)
  BY DeleteLocals DEF IInv, Actor
<1>2. CASE DeleteMark(p)
  <2>1. pc'[p] = "d_pick"
    BY <1>1, <1>2 DEF DeleteMark, Goto, IInv, TypeOK
  <2> QED
    BY <1>1, <1>2, <2>1, QuietStep DEF DeleteMark
<1>3. ASSUME NEW a \in Asset, DeleteDemote(p, a) PROVE IInv'
  <2>1. Writing(p) /\ loc[p].op = "delete"
    BY <1>3 DEF DeleteDemote, Writing, IInv, LocalsOK, HandlerOK
  <2>2. HasRow(a) /\ assets[a].event = loc[p].ev /\ assets[a] \in AssetRow
    BY <1>3 DEF DeleteDemote, OfEvent, Live, HasRow, IInv, TypeOK
  <2>3. NoOtherHolder(p, a) /\ KeySafe(a)
    BY <1>1, <2>1, <2>2, WriterAlone, KeysSafeDef DEF IInv, KeysSafe
  <2>4. /\ OnlyKey(a) /\ UNCHANGED <<retired, objects, parts, urls>>
        /\ assets'[a] = [assets[a] EXCEPT !.status = "pending"]
    BY <1>3 DEF DeleteDemote, Demoted, OnlyKey, SameKey, IInv, TypeOK
  <2>5. /\ assets'[a].status = "pending" /\ assets'[a].event = assets[a].event
        /\ assets'[a].backend = assets[a].backend
    BY <2>2, <2>4 DEF AssetRow
  <2>6. KeySafe(a)'
    BY <2>2, <2>3, <2>4, <2>5 DEF KeySafe, KeyOK, Recorded, Backed, HasRow
  <2>7. pc'[p] = "rm_read" /\ loc'[p].at = a /\ loc'[p].ev = loc[p].ev /\ loc'[p].op = "delete"
    BY <1>1, <1>3, <2>1 DEF DeleteDemote, Goto, IInv, TypeOK, Local
  <2>8. ~Uploading(p)' /\ pc'[p] \notin UploadPC
    BY <2>7 DEF Uploading, Removing, UploadPC
  <2>9. RowOK(p)'
    BY <2>2, <2>5, <2>7, <2>8, UploadLabels DEF RowOK, HasRow
  <2> QED
    BY <1>1, <2>1, <2>2, <2>3, <2>4, <2>5, <2>6, <2>7, <2>8, <2>9, StepKeeps
<1>4. CASE DeleteEmpty(p)
  <2>1. OnlyKey(None) /\ None \notin Asset
    BY <1>4, IdsAssumption DEF DeleteEmpty, OnlyKey, SameKey
  <2>2. NoOtherHolder(p, None)
    BY <2>1, LabelTypes DEF NoOtherHolder, IInv
  <2>3. pc'[p] = "d_drop" /\ loc' = loc /\ assets' = assets
    BY <1>1, <1>4 DEF DeleteEmpty, Goto, IInv, TypeOK
  <2>4. OfEvent(assets', loc'[p].ev) = {}
    BY <1>4, <2>3 DEF DeleteEmpty
  <2>5. ~Holding(p)' /\ ~Uploading(p)'
    BY <2>3 DEF Holding, Uploading, Removing, UploadPC, StripedPC, VerifyPC, RemovalPC
  <2> QED
    BY <1>1, <2>1, <2>2, <2>3, <2>4, <2>5, StepKeeps
<1>5. CASE DeleteDrop(p)
  <2>1. OfEvent(assets, loc[p].ev) = {}
    BY <1>1, <1>5 DEF DeleteDrop, IInv, EmptiedOK
  <2>2. assets' = assets
    BY <1>5, <2>1 DEF DeleteDrop, IInv, TypeOK
  <2>3. pc'[p] = "idle"
    BY <1>1, <1>5, ReturnFrame DEF DeleteDrop, IInv
  <2> QED
    BY <1>1, <1>5, <2>2, <2>3, QuietStep DEF DeleteDrop
<1>6. CASE \E labels : FailAt(p, labels)
  BY <1>1, <1>6, FailStep
<1> QED
  BY <1>2, <1>3, <1>4, <1>5, <1>6 DEF DeleteEvent

-----------------------------------------------------------------------------
(* Cleanup *)

\* A step of the pass over s3_cleanup: it may take objects away, under no
\* lock, but only under keys that stay retired.
LEMMA SweepKeeps ==
    ASSUME IInv, TypeOK', LocalsOK', LocksOK', OnlyActor(Cleaner),
           UNCHANGED <<assets, parts, urls>>,
           \A b \in Asset :
              /\ retired[b] # "none" <=> retired'[b] # "none"
              /\ objects'[b] = objects[b] \/ (objects'[b] = None /\ retired[b] # "none"),
           \/ pc'[Cleaner] = pc[Cleaner] /\ loc'[Cleaner] = loc[Cleaner]
           \/ /\ pc'[Cleaner] \in {"r_next", "r_mark"}
              /\ \A b \in loc'[Cleaner].list : retired[b] # "none"
              /\ pc'[Cleaner] = "r_mark" => retired[loc'[Cleaner].at] # "none"
    PROVE  IInv'
<1>1. KeysSafe'
  <2> SUFFICES ASSUME NEW b \in Asset PROVE KeySafe(b)'
    BY DEF KeysSafe
  <2>1. KeySafe(b)
    BY KeysSafeDef DEF IInv, KeysSafe
  <2>2. /\ retired[b] # "none" <=> retired'[b] # "none"
        /\ objects'[b] = objects[b] \/ (objects'[b] = None /\ retired[b] # "none")
    OBVIOUS
  <2> QED
    BY <2>1, <2>2 DEF KeySafe, KeyOK, Recorded, Backed, HasRow
<1>2. ASSUME NEW q \in Actor
      PROVE  \/ pc'[q] = pc[q] /\ loc'[q] = loc[q]
             \/ pc'[q] \in {"r_next", "r_mark"} /\ q = Cleaner
  BY DEF OnlyActor
<1>3. ASSUME NEW q \in Actor, pc'[q] \notin {"r_next", "r_mark"}
      PROVE  pc'[q] = pc[q] /\ loc'[q] = loc[q]
  BY <1>2, <1>3
<1>4. ASSUME NEW q \in Actor, Holding(q)' \/ Uploading(q)'
      PROVE  pc'[q] = pc[q] /\ loc'[q] = loc[q]
  <2>1. pc'[q] \notin {"r_next", "r_mark"}
    BY <1>4 DEF Holding, Uploading, Removing, UploadPC, StripedPC, VerifyPC, RemovalPC
  <2> QED
    BY <1>3, <2>1
<1>5. WorkOK'
  <2> SUFFICES ASSUME NEW q \in Actor, Holding(q)' PROVE RowOK(q)'
    BY DEF WorkOK
  <2>1. pc'[q] = pc[q] /\ loc'[q] = loc[q] /\ Holding(q)
    BY <1>4 DEF Holding
  <2>2. PICK b \in Asset : b = loc[q].at
    BY <2>1, HolderFacts
  <2>3. RowOK(q) /\ KeySafe(b)
    BY <2>1, <2>2, HolderFacts
  <2>4. /\ retired[b] # "none" <=> retired'[b] # "none"
        /\ objects'[b] = objects[b] \/ (objects'[b] = None /\ retired[b] # "none")
    OBVIOUS
  <2>5. assets[b].backend = "local" => objects'[b] = objects[b]
    BY <2>2, <2>3, <2>4 DEF RowOK, KeySafe, KeyOK
  <2>6. pc[q] = "u_finish" => Uploading(q)
    BY DEF Uploading, UploadPC
  <2>7. (Uploading(q)' <=> Uploading(q)) /\ (Striped(q)' <=> Striped(q))
    BY <2>1 DEF Uploading, Striped, Removing
  <2> QED
    BY <2>1, <2>2, <2>3, <2>4, <2>5, <2>6, <2>7 DEF RowOK, HasRow
<1>6. UploadsDisjoint'
  BY <1>4 DEF IInv, UploadsDisjoint, Uploading, Removing
<1>7. EmptiedOK' /\ SnapshotOK'
  BY <1>3 DEF IInv, EmptiedOK, SnapshotOK
<1>8. PassOK'
  <2>1. /\ \A b \in loc'[Cleaner].list : b \in Asset
        /\ pc'[Cleaner] = "r_mark" => loc'[Cleaner].at \in Asset
    BY DEF TypeOK, Local, Actor, LocalsOK, CleanerOK
  <2> QED
    BY <2>1 DEF IInv, PassOK
<1>9. TablesOK' /\ NothingOrphaned' /\ ReadyIsBacked'
  BY <1>1, KeysSafeDef, PTL
<1> QED
  BY <1>5, <1>6, <1>7, <1>8, <1>9 DEF IInv

\* Cleanup: a stale row under its event's lock, retired keys under none.
LEMMA CleanupStep ==
    ASSUME IInv, TypeOK', LocalsOK', LocksOK', Cleanup
    PROVE  IInv'
<1> USE DEF dbVars, storeVars
<1>1. Cleaner \in Actor /\ OnlyActor(Cleaner)
  BY CleanupLocals DEF IInv, Actor
<1>2. CASE CleanupStart
  <2>1. pc'[Cleaner] = "c_next"
    BY <1>1, <1>2 DEF CleanupStart, Goto, IInv, TypeOK
  <2> QED
    BY <1>1, <1>2, <2>1, QuietStep DEF CleanupStart
<1>3. ASSUME NEW a \in Asset, CleanupTake(a) PROVE IInv'
  <2>1. OnlyKey(None) /\ None \notin Asset
    BY <1>3, IdsAssumption DEF CleanupTake, OnlyKey, SameKey
  <2>2. NoOtherHolder(Cleaner, None)
    BY <2>1, LabelTypes DEF NoOtherHolder, IInv
  <2>3. pc'[Cleaner] = "rm_read"
    BY <1>1, <1>3 DEF CleanupTake, Goto, IInv, TypeOK
  <2>4. /\ loc'[Cleaner].at = a /\ loc'[Cleaner].ev = assets[a].event
        /\ loc'[Cleaner].op = loc[Cleaner].op
    BY <1>1, <1>3 DEF CleanupTake, IInv, TypeOK, Local
  <2>5. loc[Cleaner].op = "cleanup" /\ assets[a].status = "pending" /\ assets' = assets
    BY <1>3 DEF CleanupTake, Stale, IInv, LocalsOK, CleanerOK
  <2>6. ~Uploading(Cleaner)' /\ pc'[Cleaner] \notin UploadPC
    BY <2>3, <2>4, <2>5 DEF Uploading, Removing, UploadPC
  <2>7. RowOK(Cleaner)'
    BY <2>3, <2>4, <2>5, <2>6, UploadLabels DEF RowOK, HasRow
  <2> QED
    BY <1>1, <2>1, <2>2, <2>3, <2>6, <2>7, StepKeeps
<1>4. ASSUME NEW a \in Asset, CleanupSkip(a) PROVE IInv'
  <2>1. pc'[Cleaner] = "c_next"
    BY <1>4 DEF CleanupSkip
  <2> QED
    BY <1>1, <1>4, <2>1, QuietStep DEF CleanupSkip
<1>5. CASE RetiredStart
  <2>1. /\ pc'[Cleaner] = "r_next"
        /\ loc'[Cleaner].list = FirstPage({a \in Asset : retired[a] = "due"}, retiredAfter)
    BY <1>1, <1>5 DEF RetiredStart, Goto, IInv, TypeOK, Local
  <2>2. \A b \in loc'[Cleaner].list : retired[b] # "none"
    BY <2>1 DEF FirstPage
  <2> QED
    BY <1>1, <1>5, <2>1, <2>2, SweepKeeps DEF RetiredStart
<1>6. ASSUME NEW a \in Asset, RetiredDelete(a) \/ RetiredSkip(a) PROVE IInv'
  <2>1. retired[a] # "none" /\ pc[Cleaner] = "r_next"
    BY <1>6 DEF RetiredDelete, RetiredSkip, IsNext, IInv, PassOK
  <2>2. /\ loc'[Cleaner].list = loc[Cleaner].list \ {a}
        /\ \/ pc'[Cleaner] = "r_next"
           \/ pc'[Cleaner] = "r_mark" /\ loc'[Cleaner].at = a
    <3>1. loc \in [Actor -> Local] /\ pc \in [Actor -> HandlerPC \cup CleanerPC \cup RemovalPC]
      BY DEF IInv, TypeOK
    <3>2. CASE loc' = [loc EXCEPT ![Cleaner].list = @ \ {a}] /\ UNCHANGED pc
      BY <1>1, <2>1, <3>1, <3>2 DEF Local
    <3>3. CASE /\ Goto(Cleaner, "r_mark")
               /\ loc' = [loc EXCEPT ![Cleaner] = [@ EXCEPT !.list = loc[Cleaner].list \ {a},
                                                          !.at = a]]
      BY <1>1, <3>1, <3>3 DEF Goto, Local
    <3> QED
      BY <1>6, <3>2, <3>3 DEF RetiredDelete, RetiredSkip
  <2>3. \A b \in loc'[Cleaner].list : retired[b] # "none"
    BY <2>1, <2>2 DEF IInv, PassOK
  <2>4. \A b \in Asset : objects'[b] = objects[b] \/ (objects'[b] = None /\ retired[b] # "none")
    BY <1>6, <2>1 DEF RetiredDelete, RetiredSkip, IInv, TypeOK
  <2> QED
    BY <1>1, <1>6, <2>1, <2>2, <2>3, <2>4, SweepKeeps DEF RetiredDelete, RetiredSkip
<1>7. CASE RetiredMark
  <2>1. /\ pc[Cleaner] = "r_mark" /\ retired[loc[Cleaner].at] # "none"
        /\ \A b \in loc[Cleaner].list : retired[b] # "none"
    BY <1>7 DEF RetiredMark, IInv, PassOK
  <2>2. pc'[Cleaner] = "r_next" /\ loc'[Cleaner].list = loc[Cleaner].list
    BY <1>1, <1>7 DEF RetiredMark, Goto, IInv, TypeOK, Local
  <2>3. \A b \in Asset : retired[b] # "none" <=> retired'[b] # "none"
    BY <1>7, <2>1 DEF RetiredMark, IInv, TypeOK
  <2> QED
    BY <1>1, <1>7, <2>1, <2>2, <2>3, SweepKeeps DEF RetiredMark
<1>8. CASE RetiredDone
  <2>1. pc'[Cleaner] = "idle"
    BY <1>1, <1>8, ReturnFrame DEF RetiredDone, IInv
  <2> QED
    BY <1>1, <1>8, <2>1, QuietStep DEF RetiredDone
<1>9. CASE CleanupAborts
  BY <1>1, <1>9, FailStep DEF CleanupAborts
<1> QED
  BY <1>2, <1>3, <1>4, <1>5, <1>6, <1>7, <1>8, <1>9 DEF Cleanup

-----------------------------------------------------------------------------
(* Administration, time, guests and crashes *)

\* Steps of the rest of the system that neither a key nor a goroutine sees.
LEMMA OutsideKeeps ==
    ASSUME IInv, TypeOK', LocalsOK', LocksOK',
           UNCHANGED <<assets, retired, objects, parts, urls, pc, loc>>
    PROVE  IInv'
BY DEF IInv, TablesOK, KeyOK, WorkOK, RowOK, UploadsDisjoint, EmptiedOK, SnapshotOK, PassOK,
       NothingOrphaned, ReadyIsBacked, HasRow, Holding, Uploading, Striped, Removing

\* An hour passes for one pending row.
LEMMA AgesStep ==
    ASSUME IInv, TypeOK', LocalsOK', LocksOK', NEW a \in Asset, AssetAges(a)
    PROVE  IInv'
<1>1. UNCHANGED <<retired, objects, parts, urls, pc, loc>>
  BY DEF AssetAges, storeVars
<1>2. ASSUME NEW b \in Asset
      PROVE  /\ assets'[b].status = assets[b].status /\ assets'[b].event = assets[b].event
             /\ assets'[b].backend = assets[b].backend /\ assets'[b].class = assets[b].class
             /\ assets'[b].size = assets[b].size
  BY DEF AssetAges, IInv, TypeOK, AssetRow
<1>3. TablesOK' /\ NothingOrphaned' /\ ReadyIsBacked'
  BY <1>1, <1>2 DEF IInv, TablesOK, KeyOK, NothingOrphaned, ReadyIsBacked, HasRow
<1>4. WorkOK'
  <2> SUFFICES ASSUME NEW q \in Actor, Holding(q)' PROVE RowOK(q)'
    BY DEF WorkOK
  <2>1. Holding(q)
    BY <1>1 DEF Holding
  <2>2. loc[q].at \in Asset /\ RowOK(q)
    BY <2>1, HolderFacts
  <2> QED
    BY <1>1, <1>2, <2>2 DEF RowOK, HasRow, Uploading, Striped, Removing
<1>5. UploadsDisjoint' /\ PassOK'
  BY <1>1 DEF IInv, UploadsDisjoint, PassOK, Uploading, Removing
<1>6. EmptiedOK'
  <2>1. \A e : OfEvent(assets', e) = OfEvent(assets, e)
    BY <1>2 DEF OfEvent, Live, IInv, TypeOK
  <2> QED
    BY <1>1, <2>1 DEF IInv, EmptiedOK
<1>7. SnapshotOK'
  <2>1. \A q \in Actor : loc[q].list \subseteq Asset
    BY DEF IInv, TypeOK, Local
  <2> QED
    BY <1>1, <1>2, <2>1 DEF IInv, SnapshotOK
<1> QED
  BY <1>3, <1>4, <1>5, <1>6, <1>7 DEF IInv

\* A guest's PUT creates an object only where none is, under a recorded key.
LEMMA GuestStep ==
    ASSUME IInv, TypeOK', LocalsOK', LocksOK', NEW a \in Asset, NEW b \in Bodies, GuestPut(a, b)
    PROVE  IInv'
<1>1. /\ UNCHANGED <<assets, retired, parts, urls, pc, loc>>
      /\ a \in urls /\ objects[a] = None
      /\ \A c \in Asset : c # a => objects'[c] = objects[c]
      /\ objects'[a] = b
  BY DEF GuestPut, PutAccepted, dbVars, IInv, TypeOK
<1>2. KeySafe(a)
  BY KeysSafeDef DEF IInv, KeysSafe
<1>3. KeysSafe'
  <2> SUFFICES ASSUME NEW c \in Asset PROVE KeySafe(c)'
    BY DEF KeysSafe
  <2>1. CASE c = a
    BY <1>1, <1>2, <2>1 DEF KeySafe, KeyOK, Recorded, Backed, HasRow
  <2>2. CASE c # a
    <3>1. KeySafe(c)
      BY KeysSafeDef DEF IInv, KeysSafe
    <3> QED
      BY <1>1, <2>2, <3>1 DEF KeySafe, KeyOK, Recorded, Backed, HasRow
  <2> QED
    BY <2>1, <2>2
<1>4. WorkOK'
  <2> SUFFICES ASSUME NEW q \in Actor, Holding(q)' PROVE RowOK(q)'
    BY DEF WorkOK
  <2>1. Holding(q)
    BY <1>1 DEF Holding
  <2>2. PICK c \in Asset : c = loc[q].at
    BY <2>1, HolderFacts
  <2>3. RowOK(q)
    BY <2>1, HolderFacts
  <2>4. (Uploading(q)' <=> Uploading(q)) /\ (Striped(q)' <=> Striped(q))
    BY <1>1 DEF Uploading, Striped, Removing
  <2>5. CASE c # a
    BY <1>1, <2>2, <2>3, <2>4, <2>5 DEF RowOK, HasRow
  <2>6. CASE c = a
    <3>1. HasRow(a) /\ assets[a].backend # "local"
      BY <1>1, <1>2, <2>2, <2>3, <2>6 DEF RowOK, KeySafe, KeyOK
    <3>2. pc[q] # "u_finish"
      BY <2>2, <2>3, <2>6, <3>1 DEF RowOK, Uploading, UploadPC
    <3>3. pc[q] = "f_commit" => objects[a] # loc[q].body
      <4>1. pc[q] = "f_commit" => loc[q].body \in Bodies
        BY DEF IInv, LocalsOK, HandlerOK, CleanerOK, Actor, VerifyPC, CleanerPC, RemovalPC
      <4> QED
        BY <1>1, <4>1, IdsAssumption
    <3> QED
      BY <1>1, <2>2, <2>3, <2>4, <2>6, <3>1, <3>2, <3>3 DEF RowOK, HasRow
  <2> QED
    BY <2>5, <2>6
<1>5. UploadsDisjoint' /\ PassOK' /\ EmptiedOK' /\ SnapshotOK'
  BY <1>1 DEF IInv, UploadsDisjoint, PassOK, EmptiedOK, SnapshotOK, Uploading, Removing
<1>6. TablesOK' /\ NothingOrphaned' /\ ReadyIsBacked'
  BY <1>3, KeysSafeDef, PTL
<1> QED
  BY <1>4, <1>5, <1>6 DEF IInv

\* Nobody relies on anything when every goroutine is idle.
LEMMA IdleKeeps ==
    ASSUME TypeOK', LocalsOK', LocksOK', TablesOK', NothingOrphaned', ReadyIsBacked',
           \A q \in Actor : pc'[q] = "idle"
    PROVE  IInv'
<1>1. \A q \in Actor : ~Holding(q)' /\ ~Uploading(q)'
  BY DEF Holding, Uploading, Removing, UploadPC, StripedPC, VerifyPC, RemovalPC
<1> QED
  BY <1>1 DEF IInv, WorkOK, UploadsDisjoint, EmptiedOK, SnapshotOK, PassOK, Actor

\* A crash forgets locks, labels and cursors; tables and stores agree without.
LEMMA RestartStep ==
    ASSUME IInv, TypeOK', LocalsOK', LocksOK', Restart
    PROVE  IInv'
<1>1. UNCHANGED <<assets, retired, objects, parts, urls>> /\ \A q \in Actor : pc'[q] = "idle"
  BY DEF Restart, dbVars, storeVars
<1>2. TablesOK' /\ NothingOrphaned' /\ ReadyIsBacked'
  BY <1>1 DEF IInv, TablesOK, KeyOK, NothingOrphaned, ReadyIsBacked, HasRow
<1> QED
  BY <1>1, <1>2, IdleKeeps

\* Everything outside the goroutines together.
LEMMA EnvironmentStep ==
    ASSUME IInv, TypeOK', LocalsOK', LocksOK', Environment
    PROVE  IInv'
<1> USE DEF dbVars, storeVars
<1>1. CASE \/ \E e \in Event, l \in LimitSet : CreateEvent(e, l)
           \/ \E e \in Event, on \in BOOLEAN, l \in LimitSet : UpdateEvent(e, on, l)
           \/ \E e \in Event : EventExpires(e)
           \/ \E s \in Session : SessionExpires(s)
  <2>1. UNCHANGED <<assets, retired, objects, parts, urls, pc, loc>>
    BY <1>1 DEF CreateEvent, UpdateEvent, EventExpires, SessionExpires
  <2> QED
    BY <2>1, OutsideKeeps
<1>2. ASSUME NEW a \in Asset, AssetAges(a) PROVE IInv'
  BY <1>2, AgesStep
<1>3. ASSUME NEW a \in Asset, RetiredAges(a) PROVE IInv'
  <2>1. OnlyActor(Cleaner) /\ UNCHANGED <<assets, objects, parts, urls, pc, loc>>
    BY <1>3 DEF RetiredAges, OnlyActor
  <2>2. \A b \in Asset : retired[b] # "none" <=> retired'[b] # "none"
    BY <1>3 DEF RetiredAges, IInv, TypeOK
  <2> QED
    BY <2>1, <2>2, SweepKeeps
<1>4. ASSUME NEW a \in Asset, NEW b \in Bodies, GuestPut(a, b) PROVE IInv'
  BY <1>4, GuestStep
<1>5. CASE Restart
  BY <1>5, RestartStep
<1> QED
  BY <1>1, <1>2, <1>3, <1>4, <1>5 DEF Environment

-----------------------------------------------------------------------------
(* The invariant *)

\* The invariant holds at the start, legacy rows included.
LEMMA InitInv == Init => IInv
<1> SUFFICES ASSUME Init PROVE IInv
  OBVIOUS
<1>1. TypeOK
  BY InitTyped
<1>2. \A p \in Actor : pc[p] = "idle"
  BY DEF Init
<1>3. \A p \in Actor : /\ ~Holding(p) /\ ~Uploading(p) /\ ~Reading(p) /\ ~Writing(p)
                        /\ ~Striped(p)
  BY <1>2 DEF Holding, Uploading, Reading, Writing, Striped, Removing, UploadPC, StripedPC,
              VerifyPC, RemovalPC
<1>4. LocalsOK
  <2>1. ASSUME NEW p \in Proc PROVE HandlerOK(p)
    <3>1. pc[p] = "idle"
      BY <1>2 DEF Actor
    <3> QED
      BY <3>1 DEF HandlerOK, HandlerPC, UploadPC, VerifyPC, StripedPC, RemovalPC, Removing
  <2>2. CleanerOK
    BY <1>2 DEF CleanerOK, CleanerPC, RemovalPC, Removing, Actor
  <2> QED
    BY <2>1, <2>2 DEF LocalsOK
<1>5. LocksOK
  BY <1>3 DEF Init, LocksOK
<1>6. ASSUME NEW a \in Asset
      PROVE  /\ objects[a] = None /\ a \notin parts /\ retired[a] = "none"
             /\ \/ assets[a].status = "unused" /\ a \notin urls
                \/ /\ assets[a].status = "pending" /\ assets[a].event \in Event
                   /\ assets[a].backend = "s3"
  <2>1. objects[a] = None /\ a \notin parts /\ retired[a] = "none"
    BY DEF Init
  <2>2. CASE assets[a] = NoAsset /\ a \notin urls
    BY <2>1, <2>2 DEF NoAsset
  <2>3. CASE \E e \in Event : \E s, n, r : assets[a] = LegacyRow(e, s, n, r)
    BY <2>1, <2>3 DEF LegacyRow, NoAsset
  <2>4. InitDB
    BY DEF Init
  <2> QED
    BY <2>2, <2>3, <2>4 DEF InitDB
<1>7. TablesOK /\ NothingOrphaned /\ ReadyIsBacked
  BY <1>6 DEF TablesOK, KeyOK, NothingOrphaned, ReadyIsBacked, HasRow
<1> QED
  BY <1>1, <1>2, <1>3, <1>4, <1>5, <1>7
  DEF IInv, WorkOK, UploadsDisjoint, EmptiedOK, SnapshotOK, PassOK, Actor

\* Every step keeps the invariant.
LEMMA NextInv == IInv /\ [Next]_vars => IInv'
<1> SUFFICES ASSUME IInv, [Next]_vars PROVE IInv'
  OBVIOUS
<1>1. TypeOK' /\ LocalsOK' /\ LocksOK'
  BY NextTyped, NextLocals, NextLocks DEF IInv
<1>2. ASSUME NEW p \in Proc, Accept(p) PROVE IInv'
  BY <1>1, <1>2, AcceptStep
<1>3. ASSUME NEW p \in Proc, Serve(p) PROVE IInv'
  BY <1>1, <1>3, UploadStep, ReaderStep, DirectStep, DeleteStep DEF Serve
<1>4. CASE Cleanup
  BY <1>1, <1>4, CleanupStep
<1>5. ASSUME NEW p \in Actor, removeAttempt(p) PROVE IInv'
  BY <1>1, <1>5, RemovalStep
<1>6. CASE Environment
  BY <1>1, <1>6, EnvironmentStep
<1>7. CASE UNCHANGED vars
  BY <1>1, <1>7, OutsideKeeps DEF vars, dbVars, storeVars
<1> QED
  BY <1>2, <1>3, <1>4, <1>5, <1>6, <1>7 DEF Next

\* The inductive invariant holds in every reachable state: every goroutine
\* holds the locks its label needs, alone knows the row it works on, and no
\* key of either store is in a state the tables do not account for.
THEOREM Invariant == Spec => []IInv
BY InitInv, NextInv, PTL DEF Spec

\* Every variable stays within its type, whatever requests, failures and
\* crashes happen in whatever order.
THEOREM TypeCorrect == Spec => []TypeOK
<1>1. IInv => TypeOK
  BY DEF IInv
<1> QED
  BY <1>1, Invariant, PTL

\* No object, temporary file or usable upload URL is ever without an asset
\* row or an entry in s3_cleanup: Upload, Authorize, DeleteEvent, Cleanup and
\* a crash between any two of their statements never orphan a key.
THEOREM NeverOrphaned == Spec => []NothingOrphaned
<1>1. IInv => NothingOrphaned
  BY DEF IInv
<1> QED
  BY <1>1, Invariant, PTL

\* A ready row is backed by an object of the recorded size and class unless
\* its key was retired by an earlier removeAttempt.
THEOREM ReadyBacked == Spec => []ReadyIsBacked
<1>1. IInv => ReadyIsBacked
  BY DEF IInv
<1> QED
  BY <1>1, Invariant, PTL

\* What Snapshot listed stays ready until it is closed, because it keeps the
\* event's read lock and only the writer takes ready rows back.
THEOREM SnapshotsPinned == Spec => []SnapshotPinned
<1>1. IInv => SnapshotPinned
  BY DEF IInv, SnapshotOK, SnapshotPinned, Actor
<1> QED
  BY <1>1, Invariant, PTL

=============================================================================
