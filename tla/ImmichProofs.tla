---------------------------- MODULE ImmichProofs ----------------------------
(***************************************************************************)
(* Proofs about the Immich importer, for any number of servers, events,    *)
(* bindings, jobs and media.                                               *)
(***************************************************************************)
EXTENDS Immich, NumberLemmas

\* Where the worker holds the snapshot.
PinnedPC == {"x_album", "x_mark", "x_create", "x_find", "x_get", "x_save", "x_run"}

\* Foreign keys: a job belongs to a binding, a binding to an event; and every
\* marker was drawn.
RefsOK ==
    /\ \A b \in BindingIds : /\ bindings[b].target \in Target
                             /\ bindings[b].marker \in 1..markers
                             /\ events[bindings[b].event] # "none"
    /\ \A j \in JobIds : jobs[j].binding \in BindingIds

\* What execute relies on at its labels.
ExecOK ==
    /\ wk \in ExecPC =>
          exec.id \in Job /\ exec.binding \in Binding /\ exec.event \in Event /\ exec.target \in Target
    /\ wk \in {"x_mark", "x_create", "x_find"} => album.marker \in 1..markers
    /\ wk \in {"x_save", "x_get", "x_run"} => album.id \in Album

\* While the state of a binding is new no server was asked for its album, and
\* a binding that is ready records one.
MarkersOK ==
    /\ \A b, c \in BindingIds : bindings[b].marker = bindings[c].marker => b = c
    /\ \A b \in BindingIds : bindings[b].state = "ready" => bindings[b].album # None
    /\ \A b \in BindingIds : bindings[b].state = "new" =>
          \A t \in Target : created[<<t, bindings[b].marker>>] = 0
    /\ \A t \in Target, m \in Marker : created[<<t, m>>] # 0 => m <= markers

\* Between the marker read and the request, that marker was never used, no
\* other binding carries it, and before the request the intent is on record
\* with whoever carries it.
CreationOK ==
    wk \in {"x_mark", "x_create"} =>
        /\ \A t \in Target : created[<<t, album.marker>>] = 0
        /\ \A b \in BindingIds : bindings[b].marker = album.marker =>
              b = exec.binding /\ (wk = "x_create" => bindings[b].state # "new")

\* The snapshot pins the event, and only it is transferred.
PinOK ==
    /\ wk \in PinnedPC =>
          pin = exec.event /\ events[exec.event] = "open" /\ todo \cup Busy \subseteq Ready(exec.event)
    /\ wk # "x_run" => Busy = {}

ImportInv ==
    ImmichTypeOK /\ RefsOK /\ ExecOK /\ MarkersOK /\ CreationOK /\ PinOK /\ OneAlbum

(* --------------------- the ids of a table, and media -------------------- *)

\* A new row gets an id that no row has, and larger than any.
LEMMA NextIdIs ==
    ASSUME NEW n \in Nat, NEW S \in SUBSET (1..n)
    PROVE  NextId(S) \in Nat \ {0} /\ \A k \in S : k < NextId(S)
<1>1. S \cup {0} \in SUBSET (0..n) /\ S \cup {0} # {}
  OBVIOUS
<1>2. Max(S \cup {0}) \in S \cup {0} /\ \A y \in S \cup {0} : Max(S \cup {0}) >= y
  BY <1>1, MaxIs
<1> DEFINE m == Max(S \cup {0})
<1>3. NextId(S) = 1 + m
  BY DEF NextId
<1>4. m \in S \cup {0} /\ \A y \in S : m >= y
  BY <1>2
<1> HIDE DEF m
<1> QED
  BY <1>1, <1>3, <1>4

\* What enqueueTx writes: the row of a binding b, old or new, and a new job j.
Enqueued(e, t, kind, auto, b, j) ==
    /\ b \in BindingIds \/ markers < MaxMarker
    /\ ~HasActive(b)
    /\ bindings' = [bindings EXCEPT ![b] = Bound(b, e, t, auto)]
    /\ markers' = IF b \in BindingIds THEN markers ELSE markers + 1
    /\ imports' = [imports EXCEPT ![b] =
          [a \in Asset |-> Selected(imports[b][a], j, kind, owner[a] = e)]]
    /\ jobs' = [jobs EXCEPT ![j] = [status |-> "queued", binding |-> b, cancel |-> FALSE,
                                    mode |-> IF kind = "retry" THEN "retry" ELSE "new"]]
    /\ jobs[j].status = "none" /\ \A k \in JobIds : k < j
    /\ b \in BindingIds => bindings[b].event = e

LEMMA EnqueuedBy ==
    ASSUME ImmichTypeOK, NEW e \in Event, NEW t \in Target, NEW kind, NEW auto,
           enqueueTx(e, t, kind, auto)
    PROVE  \E b \in Binding, j \in Job : Enqueued(e, t, kind, auto, b, j)
<1> DEFINE j == NextId(JobIds)
<1>1. j \in Nat \ {0} /\ \A k \in JobIds : k < j
  <2>1. JobIds \in SUBSET (1..MaxJob) /\ MaxJob \in Nat
    BY ImmichAssumption DEF JobIds, Job
  <2> QED
    BY <2>1, NextIdIs
<1>2. PICK b \in BindingFor(e, t) :
        /\ b \in BindingIds \/ markers < MaxMarker
        /\ ~HasActive(b)
        /\ j <= MaxManual
        /\ bindings' = [bindings EXCEPT ![b] = Bound(b, e, t, auto)]
        /\ markers' = IF b \in BindingIds THEN markers ELSE markers + 1
        /\ imports' = [imports EXCEPT ![b] =
              [a \in Asset |-> Selected(imports[b][a], j, kind, owner[a] = e)]]
        /\ jobs' = [jobs EXCEPT ![j] = [status |-> "queued", binding |-> b, cancel |-> FALSE,
                                        mode |-> IF kind = "retry" THEN "retry" ELSE "new"]]
  BY DEF enqueueTx
<1>3. b \in Binding
  BY DEF BindingFor, BindingIds
<1> HIDE DEF j
<1>4. j \in Job
  BY <1>1, <1>2, ImmichAssumption DEF Job
<1>5. jobs[j].status = "none"
  BY <1>1, <1>4 DEF JobIds
<1>6. b \in BindingIds => bindings[b].event = e
  <2>1. BindingIds \in SUBSET (1..MaxBinding) /\ MaxBinding \in Nat
    BY ImmichAssumption DEF BindingIds, Binding
  <2>2. NextId(BindingIds) \in Nat \ {0} /\ \A k \in BindingIds : k < NextId(BindingIds)
    BY <2>1, NextIdIs
  <2>3. NextId(BindingIds) \notin BindingIds
    BY <2>2
  <2> QED
    BY <2>3 DEF BindingFor
<1> QED
  BY <1>1, <1>2, <1>3, <1>4, <1>5, <1>6 DEF Enqueued

(* -------------------------------- types -------------------------------- *)

TablesTyped ==
    /\ events \in [Event -> {"none", "open", "deleting"}]
    /\ owner \in [Asset -> Event \cup {NotYet, Removed}]
    /\ bindings \in [Binding -> BindingRow]
    /\ imports \in [Binding -> [Asset -> ImportRow]]
    /\ jobs \in [Job -> JobRow]
    /\ markers \in 0..MaxMarker
ServersTyped ==
    created \in [Album -> Nat] /\ stored \in [Target -> SUBSET Asset] /\ shelved \subseteq Album \X Asset
WorkerTyped ==
    /\ wk \in ExecPC \cup LoopPC
    /\ exec \in Exec /\ ctx \in {"live", "cancelled", "stopped"}
    /\ pin \in Event \cup {0}
    /\ album \in [marker : Marker \cup {0}, id : Album \cup {None}]
    /\ todo \subseteq Asset /\ tasks \in [Asset -> Task] /\ failed \in BOOLEAN
ScanTyped == page \subseteq Binding /\ fullPage \in BOOLEAN /\ reconcileAfter \in Binding \cup {0}

LEMMA TypeParts == ImmichTypeOK <=> TablesTyped /\ ServersTyped /\ WorkerTyped /\ ScanTyped
BY DEF ImmichTypeOK, TablesTyped, ServersTyped, WorkerTyped, ScanTyped

LEMMA TypeJoined ==
    ASSUME TablesTyped', ServersTyped', WorkerTyped', ScanTyped' PROVE ImmichTypeOK'
BY DEF ImmichTypeOK, TablesTyped, ServersTyped, WorkerTyped, ScanTyped

\* Parts of the state that a step leaves alone.
LEMMA SameTables ==
    ASSUME TablesTyped, UNCHANGED <<mediaVars, tableVars>> PROVE TablesTyped'
BY DEF TablesTyped, mediaVars, tableVars

LEMMA SameServers == ASSUME ServersTyped, UNCHANGED serverVars PROVE ServersTyped'
BY DEF ServersTyped, serverVars

LEMMA SameWorker == ASSUME WorkerTyped, UNCHANGED <<wk, jobVars>> PROVE WorkerTyped'
BY DEF WorkerTyped, jobVars

LEMMA SameScan == ASSUME ScanTyped, UNCHANGED scanVars PROVE ScanTyped'
BY DEF ScanTyped, scanVars

LEMMA SelectedTyped ==
    ASSUME NEW row \in ImportRow, NEW j \in Job, NEW kind, NEW ready
    PROVE  Selected(row, j, kind, ready) \in ImportRow
<1>1. [NoImport EXCEPT !.status = "pending", !.by = j] \in ImportRow
  BY DEF ImportRow, NoImport
<1>2. [row EXCEPT !.status = "pending", !.by = j, !.lost = FALSE] \in ImportRow
  BY DEF ImportRow
<1> QED
  BY <1>1, <1>2 DEF Selected

LEMMA EnqueuedTyped ==
    ASSUME TablesTyped, NEW e \in Event, NEW t \in Target, NEW kind, NEW auto \in BOOLEAN,
           NEW b \in Binding, NEW j \in Job, Enqueued(e, t, kind, auto, b, j)
    PROVE  /\ bindings' \in [Binding -> BindingRow]
           /\ imports' \in [Binding -> [Asset -> ImportRow]]
           /\ jobs' \in [Job -> JobRow]
           /\ markers' \in 0..MaxMarker
<1>1. Bound(b, e, t, auto) \in BindingRow
  <2>1. CASE b \in BindingIds
    BY <2>1 DEF Bound, TablesTyped
  <2>2. CASE b \notin BindingIds
    <3>1. markers + 1 \in Marker
      BY <2>2, ImmichAssumption DEF Enqueued, TablesTyped, Marker
    <3> QED
      BY <2>2, <3>1 DEF Bound, BindingRow
  <2> QED
    BY <2>1, <2>2
<1>2. [a \in Asset |-> Selected(imports[b][a], j, kind, owner[a] = e)] \in [Asset -> ImportRow]
  <2>1. \A a \in Asset : imports[b][a] \in ImportRow
    BY DEF TablesTyped
  <2>2. \A a \in Asset : Selected(imports[b][a], j, kind, owner[a] = e) \in ImportRow
    BY <2>1, SelectedTyped
  <2> QED
    BY <2>2
<1>3. [status |-> "queued", binding |-> b, cancel |-> FALSE,
       mode |-> IF kind = "retry" THEN "retry" ELSE "new"] \in JobRow
  BY DEF JobRow
<1>4. markers' \in 0..MaxMarker
  BY ImmichAssumption DEF Enqueued, TablesTyped
<1>5. bindings' \in [Binding -> BindingRow]
  BY <1>1 DEF Enqueued, TablesTyped
<1>6. imports' \in [Binding -> [Asset -> ImportRow]]
  BY <1>2 DEF Enqueued, TablesTyped
<1>7. jobs' \in [Job -> JobRow]
  BY <1>3 DEF Enqueued, TablesTyped
<1> QED
  BY <1>4, <1>5, <1>6, <1>7

LEMMA AdministrationTyped ==
    ASSUME ImmichTypeOK, Administration PROVE TablesTyped'
<1> USE DEF mediaVars, tableVars
<1>0. TablesTyped
  BY TypeParts
<1>1. ASSUME NEW e \in Event, NEW t \in Target, NEW kind, Enqueue(e, t, kind) PROVE TablesTyped'
  <2>1. PICK b \in Binding, j \in Job : Enqueued(e, t, kind, FALSE, b, j)
    BY <1>1, EnqueuedBy DEF Enqueue
  <2>2. events' = events /\ owner' = owner
    BY <1>1 DEF Enqueue
  <2> QED
    BY <1>0, <2>1, <2>2, EnqueuedTyped DEF TablesTyped
<1>2. CASE CreateEvent
  <2>1. PICK e \in Event : /\ e = NewEvent /\ events' = [events EXCEPT ![e] = "open"]
                           /\ owner' = owner
    BY <1>2 DEF CreateEvent
  <2>2. CASE UNCHANGED tableVars
    BY <1>0, <2>1, <2>2 DEF TablesTyped
  <2>3. CASE \E t \in Target, auto \in BOOLEAN : enqueueTx(NewEvent, t, "album", auto)
    <3>1. PICK t \in Target, auto \in BOOLEAN : enqueueTx(e, t, "album", auto)
      BY <2>1, <2>3
    <3>2. PICK b \in Binding, j \in Job : Enqueued(e, t, "album", auto, b, j)
      BY <3>1, EnqueuedBy
    <3>3. /\ bindings' \in [Binding -> BindingRow]
          /\ imports' \in [Binding -> [Asset -> ImportRow]]
          /\ jobs' \in [Job -> JobRow] /\ markers' \in 0..MaxMarker
      BY <1>0, <3>2, EnqueuedTyped
    <3> QED
      BY <1>0, <2>1, <3>3 DEF TablesTyped
  <2> QED
    BY <1>2, <2>2, <2>3 DEF CreateEvent
<1>3. ASSUME NEW b \in Binding, Cancel(b) PROVE TablesTyped'
  <2>1. \A j \in Job : [jobs[j] EXCEPT !.cancel = TRUE] \in JobRow
    BY <1>0 DEF TablesTyped, JobRow
  <2> QED
    BY <1>0, <1>3, <2>1 DEF Cancel, TablesTyped
<1>4. ASSUME NEW b \in Binding, NEW on \in BOOLEAN, SetAutoImport(b, on) PROVE TablesTyped'
  <2>1. [bindings[b] EXCEPT !.auto = on] \in BindingRow
    BY <1>0 DEF TablesTyped, BindingRow
  <2> QED
    BY <1>0, <1>4, <2>1 DEF SetAutoImport, TablesTyped
<1>5. ASSUME NEW e \in Event, DeleteMark(e) PROVE TablesTyped'
  BY <1>0, <1>5 DEF DeleteMark, TablesTyped
<1>6. ASSUME NEW e \in Event, DeleteDrop(e) PROVE TablesTyped'
  <2>1. NoBinding \in BindingRow /\ NoImport \in ImportRow /\ NoJob \in JobRow
    BY DEF NoBinding, NoImport, NoJob, BindingRow, ImportRow, JobRow
  <2> QED
    BY <1>0, <1>6, <2>1 DEF DeleteDrop, TablesTyped
<1>7. ASSUME NEW e \in Event, NEW a \in Asset, MediaReady(a, e) PROVE TablesTyped'
  BY <1>0, <1>7 DEF MediaReady, TablesTyped
<1> QED
  BY <1>1, <1>2, <1>3, <1>4, <1>5, <1>6, <1>7 DEF Administration

\* What requests and guests never touch.
LEMMA AdministrationFrame ==
    ASSUME Administration PROVE UNCHANGED <<serverVars, wk, jobVars, scanVars>>
BY DEF Administration, Enqueue, CreateEvent, Cancel, SetAutoImport, DeleteMark, DeleteDrop, MediaReady

LEMMA ForgetTyped == ASSUME Forget, wk' \in ExecPC \cup LoopPC PROVE WorkerTyped'
<1>1. NoExec \in Exec /\ NoTask \in Task
  BY DEF NoExec, NoTask, Exec, Task
<1> QED
  BY <1>1 DEF Forget, WorkerTyped

LEMMA ReturnTyped == ASSUME Return PROVE WorkerTyped'
BY ForgetTyped DEF Return, ExecPC, LoopPC

LEMMA ImportReturnsTyped ==
    ASSUME WorkerTyped, NEW bad \in BOOLEAN, ImportReturns(bad) PROVE WorkerTyped'
BY DEF ImportReturns, WorkerTyped, Goto, ExecPC, LoopPC

\* The automatic pass selects the media S for the job j.
Reconciled(b, j, S) ==
    /\ MayReconcile(b)
    /\ imports' = [imports EXCEPT ![b] = [a \in Asset |->
          IF a \in S THEN [NoImport EXCEPT !.status = "pending", !.by = j] ELSE imports[b][a]]]
    /\ jobs' = [jobs EXCEPT ![j] = [status |-> "queued", binding |-> b,
                                    cancel |-> FALSE, mode |-> "auto"]]
    /\ jobs[j].status = "none" /\ \A k \in JobIds : k < j
    /\ S \subseteq Untracked(b)

LEMMA ReconciledBy ==
    ASSUME ImmichTypeOK, NEW b \in Binding, reconcileBinding(b)
    PROVE  \/ UNCHANGED <<imports, jobs>>
           \/ \E j \in Job, S \in SUBSET Asset : Reconciled(b, j, S)
<1> DEFINE j == NextId(JobIds)
<1>1. \A k \in JobIds : k < j
  <2>1. JobIds \in SUBSET (1..MaxJob) /\ MaxJob \in Nat
    BY ImmichAssumption DEF JobIds, Job
  <2> QED
    BY <2>1, NextIdIs
<1> SUFFICES ASSUME MayReconcile(b), Untracked(b) # {}
             PROVE  \E k \in Job, S \in SUBSET Asset : Reconciled(b, k, S)
  BY DEF reconcileBinding
<1>2. PICK S \in Batch(b) :
        /\ j \in Job
        /\ imports' = [imports EXCEPT ![b] = [a \in Asset |->
              IF a \in S THEN [NoImport EXCEPT !.status = "pending", !.by = j] ELSE imports[b][a]]]
        /\ jobs' = [jobs EXCEPT ![j] = [status |-> "queued", binding |-> b,
                                        cancel |-> FALSE, mode |-> "auto"]]
  BY DEF reconcileBinding
<1>3. S \subseteq Untracked(b) /\ S \subseteq Asset
  BY DEF Batch, Untracked, Ready
<1> HIDE DEF j
<1>4. jobs[j].status = "none"
  BY <1>1, <1>2 DEF JobIds, Job
<1> QED
  BY <1>1, <1>2, <1>3, <1>4 DEF Reconciled

LEMMA ReconciledTyped ==
    ASSUME TablesTyped, NEW b \in Binding, NEW j \in Job, NEW S \in SUBSET Asset,
           Reconciled(b, j, S)
    PROVE  imports' \in [Binding -> [Asset -> ImportRow]] /\ jobs' \in [Job -> JobRow]
<1>1. [NoImport EXCEPT !.status = "pending", !.by = j] \in ImportRow
  BY DEF NoImport, ImportRow
<1>2. [status |-> "queued", binding |-> b, cancel |-> FALSE, mode |-> "auto"] \in JobRow
  BY DEF JobRow
<1> DEFINE r == [NoImport EXCEPT !.status = "pending", !.by = j]
<1>3. imports' = [imports EXCEPT ![b] = [a \in Asset |-> IF a \in S THEN r ELSE imports[b][a]]]
  BY DEF Reconciled
<1>4. r \in ImportRow
  BY <1>1
<1> HIDE DEF r
<1>5. imports' \in [Binding -> [Asset -> ImportRow]]
  BY <1>3, <1>4 DEF TablesTyped
<1>6. jobs' \in [Job -> JobRow]
  BY <1>2 DEF Reconciled, TablesTyped
<1> QED
  BY <1>5, <1>6

LEMMA ClaimFacts ==
    ASSUME ImmichTypeOK, RefsOK, Claim
    PROVE  \E j \in Job :
             /\ jobs[j].status = "queued" /\ jobs[j].binding \in BindingIds
             /\ jobs' = [jobs EXCEPT ![j].status = "running"]
             /\ exec' = [id |-> j, binding |-> jobs[j].binding,
                         event |-> bindings[jobs[j].binding].event,
                         target |-> bindings[jobs[j].binding].target]
<1> DEFINE j == Min(Queued)
<1>1. Queued \in SUBSET Nat /\ Queued # {}
  BY ImmichAssumption DEF Claim, Queued, Job
<1>2. j \in Queued
  BY <1>1, MinIs
<1>3. /\ jobs' = [jobs EXCEPT ![j].status = "running"]
      /\ exec' = [id |-> j, binding |-> jobs[j].binding,
                  event |-> bindings[jobs[j].binding].event,
                  target |-> bindings[jobs[j].binding].target]
  BY DEF Claim
<1> HIDE DEF j
<1> QED
  BY <1>2, <1>3 DEF Queued, RefsOK, JobIds

LEMMA LoopTyped ==
    ASSUME ImmichTypeOK, RefsOK, Loop PROVE ImmichTypeOK'
<1> USE DEF mediaVars, tableVars, jobVars, scanVars
<1>0. TablesTyped /\ ServersTyped /\ WorkerTyped /\ ScanTyped
  BY TypeParts
<1>1. ServersTyped'
  BY <1>0, SameServers DEF Loop, recover, ReconcileBegin, ReconcileNext, ReconcileEnd, Claim, Wake
<1>2. CASE recover
  <2>1. \A b \in Binding, a \in Asset : Recovered(imports[b][a]) \in ImportRow
    <3> TAKE b \in Binding, a \in Asset
    <3>1. imports[b][a] \in ImportRow
      BY <1>0 DEF TablesTyped
    <3> QED
      BY <3>1 DEF Recovered, ImportRow
  <2>2. \A j \in Job : [jobs[j] EXCEPT !.status = "queued"] \in JobRow
    BY <1>0 DEF TablesTyped, JobRow
  <2>3. TablesTyped'
    BY <1>0, <1>2, <2>1, <2>2 DEF recover, TablesTyped
  <2>4. WorkerTyped' /\ ScanTyped'
    BY <1>0, <1>2 DEF recover, WorkerTyped, ScanTyped, LoopPC
  <2> QED
    BY <1>1, <2>3, <2>4, TypeJoined
<1>3. CASE ReconcileBegin
  <2>1. TablesTyped' /\ WorkerTyped'
    BY <1>0, <1>3 DEF ReconcileBegin, TablesTyped, WorkerTyped, LoopPC
  <2>2. ScanTyped'
    BY <1>0, <1>3 DEF ReconcileBegin, ScanTyped, PageAfter, BindingIds
  <2> QED
    BY <1>1, <2>1, <2>2, TypeJoined
<1>4. CASE ReconcileNext
  <2>1. PICK b : b = Min(page)
    OBVIOUS
  <2>2. b \in page /\ b \in Binding
    <3>1. page \in SUBSET Nat /\ page # {}
      BY <1>0, <1>4, ImmichAssumption DEF ReconcileNext, ScanTyped, Binding
    <3> QED
      BY <1>0, <2>1, <3>1, MinIs DEF ScanTyped
  <2>3. /\ reconcileBinding(b) /\ page' = page \ {b} /\ reconcileAfter' = b
        /\ UNCHANGED <<mediaVars, bindings, markers, wk, jobVars, fullPage>>
    BY <1>4, <2>1 DEF ReconcileNext
  <2>4. imports' \in [Binding -> [Asset -> ImportRow]] /\ jobs' \in [Job -> JobRow]
    BY <1>0, <2>2, <2>3, ReconciledBy, ReconciledTyped DEF TablesTyped
  <2>5. TablesTyped'
    BY <1>0, <2>3, <2>4 DEF TablesTyped
  <2>6. WorkerTyped' /\ ScanTyped'
    BY <1>0, <2>2, <2>3 DEF WorkerTyped, ScanTyped
  <2> QED
    BY <1>1, <2>5, <2>6, TypeJoined
<1>5. CASE ReconcileEnd
  <2>1. TablesTyped' /\ WorkerTyped' /\ ScanTyped'
    BY <1>0, <1>5 DEF ReconcileEnd, TablesTyped, WorkerTyped, ScanTyped, LoopPC, Wrapped
  <2> QED
    BY <1>1, <2>1, TypeJoined
<1>6. CASE Claim
  <2>1. PICK j \in Job :
             /\ jobs[j].status = "queued" /\ jobs[j].binding \in BindingIds
             /\ jobs' = [jobs EXCEPT ![j].status = "running"]
             /\ exec' = [id |-> j, binding |-> jobs[j].binding,
                         event |-> bindings[jobs[j].binding].event,
                         target |-> bindings[jobs[j].binding].target]
    BY <1>6, ClaimFacts
  <2>2. [jobs[j] EXCEPT !.status = "running"] \in JobRow
    BY <1>0 DEF TablesTyped, JobRow
  <2>3. jobs[j].binding \in Binding /\ bindings[jobs[j].binding] \in BindingRow
    BY <1>0, <2>1 DEF BindingIds, TablesTyped
  <2>4. exec' \in Exec
    BY <2>1, <2>3 DEF Exec, BindingRow
  <2>5. TablesTyped' /\ WorkerTyped' /\ ScanTyped'
    BY <1>0, <1>6, <2>1, <2>2, <2>4 DEF Claim, TablesTyped, WorkerTyped, ScanTyped, ExecPC
  <2> QED
    BY <1>1, <2>5, TypeJoined
<1>7. CASE Wake
  <2>1. TablesTyped' /\ WorkerTyped' /\ ScanTyped'
    BY <1>0, <1>7 DEF Wake, TablesTyped, WorkerTyped, ScanTyped, LoopPC
  <2> QED
    BY <1>1, <2>1, TypeJoined
<1> QED
  BY <1>2, <1>3, <1>4, <1>5, <1>6, <1>7 DEF Loop

\* What the steps of the album leave typed, beside what they leave alone.
LEMMA AlbumTyped ==
    ASSUME ImmichTypeOK, ExecOK, AlbumStep PROVE ImmichTypeOK'
<1> USE DEF mediaVars, tableVars, serverVars, jobVars, scanVars, AtLabel, Goto
<1>0. TablesTyped /\ ServersTyped /\ WorkerTyped /\ ScanTyped
  BY TypeParts
<1>1. ScanTyped'
  BY <1>0, SameScan DEF AlbumStep, AlbumRead, AlbumIntent, AlbumCreate, AlbumFind, AlbumGet, AlbumSave
<1>2. CASE AlbumRead
  <2>1. bindings[exec.binding].marker \in Marker \cup {0} /\ bindings[exec.binding].album \in Album \cup {None}
    BY <1>0, <1>2 DEF AlbumRead, BindingIds, TablesTyped, BindingRow
  <2>2. album' \in [marker : Marker \cup {0}, id : Album \cup {None}]
    BY <1>2, <2>1 DEF AlbumRead
  <2>3. AfterRead(bindings[exec.binding]) \in ExecPC
    BY DEF AfterRead, ExecPC, ImportPC
  <2>4. TablesTyped' /\ ServersTyped' /\ WorkerTyped'
    BY <1>0, <1>2, <2>2, <2>3 DEF AlbumRead, TablesTyped, ServersTyped, WorkerTyped
  <2> QED
    BY <1>1, <2>4, TypeJoined
<1>3. CASE AlbumIntent
  <2>1. PICK b \in Binding : b = exec.binding
    BY <1>3 DEF AlbumIntent, ExecOK, ExecPC, ImportPC
  <2>2. UpdateBinding(bindings[b], [bindings[b] EXCEPT !.state = "creating"]) \in BindingRow
    BY <1>0 DEF TablesTyped, UpdateBinding, BindingRow
  <2>3. TablesTyped' /\ ServersTyped'
    BY <1>0, <1>3, <2>1, <2>2 DEF AlbumIntent, TablesTyped, ServersTyped
  <2>4. WorkerTyped'
    BY <1>0, <1>3, ImportReturnsTyped DEF AlbumIntent, WorkerTyped, ExecPC, ImportPC
  <2> QED
    BY <1>1, <2>3, <2>4, TypeJoined
<1>4. CASE AlbumCreate
  <2>1. PICK new \in Album : new = <<exec.target, album.marker>>
    BY <1>0, <1>4 DEF AlbumCreate, ExecOK, ExecPC, ImportPC, WorkerTyped, Album
  <2>2. ServersTyped' /\ TablesTyped'
    BY <1>0, <1>4, <2>1 DEF AlbumCreate, ServersTyped, TablesTyped
  <2>3. [album EXCEPT !.id = new] \in [marker : Marker \cup {0}, id : Album \cup {None}]
    BY <1>0 DEF WorkerTyped
  <2>4. CASE ImportReturns(TRUE)
    BY <1>0, <1>1, <2>2, <2>4, ImportReturnsTyped, TypeJoined
  <2>5. CASE ~ImportReturns(TRUE)
    <3>1. /\ album' = [album EXCEPT !.id = new] /\ wk' = "x_save"
          /\ UNCHANGED <<exec, ctx, pin, todo, tasks, failed>>
      BY <1>4, <2>1, <2>5 DEF AlbumCreate
    <3>2. WorkerTyped'
      BY <1>0, <2>3, <3>1 DEF WorkerTyped, ExecPC, ImportPC
    <3> QED
      BY <1>1, <2>2, <3>2, TypeJoined
  <2> QED
    BY <2>4, <2>5
<1>5. CASE AlbumFind
  <2>1. PICK new \in Album : new = <<exec.target, album.marker>>
    BY <1>0, <1>5 DEF AlbumFind, ExecOK, ExecPC, ImportPC, WorkerTyped, Album
  <2>2. [album EXCEPT !.id = new] \in [marker : Marker \cup {0}, id : Album \cup {None}]
    BY <1>0 DEF WorkerTyped
  <2>3. ServersTyped' /\ TablesTyped'
    BY <1>0, <1>5 DEF AlbumFind, ServersTyped, TablesTyped
  <2>4. WorkerTyped'
    BY <1>0, <1>5, <2>1, <2>2 DEF AlbumFind, WorkerTyped, ExecPC, ImportPC
  <2> QED
    BY <1>1, <2>3, <2>4, TypeJoined
<1>6. CASE AlbumGet
  <2>1. ServersTyped' /\ TablesTyped' /\ WorkerTyped'
    BY <1>0, <1>6 DEF AlbumGet, ServersTyped, TablesTyped, WorkerTyped, ExecPC, ImportPC
  <2> QED
    BY <1>1, <2>1, TypeJoined
<1>7. CASE AlbumSave
  <2>1. PICK b \in Binding : b = exec.binding
    BY <1>7 DEF AlbumSave, ExecOK, ExecPC, ImportPC
  <2>2. UpdateBinding(bindings[b], [bindings[b] EXCEPT !.album = album.id, !.state = "ready"]) \in BindingRow
    <3>1. album.id \in Album \cup {None} /\ bindings[b] \in BindingRow
      BY <1>0 DEF TablesTyped, WorkerTyped
    <3> QED
      BY <3>1 DEF UpdateBinding, BindingRow
  <2>3. TablesTyped' /\ ServersTyped'
    BY <1>0, <1>7, <2>1, <2>2 DEF AlbumSave, TablesTyped, ServersTyped
  <2>4. WorkerTyped'
    BY <1>0, <1>7, ImportReturnsTyped DEF AlbumSave, WorkerTyped, ExecPC, ImportPC
  <2> QED
    BY <1>1, <2>3, <2>4, TypeJoined
<1> QED
  BY <1>2, <1>3, <1>4, <1>5, <1>6, <1>7 DEF AlbumStep

\* One import row and one task.
LEMMA RowTyped ==
    ASSUME TablesTyped, NEW b \in Binding, exec.binding = b, NEW a \in Asset,
           NEW new \in ImportRow, SetRow(a, new)
    PROVE  /\ imports' \in [Binding -> [Asset -> ImportRow]]
           /\ imports' = [imports EXCEPT ![b][a] = Updated(imports[b][a], new)]
<1>1. Updated(imports[b][a], new) \in ImportRow
  BY DEF Updated, TablesTyped
<1> QED
  BY <1>1 DEF SetRow, TablesTyped

LEMMA TransferTyped ==
    ASSUME ImmichTypeOK, ExecOK, NEW a \in Asset, Transfer(a) PROVE ImmichTypeOK'
<1> USE DEF mediaVars, tableVars, serverVars, jobVars, scanVars, TaskAt, KeepJob
<1>0. TablesTyped /\ ServersTyped /\ WorkerTyped /\ ScanTyped
  BY TypeParts
<1>1. wk = "x_run" /\ ScanTyped' /\ UNCHANGED <<mediaVars, bindings, jobs, markers, wk, exec, ctx, pin, album, created>>
  BY <1>0, SameScan DEF Transfer, TransferTake, TransferTakeFails, TransferUpload, TransferSave,
     TransferAdd, TransferDone, TransferFail
<1>2. PICK b \in Binding, t \in Target, x \in Album : b = exec.binding /\ t = exec.target /\ x = album.id
  BY <1>1 DEF ExecOK, ExecPC, ImportPC
<1>3. Row(a) = imports[b][a] /\ Row(a) \in ImportRow /\ tasks[a] \in Task
  BY <1>0, <1>2 DEF Row, TablesTyped, WorkerTyped
<1>4. imports' \in [Binding -> [Asset -> ImportRow]]
  <2>1. CASE UNCHANGED imports
    BY <1>0, <2>1 DEF TablesTyped
  <2>2. ASSUME NEW new \in ImportRow, SetRow(a, new) PROVE imports' \in [Binding -> [Asset -> ImportRow]]
    BY <1>0, <1>2, <2>2, RowTyped
  <2>3. /\ [Row(a) EXCEPT !.status = "importing"] \in ImportRow
        /\ [Row(a) EXCEPT !.status = "importing", !.lost = TRUE] \in ImportRow
        /\ [Row(a) EXCEPT !.remote = tasks[a].remote, !.duplicate = tasks[a].duplicate] \in ImportRow
        /\ [Row(a) EXCEPT !.status = IF tasks[a].duplicate THEN "duplicate" ELSE "imported"] \in ImportRow
        /\ [Row(a) EXCEPT !.status = FailedStatus] \in ImportRow
        /\ [Row(a) EXCEPT !.lost = TRUE] \in ImportRow
    <3>1. tasks[a].remote \in Target \cup {None} /\ tasks[a].duplicate \in BOOLEAN
      BY <1>3 DEF Task
    <3>2. FailedStatus \in {"failed", "pending"}
      BY DEF FailedStatus
    <3>3. PICK row \in ImportRow, task \in Task : row = Row(a) /\ task = tasks[a]
      BY <1>3
    <3>4. /\ [row EXCEPT !.status = "importing"] \in ImportRow
          /\ [row EXCEPT !.status = "importing", !.lost = TRUE] \in ImportRow
          /\ [row EXCEPT !.lost = TRUE] \in ImportRow
      BY DEF ImportRow
    <3>5. /\ [row EXCEPT !.status = FailedStatus] \in ImportRow
          /\ [row EXCEPT !.status = IF task.duplicate THEN "duplicate" ELSE "imported"] \in ImportRow
      BY <3>2 DEF ImportRow
    <3>6. [row EXCEPT !.remote = task.remote, !.duplicate = task.duplicate] \in ImportRow
      BY DEF ImportRow, Task
    <3> QED
      BY <3>3, <3>4, <3>5, <3>6
  <2> QED
    BY <2>1, <2>2, <2>3 DEF Transfer, TransferTake, TransferTakeFails, TransferUpload, TransferSave,
       TransferAdd, TransferDone, TransferFail
<1>5. tasks' \in [Asset -> Task] /\ todo' \subseteq Asset /\ failed' \in BOOLEAN
  <2>1. todo' \subseteq Asset /\ failed' \in BOOLEAN
    BY <1>0 DEF WorkerTyped, Transfer, TransferTake, TransferTakeFails, TransferUpload, TransferSave,
       TransferAdd, TransferDone, TransferFail
  <2>2. CASE UNCHANGED tasks
    BY <1>0, <2>1, <2>2 DEF WorkerTyped
  <2>3. ASSUME NEW new \in Task, SetTask(a, new) PROVE tasks' \in [Asset -> Task]
    BY <1>0, <2>3 DEF WorkerTyped, SetTask
  <2>4. /\ FirstCall(Row(a)) \in Task /\ NoTask \in Task
        /\ \A known \in BOOLEAN : [at |-> "save", remote |-> exec.target, duplicate |-> known] \in Task
    BY <1>2, <1>3 DEF FirstCall, NoTask, Task, ImportRow
  <2>5. \A l \in {"add", "done", "fail"} : [tasks[a] EXCEPT !.at = l] \in Task
    BY <1>3 DEF Task
  <2>6. (a \in stored[exec.target]) \in BOOLEAN
    OBVIOUS
  <2>7. tasks' \in [Asset -> Task]
    BY <2>2, <2>3, <2>4, <2>5, <2>6 DEF Transfer, TransferTake, TransferTakeFails, TransferUpload,
       TransferSave, TransferAdd, TransferDone, TransferFail
  <2> QED
    BY <2>1, <2>7
<1>6. ServersTyped'
  <2>1. stored' \in [Target -> SUBSET Asset]
    <3>1. stored' \in {stored, [stored EXCEPT ![t] = stored[t] \cup {a}]}
      BY <1>2 DEF Transfer, TransferTake, TransferTakeFails, TransferUpload,
         TransferSave, TransferAdd, TransferDone, TransferFail
    <3> QED
      BY <1>0, <3>1 DEF ServersTyped
  <2>2. shelved' \subseteq Album \X Asset
    <3>1. shelved' \in {shelved, shelved \cup {<<x, a>>}}
      BY <1>2 DEF Transfer, TransferTake, TransferTakeFails, TransferUpload,
         TransferSave, TransferAdd, TransferDone, TransferFail, AddToAlbum
    <3> QED
      BY <1>0, <3>1 DEF ServersTyped
  <2> QED
    BY <1>0, <1>1, <2>1, <2>2 DEF ServersTyped
<1>7. TablesTyped'
  BY <1>0, <1>1, <1>4 DEF TablesTyped
<1>8. WorkerTyped'
  BY <1>0, <1>1, <1>5 DEF WorkerTyped
<1> QED
  BY <1>1, <1>6, <1>7, <1>8, TypeJoined

LEMMA ExecuteTyped ==
    ASSUME ImmichTypeOK, ExecOK, Execute PROVE ImmichTypeOK'
<1> USE DEF mediaVars, tableVars, serverVars, jobVars, scanVars, AtLabel, Goto
<1>0. TablesTyped /\ ServersTyped /\ WorkerTyped /\ ScanTyped
  BY TypeParts
<1>1. CASE CheckCancel
  <2>1. TablesTyped' /\ ServersTyped' /\ ScanTyped'
    BY <1>0, <1>1, SameTables, SameServers, SameScan DEF CheckCancel
  <2>2. WorkerTyped'
    BY <1>0, <1>1, ReturnTyped DEF CheckCancel, WorkerTyped, ExecPC, ImportPC
  <2> QED
    BY <2>1, <2>2, TypeJoined
<1>2. CASE Validate \/ ImportFails \/ ImportEnds
  <2>1. TablesTyped' /\ ServersTyped' /\ ScanTyped'
    BY <1>0, <1>2, SameTables, SameServers, SameScan DEF Validate, ImportFails, ImportEnds
  <2>2. CASE Validate
    BY <1>0, <2>1, <2>2, TypeJoined DEF Validate, WorkerTyped, ExecPC, ImportPC
  <2>3. CASE ImportFails
    BY <1>0, <2>1, <2>3, ImportReturnsTyped, TypeJoined DEF ImportFails
  <2>4. CASE ImportEnds
    <3>1. (failed \/ ctx # "live") \in BOOLEAN
      OBVIOUS
    <3>2. PICK bad \in BOOLEAN : bad = (failed \/ ctx # "live")
      BY <3>1
    <3>3. ImportReturns(bad)
      BY <2>4, <3>2 DEF ImportEnds
    <3> QED
      BY <1>0, <2>1, <3>3, ImportReturnsTyped, TypeJoined
  <2> QED
    BY <1>2, <2>2, <2>3, <2>4
<1>3. CASE Snapshot
  <2>1. TablesTyped' /\ ServersTyped' /\ ScanTyped'
    BY <1>0, <1>3, SameTables, SameServers, SameScan DEF Snapshot
  <2>2. exec.event \in Event
    BY <1>3 DEF Snapshot, ExecOK, ExecPC, ImportPC
  <2>3. WorkerTyped'
    BY <1>0, <1>3, <2>2 DEF Snapshot, WorkerTyped, Ready, ExecPC, ImportPC
  <2> QED
    BY <2>1, <2>3, TypeJoined
<1>4. CASE Finish
  <2>1. PICK j \in Job, b \in Binding : j = exec.id /\ b = exec.binding
    BY <1>4 DEF Finish, ExecOK, ExecPC
  <2>2. jobs' \in [Job -> JobRow]
    <3>1. Verdict(j) \in {"cancelled", "failed", "completed"}
      BY DEF Verdict
    <3>2. jobs[j] \in JobRow
      BY <1>0 DEF TablesTyped
    <3>3. [jobs[j] EXCEPT !.status = Verdict(j)] \in JobRow
      BY <3>1, <3>2 DEF JobRow
    <3> QED
      BY <1>0, <1>4, <2>1, <3>3 DEF Finish, TablesTyped
  <2>3. imports' \in [Binding -> [Asset -> ImportRow]]
    <3>1. \A a \in Asset : GivenUp(imports[b][a]) \in ImportRow
      <4> TAKE a \in Asset
      <4>1. imports[b][a] \in ImportRow
        BY <1>0 DEF TablesTyped
      <4> QED
        BY <4>1 DEF GivenUp, ImportRow
    <3> QED
      BY <1>0, <1>4, <2>1, <3>1 DEF Finish, TablesTyped
  <2>4. TablesTyped' /\ ServersTyped' /\ ScanTyped'
    BY <1>0, <1>4, <2>2, <2>3 DEF Finish, TablesTyped, ServersTyped, ScanTyped
  <2> QED
    BY <1>4, <2>4, ReturnTyped, TypeJoined DEF Finish
<1>5. CASE FinishFails
  <2>1. TablesTyped' /\ ServersTyped' /\ ScanTyped'
    BY <1>0, <1>5, SameTables, SameServers, SameScan DEF FinishFails
  <2> QED
    BY <1>5, <2>1, ReturnTyped, TypeJoined DEF FinishFails
<1> QED
  BY <1>1, <1>2, <1>3, <1>4, <1>5, AlbumTyped, TransferTyped DEF Execute

LEMMA NextTyped ==
    ASSUME ImmichTypeOK, RefsOK, ExecOK, [Next]_vars PROVE ImmichTypeOK'
<1> USE DEF mediaVars, tableVars, serverVars, jobVars, scanVars
<1>0. TablesTyped /\ ServersTyped /\ WorkerTyped /\ ScanTyped
  BY TypeParts
<1>1. CASE Administration
  <2>1. TablesTyped'
    BY <1>1, AdministrationTyped
  <2>2. ServersTyped' /\ WorkerTyped' /\ ScanTyped'
    BY <1>0, <1>1, AdministrationFrame, SameServers, SameWorker, SameScan
  <2> QED
    BY <2>1, <2>2, TypeJoined
<1>2. CASE Monitor \/ Stop \/ Restart
  <2>1. TablesTyped' /\ ServersTyped'
    BY <1>0, <1>2, SameTables, SameServers DEF Monitor, Stop, Restart
  <2>2. WorkerTyped' /\ ScanTyped'
    <3>1. CASE Monitor \/ Stop
      BY <1>0, <3>1 DEF Monitor, Stop, WorkerTyped, ScanTyped, LoopPC
    <3>2. CASE Restart
      BY <3>2, ForgetTyped DEF Restart, ScanTyped, LoopPC
    <3> QED
      BY <1>2, <3>1, <3>2
  <2> QED
    BY <2>1, <2>2, TypeJoined
<1>3. CASE UNCHANGED vars
  BY <1>0, <1>3, SameTables, SameServers, SameWorker, SameScan, TypeJoined DEF vars
<1> QED
  BY <1>1, <1>2, <1>3, LoopTyped, ExecuteTyped DEF Next

(* --------------------- what a step does to the tables ------------------- *)

\* A binding keeps its identity, and what it says of its album.
SameBinding(b) ==
    /\ bindings'[b].event = bindings[b].event /\ bindings'[b].target = bindings[b].target
    /\ bindings'[b].marker = bindings[b].marker
SameAlbum(b) == bindings'[b].state = bindings[b].state /\ bindings'[b].album = bindings[b].album
Calm ==
    markers' = markers /\ created' = created /\ \A b \in Binding : SameBinding(b) /\ SameAlbum(b)

\* Events and the rows of jobs: an event that exists stays, a job keeps its
\* binding, and a new job belongs to a binding that exists.
SameEvents == \A e \in Event : events'[e] = "none" => events[e] = "none"
JobsAttached ==
    \A j \in Job : jobs'[j].status # "none" =>
        \/ jobs[j].status # "none" /\ jobs'[j].binding = jobs[j].binding
        \/ jobs'[j].binding \in BindingIds

AlbumWrite == AlbumIntent \/ AlbumCreate \/ AlbumSave

\* A request that writes a binding and a job, with what it leaves alone.
SendKind == {"new", "retry", "album"}
Sent(e, t, kind, auto, b, j) ==
    /\ Enqueued(e, t, kind, auto, b, j)
    /\ events' \in {events, [events EXCEPT ![e] = "open"]} /\ events'[e] = "open"
    /\ UNCHANGED <<owner, serverVars, wk, jobVars, scanVars>>

TableStep ==
    \/ Calm /\ SameEvents /\ JobsAttached
    \/ \E e \in Event, t \in Target, kind \in SendKind, auto \in BOOLEAN, b \in Binding, j \in Job :
         Sent(e, t, kind, auto, b, j)
    \/ \E e \in Event : DeleteDrop(e)
    \/ AlbumWrite

\* The one row that the worker writes.
LEMMA AlbumWrites ==
    ASSUME ImmichTypeOK, ExecOK, AlbumIntent \/ AlbumSave
    PROVE  /\ exec.binding \in Binding
           /\ \A b \in Binding : SameBinding(b)
           /\ \A b \in Binding : b # exec.binding \/ bindings[b].event = 0 => bindings'[b] = bindings[b]
           /\ bindings[exec.binding].event # 0 /\ AlbumIntent =>
                 /\ bindings'[exec.binding].state = "creating"
                 /\ bindings'[exec.binding].album = bindings[exec.binding].album
           /\ bindings[exec.binding].event # 0 /\ AlbumSave =>
                 bindings'[exec.binding].state = "ready" /\ bindings'[exec.binding].album = album.id
           /\ UNCHANGED <<mediaVars, imports, jobs, markers, serverVars>>
<1> USE DEF AtLabel, mediaVars
<1>1. PICK b \in Binding : b = exec.binding
  BY DEF AlbumIntent, AlbumSave, ExecOK, ExecPC, ImportPC
<1>2. bindings \in [Binding -> BindingRow] /\ bindings[b] \in BindingRow
  BY DEF ImmichTypeOK
<1>3. UNCHANGED <<mediaVars, imports, jobs, markers, serverVars>>
  BY DEF AlbumIntent, AlbumSave
<1>4. CASE AlbumIntent
  <2>1. bindings' = [bindings EXCEPT ![b] = UpdateBinding(bindings[b], [bindings[b] EXCEPT !.state = "creating"])]
    BY <1>1, <1>4 DEF AlbumIntent
  <2>2. \A c \in Binding : c # b => bindings'[c] = bindings[c]
    BY <1>2, <2>1
  <2>3. bindings[b].event = 0 => bindings'[b] = bindings[b]
    BY <1>2, <2>1 DEF UpdateBinding
  <2>4. bindings[b].event # 0 => bindings'[b] = [bindings[b] EXCEPT !.state = "creating"]
    BY <1>2, <2>1 DEF UpdateBinding
  <2>5. ~AlbumSave
    BY <1>4 DEF AlbumIntent, AlbumSave
  <2> QED
    BY <1>1, <1>2, <1>3, <2>2, <2>3, <2>4, <2>5 DEF SameBinding, BindingRow
<1>5. CASE AlbumSave
  <2>1. bindings' = [bindings EXCEPT ![b] =
           UpdateBinding(bindings[b], [bindings[b] EXCEPT !.album = album.id, !.state = "ready"])]
    BY <1>1, <1>5 DEF AlbumSave
  <2>2. \A c \in Binding : c # b => bindings'[c] = bindings[c]
    BY <1>2, <2>1
  <2>3. bindings[b].event = 0 => bindings'[b] = bindings[b]
    BY <1>2, <2>1 DEF UpdateBinding
  <2>4. bindings[b].event # 0 => bindings'[b] = [bindings[b] EXCEPT !.album = album.id, !.state = "ready"]
    BY <1>2, <2>1 DEF UpdateBinding
  <2>5. ~AlbumIntent
    BY <1>5 DEF AlbumIntent, AlbumSave
  <2>6. bindings[b].event # 0 =>
          /\ bindings'[b].state = "ready" /\ bindings'[b].album = album.id
          /\ bindings'[b].event = bindings[b].event /\ bindings'[b].target = bindings[b].target
          /\ bindings'[b].marker = bindings[b].marker
    BY <1>2, <2>4 DEF BindingRow
  <2>7. \A c \in Binding : SameBinding(c)
    BY <2>2, <2>3, <2>6 DEF SameBinding
  <2> QED
    BY <1>1, <1>3, <2>2, <2>3, <2>5, <2>6, <2>7
<1> QED
  BY <1>4, <1>5

LEMMA TableSteps ==
    ASSUME ImmichTypeOK, RefsOK, ExecOK, [Next]_vars
    PROVE  TableStep
<1> USE DEF mediaVars, tableVars, serverVars, AtLabel
<1>0. jobs \in [Job -> JobRow] /\ bindings \in [Binding -> BindingRow] /\ events \in [Event -> {"none", "open", "deleting"}]
  BY DEF ImmichTypeOK
<1>1. CASE UNCHANGED <<events, bindings, markers, created>> /\ JobsAttached
  BY <1>1 DEF TableStep, Calm, SameBinding, SameAlbum, SameEvents
<1>2. UNCHANGED jobs => JobsAttached
  BY DEF JobsAttached
<1>3. ASSUME NEW e \in Event, NEW t \in Target, NEW kind \in SendKind, Enqueue(e, t, kind)
      PROVE  TableStep
  <2>1. PICK b \in Binding, j \in Job : Enqueued(e, t, kind, FALSE, b, j)
    BY <1>3, EnqueuedBy DEF Enqueue
  <2>2. Sent(e, t, kind, FALSE, b, j)
    BY <1>3, <2>1 DEF Sent, Enqueue
  <2> QED
    BY <2>2 DEF TableStep
<1>4. CASE CreateEvent
  <2>1. PICK e \in Event : /\ e = NewEvent /\ events' = [events EXCEPT ![e] = "open"]
                           /\ UNCHANGED <<owner, serverVars, wk, jobVars, scanVars>>
    BY <1>4 DEF CreateEvent
  <2>2. CASE UNCHANGED tableVars
    BY <1>0, <1>2, <2>1, <2>2 DEF TableStep, Calm, SameBinding, SameAlbum, SameEvents
  <2>3. CASE \E t \in Target, auto \in BOOLEAN : enqueueTx(NewEvent, t, "album", auto)
    <3>1. PICK t \in Target, auto \in BOOLEAN : enqueueTx(e, t, "album", auto)
      BY <2>1, <2>3
    <3>2. PICK b \in Binding, j \in Job : Enqueued(e, t, "album", auto, b, j)
      BY <3>1, EnqueuedBy
    <3>3. Sent(e, t, "album", auto, b, j)
      BY <1>0, <2>1, <3>2 DEF Sent
    <3> QED
      BY <3>3 DEF TableStep, SendKind
  <2> QED
    BY <1>4, <2>2, <2>3 DEF CreateEvent
<1>5. ASSUME NEW b \in Binding, Cancel(b) PROVE TableStep
  <2>1. \A j \in Job : jobs'[j].status = jobs[j].status /\ jobs'[j].binding = jobs[j].binding
    BY <1>0, <1>5 DEF Cancel, JobRow
  <2> QED
    BY <1>1, <1>5, <2>1 DEF Cancel, JobsAttached
<1>6. ASSUME NEW b \in Binding, NEW on \in BOOLEAN, SetAutoImport(b, on) PROVE TableStep
  <2>1. \A c \in Binding : c # b => bindings'[c] = bindings[c]
    BY <1>0, <1>6 DEF SetAutoImport
  <2>2. bindings'[b] = [bindings[b] EXCEPT !.auto = on] /\ bindings[b] \in BindingRow
    BY <1>0, <1>6 DEF SetAutoImport
  <2>3. SameBinding(b) /\ SameAlbum(b)
    BY <2>2 DEF SameBinding, SameAlbum, BindingRow
  <2> QED
    BY <1>2, <1>6, <2>1, <2>3 DEF SetAutoImport, TableStep, Calm, SameBinding, SameAlbum, SameEvents
<1>7. ASSUME NEW e \in Event, DeleteMark(e) \/ \E a \in Asset : MediaReady(a, e) PROVE TableStep
  BY <1>0, <1>2, <1>7 DEF DeleteMark, MediaReady, TableStep, Calm, SameBinding, SameAlbum, SameEvents
<1>8. CASE recover
  <2>1. \A j \in Job : (jobs'[j].status # "none" => jobs[j].status # "none") /\ jobs'[j].binding = jobs[j].binding
    BY <1>0, <1>8 DEF recover, JobRow
  <2> QED
    BY <1>1, <1>8, <2>1 DEF recover, JobsAttached
<1>9. CASE ReconcileNext
  <2>1. PICK b : b = Min(page)
    OBVIOUS
  <2>2. b \in Binding
    <3>1. page \in SUBSET Nat /\ page # {} /\ page \subseteq Binding
      BY <1>9, ImmichAssumption DEF ReconcileNext, ImmichTypeOK, Binding
    <3> QED
      BY <2>1, <3>1, MinIs
  <2>3. reconcileBinding(b) /\ UNCHANGED <<events, bindings, markers, created>>
    BY <1>9, <2>1 DEF ReconcileNext
  <2>4. CASE UNCHANGED <<imports, jobs>>
    BY <1>1, <1>2, <2>3, <2>4
  <2>5. ASSUME NEW j \in Job, NEW S \in SUBSET Asset, Reconciled(b, j, S) PROVE TableStep
    <3>1. b \in BindingIds /\ jobs'[j].binding = b /\ \A k \in Job : k # j => jobs'[k] = jobs[k]
      BY <1>0, <2>5 DEF Reconciled, MayReconcile
    <3> QED
      BY <1>1, <2>3, <3>1 DEF JobsAttached
  <2> QED
    BY <2>2, <2>3, <2>4, <2>5, ReconciledBy
<1>10. CASE Claim
  <2>1. PICK j \in Job : jobs[j].status = "queued" /\ jobs' = [jobs EXCEPT ![j].status = "running"]
    BY <1>10, ClaimFacts
  <2>2. jobs[j] \in JobRow /\ jobs'[j] = [jobs[j] EXCEPT !.status = "running"] /\ \A k \in Job : k # j => jobs'[k] = jobs[k]
    BY <1>0, <2>1
  <2>3. JobsAttached
    BY <2>1, <2>2 DEF JobsAttached, JobRow
  <2> QED
    BY <1>1, <1>10, <2>3 DEF Claim
<1>11. CASE Finish
  <2>1. PICK j \in Job : j = exec.id
    BY <1>11 DEF Finish, ExecOK, ExecPC
  <2>2. /\ jobs[j] \in JobRow /\ jobs[j].status # "none" /\ jobs'[j] = [jobs[j] EXCEPT !.status = Verdict(j)]
        /\ \A k \in Job : k # j => jobs'[k] = jobs[k]
    BY <1>0, <1>11, <2>1 DEF Finish
  <2>3. JobsAttached
    BY <2>2 DEF JobsAttached, JobRow
  <2> QED
    BY <1>1, <1>11, <2>3 DEF Finish
<1>12. CASE AlbumWrite
  BY <1>12 DEF TableStep
<1>13. ASSUME NEW a \in Asset, Transfer(a) PROVE UNCHANGED <<events, bindings, jobs, markers, created>>
  BY <1>13 DEF Transfer, TransferTake, TransferTakeFails, TransferUpload, TransferSave, TransferAdd,
     TransferDone, TransferFail, TaskAt, KeepJob
<1>14. CASE Administration
  BY <1>3, <1>4, <1>5, <1>6, <1>7, <1>14 DEF Administration, TableStep, SendKind
<1>15. CASE Loop
  BY <1>1, <1>2, <1>8, <1>9, <1>10, <1>15 DEF Loop, ReconcileBegin, ReconcileEnd, Wake
<1>16. CASE Execute
  <2>1. \/ Finish \/ AlbumWrite \/ UNCHANGED <<events, bindings, jobs, markers, created>>
    BY <1>13, <1>16 DEF Execute, CheckCancel, Validate, Snapshot, AlbumStep, AlbumRead, AlbumFind, AlbumGet,
       AlbumWrite, ImportFails, ImportEnds, FinishFails
  <2> QED
    BY <1>1, <1>2, <1>11, <1>12, <2>1
<1>17. CASE Monitor \/ Stop \/ Restart \/ UNCHANGED vars
  BY <1>1, <1>2, <1>17 DEF Monitor, Stop, Restart, vars
<1> QED
  BY <1>14, <1>15, <1>16, <1>17 DEF Next

\* The rows after a request: as they were, but for a new binding and a new job.
RowsSent(e, t, kind, auto, b, j) ==
    /\ \A c \in BindingIds : bindings'[c] = bindings[c]
    /\ BindingIds' = BindingIds \cup {b}
    /\ b \in BindingIds => bindings' = bindings /\ markers' = markers
    /\ b \notin BindingIds =>
          /\ markers' = markers + 1
          /\ bindings'[b] = [event |-> e, target |-> t, marker |-> markers + 1,
                             state |-> "new", album |-> None, auto |-> auto]
    /\ \A k \in Job : k # j => jobs'[k] = jobs[k]
    /\ jobs'[j] = [status |-> "queued", binding |-> b, cancel |-> FALSE,
                   mode |-> IF kind = "retry" THEN "retry" ELSE "new"]

LEMMA SentRows ==
    ASSUME ImmichTypeOK, NEW e \in Event, NEW t \in Target, NEW kind \in SendKind,
           NEW auto \in BOOLEAN, NEW b \in Binding, NEW j \in Job, Sent(e, t, kind, auto, b, j)
    PROVE  RowsSent(e, t, kind, auto, b, j)
<1> USE DEF RowsSent
<1>1. bindings \in [Binding -> BindingRow] /\ jobs \in [Job -> JobRow] /\ 0 \notin Event
  BY DEF ImmichTypeOK, Event
<1>2. /\ bindings' = [bindings EXCEPT ![b] = Bound(b, e, t, auto)]
      /\ markers' = IF b \in BindingIds THEN markers ELSE markers + 1
      /\ jobs' = [jobs EXCEPT ![j] = [status |-> "queued", binding |-> b, cancel |-> FALSE,
                                      mode |-> IF kind = "retry" THEN "retry" ELSE "new"]]
  BY DEF Sent, Enqueued
<1>3. /\ jobs'[j] = [status |-> "queued", binding |-> b, cancel |-> FALSE,
                     mode |-> IF kind = "retry" THEN "retry" ELSE "new"]
      /\ \A k \in Job : k # j => jobs'[k] = jobs[k]
  BY <1>1, <1>2
<1>4. bindings'[b] = Bound(b, e, t, auto) /\ \A c \in Binding : c # b => bindings'[c] = bindings[c]
  BY <1>1, <1>2
<1>5. CASE b \in BindingIds
  <2>1. bindings' = bindings
    BY <1>1, <1>2, <1>5 DEF Bound
  <2> QED
    BY <1>2, <1>3, <1>5, <2>1 DEF BindingIds
<1>6. CASE b \notin BindingIds
  <2>1. bindings'[b] = [event |-> e, target |-> t, marker |-> markers + 1,
                        state |-> "new", album |-> None, auto |-> auto]
    BY <1>4, <1>6 DEF Bound
  <2>2. BindingIds' = BindingIds \cup {b}
    BY <1>1, <1>4, <2>1 DEF BindingIds
  <2>3. \A c \in BindingIds : bindings'[c] = bindings[c]
    BY <1>4, <1>6 DEF BindingIds
  <2> QED
    BY <1>2, <1>3, <1>6, <2>1, <2>2, <2>3
<1> QED
  BY <1>5, <1>6

\* The rows after an event was dropped.
LEMMA DropRows ==
    ASSUME ImmichTypeOK, NEW e \in Event, DeleteDrop(e)
    PROVE  /\ BindingIds' = {b \in BindingIds : bindings[b].event # e}
           /\ \A b \in BindingIds' : bindings'[b] = bindings[b]
           /\ \A j \in Job : jobs'[j].status # "none" =>
                 jobs'[j] = jobs[j] /\ ~(jobs[j].binding \in Binding /\ bindings[jobs[j].binding].event = e)
           /\ events[e] = "deleting" /\ \A f \in Event : f # e => events'[f] = events[f]
           /\ UNCHANGED <<markers, serverVars, wk, jobVars, scanVars>>
<1>1. /\ bindings' = [b \in Binding |-> IF bindings[b].event = e THEN NoBinding ELSE bindings[b]]
      /\ jobs' = [j \in Job |-> IF jobs[j].binding \in {b \in Binding : bindings[b].event = e}
                                THEN NoJob ELSE jobs[j]]
      /\ events' = [events EXCEPT ![e] = "none"] /\ events[e] = "deleting"
      /\ UNCHANGED <<markers, serverVars, wk, jobVars, scanVars>>
  BY DEF DeleteDrop
<1>2. /\ BindingIds' = {b \in BindingIds : bindings[b].event # e}
      /\ \A b \in BindingIds' : bindings'[b] = bindings[b]
  BY <1>1 DEF BindingIds, NoBinding
<1>3. \A j \in Job : jobs'[j].status # "none" =>
         jobs'[j] = jobs[j] /\ ~(jobs[j].binding \in Binding /\ bindings[jobs[j].binding].event = e)
  BY <1>1 DEF NoJob
<1>4. \A f \in Event : f # e => events'[f] = events[f]
  BY <1>1 DEF ImmichTypeOK
<1> QED
  BY <1>1, <1>2, <1>3, <1>4

LEMMA NextRefs ==
    ASSUME ImmichTypeOK, RefsOK, ExecOK, [Next]_vars
    PROVE  RefsOK'
<1>0. /\ markers \in Nat
      /\ \A b \in BindingIds : b \in Binding /\ bindings[b].event \in Event
      /\ events \in [Event -> {"none", "open", "deleting"}]
  BY DEF ImmichTypeOK, BindingIds, BindingRow
<1>1. CASE Calm /\ SameEvents /\ JobsAttached
  <2>1. BindingIds' = BindingIds
    BY <1>1 DEF Calm, SameBinding, BindingIds
  <2>2. \A b \in BindingIds : /\ bindings'[b].target \in Target
                              /\ bindings'[b].marker \in 1..markers'
                              /\ events'[bindings'[b].event] # "none"
    BY <1>0, <1>1 DEF Calm, SameBinding, SameEvents, RefsOK
  <2>3. \A j \in Job : jobs'[j].status # "none" => jobs'[j].binding \in BindingIds
    BY <1>1 DEF JobsAttached, RefsOK, JobIds
  <2> QED
    BY <2>1, <2>2, <2>3 DEF RefsOK, JobIds
<1>2. ASSUME NEW e \in Event, NEW t \in Target, NEW kind \in SendKind, NEW auto \in BOOLEAN,
             NEW b \in Binding, NEW j \in Job, Sent(e, t, kind, auto, b, j)
      PROVE  RefsOK'
  <2>0. RowsSent(e, t, kind, auto, b, j)
    BY <1>2, SentRows, Zenon
  <2>1. events'[e] = "open" /\ \A f \in Event : f # e => events'[f] = events[f]
    BY <1>0, <1>2 DEF Sent
  <2>2. \A c \in BindingIds : bindings'[c] = bindings[c] /\ bindings[c].marker \in 1..markers'
    BY <1>0, <2>0 DEF RefsOK, RowsSent
  <2>3. BindingIds' = BindingIds \cup {b} /\ \A k \in Job : k # j => jobs'[k] = jobs[k]
    BY <2>0 DEF RowsSent
  <2>4. b \notin BindingIds =>
          bindings'[b].event = e /\ bindings'[b].target = t /\ bindings'[b].marker \in 1..markers'
    BY <1>0, <2>0 DEF RowsSent
  <2>5. \A c \in BindingIds' : /\ bindings'[c].target \in Target
                               /\ bindings'[c].marker \in 1..markers'
                               /\ events'[bindings'[c].event] # "none"
    BY <1>0, <2>1, <2>2, <2>3, <2>4 DEF RefsOK
  <2>6. \A k \in Job : jobs'[k].status # "none" => jobs'[k].binding \in BindingIds'
    BY <2>0, <2>3 DEF RefsOK, JobIds, RowsSent
  <2> QED
    BY <2>5, <2>6 DEF RefsOK, JobIds
<1>3. ASSUME NEW e \in Event, DeleteDrop(e) PROVE RefsOK'
  <2>1. \A c \in BindingIds' : /\ bindings'[c].target \in Target
                               /\ bindings'[c].marker \in 1..markers'
                               /\ events'[bindings'[c].event] # "none"
    BY <1>0, <1>3, DropRows DEF RefsOK
  <2>2. \A k \in Job : jobs'[k].status # "none" => jobs'[k].binding \in BindingIds'
    BY <1>0, <1>3, DropRows DEF RefsOK, JobIds
  <2> QED
    BY <2>1, <2>2 DEF RefsOK, JobIds
<1>4. CASE AlbumIntent \/ AlbumSave
  <2>1. BindingIds' = BindingIds
    BY <1>4, AlbumWrites DEF SameBinding, BindingIds
  <2> QED
    BY <1>0, <1>4, <2>1, AlbumWrites DEF RefsOK, SameBinding, JobIds, mediaVars
<1>5. CASE AlbumCreate
  BY <1>5 DEF AlbumCreate, AtLabel, RefsOK, BindingIds, JobIds, mediaVars, tableVars
<1> QED
  BY <1>1, <1>2, <1>3, <1>4, <1>5, TableSteps DEF TableStep, AlbumWrite

\* No second creation with one marker.
LEMMA NextMarkers ==
    ASSUME ImportInv, [Next]_vars
    PROVE  MarkersOK' /\ OneAlbum'
<1> USE DEF ImportInv
<1>0. /\ markers \in Nat /\ created \in [Album -> Nat]
      /\ \A b \in BindingIds : bindings[b].marker \in 1..markers /\ bindings[b].marker \in Marker
      /\ \A t \in Target, m \in Marker : <<t, m>> \in Album
  <2>1. markers \in 0..MaxMarker /\ MaxMarker \in Nat /\ created \in [Album -> Nat]
    BY ImmichAssumption DEF ImmichTypeOK
  <2>2. \A b \in BindingIds : bindings[b].marker \in 1..markers
    BY DEF RefsOK
  <2> QED
    BY <2>1, <2>2 DEF Marker, Album
<1>1. CASE Calm
  <2>1. BindingIds' = BindingIds
    BY <1>1 DEF Calm, SameBinding, BindingIds
  <2>2. \A b \in BindingIds : b \in Binding
    BY DEF BindingIds
  <2> QED
    BY <1>1, <2>1, <2>2 DEF Calm, SameBinding, SameAlbum, MarkersOK, OneAlbum
<1>2. ASSUME NEW e \in Event, NEW t \in Target, NEW kind \in SendKind, NEW auto \in BOOLEAN,
             NEW b \in Binding, NEW j \in Job, Sent(e, t, kind, auto, b, j)
      PROVE  MarkersOK' /\ OneAlbum'
  <2>0. RowsSent(e, t, kind, auto, b, j)
    BY <1>2, SentRows, Zenon
  <2>1. created' = created
    BY <1>2 DEF Sent, serverVars
  <2>2. CASE b \in BindingIds
    <3>1. bindings' = bindings /\ markers' = markers
      BY <2>0, <2>2 DEF RowsSent
    <3> QED
      BY <2>1, <3>1 DEF MarkersOK, OneAlbum, BindingIds
  <2>3. CASE b \notin BindingIds
    <3>1. /\ \A c \in BindingIds : bindings'[c] = bindings[c] /\ c # b
          /\ BindingIds' = BindingIds \cup {b}
          /\ markers' = markers + 1
          /\ bindings'[b].marker = markers + 1 /\ bindings'[b].state = "new"
      BY <2>0, <2>3 DEF RowsSent
    <3>2. markers + 1 \in Marker
      BY <1>2, <2>3, ImmichAssumption DEF Sent, Enqueued, ImmichTypeOK, Marker
    <3>3. \A s \in Target : created[<<s, markers + 1>>] = 0
      BY <1>0, <3>2 DEF MarkersOK
    <3>4. \A c, d \in BindingIds' : bindings'[c].marker = bindings'[d].marker => c = d
      BY <1>0, <3>1 DEF MarkersOK
    <3>5. \A c \in BindingIds' : bindings'[c].state = "ready" => bindings'[c].album # None
      BY <3>1 DEF MarkersOK
    <3>6. \A c \in BindingIds' : bindings'[c].state = "new" =>
             \A s \in Target : created'[<<s, bindings'[c].marker>>] = 0
      BY <2>1, <3>1, <3>3 DEF MarkersOK
    <3>7. \A s \in Target, m \in Marker : created'[<<s, m>>] # 0 => m <= markers'
      BY <1>0, <2>1, <3>1 DEF MarkersOK, Marker
    <3> QED
      BY <2>1, <3>4, <3>5, <3>6, <3>7 DEF MarkersOK, OneAlbum
  <2> QED
    BY <2>2, <2>3
<1>3. ASSUME NEW e \in Event, DeleteDrop(e) PROVE MarkersOK' /\ OneAlbum'
  <2>1. created' = created /\ markers' = markers /\ BindingIds' \subseteq BindingIds
        /\ \A b \in BindingIds' : bindings'[b] = bindings[b]
    BY <1>3, DropRows DEF serverVars
  <2> QED
    BY <2>1 DEF MarkersOK, OneAlbum
<1>4. CASE AlbumIntent \/ AlbumSave
  <2>1. BindingIds' = BindingIds /\ created' = created /\ markers' = markers
        /\ \A b \in BindingIds : SameBinding(b) /\ b \in Binding /\ bindings[b].event # 0
    BY <1>4, AlbumWrites DEF SameBinding, BindingIds, serverVars
  <2>2. AlbumSave => album.id # None
    BY ImmichAssumption DEF AlbumSave, AtLabel, ExecOK
  <2>3. \A b \in BindingIds : bindings'[b].state = "ready" => bindings'[b].album # None
    BY <1>4, <2>1, <2>2, AlbumWrites DEF MarkersOK
  <2>4. \A b \in BindingIds : bindings'[b].state = "new" => bindings[b].state = "new"
    BY <1>4, <2>1, AlbumWrites
  <2> QED
    BY <2>1, <2>3, <2>4 DEF MarkersOK, OneAlbum, SameBinding
<1>5. CASE AlbumCreate
  <2>1. PICK s \in Target, m \in Marker : s = exec.target /\ m = album.marker /\ m <= markers
    BY <1>0, <1>5, ImmichAssumption DEF AlbumCreate, AtLabel, ExecOK, ExecPC, ImportPC, ImmichTypeOK, Marker
  <2>2. /\ created' = [created EXCEPT ![<<s, m>>] = created[<<s, m>>] + 1] /\ created[<<s, m>>] = 0
        /\ UNCHANGED <<bindings, markers>>
    BY <1>5, <2>1 DEF AlbumCreate, AtLabel, CreationOK, tableVars
  <2>9. PICK new \in Album : new = <<s, m>>
    BY <1>0
  <2>10. \A x \in Album : created'[x] = IF x = new THEN 1 ELSE created[x]
    BY <1>0, <2>2, <2>9
  <2>3. \A t \in Target, n \in Marker : created'[<<t, n>>] = IF t = s /\ n = m THEN 1 ELSE created[<<t, n>>]
    BY <1>0, <2>9, <2>10
  <2>4. \A x \in Album : created'[x] <= 1
    BY <1>0, <2>2 DEF OneAlbum
  <2>5. \A b \in BindingIds : bindings[b].state = "new" => bindings[b].marker # m
    BY <1>5, <2>1 DEF AlbumCreate, AtLabel, CreationOK
  <2>6. \A b \in BindingIds : bindings[b].state = "new" =>
          \A t \in Target : created'[<<t, bindings[b].marker>>] = 0
    BY <1>0, <2>3, <2>5 DEF MarkersOK
  <2>7. \A t \in Target, n \in Marker : created'[<<t, n>>] # 0 => n <= markers
    BY <2>1, <2>3 DEF MarkersOK
  <2>8. BindingIds' = BindingIds
    BY <2>2 DEF BindingIds
  <2> QED
    BY <2>2, <2>4, <2>6, <2>7, <2>8 DEF MarkersOK, OneAlbum
<1> QED
  BY <1>1, <1>2, <1>3, <1>4, <1>5, TableSteps DEF TableStep, AlbumWrite

(* --------------------- what a step does to the worker ------------------- *)

\* The ways: the worker stays, leaves execute, takes a job, moves to a label
\* that needs nothing of the album, or takes a step of the album.
WorkerStep ==
    \/ UNCHANGED <<wk, exec, album>>
    \/ wk' \notin ExecPC
    \/ Claim
    \/ /\ wk \in ExecPC /\ wk' \in {"x_validate", "x_snapshot", "x_album", "x_finish"}
       /\ UNCHANGED <<exec, album>>
    \/ AlbumStep

LEMMA WorkerSteps == ASSUME [Next]_vars PROVE WorkerStep
<1> USE DEF jobVars, AtLabel, Goto
<1>1. CASE Administration
  BY <1>1, AdministrationFrame DEF WorkerStep
<1>2. CASE Loop
  BY <1>2 DEF Loop, recover, ReconcileBegin, ReconcileNext, ReconcileEnd, Wake, WorkerStep, ExecPC, ImportPC
<1>3. CASE Execute
  <2>1. ASSUME NEW a \in Asset, Transfer(a) PROVE UNCHANGED <<wk, exec, album>>
    BY <2>1 DEF Transfer, TransferTake, TransferTakeFails, TransferUpload, TransferSave, TransferAdd,
       TransferDone, TransferFail, TaskAt, KeepJob
  <2>2. ASSUME NEW bad, ImportReturns(bad), wk \in ExecPC PROVE WorkerStep
    BY <2>2 DEF ImportReturns, WorkerStep, ExecPC, ImportPC
  <2>3. CASE Return
    BY <2>3 DEF Return, WorkerStep, ExecPC, ImportPC
  <2>4. CASE CheckCancel \/ Validate \/ Snapshot \/ Finish \/ FinishFails
    BY <2>3, <2>4 DEF CheckCancel, Validate, Snapshot, Finish, FinishFails, WorkerStep, ExecPC, ImportPC
  <2>5. CASE ImportFails \/ ImportEnds
    BY <2>2, <2>5 DEF ImportFails, ImportEnds, ExecPC, ImportPC
  <2> QED
    BY <1>3, <2>1, <2>4, <2>5 DEF Execute, WorkerStep
<1>4. CASE Monitor \/ Stop \/ Restart \/ UNCHANGED vars
  BY <1>4 DEF Monitor, Stop, Restart, vars, WorkerStep, ExecPC, ImportPC
<1> QED
  BY <1>1, <1>2, <1>3, <1>4 DEF Next

\* The steps of the album, as far as the worker goes.
AlbumMove ==
    /\ wk \in ExecPC /\ exec' = exec
    /\ \/ AlbumRead
       \/ wk = "x_mark" /\ wk' = "x_create" /\ album' = album
       \/ wk \in {"x_create", "x_find"} /\ wk' = "x_save" /\ album'.id = <<exec.target, album.marker>>
       \/ wk \in {"x_get", "x_save"} /\ wk' = "x_run" /\ album' = album
       \/ wk' \in {"down", "x_finish"}

LEMMA AlbumMoves == ASSUME ImmichTypeOK, AlbumStep PROVE AlbumMove
<1> USE DEF jobVars, AtLabel, Goto, ExecPC, ImportPC
<1>1. album \in [marker : Marker \cup {0}, id : Album \cup {None}]
  BY DEF ImmichTypeOK
<1>2. ASSUME ImportReturns(TRUE) PROVE exec' = exec /\ wk' \in {"down", "x_finish"}
  BY <1>2 DEF ImportReturns
<1>3. CASE AlbumRead
  BY <1>3 DEF AlbumRead, AlbumMove
<1>4. CASE AlbumIntent
  BY <1>2, <1>4 DEF AlbumIntent, AlbumMove
<1>5. CASE AlbumCreate
  BY <1>1, <1>2, <1>5 DEF AlbumCreate, AlbumMove
<1>6. CASE AlbumFind
  BY <1>1, <1>6 DEF AlbumFind, AlbumMove
<1>7. CASE AlbumGet
  BY <1>7 DEF AlbumGet, AlbumMove
<1>8. CASE AlbumSave
  BY <1>2, <1>8 DEF AlbumSave, AlbumMove
<1> QED
  BY <1>3, <1>4, <1>5, <1>6, <1>7, <1>8 DEF AlbumStep

LEMMA MarkersGrow ==
    ASSUME ImportInv, [Next]_vars PROVE markers' \in Nat /\ markers <= markers'
<1>1. markers \in Nat /\ ImmichTypeOK /\ RefsOK /\ ExecOK
  BY DEF ImportInv, ImmichTypeOK
<1>2. ASSUME NEW e \in Event, NEW t \in Target, NEW kind \in SendKind, NEW auto \in BOOLEAN,
             NEW b \in Binding, NEW j \in Job, Sent(e, t, kind, auto, b, j)
      PROVE  markers' = markers \/ markers' = markers + 1
  BY <1>2 DEF Sent, Enqueued
<1>3. markers' = markers \/ markers' = markers + 1
  BY <1>1, <1>2, TableSteps, DropRows, AlbumWrites
  DEF TableStep, Calm, AlbumWrite, AlbumCreate, tableVars
<1> QED
  BY <1>1, <1>3

LEMMA NextExec ==
    ASSUME ImportInv, [Next]_vars PROVE ExecOK'
<1>0. /\ ImmichTypeOK /\ RefsOK /\ ExecOK /\ markers \in Nat /\ markers' \in Nat /\ markers <= markers'
      /\ \A b \in BindingIds : b \in Binding /\ bindings[b] \in BindingRow /\ bindings[b].event # 0
      /\ \A t \in Target, m \in Marker : <<t, m>> \in Album
  BY MarkersGrow DEF ImportInv, ImmichTypeOK, BindingIds, Album
<1>1. CASE UNCHANGED <<wk, exec, album>>
  BY <1>0, <1>1 DEF ExecOK
<1>2. CASE wk' \notin ExecPC
  BY <1>2 DEF ExecOK, ExecPC, ImportPC
<1>3. CASE Claim
  <2>1. exec'.id \in Job /\ exec'.binding \in Binding /\ exec'.event \in Event /\ exec'.target \in Target
    <3>1. PICK j \in Job :
             /\ jobs[j].binding \in BindingIds
             /\ exec' = [id |-> j, binding |-> jobs[j].binding,
                         event |-> bindings[jobs[j].binding].event,
                         target |-> bindings[jobs[j].binding].target]
      BY <1>0, <1>3, ClaimFacts
    <3>2. PICK b \in BindingIds : b = jobs[j].binding
      BY <3>1
    <3> QED
      BY <1>0, <3>1, <3>2 DEF RefsOK, BindingRow
  <2>2. wk' = "x_check"
    BY <1>3 DEF Claim
  <2> QED
    BY <2>1, <2>2 DEF ExecOK
<1>4. CASE /\ wk \in ExecPC /\ wk' \in {"x_validate", "x_snapshot", "x_album", "x_finish"}
           /\ UNCHANGED <<exec, album>>
  BY <1>0, <1>4 DEF ExecOK
<1>5. CASE AlbumStep
  <2>1. AlbumMove
    BY <1>0, <1>5, AlbumMoves
  <2>2. wk' \in ExecPC =>
          exec'.id \in Job /\ exec'.binding \in Binding /\ exec'.event \in Event /\ exec'.target \in Target
    BY <1>0, <2>1 DEF AlbumMove, ExecOK
  <2>3. CASE AlbumRead
    <3>1. PICK b \in BindingIds : b = exec.binding
      BY <2>3 DEF AlbumRead
    <3>2. /\ album' = [marker |-> bindings[b].marker, id |-> bindings[b].album]
          /\ wk' = AfterRead(bindings[b])
      BY <2>3, <3>1 DEF AlbumRead, Goto
    <3>3. bindings[b].marker \in 1..markers /\ bindings[b].album \in Album \cup {None}
      BY <1>0 DEF RefsOK, BindingRow
    <3>4. album'.marker \in 1..markers' /\ (wk' = "x_get" => album'.id \in Album)
      BY <1>0, <3>2, <3>3 DEF AfterRead
    <3>5. wk' \in {"x_get", "x_find", "x_mark"}
      BY <3>2 DEF AfterRead
    <3> QED
      BY <2>2, <3>4, <3>5 DEF ExecOK
  <2>4. CASE ~AlbumRead
    <3>1. wk \in {"x_create", "x_find"} => <<exec.target, album.marker>> \in Album
      <4>1. album.marker \in Marker \cup {0}
        BY <1>0 DEF ImmichTypeOK
      <4> QED
        BY <1>0, <4>1 DEF ExecOK, ExecPC, ImportPC
    <3> QED
      BY <1>0, <2>1, <2>2, <2>4, <3>1 DEF AlbumMove, ExecOK, ExecPC, ImportPC
  <2> QED
    BY <2>3, <2>4
<1> QED
  BY <1>1, <1>2, <1>3, <1>4, <1>5, WorkerSteps DEF WorkerStep

LEMMA NextCreation ==
    ASSUME ImportInv, [Next]_vars PROVE CreationOK'
<1> SUFFICES ASSUME wk' \in {"x_mark", "x_create"} PROVE CreationOK'
  BY DEF CreationOK
<1>0. /\ ImmichTypeOK /\ RefsOK /\ ExecOK /\ MarkersOK /\ CreationOK /\ markers \in Nat
      /\ \A b \in BindingIds : b \in Binding /\ bindings[b].event # 0
  BY DEF ImportInv, ImmichTypeOK, BindingIds
<1>1. CASE UNCHANGED <<wk, exec, album>>
  <2>0. album.marker \in 1..markers
    BY <1>1 DEF ExecOK, ImportInv
  <2>1. ~AlbumWrite
    BY <1>0, <1>1, AlbumMoves DEF AlbumWrite, AlbumStep, AlbumMove, AlbumIntent, AlbumCreate, AlbumSave,
       AtLabel, AlbumRead
  <2>2. CASE Calm
    <3>1. BindingIds' = BindingIds
      BY <2>2 DEF Calm, SameBinding, BindingIds
    <3> QED
      BY <1>0, <1>1, <2>2, <3>1 DEF Calm, SameBinding, SameAlbum, CreationOK
  <2>3. ASSUME NEW e \in Event, NEW t \in Target, NEW kind \in SendKind, NEW auto \in BOOLEAN,
               NEW b \in Binding, NEW j \in Job, Sent(e, t, kind, auto, b, j)
        PROVE  CreationOK'
    <3>1. RowsSent(e, t, kind, auto, b, j)
      BY <1>0, <2>3, SentRows, Zenon
    <3>2. created' = created
      BY <2>3 DEF Sent, serverVars
    <3>3. BindingIds' = BindingIds \cup {b} /\ \A c \in BindingIds : bindings'[c] = bindings[c]
      BY <3>1 DEF RowsSent
    <3>4. b \notin BindingIds => bindings'[b].marker # album.marker
      BY <1>0, <2>0, <3>1 DEF RowsSent
    <3> QED
      BY <1>0, <1>1, <3>2, <3>3, <3>4 DEF CreationOK
  <2>4. ASSUME NEW e \in Event, DeleteDrop(e) PROVE CreationOK'
    <3>1. created' = created /\ BindingIds' \subseteq BindingIds
          /\ \A b \in BindingIds' : bindings'[b] = bindings[b]
      BY <1>0, <2>4, DropRows DEF serverVars
    <3> QED
      BY <1>0, <1>1, <3>1 DEF CreationOK
  <2> QED
    BY <1>0, <2>1, <2>2, <2>3, <2>4, TableSteps DEF TableStep
<1>2. CASE AlbumRead
  <2>1. PICK b \in BindingIds : b = exec.binding
    BY <1>2 DEF AlbumRead
  <2>2. /\ album' = [marker |-> bindings[b].marker, id |-> bindings[b].album]
        /\ wk' = AfterRead(bindings[b]) /\ UNCHANGED <<bindings, created, exec>>
    BY <1>2, <2>1 DEF AlbumRead, Goto, tableVars, serverVars
  <2>3. wk' = "x_mark" /\ bindings[b].album = None /\ bindings[b].state # "creating"
    BY <2>2 DEF AfterRead
  <2>4. bindings[b].state = "new"
    BY <1>0, <2>3 DEF MarkersOK, ImmichTypeOK, BindingRow
  <2>5. album'.marker = bindings[b].marker /\ BindingIds' = BindingIds
    BY <2>2 DEF BindingIds
  <2> QED
    BY <1>0, <2>1, <2>2, <2>3, <2>4, <2>5 DEF CreationOK, MarkersOK
<1>3. CASE AlbumIntent
  <2>1. /\ wk = "x_mark" /\ wk' = "x_create" /\ UNCHANGED <<album, exec, created>>
    BY <1>3 DEF AlbumIntent, AtLabel, ImportReturns, Goto, jobVars, serverVars
  <2>2. /\ BindingIds' = BindingIds
        /\ \A b \in BindingIds : bindings'[b].marker = bindings[b].marker
    BY <1>0, <1>3, AlbumWrites DEF BindingIds, SameBinding
  <2>3. exec.binding \in BindingIds => bindings'[exec.binding].state = "creating"
    BY <1>0, <1>3, AlbumWrites DEF BindingIds
  <2> QED
    BY <1>0, <2>1, <2>2, <2>3 DEF CreationOK
<1>4. CASE AlbumCreate \/ AlbumFind \/ AlbumGet \/ AlbumSave
  <2>1. AlbumMove /\ wk \notin {"x_mark", "x_album"}
    BY <1>0, <1>4, AlbumMoves DEF AlbumStep, AlbumCreate, AlbumFind, AlbumGet, AlbumSave, AtLabel
  <2> QED
    BY <2>1 DEF AlbumMove, AlbumRead, AtLabel
<1> QED
  BY <1>1, <1>2, <1>3, <1>4, WorkerSteps DEF WorkerStep, AlbumStep, Claim, ExecPC, ImportPC

\* What a step leaves of the snapshot and of the media in it.
PinStep ==
    \/ /\ UNCHANGED <<pin, exec>>
       /\ todo' \subseteq todo /\ Busy' \subseteq todo \cup Busy
       /\ Busy' = Busy \/ wk' = "x_run"
       /\ wk = wk' \/ Busy = {}
       /\ wk' \in PinnedPC => wk \in PinnedPC
    \/ wk' \notin PinnedPC /\ Busy' = {}
    \/ Snapshot

LEMMA PinSteps == ASSUME ImportInv, [Next]_vars PROVE PinStep
<1> USE DEF jobVars, AtLabel, Goto, PinnedPC
<1>0. /\ PinOK /\ ImmichTypeOK /\ todo \subseteq Asset /\ tasks \in [Asset -> Task]
  BY DEF ImportInv, ImmichTypeOK
<1>1. CASE UNCHANGED <<wk, jobVars>>
  BY <1>1 DEF PinStep, Busy
<1>2. CASE Administration
  BY <1>1, <1>2, AdministrationFrame
<1>3. Forget => Busy' = {}
  BY DEF Forget, Busy, NoTask
<1>4. CASE Loop
  BY <1>0, <1>4 DEF Loop, recover, ReconcileBegin, ReconcileNext, ReconcileEnd, Claim, Wake, PinStep, PinOK, Busy
<1>5. ASSUME NEW a \in Asset, Transfer(a) PROVE PinStep
  <2>1. wk = "x_run" /\ UNCHANGED <<wk, exec, pin>> /\ todo' \subseteq todo
    BY <1>5 DEF Transfer, TransferTake, TransferTakeFails, TransferUpload, TransferSave, TransferAdd,
       TransferDone, TransferFail, TaskAt, KeepJob
  <2>2. \A c \in Asset : c # a => tasks'[c] = tasks[c]
    BY <1>0, <1>5 DEF Transfer, TransferTake, TransferTakeFails, TransferUpload, TransferSave, TransferAdd,
       TransferDone, TransferFail, SetTask
  <2>3. a \in todo \cup Busy
    BY <1>5 DEF Transfer, TransferTake, TransferTakeFails, TransferUpload, TransferSave, TransferAdd,
       TransferDone, TransferFail, TaskAt, Busy
  <2>4. Busy' \subseteq todo \cup Busy
    BY <2>2, <2>3 DEF Busy
  <2> QED
    BY <2>1, <2>4 DEF PinStep
<1>6. ASSUME NEW bad, ImportReturns(bad), Busy = {} PROVE PinStep
  BY <1>6 DEF ImportReturns, PinStep, Busy
<1>7. CASE Return
  BY <1>3, <1>7 DEF Return, PinStep
<1>8. CASE AlbumStep
  <2>1. Busy = {}
    BY <1>0, <1>8 DEF PinOK, AlbumStep, AlbumRead, AlbumIntent, AlbumCreate, AlbumFind, AlbumGet, AlbumSave
  <2>2. CASE ImportReturns(TRUE)
    BY <1>6, <2>1, <2>2
  <2>3. CASE ~ImportReturns(TRUE)
    <3>1. wk \in PinnedPC /\ UNCHANGED <<exec, pin, todo, tasks>>
      BY <1>8, <2>3 DEF AlbumStep, AlbumRead, AlbumIntent, AlbumCreate, AlbumFind, AlbumGet, AlbumSave
    <3> QED
      BY <2>1, <3>1 DEF PinStep, Busy
  <2> QED
    BY <2>2, <2>3
<1>9. CASE CheckCancel \/ Validate \/ Finish \/ FinishFails
  BY <1>0, <1>7, <1>9 DEF CheckCancel, Validate, Finish, FinishFails, PinStep, PinOK, Busy
<1>10. CASE ImportFails \/ ImportEnds
  BY <1>0, <1>6, <1>10 DEF ImportFails, ImportEnds, TransfersOver, PinOK
<1>11. CASE Monitor \/ Stop
  BY <1>0, <1>11 DEF Monitor, Stop, PinStep, Busy, PinOK, LoopPC
<1>12. CASE Restart
  BY <1>3, <1>12 DEF Restart, PinStep
<1>13. CASE UNCHANGED vars
  BY <1>1, <1>13 DEF vars
<1>14. CASE Snapshot
  BY <1>14 DEF PinStep
<1> QED
  BY <1>2, <1>4, <1>5, <1>8, <1>9, <1>10, <1>11, <1>12, <1>13, <1>14 DEF Next, Execute

LEMMA NextPin ==
    ASSUME ImportInv, [Next]_vars PROVE PinOK'
<1>0. /\ PinOK /\ ImmichTypeOK /\ ExecOK /\ owner \in [Asset -> Event \cup {NotYet, Removed}]
      /\ events \in [Event -> {"none", "open", "deleting"}]
  BY DEF ImportInv, ImmichTypeOK
<1>1. CASE Snapshot
  <2>1. Busy = {} /\ exec.event \in Event
    BY <1>0, <1>1 DEF Snapshot, AtLabel, PinOK, ExecOK, ExecPC, ImportPC
  <2> QED
    BY <1>1, <2>1 DEF Snapshot, AtLabel, Goto, PinOK, Busy, Ready, mediaVars
<1>2. CASE wk' \notin PinnedPC /\ Busy' = {}
  BY <1>2 DEF PinOK
<1>3. CASE /\ UNCHANGED <<pin, exec>>
           /\ todo' \subseteq todo /\ Busy' \subseteq todo \cup Busy
           /\ Busy' = Busy \/ wk' = "x_run"
           /\ wk = wk' \/ Busy = {}
           /\ wk' \in PinnedPC => wk \in PinnedPC
  <2>1. wk' # "x_run" => Busy' = {}
    BY <1>0, <1>3 DEF PinOK
  <2>2. ASSUME wk' \in PinnedPC
        PROVE  events'[exec.event] = "open" /\ Ready(exec.event) \subseteq Ready(exec.event)'
    <3>1. /\ exec.event \in Event /\ events[exec.event] = "open" /\ pin = exec.event
          /\ exec'.event = exec.event
      BY <1>0, <1>3, <2>2 DEF PinOK, ExecOK, PinnedPC, ExecPC, ImportPC
    <3>2. CASE UNCHANGED mediaVars
      BY <1>3, <3>1, <3>2 DEF mediaVars, Ready
    <3>3. CASE Administration
      <4>1. ASSUME NEW e \in Event, DeleteMark(e) \/ DeleteDrop(e) PROVE e # exec.event
        BY <3>1, <4>1 DEF DeleteMark, DeleteDrop, NotBusy
      <4>2. ASSUME NEW e \in Event, DeleteMark(e) \/ DeleteDrop(e)
            PROVE  events'[exec.event] = "open" /\ Ready(exec.event) \subseteq Ready(exec.event)'
        <5>1. events'[exec.event] = "open"
          BY <1>0, <3>1, <4>1, <4>2 DEF DeleteMark, DeleteDrop
        <5>2. \A a \in Asset : owner[a] = exec.event => owner'[a] = exec.event
          BY <1>0, <3>1, <4>1, <4>2 DEF DeleteMark, DeleteDrop
        <5> QED
          BY <3>1, <5>1, <5>2 DEF Ready
      <4>3. ASSUME NEW e \in Event, NEW a \in Asset, MediaReady(a, e)
            PROVE  events'[exec.event] = "open" /\ Ready(exec.event) \subseteq Ready(exec.event)'
        <5>1. \A c \in Asset : owner[c] = exec.event => owner'[c] = exec.event
          BY <1>0, <3>1, <4>3 DEF MediaReady, NotYet, Event
        <5> QED
          BY <3>1, <4>3, <5>1 DEF MediaReady, Ready
      <4>4. CASE CreateEvent
        BY <1>0, <3>1, <4>4 DEF CreateEvent, Ready
      <4> QED
        BY <3>2, <3>3, <4>2, <4>3, <4>4
        DEF Administration, Enqueue, Cancel, SetAutoImport
    <3>4. Administration \/ UNCHANGED mediaVars
      <4>1. ASSUME NEW a \in Asset, Transfer(a) PROVE UNCHANGED mediaVars
        BY <4>1 DEF Transfer, TransferTake, TransferTakeFails, TransferUpload, TransferSave, TransferAdd,
           TransferDone, TransferFail, TaskAt, KeepJob
      <4> QED
        BY <4>1 DEF Next, Loop, recover, ReconcileBegin, ReconcileNext, ReconcileEnd, Claim, Wake,
           Execute, CheckCancel, Validate, Snapshot, AlbumStep, AlbumRead, AlbumIntent, AlbumCreate,
           AlbumFind, AlbumGet, AlbumSave, ImportFails, ImportEnds, Finish, FinishFails,
           Monitor, Stop, Restart, vars, AtLabel
    <3> QED
      BY <3>2, <3>3, <3>4
  <2>3. wk' \in PinnedPC => pin = exec.event /\ todo \cup Busy \subseteq Ready(exec.event)
    BY <1>0, <1>3 DEF PinOK
  <2> QED
    BY <1>3, <2>1, <2>2, <2>3 DEF PinOK
<1> QED
  BY <1>1, <1>2, <1>3, PinSteps DEF PinStep

(* ------------------------------ theorems -------------------------------- *)

LEMMA InitImport == Init => ImportInv
<1> SUFFICES ASSUME Init PROVE ImportInv
  OBVIOUS
<1>1. NoBinding \in BindingRow /\ NoImport \in ImportRow /\ NoJob \in JobRow /\ NoExec \in Exec /\ NoTask \in Task
  BY DEF NoBinding, NoImport, NoJob, NoExec, NoTask, BindingRow, ImportRow, JobRow, Exec, Task
<1>2. ImmichTypeOK
  <2>1. TablesTyped
    BY <1>1, ImmichAssumption DEF Init, TablesTyped
  <2>2. ServersTyped /\ ScanTyped
    BY DEF Init, ServersTyped, ScanTyped
  <2>3. WorkerTyped
    BY <1>1 DEF Init, WorkerTyped, LoopPC
  <2> QED
    BY <2>1, <2>2, <2>3, TypeParts
<1>3. BindingIds = {} /\ JobIds = {} /\ Busy = {}
  BY DEF Init, BindingIds, JobIds, Busy, NoBinding, NoJob, NoTask
<1>4. RefsOK /\ ExecOK /\ CreationOK /\ PinOK
  BY <1>3 DEF Init, RefsOK, ExecOK, CreationOK, PinOK, ExecPC, ImportPC, PinnedPC
<1>5. MarkersOK /\ OneAlbum
  <2>1. \A t \in Target, m \in Marker : <<t, m>> \in Album
    BY DEF Album
  <2>2. \A x \in Album : created[x] = 0
    BY DEF Init
  <2> QED
    BY <1>3, <2>1, <2>2 DEF MarkersOK, OneAlbum
<1> QED
  BY <1>2, <1>4, <1>5 DEF ImportInv

LEMMA NextImport == ASSUME ImportInv, [Next]_vars PROVE ImportInv'
<1>1. ImmichTypeOK' /\ RefsOK'
  BY NextTyped, NextRefs DEF ImportInv
<1> QED
  BY <1>1, NextMarkers, NextExec, NextCreation, NextPin DEF ImportInv

\* The importer's inductive invariant: foreign keys, drawn markers, and what
\* the worker relies on at each of its labels, although events, bindings and
\* jobs may be deleted and their ids reused while it runs.
THEOREM ImportInvariant == Spec => []ImportInv
BY InitImport, NextImport, PTL DEF Spec

\* The tables, the servers and the worker's memory keep their types.
THEOREM ImportTypes == Spec => []ImmichTypeOK
<1>1. ImportInv => ImmichTypeOK
  BY DEF ImportInv
<1> QED
  BY <1>1, ImportInvariant, PTL

\* However often album creation is interrupted, retried or left without an
\* answer, and whatever is deleted meanwhile, no server gets a second album for
\* one marker.
THEOREM AlbumsOnce == Spec => []OneAlbum
<1>1. ImportInv => OneAlbum
  BY DEF ImportInv
<1> QED
  BY <1>1, ImportInvariant, PTL

\* What is being transferred is ready media of an event that is not being
\* deleted, for as long as the transfers run.
THEOREM SnapshotPins == Spec => []TransfersPinned
<1>1. ImportInv => TransfersPinned
  BY DEF ImportInv, PinOK, PinnedPC, TransfersPinned
<1> QED
  BY <1>1, ImportInvariant, PTL

(***************************************************************************)
(* What jobs and transfers achieve, as long as no event is deleted.  (When *)
(* one is, ids of events, bindings and jobs may be given away while the    *)
(* worker still holds them, and AccountedIsThere is false: WrongServer.)   *)
(***************************************************************************)

\* The worker's job runs, for a binding that is as it was when it was claimed.
BoundOK ==
    /\ \A e \in Event : events[e] # "deleting"
    /\ wk \in ExecPC =>
          /\ exec.binding \in BindingIds /\ exec.target = bindings[exec.binding].target
          /\ exec.event = bindings[exec.binding].event
          /\ jobs[exec.id].status = "running" /\ jobs[exec.id].binding = exec.binding

\* What the worker knows of the album that the binding records.
AlbumAt ==
    /\ wk \in {"x_mark", "x_create", "x_find", "x_save"} => bindings[exec.binding].album = None
    /\ wk \in {"x_get", "x_run"} => bindings[exec.binding].album = album.id

\* Rows of media that were selected, and where a remote id comes from.
RowOK(b, a) ==
    /\ imports[b][a].status = "none" \/ b \notin BindingIds => imports[b][a] = NoImport
    /\ imports[b][a].status # "none" => owner[a] = bindings[b].event
    /\ imports[b][a].remote # None => a \in stored[imports[b][a].remote]

\* A transfer and the row it works on.
TaskOK(a) ==
    /\ tasks[a].remote # None => a \in stored[tasks[a].remote]
    /\ tasks[a].at = "none" => tasks[a] = NoTask
    /\ tasks[a].at \in {"upload", "save"} => Row(a).remote = None
    /\ tasks[a].at \notin {"none", "fail"} => Row(a).status = "importing"
    /\ tasks[a].at = "fail" => Row(a).status \in {"importing"} \cup Accounted
    /\ tasks[a].at = "done" => <<album.id, a>> \in shelved /\ a \in stored[exec.target]
    /\ tasks[a].at # "none" /\ jobs[exec.id].mode = "auto" => Row(a).by = exec.id

\* The active job of a binding is its last one.
QueueOK ==
    /\ \A j \in Job : jobs[j].status = "none" => jobs[j] = NoJob
    /\ \A j, k \in Job : Active(j) /\ jobs[k].binding = jobs[j].binding => k <= j

\* Until a job fails, the rows that wait are those it has not handed out.
PendingOK ==
    ~failed => \A a \in Asset :
        /\ wk \in PinnedPC /\ Row(a).status = "pending" => a \in todo
        /\ wk = "x_finish" => Row(a).status # "pending"

\* A row being imported has a transfer or, after a crash, at least a job.
ImportingOK ==
    \A b \in Binding, a \in Asset : imports[b][a].status = "importing" /\ ~imports[b][a].lost =>
        /\ HasActive(b)
        /\ wk \notin {"boot", "down"} => wk = "x_run" /\ b = exec.binding /\ a \in Busy

\* What an automatic job has to do it selected itself.
AutoOK ==
    \A j \in Job, a \in Asset :
        /\ Active(j) /\ jobs[j].mode = "auto"
        /\ imports[jobs[j].binding][a].status \in {"pending", "importing"}
        => imports[jobs[j].binding][a].by = j

\* Rows wait without a job only when their last job was cancelled.
WaitingOK ==
    \A b \in BindingIds, a \in Asset :
        ~HasActive(b) /\ imports[b][a].status = "pending" /\ ~imports[b][a].lost =>
            \E j \in Job : /\ jobs[j].status = "cancelled" /\ jobs[j].binding = b
                           /\ \A k \in Job : jobs[k].binding = b => k <= j

KeepInv ==
    /\ BoundOK /\ AlbumAt
    /\ \A b \in Binding, a \in Asset : RowOK(b, a)
    /\ \A a \in Asset : TaskOK(a)
    /\ QueueOK /\ PendingOK /\ ImportingOK /\ AutoOK /\ WaitingOK /\ AccountedIsThere

(* ------------------------- the kinds of steps --------------------------- *)

\* Nothing that KeepInv is about, but media that become ready and flags of jobs.
Quiet ==
    /\ \A e \in Event : events'[e] # "deleting"
    /\ \A a \in Asset : owner[a] # NotYet => owner'[a] = owner[a]
    /\ \A b \in Binding : SameBinding(b) /\ SameAlbum(b)
    /\ \A j \in Job : /\ jobs'[j].status = jobs[j].status /\ jobs'[j].binding = jobs[j].binding
                      /\ jobs'[j].mode = jobs[j].mode
                      /\ jobs[j].status = "none" => jobs'[j] = jobs[j]
    /\ UNCHANGED <<imports, serverVars, wk, exec, album, todo, tasks, failed>>

\* A step between two labels that no transfer is under way at.
WorkerMove ==
    \/ wk' \in {"boot", "down"}
    \/ wk' \in LoopPC /\ wk \notin {"boot", "down", "x_run"}
    \/ wk \in ExecPC /\ wk # "x_run" /\ exec' = exec /\ wk' \in {"x_validate", "x_snapshot"}
    \/ wk \in ExecPC /\ wk # "x_run" /\ exec' = exec /\ wk' = "x_album" /\ todo' = Ready(exec.event)
    \/ wk \in PinnedPC /\ wk # "x_run" /\ wk' \in PinnedPC /\ UNCHANGED <<exec, todo, failed>>
    \/ wk \in ExecPC /\ exec' = exec /\ wk' = "x_finish" /\ failed' \in BOOLEAN
       /\ (~failed' => wk = "x_run" /\ todo = {} /\ ~failed)

Move ==
    /\ UNCHANGED <<mediaVars, imports, jobs, stored, shelved>>
    /\ \A b \in Binding : SameBinding(b)
    /\ \A b \in BindingIds : bindings'[b].album = bindings[b].album \/ bindings[b].album = None
    /\ Busy = {} \/ wk' \in {"boot", "down"}
    /\ \A a \in Asset : tasks'[a] = NoTask
    /\ AlbumAt' /\ WorkerMove

KeepStep ==
    \/ \E e \in Event, t \in Target, kind \in SendKind, auto \in BOOLEAN, b \in Binding, j \in Job :
         Sent(e, t, kind, auto, b, j)
    \/ \E b \in Binding, j \in Job, S \in SUBSET Asset :
         /\ Reconciled(b, j, S) /\ wk = "scan"
         /\ UNCHANGED <<mediaVars, bindings, markers, serverVars, wk, jobVars>>
    \/ recover \/ Claim \/ Finish \/ (\E a \in Asset : Transfer(a)) \/ Quiet \/ Move

\* Steps that neither requests nor the worker can be seen in.
LEMMA QuietSteps ==
    ASSUME ImportInv, KeepInv, "delete" \notin Ops,
           Administration \/ Monitor \/ UNCHANGED vars \/ (Stop /\ wk' = wk)
    PROVE  KeepStep
<1> USE DEF mediaVars, tableVars, jobVars
<1>0. /\ ImmichTypeOK /\ jobs \in [Job -> JobRow] /\ bindings \in [Binding -> BindingRow]
      /\ events \in [Event -> {"none", "open", "deleting"}]
      /\ owner \in [Asset -> Event \cup {NotYet, Removed}]
      /\ \A e \in Event : events[e] # "deleting"
  BY DEF ImportInv, ImmichTypeOK, KeepInv, BoundOK
<1>1. CASE /\ UNCHANGED <<owner, bindings, imports, jobs, serverVars, wk, exec, album, todo, tasks, failed>>
           /\ \A e \in Event : events'[e] # "deleting"
  BY <1>1 DEF KeepStep, Quiet, SameBinding, SameAlbum
<1>2. ASSUME NEW e \in Event, NEW t \in Target, NEW kind \in SendKind, Enqueue(e, t, kind)
      PROVE  KeepStep
  <2>1. PICK b \in Binding, j \in Job : Enqueued(e, t, kind, FALSE, b, j)
    BY <1>0, <1>2, EnqueuedBy DEF Enqueue
  <2>2. Sent(e, t, kind, FALSE, b, j)
    BY <1>2, <2>1 DEF Sent, Enqueue
  <2> QED
    BY <2>2 DEF KeepStep
<1>3. CASE CreateEvent
  <2>1. PICK e \in Event : /\ e = NewEvent /\ events' = [events EXCEPT ![e] = "open"]
                           /\ UNCHANGED <<owner, serverVars, wk, jobVars, scanVars>>
    BY <1>3 DEF CreateEvent
  <2>2. CASE UNCHANGED tableVars
    BY <1>0, <1>1, <2>1, <2>2
  <2>3. CASE \E t \in Target, auto \in BOOLEAN : enqueueTx(NewEvent, t, "album", auto)
    <3>1. PICK t \in Target, auto \in BOOLEAN : enqueueTx(e, t, "album", auto)
      BY <2>1, <2>3
    <3>2. PICK b \in Binding, j \in Job : Enqueued(e, t, "album", auto, b, j)
      BY <1>0, <3>1, EnqueuedBy
    <3>3. Sent(e, t, "album", auto, b, j)
      BY <1>0, <2>1, <3>2 DEF Sent
    <3> QED
      BY <3>3 DEF KeepStep, SendKind
  <2> QED
    BY <1>3, <2>2, <2>3 DEF CreateEvent
<1>4. ASSUME NEW b \in Binding, Cancel(b) PROVE KeepStep
  <2>1. \A j \in Job : jobs'[j] = IF Active(j) /\ jobs[j].binding = b
                                  THEN [jobs[j] EXCEPT !.cancel = TRUE] ELSE jobs[j]
    BY <1>4 DEF Cancel
  <2>2. \A j \in Job : /\ jobs'[j].status = jobs[j].status /\ jobs'[j].binding = jobs[j].binding
                       /\ jobs'[j].mode = jobs[j].mode
    BY <1>0, <2>1 DEF JobRow
  <2>3. \A j \in Job : jobs[j].status = "none" => jobs'[j] = jobs[j]
    BY <2>1 DEF Active
  <2> QED
    BY <1>0, <1>4, <2>2, <2>3 DEF Cancel, KeepStep, Quiet, SameBinding, SameAlbum
<1>5. ASSUME NEW b \in Binding, NEW on \in BOOLEAN, SetAutoImport(b, on) PROVE KeepStep
  <2>1. \A c \in Binding : c # b => bindings'[c] = bindings[c]
    BY <1>0, <1>5 DEF SetAutoImport
  <2>2. bindings'[b] = [bindings[b] EXCEPT !.auto = on] /\ bindings[b] \in BindingRow
    BY <1>0, <1>5 DEF SetAutoImport
  <2>3. SameBinding(b) /\ SameAlbum(b)
    BY <2>2 DEF SameBinding, SameAlbum, BindingRow
  <2>4. \A c \in Binding : SameBinding(c) /\ SameAlbum(c)
    BY <2>1, <2>3 DEF SameBinding, SameAlbum
  <2> QED
    BY <1>0, <1>5, <2>4 DEF SetAutoImport, KeepStep, Quiet
<1>6. ASSUME NEW e \in Event, NEW a \in Asset, MediaReady(a, e) PROVE KeepStep
  <2>1. \A c \in Asset : owner[c] # NotYet => owner'[c] = owner[c]
    BY <1>0, <1>6 DEF MediaReady
  <2> QED
    BY <1>0, <1>6, <2>1 DEF MediaReady, KeepStep, Quiet, SameBinding, SameAlbum
<1>7. ASSUME NEW e \in Event, DeleteMark(e) \/ DeleteDrop(e) PROVE FALSE
  BY <1>0, <1>7 DEF DeleteMark, DeleteDrop
<1>8. CASE Administration
  BY <1>2, <1>3, <1>4, <1>5, <1>6, <1>7, <1>8 DEF Administration, SendKind
<1>9. CASE Monitor \/ UNCHANGED vars \/ (Stop /\ wk' = wk)
  BY <1>0, <1>1, <1>9 DEF Monitor, Stop, vars
<1> QED
  BY <1>8, <1>9

\* Every other step.
LEMMA MoveSteps ==
    ASSUME ImportInv, KeepInv,
           \/ ReconcileBegin \/ ReconcileEnd \/ Wake
           \/ CheckCancel \/ Validate \/ Snapshot \/ ImportFails \/ ImportEnds \/ FinishFails
           \/ (Stop /\ wk' # wk) \/ Restart
    PROVE  Move
<1> USE DEF mediaVars, tableVars, serverVars, jobVars, AtLabel, Goto
<1>1. UNCHANGED <<mediaVars, tableVars, serverVars>>
  BY DEF ReconcileBegin, ReconcileEnd, Wake, CheckCancel, Validate, Snapshot, ImportFails,
     ImportEnds, FinishFails, Stop, Restart
<1>2. Busy = {} => \A a \in Asset : tasks[a] = NoTask
  BY DEF KeepInv, TaskOK, Busy
<1>3. wk # "x_run" => Busy = {}
  BY DEF ImportInv, PinOK
<1>4. Forget => \A a \in Asset : tasks'[a] = NoTask
  BY DEF Forget
<1>5. failed \in BOOLEAN
  BY DEF ImportInv, ImmichTypeOK
<1>6. CASE ReconcileBegin \/ ReconcileEnd \/ Wake
  <2>1. wk \notin {"boot", "down", "x_run"} /\ wk' \in {"scan", "claim", "reconcile"} /\ UNCHANGED tasks
    BY <1>6 DEF ReconcileBegin, ReconcileEnd, Wake
  <2> QED
    BY <1>1, <1>2, <1>3, <2>1 DEF Move, WorkerMove, SameBinding, AlbumAt, LoopPC
<1>7. CASE Return /\ wk \in {"x_check", "x_finish"}
  BY <1>1, <1>3, <1>4, <1>7 DEF Return, Move, WorkerMove, SameBinding, AlbumAt, LoopPC
<1>8. ASSUME NEW bad \in BOOLEAN, ImportReturns(bad), wk \in ExecPC, Busy = {},
             ~bad => wk = "x_run" /\ todo = {} /\ ~failed
      PROVE  Move
  <2>1. /\ wk' \in {"down", "x_finish"} /\ UNCHANGED <<exec, tasks>> /\ failed' = bad
    BY <1>8 DEF ImportReturns
  <2> QED
    BY <1>1, <1>2, <1>8, <2>1 DEF Move, WorkerMove, SameBinding, AlbumAt
<1>9. CASE ImportFails
  BY <1>3, <1>8, <1>9 DEF ImportFails, ExecPC, ImportPC
<1>10. CASE ImportEnds
  <2>1. PICK bad \in BOOLEAN : bad = (failed \/ ctx # "live")
    OBVIOUS
  <2>2. ImportReturns(bad) /\ wk = "x_run" /\ Busy = {} /\ (~bad => todo = {} /\ ~failed)
    BY <1>10, <2>1 DEF ImportEnds, TransfersOver
  <2> QED
    BY <1>8, <2>2 DEF ExecPC, ImportPC
<1>11. CASE Validate \/ Snapshot
  <2>1. wk \in {"x_validate", "x_snapshot"} /\ UNCHANGED <<exec, tasks>>
        /\ (wk' = "x_snapshot" \/ (wk' = "x_album" /\ todo' = Ready(exec.event)))
    BY <1>11 DEF Validate, Snapshot
  <2> QED
    BY <1>1, <1>2, <1>3, <2>1 DEF Move, WorkerMove, SameBinding, AlbumAt, ExecPC, ImportPC
<1>12. CASE CheckCancel
  <2>1. CASE Return
    BY <1>7, <1>12, <2>1 DEF CheckCancel
  <2>2. CASE ~Return
    <3>1. wk = "x_check" /\ wk' = "x_validate" /\ UNCHANGED <<exec, tasks>>
      BY <1>12, <2>2 DEF CheckCancel
    <3> QED
      BY <1>1, <1>2, <1>3, <3>1 DEF Move, WorkerMove, SameBinding, AlbumAt, ExecPC, ImportPC
  <2> QED
    BY <2>1, <2>2
<1>13. CASE FinishFails
  BY <1>7, <1>13 DEF FinishFails
<1>14. CASE Stop /\ wk' # wk
  <2>1. wk \in LoopPC /\ wk' = "down" /\ UNCHANGED tasks
    BY <1>14 DEF Stop
  <2> QED
    BY <1>1, <1>2, <1>3, <2>1 DEF Move, WorkerMove, SameBinding, AlbumAt, LoopPC
<1>15. CASE Restart
  <2>1. wk' = "boot"
    BY <1>15 DEF Restart
  <2> QED
    BY <1>1, <1>4, <1>15, <2>1 DEF Restart, Move, WorkerMove, SameBinding, AlbumAt
<1> QED
  BY <1>6, <1>9, <1>10, <1>11, <1>12, <1>13, <1>14, <1>15

LEMMA AlbumIsMove ==
    ASSUME ImportInv, KeepInv, AlbumStep PROVE Move
<1> USE DEF mediaVars, tableVars, serverVars, jobVars, AtLabel, Goto
<1>0. /\ ImmichTypeOK /\ ExecOK /\ BoundOK /\ AlbumAt
      /\ album \in [marker : Marker \cup {0}, id : Album \cup {None}]
  BY DEF ImportInv, KeepInv, ImmichTypeOK
<1>1. wk \in PinnedPC \ {"x_run"} /\ Busy = {} /\ wk \in ExecPC /\ exec' = exec
  <2>1. wk \in {"x_album", "x_mark", "x_create", "x_find", "x_get", "x_save"}
    BY DEF AlbumStep, AlbumRead, AlbumIntent, AlbumCreate, AlbumFind, AlbumGet, AlbumSave
  <2>2. exec' = exec
    BY <1>0, AlbumMoves DEF AlbumMove
  <2> QED
    BY <2>1, <2>2 DEF PinnedPC, ExecPC, ImportPC, ImportInv, PinOK
<1>2. \A a \in Asset : tasks'[a] = NoTask
  <2>1. UNCHANGED tasks
    BY DEF AlbumStep, AlbumRead, AlbumIntent, AlbumCreate, AlbumFind, AlbumGet, AlbumSave, ImportReturns
  <2> QED
    BY <1>1, <2>1 DEF KeepInv, TaskOK, Busy
<1>3. exec.binding \in BindingIds /\ exec.binding \in Binding /\ bindings[exec.binding].event # 0
  BY <1>0, <1>1 DEF BoundOK, BindingIds
<1>4. UNCHANGED <<mediaVars, imports, jobs, stored, shelved>>
  BY DEF AlbumStep, AlbumRead, AlbumIntent, AlbumCreate, AlbumFind, AlbumGet, AlbumSave
<1>5. \A b \in Binding : SameBinding(b)
  <2>1. CASE AlbumIntent \/ AlbumSave
    BY <1>0, <2>1, AlbumWrites
  <2>2. CASE ~(AlbumIntent \/ AlbumSave)
    BY <2>2 DEF AlbumStep, AlbumRead, AlbumCreate, AlbumFind, AlbumGet, SameBinding
  <2> QED
    BY <2>1, <2>2
<1>6. \A b \in BindingIds : bindings'[b].album = bindings[b].album \/ bindings[b].album = None
  <2>1. CASE AlbumIntent \/ AlbumSave
    BY <1>0, <1>3, <2>1, AlbumWrites DEF AlbumSave, AlbumAt, BindingIds
  <2>2. CASE ~(AlbumIntent \/ AlbumSave)
    BY <2>2 DEF AlbumStep, AlbumRead, AlbumCreate, AlbumFind, AlbumGet
  <2> QED
    BY <2>1, <2>2
<1>7. CASE ImportReturns(TRUE)
  <2>1. wk' \in {"down", "x_finish"} /\ failed' = TRUE
    BY <1>7 DEF ImportReturns
  <2> QED
    BY <1>1, <1>2, <1>4, <1>5, <1>6, <2>1 DEF Move, WorkerMove, AlbumAt
<1>8. CASE ~ImportReturns(TRUE)
  <2>1. UNCHANGED <<todo, failed>>
    BY <1>8 DEF AlbumStep, AlbumRead, AlbumIntent, AlbumCreate, AlbumFind, AlbumGet, AlbumSave
  <2>2. wk' \in PinnedPC /\ AlbumAt'
    <3>1. CASE AlbumRead
      <4>1. PICK b \in BindingIds : b = exec.binding
        BY <1>3
      <4>2. wk' = AfterRead(bindings[b]) /\ album'.id = bindings[b].album /\ bindings' = bindings
        BY <3>1, <4>1 DEF AlbumRead
      <4> QED
        BY <1>1, <4>1, <4>2 DEF AlbumAt, AfterRead, PinnedPC
    <3>2. CASE AlbumIntent
      <4>1. wk = "x_mark" /\ wk' = "x_create"
        BY <1>8, <3>2 DEF AlbumIntent
      <4>2. bindings'[exec.binding].album = bindings[exec.binding].album
        BY <1>0, <1>3, <3>2, AlbumWrites
      <4> QED
        BY <1>0, <1>1, <4>1, <4>2 DEF AlbumAt, PinnedPC
    <3>3. CASE AlbumCreate \/ AlbumFind
      <4>1. wk \in {"x_create", "x_find"} /\ wk' = "x_save" /\ bindings' = bindings
        BY <1>8, <3>3 DEF AlbumCreate, AlbumFind
      <4> QED
        BY <1>0, <1>1, <4>1 DEF AlbumAt, PinnedPC
    <3>4. CASE AlbumGet
      <4>1. wk = "x_get" /\ wk' = "x_run" /\ UNCHANGED <<bindings, album>>
        BY <3>4 DEF AlbumGet
      <4> QED
        BY <1>0, <1>1, <4>1 DEF AlbumAt, PinnedPC
    <3>5. CASE AlbumSave
      <4>1. wk = "x_save" /\ wk' = "x_run" /\ UNCHANGED album
        BY <1>8, <3>5 DEF AlbumSave
      <4>2. bindings'[exec.binding].album = album.id
        BY <1>0, <1>3, <3>5, AlbumWrites
      <4> QED
        BY <1>1, <4>1, <4>2 DEF AlbumAt, PinnedPC
    <3> QED
      BY <3>1, <3>2, <3>3, <3>4, <3>5 DEF AlbumStep
  <2> QED
    BY <1>1, <1>2, <1>4, <1>5, <1>6, <2>1, <2>2 DEF Move, WorkerMove
<1> QED
  BY <1>7, <1>8

LEMMA KeepSteps ==
    ASSUME ImportInv, KeepInv, "delete" \notin Ops, [Next]_vars PROVE KeepStep
<1>1. CASE ReconcileNext
  <2>1. PICK b : b = Min(page)
    OBVIOUS
  <2>2. b \in Binding
    <3>1. page \in SUBSET Nat /\ page # {} /\ page \subseteq Binding
      BY <1>1, ImmichAssumption DEF ReconcileNext, ImportInv, ImmichTypeOK, Binding
    <3> QED
      BY <2>1, <3>1, MinIs
  <2>3. /\ reconcileBinding(b) /\ wk = "scan"
        /\ UNCHANGED <<mediaVars, bindings, markers, serverVars, wk, jobVars>>
    BY <1>1, <2>1 DEF ReconcileNext
  <2>4. CASE UNCHANGED <<imports, jobs>>
    BY <2>3, <2>4 DEF KeepStep, Quiet, SameBinding, SameAlbum, mediaVars, jobVars, KeepInv, BoundOK
  <2>5. ASSUME NEW j \in Job, NEW S \in SUBSET Asset, Reconciled(b, j, S) PROVE KeepStep
    BY <2>2, <2>3, <2>5 DEF KeepStep
  <2> QED
    BY <2>2, <2>3, <2>4, <2>5, ReconciledBy DEF ImportInv
<1>2. CASE recover \/ Claim \/ Finish \/ \E a \in Asset : Transfer(a)
  BY <1>2 DEF KeepStep
<1>3. CASE Move
  BY <1>3 DEF KeepStep
<1> QED
  BY <1>1, <1>2, <1>3, QuietSteps, MoveSteps, AlbumIsMove DEF Next, Loop, Execute

(* --------------------- every kind keeps the invariant -------------------- *)

\* What follows from the two invariants and is used in every case.
LEMMA KeepFacts ==
    ASSUME ImportInv, KeepInv
    PROVE  /\ \A b \in BindingIds : b \in Binding /\ bindings[b].event \in Event
           /\ \A b \in Binding : b # 0
           /\ \A j \in Job : jobs[j].status = "none" => jobs[j].binding = 0
           /\ NotYet \notin Event
           /\ wk \in ExecPC => HasActive(exec.binding) /\ exec.id \in Job /\ exec.binding \in Binding
           /\ wk # "x_run" => \A a \in Asset : tasks[a] = NoTask
           /\ wk \notin {"boot", "down", "x_run"} =>
                 \A b \in Binding, a \in Asset : imports[b][a].status = "importing" => imports[b][a].lost
<1>1. \A b \in BindingIds : b \in Binding /\ bindings[b].event \in Event
  BY DEF BindingIds, ImportInv, ImmichTypeOK, BindingRow
<1>2. (\A b \in Binding : b # 0) /\ NotYet \notin Event
  BY DEF Binding, NotYet, Event
<1>3. \A j \in Job : jobs[j].status = "none" => jobs[j].binding = 0
  BY DEF KeepInv, QueueOK, NoJob
<1>4. wk \in ExecPC => HasActive(exec.binding) /\ exec.id \in Job /\ exec.binding \in Binding
  BY <1>1 DEF KeepInv, BoundOK, HasActive, Active, ImportInv, ExecOK
<1>5. wk # "x_run" => \A a \in Asset : tasks[a] = NoTask
  BY DEF ImportInv, PinOK, KeepInv, TaskOK, Busy
<1>6. wk \notin {"boot", "down", "x_run"} =>
        \A b \in Binding, a \in Asset : imports[b][a].status = "importing" => imports[b][a].lost
  BY DEF KeepInv, ImportingOK
<1> QED
  BY <1>1, <1>2, <1>3, <1>4, <1>5, <1>6

\* No transfer: nothing to say of tasks.
LEMMA IdleTasks ==
    ASSUME \A a \in Asset : tasks'[a] = NoTask PROVE (\A a \in Asset : TaskOK(a))'
<1> SUFFICES ASSUME NEW a \in Asset PROVE TaskOK(a)'
  OBVIOUS
<1>1. NoTask.at = "none" /\ NoTask.remote = None
  BY DEF NoTask
<1>2. tasks'[a] = NoTask
  OBVIOUS
<1> QED
  BY <1>1, <1>2 DEF TaskOK

LEMMA QuietKeeps ==
    ASSUME ImportInv, KeepInv, Quiet PROVE KeepInv'
<1> USE DEF serverVars
<1>0. /\ BindingIds' = BindingIds /\ Busy' = Busy
      /\ \A b \in Binding : SameBinding(b) /\ SameAlbum(b)
      /\ UNCHANGED <<imports, stored, shelved, wk, exec, album, todo, tasks, failed>>
  BY DEF Quiet, BindingIds, SameBinding, Busy
<1>1. /\ \A j \in Job : /\ jobs'[j].status = jobs[j].status /\ jobs'[j].binding = jobs[j].binding
                        /\ jobs'[j].mode = jobs[j].mode
                        /\ jobs[j].status = "none" => jobs'[j] = jobs[j]
      /\ \A j \in Job : Active(j)' <=> Active(j)
      /\ \A b \in Binding : HasActive(b)' <=> HasActive(b)
  BY DEF Quiet, Active, HasActive
<1>2. \A b \in BindingIds : b \in Binding
  BY KeepFacts
<1>3. BoundOK' /\ AlbumAt'
  <2>1. wk \in ExecPC => exec.binding \in Binding /\ exec.id \in Job
    BY KeepFacts
  <2>2. BoundOK'
    BY <1>0, <1>1, <2>1 DEF KeepInv, BoundOK, SameBinding, Quiet
  <2>3. AlbumAt'
    BY <1>0, <2>1 DEF KeepInv, AlbumAt, SameAlbum, ExecPC, ImportPC
  <2> QED
    BY <2>2, <2>3
<1>4. (\A b \in Binding, a \in Asset : RowOK(b, a))'
  <2> SUFFICES ASSUME NEW b \in Binding, NEW a \in Asset PROVE RowOK(b, a)'
    OBVIOUS
  <2>1. RowOK(b, a)
    BY DEF KeepInv
  <2>2. imports[b][a].status # "none" => owner'[a] = owner[a]
    BY <2>1, KeepFacts DEF RowOK, Quiet, NoImport
  <2> QED
    BY <1>0, <2>1, <2>2 DEF RowOK, SameBinding
<1>5. (\A a \in Asset : TaskOK(a))'
  <2>1. CASE wk = "x_run"
    <3>1. exec.id \in Job
      BY <2>1, KeepFacts DEF ExecPC, ImportPC
    <3> QED
      BY <1>0, <1>1, <3>1 DEF KeepInv, TaskOK, Row
  <2>2. CASE wk # "x_run"
    BY <1>0, <2>2, KeepFacts, IdleTasks
  <2> QED
    BY <2>1, <2>2
<1>6. QueueOK' /\ AutoOK'
  BY <1>0, <1>1 DEF KeepInv, QueueOK, AutoOK
<1>7. PendingOK' /\ ImportingOK'
  BY <1>0, <1>1 DEF KeepInv, PendingOK, ImportingOK, Row
<1>8. WaitingOK' /\ AccountedIsThere'
  BY <1>0, <1>1, <1>2 DEF KeepInv, WaitingOK, AccountedIsThere, SameBinding, SameAlbum
<1> QED
  BY <1>3, <1>4, <1>5, <1>6, <1>7, <1>8 DEF KeepInv

LEMMA MoveKeeps ==
    ASSUME ImportInv, KeepInv, Move PROVE KeepInv'
<1>0. /\ BindingIds' = BindingIds
      /\ \A b \in Binding : SameBinding(b)
      /\ UNCHANGED <<events, owner, imports, jobs, stored, shelved>>
  BY DEF Move, BindingIds, SameBinding, mediaVars
<1>1. /\ \A j \in Job : Active(j)' <=> Active(j)
      /\ \A b \in Binding : HasActive(b)' <=> HasActive(b)
  BY <1>0 DEF Active, HasActive
<1>2. \A b \in BindingIds : b \in Binding
  BY KeepFacts
<1>3. BoundOK'
  <2>1. wk' \in ExecPC => wk \in ExecPC /\ exec' = exec
    BY DEF Move, WorkerMove, LoopPC, ExecPC, ImportPC, PinnedPC
  <2> QED
    BY <1>0, <1>2, <2>1 DEF KeepInv, BoundOK, SameBinding
<1>4. (\A b \in Binding, a \in Asset : RowOK(b, a))'
  BY <1>0 DEF KeepInv, RowOK, SameBinding
<1>5. (\A a \in Asset : TaskOK(a))' /\ AlbumAt'
  BY IdleTasks DEF Move
<1>6. QueueOK' /\ AutoOK'
  BY <1>0, <1>1 DEF KeepInv, QueueOK, AutoOK
<1>7. ImportingOK'
  <2>1. wk' \notin {"boot", "down"} /\ Busy = {} => wk \notin {"boot", "down"}
    BY DEF Move, WorkerMove, ExecPC, ImportPC, PinnedPC
  <2>2. wk' \notin {"boot", "down"} =>
          \A b \in Binding, a \in Asset : imports[b][a].status = "importing" => imports[b][a].lost
    BY <2>1 DEF Move, KeepInv, ImportingOK
  <2> QED
    BY <1>0, <1>1, <2>2 DEF KeepInv, ImportingOK
<1>8. PendingOK'
  <2> SUFFICES ASSUME ~failed', NEW a \in Asset, Row(a)'.status = "pending"
               PROVE  (wk' \in PinnedPC => a \in todo') /\ wk' # "x_finish"
    BY DEF PendingOK
  <2>1. CASE wk' \in {"boot", "down"} \/ wk' \in LoopPC \/ wk' \in {"x_validate", "x_snapshot"}
    BY <2>1 DEF LoopPC, PinnedPC
  <2>2. CASE wk \in ExecPC /\ wk # "x_run" /\ exec' = exec /\ wk' = "x_album" /\ todo' = Ready(exec.event)
    <3>1. PICK b \in Binding : b = exec.binding /\ bindings[b].event = exec.event
      BY <2>2, KeepFacts DEF KeepInv, BoundOK
    <3>2. RowOK(b, a) /\ imports[b][a].status = "pending"
      BY <1>0, <2>2, <3>1 DEF KeepInv, Row
    <3> QED
      BY <2>2, <3>1, <3>2 DEF RowOK, Ready
  <2>3. CASE wk \in PinnedPC /\ wk # "x_run" /\ wk' \in PinnedPC /\ UNCHANGED <<exec, todo, failed>>
    BY <1>0, <2>3 DEF KeepInv, PendingOK, Row, PinnedPC
  <2>4. CASE wk \in ExecPC /\ exec' = exec /\ wk' = "x_finish" /\ failed' \in BOOLEAN
             /\ (~failed' => wk = "x_run" /\ todo = {} /\ ~failed)
    BY <1>0, <2>4 DEF KeepInv, PendingOK, Row, PinnedPC
  <2> QED
    BY <2>1, <2>2, <2>3, <2>4 DEF Move, WorkerMove
<1>9. WaitingOK'
  BY <1>0, <1>1, <1>2 DEF KeepInv, WaitingOK
<1>10. AccountedIsThere'
  BY <1>0, <1>2 DEF KeepInv, AccountedIsThere, SameBinding, Move
<1> QED
  BY <1>3, <1>4, <1>5, <1>6, <1>7, <1>8, <1>9, <1>10 DEF KeepInv

\* A request or the automatic pass adds the job j: the rows of its binding b
\* that are selected, or taken up again.
Chosen(b, a, j) ==
    \/ imports'[b][a] = imports[b][a]
    \/ /\ imports[b][a].status \in {"none", "failed", "importing"}
       /\ imports'[b][a].status = "pending" /\ imports'[b][a].by = j
       /\ imports'[b][a].remote = imports[b][a].remote
       /\ imports[b][a].status = "none" => owner[a] = bindings'[b].event
       /\ imports[b][a].status = "failed" => jobs'[j].mode = "retry"

Added(b, j) ==
    /\ ~HasActive(b) /\ jobs[j].status = "none" /\ \A k \in JobIds : k < j
    /\ \A k \in Job : k # j => jobs'[k] = jobs[k]
    /\ jobs'[j].status = "queued" /\ jobs'[j].binding = b
    /\ BindingIds' = BindingIds \cup {b} /\ \A c \in BindingIds : bindings'[c] = bindings[c]
    /\ \A c \in Binding, a \in Asset : c # b => imports'[c][a] = imports[c][a]
    /\ \A a \in Asset : Chosen(b, a, j)
    /\ jobs'[j].mode = "auto" => \A a \in Asset :
          imports'[b][a].status \in {"pending", "importing"} => imports'[b][a].by = j
    /\ \A e \in Event : events'[e] # "deleting"
    /\ UNCHANGED <<owner, serverVars, wk, jobVars>>

LEMMA SentAdds ==
    ASSUME ImportInv, KeepInv, NEW e \in Event, NEW t \in Target, NEW kind \in SendKind,
           NEW auto \in BOOLEAN, NEW b \in Binding, NEW j \in Job, Sent(e, t, kind, auto, b, j)
    PROVE  Added(b, j)
<1>0. /\ ImmichTypeOK /\ imports \in [Binding -> [Asset -> ImportRow]]
      /\ events \in [Event -> {"none", "open", "deleting"}]
  BY DEF ImportInv, ImmichTypeOK
<1>1. RowsSent(e, t, kind, auto, b, j)
  BY <1>0, SentRows, Zenon
<1>2. /\ ~HasActive(b) /\ jobs[j].status = "none" /\ \A k \in JobIds : k < j
      /\ b \in BindingIds => bindings[b].event = e
      /\ imports' = [imports EXCEPT ![b] =
            [a \in Asset |-> Selected(imports[b][a], j, kind, owner[a] = e)]]
  BY DEF Sent, Enqueued
<1>3. /\ \A k \in Job : k # j => jobs'[k] = jobs[k]
      /\ jobs'[j].status = "queued" /\ jobs'[j].binding = b
      /\ jobs'[j].mode = IF kind = "retry" THEN "retry" ELSE "new"
      /\ BindingIds' = BindingIds \cup {b} /\ \A c \in BindingIds : bindings'[c] = bindings[c]
  BY <1>1 DEF RowsSent
<1>4. bindings'[b].event = e
  BY <1>1, <1>2, <1>3 DEF RowsSent
<1>5. \A c \in Binding, a \in Asset : c # b => imports'[c][a] = imports[c][a]
  BY <1>0, <1>2
<1>6. ASSUME NEW a \in Asset PROVE Chosen(b, a, j)
  <2>1. PICK row \in ImportRow : row = imports[b][a]
    BY <1>0
  <2>2. imports'[b][a] = Selected(row, j, kind, owner[a] = e)
    BY <1>0, <1>2, <2>1
  <2>3. CASE Selected(row, j, kind, owner[a] = e) = row
    BY <2>1, <2>2, <2>3 DEF Chosen
  <2>4. CASE kind = "new" /\ owner[a] = e /\ row.status = "none"
    <3>1. imports'[b][a] = [NoImport EXCEPT !.status = "pending", !.by = j]
      BY <2>2, <2>4 DEF Selected
    <3>2. imports'[b][a].status = "pending" /\ imports'[b][a].by = j /\ imports'[b][a].remote = None
      BY <3>1 DEF NoImport
    <3>3. row.remote = None
      BY <2>1, <2>4 DEF KeepInv, RowOK, NoImport
    <3> QED
      BY <1>4, <2>1, <2>4, <3>2, <3>3 DEF Chosen
  <2>5. CASE kind = "retry" /\ row.status \in {"failed", "importing"}
    <3>1. imports'[b][a] = [row EXCEPT !.status = "pending", !.by = j, !.lost = FALSE]
      BY <2>2, <2>5 DEF Selected
    <3>2. imports'[b][a].status = "pending" /\ imports'[b][a].by = j /\ imports'[b][a].remote = row.remote
      BY <3>1 DEF ImportRow
    <3> QED
      BY <1>3, <2>1, <2>5, <3>2 DEF Chosen
  <2> QED
    BY <2>3, <2>4, <2>5 DEF Selected
<1>7. \A f \in Event : events'[f] # "deleting"
  BY <1>0 DEF Sent, KeepInv, BoundOK
<1>8. jobs'[j].mode # "auto"
  BY <1>3
<1> QED
  BY <1>2, <1>3, <1>5, <1>6, <1>7, <1>8 DEF Added, Sent

LEMMA ReconciledAdds ==
    ASSUME ImportInv, KeepInv, NEW b \in Binding, NEW j \in Job, NEW S \in SUBSET Asset,
           Reconciled(b, j, S), UNCHANGED <<mediaVars, bindings, markers, serverVars, wk, jobVars>>
    PROVE  Added(b, j)
<1>0. /\ imports \in [Binding -> [Asset -> ImportRow]] /\ jobs \in [Job -> JobRow]
  BY DEF ImportInv, ImmichTypeOK
<1>1. /\ ~HasActive(b) /\ jobs[j].status = "none" /\ \A k \in JobIds : k < j
      /\ b \in BindingIds
      /\ \A a \in Asset : imports[b][a].status \notin {"pending", "importing"}
      /\ \A a \in S : owner[a] = bindings[b].event /\ imports[b][a].status = "none"
  BY DEF Reconciled, MayReconcile, Untracked, Ready
<1>2. /\ \A k \in Job : k # j => jobs'[k] = jobs[k]
      /\ jobs'[j].status = "queued" /\ jobs'[j].binding = b /\ jobs'[j].mode = "auto"
  BY <1>0 DEF Reconciled
<1>3. BindingIds' = BindingIds \cup {b} /\ \A c \in BindingIds : bindings'[c] = bindings[c]
  BY <1>1 DEF BindingIds
<1> DEFINE r == [NoImport EXCEPT !.status = "pending", !.by = j]
<1>4. imports' = [imports EXCEPT ![b] = [a \in Asset |-> IF a \in S THEN r ELSE imports[b][a]]]
  BY DEF Reconciled
<1>5. r.status = "pending" /\ r.by = j /\ r.remote = None
  BY DEF NoImport
<1> HIDE DEF r
<1>6. /\ \A c \in Binding, a \in Asset : c # b => imports'[c][a] = imports[c][a]
      /\ \A a \in Asset : imports'[b][a] = IF a \in S THEN r ELSE imports[b][a]
  BY <1>0, <1>4
<1>7. \A a \in Asset : imports[b][a].status = "none" => imports[b][a].remote = None
  BY DEF KeepInv, RowOK, NoImport
<1>8. \A a \in Asset : Chosen(b, a, j)
  BY <1>1, <1>5, <1>6, <1>7 DEF Chosen
<1>9. \A a \in Asset : imports'[b][a].status \in {"pending", "importing"} => imports'[b][a].by = j
  BY <1>1, <1>5, <1>6
<1>10. \A e \in Event : events'[e] # "deleting"
  BY DEF KeepInv, BoundOK, mediaVars
<1> QED
  BY <1>1, <1>2, <1>3, <1>6, <1>8, <1>9, <1>10 DEF Added, mediaVars

LEMMA AddedKeeps ==
    ASSUME ImportInv, KeepInv, NEW b \in Binding, NEW j \in Job, Added(b, j)
    PROVE  KeepInv'
<1> USE DEF serverVars, jobVars
<1>0. /\ ~HasActive(b) /\ jobs[j].status = "none" /\ jobs[j].binding = 0 /\ \A k \in JobIds : k < j
      /\ \A k \in Job : k # j => jobs'[k] = jobs[k]
      /\ jobs'[j].status = "queued" /\ jobs'[j].binding = b
      /\ UNCHANGED <<owner, stored, shelved, wk, exec, album, todo, tasks, failed>>
  BY KeepFacts DEF Added
<1>1. /\ BindingIds' = BindingIds \cup {b} /\ \A c \in BindingIds : bindings'[c] = bindings[c]
      /\ \A c \in Binding, a \in Asset : c # b => imports'[c][a] = imports[c][a]
      /\ \A a \in Asset : Chosen(b, a, j)
  BY DEF Added
<1>2. /\ \A k \in Job : k # j => (Active(k)' <=> Active(k))
      /\ Active(j)' /\ ~Active(j)
      /\ \A k \in Job : Active(k) => jobs[k].binding # b
      /\ \A c \in Binding : c # b => (HasActive(c)' <=> HasActive(c))
      /\ HasActive(b)'
  <2>1. (\A k \in Job : k # j => (Active(k)' <=> Active(k))) /\ Active(j)' /\ ~Active(j)
    BY <1>0 DEF Active
  <2>2. \A k \in Job : Active(k) => jobs[k].binding # b
    BY <1>0 DEF HasActive
  <2>3. \A c \in Binding : c # b => (HasActive(c)' <=> HasActive(c))
    BY <1>0, <2>1 DEF HasActive
  <2> QED
    BY <1>0, <2>1, <2>2, <2>3 DEF HasActive
<1>3. wk \in ExecPC => exec.binding \in Binding /\ exec.id \in Job /\ exec.binding # b /\ exec.id # j
  BY <1>0, KeepFacts DEF KeepInv, BoundOK
<1>4. BoundOK' /\ AlbumAt'
  <2>1. BoundOK'
    BY <1>0, <1>1, <1>3 DEF KeepInv, BoundOK, Added
  <2>2. wk \in ExecPC => exec.binding \in BindingIds
    BY DEF KeepInv, BoundOK
  <2>3. AlbumAt'
    BY <1>0, <1>1, <2>2 DEF KeepInv, AlbumAt, ExecPC, ImportPC
  <2> QED
    BY <2>1, <2>3
<1>5. (\A c \in Binding, a \in Asset : RowOK(c, a))'
  <2> SUFFICES ASSUME NEW c \in Binding, NEW a \in Asset PROVE RowOK(c, a)'
    OBVIOUS
  <2>0. RowOK(c, a)
    BY DEF KeepInv
  <2>1. imports[c][a].status # "none" => c \in BindingIds
    BY <2>0 DEF RowOK, NoImport
  <2>2. CASE c # b
    BY <1>0, <1>1, <2>0, <2>1, <2>2 DEF RowOK
  <2>3. CASE c = b
    <3>1. c \in BindingIds' /\ Chosen(c, a, j)
      BY <1>1, <2>3
    <3>2. CASE imports'[c][a] = imports[c][a]
      BY <1>0, <1>1, <2>0, <2>1, <3>1, <3>2 DEF RowOK
    <3>3. CASE imports'[c][a] # imports[c][a]
      <4>1. /\ imports'[c][a].status = "pending" /\ imports'[c][a].remote = imports[c][a].remote
            /\ imports[c][a].status = "none" => owner[a] = bindings'[c].event
        BY <3>1, <3>3 DEF Chosen
      <4> QED
        BY <1>0, <1>1, <2>0, <2>1, <3>1, <4>1 DEF RowOK
    <3> QED
      BY <3>2, <3>3
  <2> QED
    BY <2>2, <2>3
<1>6. wk \in ExecPC => \A a \in Asset : Row(a)' = Row(a)
  BY <1>0, <1>1, <1>3 DEF Row
<1>7. (\A a \in Asset : TaskOK(a))'
  <2>1. CASE wk = "x_run"
    <3>1. jobs'[exec.id] = jobs[exec.id]
      BY <1>0, <1>3, <2>1 DEF ExecPC, ImportPC
    <3> QED
      BY <1>0, <1>6, <2>1, <3>1 DEF KeepInv, TaskOK, ExecPC, ImportPC
  <2>2. CASE wk # "x_run"
    BY <1>0, <2>2, KeepFacts, IdleTasks
  <2> QED
    BY <2>1, <2>2
<1>8. QueueOK'
  <2>1. \A i \in Job : jobs'[i].status = "none" => jobs'[i] = NoJob
    BY <1>0 DEF KeepInv, QueueOK
  <2>2. \A k \in Job : k # j /\ jobs[k].binding = b => k < j
    BY <1>0, KeepFacts DEF JobIds
  <2>3. \A i, k \in Job : Active(i)' /\ jobs'[k].binding = jobs'[i].binding => k <= i
    <3> SUFFICES ASSUME NEW i \in Job, NEW k \in Job, Active(i)', jobs'[k].binding = jobs'[i].binding
                 PROVE  k <= i
      OBVIOUS
    <3>0. i \in Int /\ k \in Int
      BY DEF Job
    <3>1. CASE i = j
      BY <1>0, <2>2, <3>0, <3>1
    <3>2. CASE i # j
      <4>1. Active(i) /\ jobs[i].binding # b
        BY <1>2, <3>2
      <4>2. k # j
        BY <1>0, <3>2, <4>1
      <4> QED
        BY <1>0, <3>2, <4>1, <4>2 DEF KeepInv, QueueOK
    <3> QED
      BY <3>1, <3>2
  <2> QED
    BY <2>1, <2>3 DEF QueueOK
<1>9. PendingOK'
  BY <1>0, <1>6 DEF KeepInv, PendingOK, PinnedPC, ExecPC, ImportPC
<1>10. ImportingOK'
  <2> SUFFICES ASSUME NEW c \in Binding, NEW a \in Asset,
                      imports'[c][a].status = "importing", ~imports'[c][a].lost
               PROVE  /\ HasActive(c)'
                      /\ wk \notin {"boot", "down"} => wk = "x_run" /\ c = exec.binding /\ a \in Busy
    BY <1>0 DEF ImportingOK, Busy
  <2>1. imports'[c][a] = imports[c][a]
    BY <1>1 DEF Chosen
  <2> QED
    BY <1>2, <2>1 DEF KeepInv, ImportingOK
<1>11. AutoOK'
  <2> SUFFICES ASSUME NEW i \in Job, NEW a \in Asset, Active(i)', jobs'[i].mode = "auto",
                      imports'[jobs'[i].binding][a].status \in {"pending", "importing"}
               PROVE  imports'[jobs'[i].binding][a].by = i
    BY DEF AutoOK
  <2>1. CASE i = j
    BY <1>0, <2>1 DEF Added
  <2>2. CASE i # j
    <3>1. Active(i) /\ jobs'[i] = jobs[i] /\ jobs[i].binding # b
      BY <1>0, <1>2, <2>2
    <3>2. jobs[i].binding \in Binding
      BY <3>1, KeepFacts DEF ImportInv, RefsOK, JobIds, Active
    <3> QED
      BY <1>1, <3>1, <3>2 DEF KeepInv, AutoOK
  <2> QED
    BY <2>1, <2>2
<1>12. WaitingOK'
  <2> SUFFICES ASSUME NEW c \in BindingIds', NEW a \in Asset, ~HasActive(c)',
                      imports'[c][a].status = "pending", ~imports'[c][a].lost
               PROVE  \E i \in Job : /\ jobs'[i].status = "cancelled" /\ jobs'[i].binding = c
                                     /\ \A k \in Job : jobs'[k].binding = c => k <= i
    BY DEF WaitingOK
  <2>1. c # b /\ c \in BindingIds /\ c \in Binding
    BY <1>1, <1>2, KeepFacts
  <2>2. imports'[c][a] = imports[c][a] /\ ~HasActive(c)
    BY <1>1, <1>2, <2>1
  <2>3. PICK i \in Job : /\ jobs[i].status = "cancelled" /\ jobs[i].binding = c
                         /\ \A k \in Job : jobs[k].binding = c => k <= i
    BY <2>1, <2>2 DEF KeepInv, WaitingOK
  <2>4. i # j
    BY <1>0, <2>3
  <2> QED
    BY <1>0, <2>1, <2>3, <2>4
<1>13. AccountedIsThere'
  <2> SUFFICES ASSUME NEW c \in BindingIds', NEW a \in Asset, imports'[c][a].status \in Accounted
               PROVE  /\ bindings'[c].album # None
                      /\ a \in stored[bindings'[c].target]
                      /\ <<bindings'[c].album, a>> \in shelved
    BY <1>0 DEF AccountedIsThere
  <2>1. c \in Binding
    BY <1>1, KeepFacts
  <2>2. imports'[c][a] = imports[c][a]
    BY <1>1, <2>1 DEF Chosen, Accounted
  <2>3. c \in BindingIds
    BY <2>1, <2>2 DEF KeepInv, RowOK, NoImport, Accounted
  <2> QED
    BY <1>1, <2>2, <2>3 DEF KeepInv, AccountedIsThere
<1> QED
  BY <1>4, <1>5, <1>7, <1>8, <1>9, <1>10, <1>11, <1>12, <1>13 DEF KeepInv

\* After a crash what was under way waits again, with the job that owns it.
LEMMA RecoverKeeps ==
    ASSUME ImportInv, KeepInv, recover PROVE KeepInv'
<1> USE DEF mediaVars, serverVars, jobVars
<1>0. /\ wk = "boot" /\ wk' = "reconcile"
      /\ UNCHANGED <<events, owner, bindings, stored, shelved, exec, album, todo, tasks, failed>>
      /\ BindingIds' = BindingIds
  BY DEF recover, BindingIds
<1>1. \A b \in Binding, a \in Asset : imports[b][a] \in ImportRow
  BY DEF ImportInv, ImmichTypeOK
<1>2. \A b \in Binding, a \in Asset :
        \/ imports'[b][a] = imports[b][a] /\ imports[b][a].status # "importing"
        \/ /\ imports[b][a].status = "importing" /\ imports'[b][a].status = "pending"
           /\ imports'[b][a].remote = imports[b][a].remote
           /\ imports'[b][a].by = imports[b][a].by /\ imports'[b][a].lost = imports[b][a].lost
  <2> TAKE b \in Binding, a \in Asset
  <2>1. imports'[b][a] = Recovered(imports[b][a])
    BY DEF recover
  <2> QED
    BY <1>1, <2>1 DEF Recovered, ImportRow
<1>3. /\ \A j \in Job : /\ jobs'[j].binding = jobs[j].binding /\ jobs'[j].mode = jobs[j].mode
                        /\ jobs[j].status # "running" => jobs'[j] = jobs[j]
                        /\ jobs[j].status = "running" => jobs'[j].status = "queued"
  <2>1. \A j \in Job : jobs[j] \in JobRow
    BY DEF ImportInv, ImmichTypeOK
  <2>2. \A j \in Job : jobs'[j] = IF jobs[j].status = "running"
                                  THEN [jobs[j] EXCEPT !.status = "queued"] ELSE jobs[j]
    BY DEF recover
  <2> QED
    BY <2>1, <2>2 DEF JobRow
<1>4. /\ \A j \in Job : Active(j)' <=> Active(j)
      /\ \A b \in Binding : HasActive(b)' <=> HasActive(b)
  <2>1. \A j \in Job : Active(j)' <=> Active(j)
    BY <1>3 DEF Active
  <2> QED
    BY <1>3, <2>1 DEF HasActive
<1>5. BoundOK' /\ AlbumAt'
  BY <1>0 DEF KeepInv, BoundOK, AlbumAt, ExecPC, ImportPC
<1>6. (\A b \in Binding, a \in Asset : RowOK(b, a))'
  <2> SUFFICES ASSUME NEW b \in Binding, NEW a \in Asset PROVE RowOK(b, a)'
    OBVIOUS
  <2>1. RowOK(b, a) /\ NoImport.status = "none"
    BY DEF KeepInv, NoImport
  <2> QED
    BY <1>0, <1>2, <2>1 DEF RowOK
<1>7. (\A a \in Asset : TaskOK(a))'
  BY <1>0, KeepFacts, IdleTasks
<1>8. QueueOK'
  BY <1>3, <1>4 DEF KeepInv, QueueOK
<1>9. PendingOK' /\ ImportingOK'
  <2>1. PendingOK'
    BY <1>0 DEF PendingOK, PinnedPC
  <2>2. \A b \in Binding, a \in Asset : imports'[b][a].status # "importing"
    BY <1>2
  <2> QED
    BY <2>1, <2>2 DEF ImportingOK
<1>10. AutoOK'
  <2>1. \A j \in Job : Active(j) => jobs[j].binding \in Binding
    BY KeepFacts DEF ImportInv, RefsOK, JobIds, Active
  <2> QED
    BY <1>2, <1>3, <1>4, <2>1 DEF KeepInv, AutoOK
<1>11. WaitingOK'
  <2> SUFFICES ASSUME NEW b \in BindingIds, NEW a \in Asset, ~HasActive(b)',
                      imports'[b][a].status = "pending", ~imports'[b][a].lost
               PROVE  \E i \in Job : /\ jobs'[i].status = "cancelled" /\ jobs'[i].binding = b
                                     /\ \A k \in Job : jobs'[k].binding = b => k <= i
    BY <1>0 DEF WaitingOK
  <2>1. b \in Binding /\ ~HasActive(b)
    BY <1>4, KeepFacts
  <2>2. imports[b][a].status = "pending" /\ ~imports[b][a].lost
    BY <1>2, <2>1 DEF KeepInv, ImportingOK
  <2>3. PICK i \in Job : /\ jobs[i].status = "cancelled" /\ jobs[i].binding = b
                         /\ \A k \in Job : jobs[k].binding = b => k <= i
    BY <2>1, <2>2 DEF KeepInv, WaitingOK
  <2> QED
    BY <1>3, <2>3
<1>12. AccountedIsThere'
  BY <1>0, <1>2, KeepFacts DEF KeepInv, AccountedIsThere, Accounted
<1> QED
  BY <1>5, <1>6, <1>7, <1>8, <1>9, <1>10, <1>11, <1>12 DEF KeepInv

LEMMA ClaimKeeps ==
    ASSUME ImportInv, KeepInv, Claim PROVE KeepInv'
<1> USE DEF mediaVars, serverVars
<1>0. /\ wk = "claim" /\ wk' = "x_check"
      /\ UNCHANGED <<events, owner, bindings, imports, stored, shelved, album, todo, tasks, failed>>
      /\ BindingIds' = BindingIds
  BY DEF Claim, BindingIds
<1>1. PICK j \in Job :
             /\ jobs[j].status = "queued" /\ jobs[j].binding \in BindingIds
             /\ jobs' = [jobs EXCEPT ![j].status = "running"]
             /\ exec' = [id |-> j, binding |-> jobs[j].binding,
                         event |-> bindings[jobs[j].binding].event,
                         target |-> bindings[jobs[j].binding].target]
  BY ClaimFacts DEF ImportInv
<1>2. /\ \A k \in Job : k # j => jobs'[k] = jobs[k]
      /\ jobs'[j].status = "running" /\ jobs'[j].binding = jobs[j].binding /\ jobs'[j].mode = jobs[j].mode
  <2>1. jobs \in [Job -> JobRow] /\ jobs[j] \in JobRow
    BY DEF ImportInv, ImmichTypeOK
  <2>2. jobs'[j] = [jobs[j] EXCEPT !.status = "running"] /\ \A k \in Job : k # j => jobs'[k] = jobs[k]
    BY <1>1, <2>1
  <2> QED
    BY <2>1, <2>2 DEF JobRow
<1>3. /\ \A k \in Job : jobs'[k].binding = jobs[k].binding /\ jobs'[k].mode = jobs[k].mode
      /\ \A k \in Job : Active(k)' <=> Active(k)
      /\ \A b \in Binding : HasActive(b)' <=> HasActive(b)
  <2>1. \A k \in Job : jobs'[k].binding = jobs[k].binding /\ jobs'[k].mode = jobs[k].mode
    BY <1>2
  <2>2. \A k \in Job : Active(k)' <=> Active(k)
    BY <1>1, <1>2 DEF Active
  <2> QED
    BY <2>1, <2>2 DEF HasActive
<1>4. BoundOK' /\ AlbumAt'
  <2>1. /\ exec'.id = j /\ exec'.binding = jobs[j].binding
        /\ exec'.event = bindings[jobs[j].binding].event /\ exec'.target = bindings[jobs[j].binding].target
    BY <1>1
  <2> QED
    BY <1>0, <1>1, <1>2, <2>1 DEF KeepInv, BoundOK, AlbumAt
<1>5. (\A b \in Binding, a \in Asset : RowOK(b, a))'
  BY <1>0 DEF KeepInv, RowOK
<1>6. (\A a \in Asset : TaskOK(a))'
  BY <1>0, KeepFacts, IdleTasks
<1>7. QueueOK' /\ AutoOK'
  <2>1. \A k \in Job : jobs'[k].status = "none" => jobs'[k] = jobs[k] /\ jobs[k].status = "none"
    BY <1>2
  <2>2. QueueOK'
    BY <1>3, <2>1 DEF KeepInv, QueueOK
  <2> QED
    BY <1>0, <1>3, <2>2 DEF KeepInv, AutoOK
<1>8. PendingOK' /\ ImportingOK'
  <2>1. PendingOK'
    BY <1>0 DEF PendingOK, PinnedPC
  <2>2. \A b \in Binding, a \in Asset : imports'[b][a].status = "importing" => imports'[b][a].lost
    BY <1>0, KeepFacts
  <2> QED
    BY <2>1, <2>2 DEF ImportingOK
<1>9. WaitingOK'
  <2>1. \A k \in Job : jobs[k].status = "cancelled" => jobs'[k].status = "cancelled"
    BY <1>1, <1>2
  <2> QED
    BY <1>0, <1>3, <2>1, KeepFacts DEF KeepInv, WaitingOK
<1>10. AccountedIsThere'
  BY <1>0 DEF KeepInv, AccountedIsThere
<1> QED
  BY <1>4, <1>5, <1>6, <1>7, <1>8, <1>9, <1>10 DEF KeepInv

\* Finish: a job that failed takes the rows that wait with it, one that was
\* cancelled is the last of its binding, and one that completed left none.
LEMMA FinishKeeps ==
    ASSUME ImportInv, KeepInv, Finish PROVE KeepInv'
<1> USE DEF mediaVars, serverVars, AtLabel
<1>0. /\ wk = "x_finish" /\ wk' \in {"down", "reconcile"}
      /\ UNCHANGED <<events, owner, bindings, stored, shelved>>
      /\ BindingIds' = BindingIds
      /\ \A a \in Asset : tasks'[a] = NoTask
  BY DEF Finish, BindingIds, Return, Forget
<1>1. PICK j \in Job, b \in Binding : /\ j = exec.id /\ b = exec.binding
                                      /\ jobs[j].status = "running" /\ jobs[j].binding = b
  BY <1>0, KeepFacts DEF KeepInv, BoundOK, ExecPC
<1>2. /\ \A k \in Job : k # j => jobs'[k] = jobs[k]
      /\ jobs'[j].status = Verdict(j) /\ jobs'[j].binding = b /\ jobs'[j].mode = jobs[j].mode
  <2>1. jobs \in [Job -> JobRow] /\ jobs[j] \in JobRow
    BY DEF ImportInv, ImmichTypeOK
  <2>2. jobs'[j] = [jobs[j] EXCEPT !.status = Verdict(j)] /\ \A k \in Job : k # j => jobs'[k] = jobs[k]
    BY <1>1, <2>1 DEF Finish
  <2> QED
    BY <1>1, <2>1, <2>2 DEF JobRow
<1>3. /\ Verdict(j) \in {"cancelled", "failed", "completed"}
      /\ Verdict(j) = "completed" => ~failed
  BY DEF Verdict
<1>4. \A c \in Binding, a \in Asset :
        \/ imports'[c][a] = imports[c][a] /\ ~(c = b /\ Verdict(j) = "failed" /\ imports[c][a].status = "pending")
        \/ /\ c = b /\ imports[c][a].status = "pending" /\ imports'[c][a].status = "failed"
           /\ imports'[c][a].remote = imports[c][a].remote
  <2> TAKE c \in Binding, a \in Asset
  <2>1. imports \in [Binding -> [Asset -> ImportRow]] /\ imports[c][a] \in ImportRow
    BY DEF ImportInv, ImmichTypeOK
  <2>2. CASE Verdict(j) # "failed"
    BY <1>1, <2>2 DEF Finish
  <2>3. CASE Verdict(j) = "failed"
    <3>1. imports' = [imports EXCEPT ![b] = [x \in Asset |-> GivenUp(imports[b][x])]]
      BY <1>1, <2>3 DEF Finish
    <3>2. imports'[c][a] = IF c = b THEN GivenUp(imports[c][a]) ELSE imports[c][a]
      BY <2>1, <3>1
    <3> QED
      BY <2>1, <3>2 DEF GivenUp, ImportRow
  <2> QED
    BY <2>2, <2>3
<1>5. /\ \A k \in Job : jobs'[k].binding = jobs[k].binding /\ jobs'[k].mode = jobs[k].mode
      /\ \A k \in Job : Active(k)' => Active(k) /\ jobs'[k] = jobs[k]
      /\ \A c \in Binding : c # b => (HasActive(c)' <=> HasActive(c))
      /\ Active(j)
  <2>1. \A k \in Job : jobs'[k].binding = jobs[k].binding /\ jobs'[k].mode = jobs[k].mode
    BY <1>1, <1>2
  <2>2. \A k \in Job : Active(k)' => Active(k) /\ jobs'[k] = jobs[k]
    BY <1>2, <1>3 DEF Active
  <2>3. \A k \in Job : Active(k) /\ jobs[k].binding # b => Active(k)'
    BY <1>1, <1>2 DEF Active
  <2> QED
    BY <1>1, <2>1, <2>2, <2>3 DEF HasActive, Active
<1>6. BoundOK' /\ AlbumAt'
  BY <1>0 DEF KeepInv, BoundOK, AlbumAt, ExecPC, ImportPC
<1>7. (\A c \in Binding, a \in Asset : RowOK(c, a))'
  <2> SUFFICES ASSUME NEW c \in Binding, NEW a \in Asset PROVE RowOK(c, a)'
    OBVIOUS
  <2>1. RowOK(c, a) /\ NoImport.status = "none"
    BY DEF KeepInv, NoImport
  <2> QED
    BY <1>0, <1>4, <2>1 DEF RowOK
<1>8. (\A a \in Asset : TaskOK(a))'
  BY <1>0, IdleTasks
<1>9. QueueOK'
  <2>1. \A k \in Job : jobs'[k].status = "none" => jobs'[k] = jobs[k] /\ jobs[k].status = "none"
    BY <1>2, <1>3
  <2> QED
    BY <1>5, <2>1 DEF KeepInv, QueueOK
<1>10. AutoOK'
  <2>1. \A k \in Job : Active(k) => jobs[k].binding \in Binding
    BY KeepFacts DEF ImportInv, RefsOK, JobIds, Active
  <2> QED
    BY <1>4, <1>5, <2>1 DEF KeepInv, AutoOK
<1>11. PendingOK' /\ ImportingOK'
  <2>1. PendingOK'
    BY <1>0 DEF PendingOK, PinnedPC
  <2>2. \A c \in Binding, a \in Asset : imports'[c][a].status = "importing" => imports'[c][a].lost
    BY <1>0, <1>4, KeepFacts
  <2> QED
    BY <2>1, <2>2 DEF ImportingOK
<1>12. WaitingOK'
  <2> SUFFICES ASSUME NEW c \in BindingIds, NEW a \in Asset, ~HasActive(c)',
                      imports'[c][a].status = "pending", ~imports'[c][a].lost
               PROVE  \E i \in Job : /\ jobs'[i].status = "cancelled" /\ jobs'[i].binding = c
                                     /\ \A k \in Job : jobs'[k].binding = c => k <= i
    BY <1>0 DEF WaitingOK
  <2>1. c \in Binding /\ imports'[c][a] = imports[c][a]
    BY <1>4, KeepFacts
  <2>2. CASE c # b
    <3>1. PICK i \in Job : /\ jobs[i].status = "cancelled" /\ jobs[i].binding = c
                           /\ \A k \in Job : jobs[k].binding = c => k <= i
      BY <1>5, <2>1, <2>2 DEF KeepInv, WaitingOK
    <3>2. i # j
      BY <1>1, <3>1
    <3> QED
      BY <1>2, <1>5, <3>1, <3>2
  <2>3. CASE c = b
    <3>1. Verdict(j) # "failed"
      BY <1>4, <2>1, <2>3
    <3>2. Verdict(j) # "completed"
      BY <1>0, <1>1, <1>3, <2>1, <2>3 DEF KeepInv, PendingOK, Row
    <3>3. jobs'[j].status = "cancelled"
      BY <1>2, <1>3, <3>1, <3>2
    <3>4. \A k \in Job : jobs[k].binding = b => k <= j
      BY <1>1, <1>5 DEF KeepInv, QueueOK
    <3> QED
      BY <1>2, <1>5, <2>3, <3>3, <3>4
  <2> QED
    BY <2>2, <2>3
<1>13. AccountedIsThere'
  BY <1>0, <1>4, KeepFacts DEF KeepInv, AccountedIsThere, Accounted
<1> QED
  BY <1>6, <1>7, <1>8, <1>9, <1>10, <1>11, <1>12, <1>13 DEF KeepInv

\* What one step of a transfer does to its row of the binding b and its task.
SameRow(b, a) == imports'[b][a] = imports[b][a]
SameRemote(b, a) == imports'[b][a].remote = imports[b][a].remote
SameMark(b, a) == imports'[b][a].lost = imports[b][a].lost
SameCopy(a) == tasks'[a].remote = tasks[a].remote

Passed(b, a) ==
    SameRow(b, a) /\ tasks'[a] = tasks[a] /\ (imports[b][a].status # "pending" \/ failed')
Taken(b, a) ==
    /\ imports[b][a].status = "pending" /\ imports'[b][a].status = "importing"
    /\ SameRemote(b, a) /\ SameMark(b, a)
    /\ tasks'[a].at = (IF imports[b][a].remote = None THEN "upload" ELSE "add")
    /\ tasks'[a].remote = imports[b][a].remote
Lost(b, a) ==
    /\ imports[b][a].status = "pending" /\ imports'[b][a].status = "importing"
    /\ SameRemote(b, a) /\ imports'[b][a].lost /\ tasks'[a] = tasks[a] /\ failed'
Uploaded(b, a) ==
    /\ tasks[a].at = "upload" /\ tasks'[a].at = "save" /\ tasks'[a].remote = exec.target
    /\ SameRow(b, a) /\ a \in stored'[exec.target] /\ todo' = todo
Broken(b, a) ==
    /\ tasks[a].at \in {"upload", "save", "add", "done"} /\ tasks'[a].at = "fail" /\ SameCopy(a)
    /\ SameRow(b, a) /\ todo' = todo
Saved(b, a) ==
    /\ tasks[a].at = "save" /\ tasks'[a].at \in {"add", "fail"} /\ SameCopy(a)
    /\ imports'[b][a].remote = tasks[a].remote /\ imports'[b][a].status = imports[b][a].status
    /\ SameMark(b, a) /\ todo' = todo
Shelved(b, a) ==
    /\ tasks[a].at = "add" /\ tasks'[a].at = "done" /\ SameCopy(a)
    /\ tasks[a].remote = exec.target /\ <<album.id, a>> \in shelved'
    /\ SameRow(b, a) /\ todo' = todo
Closed(b, a) ==
    /\ tasks[a].at = "done" /\ imports'[b][a].status \in Accounted
    /\ SameRemote(b, a) /\ SameMark(b, a) /\ todo' = todo
    /\ tasks'[a] = NoTask \/ (tasks'[a].at = "fail" /\ SameCopy(a))
Noted(b, a) ==
    /\ tasks[a].at = "fail" /\ failed' /\ tasks'[a] = NoTask /\ SameRemote(b, a) /\ todo' = todo
    /\ \/ imports'[b][a].status \in {"failed", "pending"}
       \/ imports'[b][a].status = imports[b][a].status /\ imports'[b][a].lost

Moved(b, a) ==
    /\ wk = "x_run" /\ b = exec.binding
    /\ UNCHANGED <<events, owner, bindings, jobs, wk, exec, album>>
    /\ \A c \in Binding, x \in Asset : c # b \/ x # a => imports'[c][x] = imports[c][x]
    /\ \A x \in Asset : x # a => tasks'[x] = tasks[x]
    /\ \A s \in Target : stored[s] \subseteq stored'[s]
    /\ shelved \subseteq shelved'
    /\ todo \ {a} \subseteq todo'
    /\ failed => failed'
    /\ imports'[b][a].by = imports[b][a].by
    /\ \/ Passed(b, a) \/ Taken(b, a) \/ Lost(b, a) \/ Uploaded(b, a) \/ Broken(b, a) \/ Saved(b, a)
       \/ Shelved(b, a) \/ Closed(b, a) \/ Noted(b, a)

LEMMA RowSet ==
    ASSUME ImmichTypeOK, NEW b \in Binding, b = exec.binding, NEW a \in Asset, NEW new,
           SetRow(a, new), Row(a).status # "none"
    PROVE  imports'[b][a] = new
BY DEF SetRow, Row, Updated, ImmichTypeOK

LEMMA Moves ==
    ASSUME ImportInv, KeepInv, NEW a \in Asset, Transfer(a)
    PROVE  \E b \in Binding : Moved(b, a)
<1> USE DEF mediaVars, TaskAt, KeepJob
<1>0. /\ ImmichTypeOK /\ imports \in [Binding -> [Asset -> ImportRow]] /\ tasks \in [Asset -> Task]
      /\ stored \in [Target -> SUBSET Asset] /\ failed \in BOOLEAN
  BY DEF ImportInv, ImmichTypeOK
<1>1. wk = "x_run" /\ UNCHANGED <<events, owner, bindings, jobs, wk, exec, album>>
  BY DEF Transfer, TransferTake, TransferTakeFails, TransferUpload, TransferSave,
     TransferAdd, TransferDone, TransferFail
<1>2. PICK b \in Binding, t \in Target : b = exec.binding /\ t = exec.target
  BY <1>1 DEF ImportInv, ExecOK, ExecPC, ImportPC
<1>3. PICK row \in ImportRow, task \in Task : row = imports[b][a] /\ row = Row(a) /\ task = tasks[a]
  BY <1>0, <1>2 DEF Row
<1>4. \A c \in Binding, x \in Asset : c # b \/ x # a => imports'[c][x] = imports[c][x]
  <2>1. UNCHANGED imports \/ \E new : SetRow(a, new)
    BY DEF Transfer, TransferTake, TransferTakeFails, TransferUpload, TransferSave,
       TransferAdd, TransferDone, TransferFail
  <2>2. ASSUME NEW new, SetRow(a, new)
        PROVE  \A c \in Binding, x \in Asset : c # b \/ x # a => imports'[c][x] = imports[c][x]
    BY <1>0, <1>2, <2>2 DEF SetRow
  <2> QED
    BY <2>1, <2>2
<1>5. \A x \in Asset : x # a => tasks'[x] = tasks[x]
  BY <1>0 DEF Transfer, TransferTake, TransferTakeFails, TransferUpload, TransferSave, TransferAdd,
     TransferDone, TransferFail, SetTask
<1>6. \A new : SetTask(a, new) => tasks'[a] = new
  BY <1>0 DEF SetTask
<1>7. (\A s \in Target : stored[s] \subseteq stored'[s]) /\ shelved \subseteq shelved'
  <2>1. stored' \in {stored, [stored EXCEPT ![t] = stored[t] \cup {a}]}
    BY <1>2 DEF Transfer, TransferTake, TransferTakeFails, TransferUpload,
       TransferSave, TransferAdd, TransferDone, TransferFail, serverVars
  <2>2. shelved' \in {shelved, shelved \cup {<<album.id, a>>}}
    BY DEF Transfer, TransferTake, TransferTakeFails, TransferUpload,
       TransferSave, TransferAdd, TransferDone, TransferFail, AddToAlbum, serverVars
  <2> QED
    BY <1>0, <2>1, <2>2
<1>8. todo \ {a} \subseteq todo' /\ (failed => failed')
  BY DEF Transfer, TransferTake, TransferTakeFails, TransferUpload, TransferSave, TransferAdd,
     TransferDone, TransferFail
<1>9. TaskOK(a)
  BY DEF KeepInv
<1>10. ASSUME NEW new, SetRow(a, new), row.status # "none" PROVE imports'[b][a] = new
  BY <1>0, <1>2, <1>3, <1>10, RowSet
<1> DEFINE Did == /\ imports'[b][a].by = imports[b][a].by
                  /\ \/ Passed(b, a) \/ Taken(b, a) \/ Lost(b, a) \/ Uploaded(b, a) \/ Broken(b, a)
                     \/ Saved(b, a) \/ Shelved(b, a) \/ Closed(b, a) \/ Noted(b, a)
<1>11. ASSUME TransferTake(a) PROVE Did
  <2>1. CASE row.status # "pending"
    BY <1>3, <1>11, <2>1 DEF TransferTake, Passed, SameRow
  <2>2. CASE row.status = "pending"
    <3>1. SetRow(a, [row EXCEPT !.status = "importing"]) /\ SetTask(a, FirstCall(row))
      BY <1>3, <1>11, <2>2 DEF TransferTake
    <3>2. imports'[b][a] = [row EXCEPT !.status = "importing"] /\ tasks'[a] = FirstCall(row)
      BY <1>6, <1>10, <2>2, <3>1
    <3>3. /\ imports'[b][a].status = "importing" /\ imports'[b][a].remote = row.remote
          /\ imports'[b][a].by = row.by /\ imports'[b][a].lost = row.lost
      BY <3>2 DEF ImportRow
    <3>4. tasks'[a].at = (IF row.remote = None THEN "upload" ELSE "add") /\ tasks'[a].remote = row.remote
      BY <3>2 DEF FirstCall
    <3> QED
      BY <1>3, <2>2, <3>3, <3>4 DEF Taken, SameRemote, SameMark
  <2> QED
    BY <2>1, <2>2
<1>12. ASSUME TransferTakeFails(a) PROVE Did
  <2>1. failed' = TRUE /\ tasks' = tasks
    BY <1>12 DEF TransferTakeFails
  <2>2. CASE UNCHANGED imports
    BY <2>1, <2>2 DEF Passed, SameRow
  <2>3. CASE row.status = "pending" /\ SetRow(a, [row EXCEPT !.status = "importing", !.lost = TRUE])
    <3>1. imports'[b][a] = [row EXCEPT !.status = "importing", !.lost = TRUE]
      BY <1>10, <2>3
    <3>2. /\ imports'[b][a].status = "importing" /\ imports'[b][a].remote = row.remote
          /\ imports'[b][a].by = row.by /\ imports'[b][a].lost
      BY <3>1 DEF ImportRow
    <3> QED
      BY <1>3, <2>1, <2>3, <3>2 DEF Lost, SameRemote
  <2> QED
    BY <1>3, <1>12, <2>2, <2>3 DEF TransferTakeFails
<1>13. ASSUME \E l \in {"upload", "save", "add", "done"} : TaskAt(a, l),
              UNCHANGED <<imports, todo>>, SetTask(a, [task EXCEPT !.at = "fail"])
       PROVE  Did
  <2>1. tasks'[a] = [task EXCEPT !.at = "fail"]
    BY <1>6, <1>13
  <2>2. tasks'[a].at = "fail" /\ tasks'[a].remote = task.remote
    BY <2>1 DEF Task
  <2> QED
    BY <1>3, <1>13, <2>2 DEF Broken, SameRow, SameCopy
<1>14. ASSUME TransferUpload(a) PROVE Did
  <2>1. tasks[a].at = "upload" /\ UNCHANGED <<imports, todo>>
    BY <1>14 DEF TransferUpload
  <2>2. CASE SetTask(a, [task EXCEPT !.at = "fail"])
    BY <1>13, <1>14, <2>1, <2>2 DEF TransferUpload
  <2>3. CASE ~SetTask(a, [task EXCEPT !.at = "fail"])
    <3>1. /\ stored' = [stored EXCEPT ![t] = stored[t] \cup {a}]
          /\ SetTask(a, [at |-> "save", remote |-> t, duplicate |-> a \in stored[t]])
      BY <1>2, <1>3, <1>14, <2>3 DEF TransferUpload
    <3>2. tasks'[a].at = "save" /\ tasks'[a].remote = t
      BY <1>6, <3>1
    <3>3. a \in stored'[t]
      BY <1>0, <3>1
    <3> QED
      BY <1>2, <2>1, <3>2, <3>3 DEF Uploaded, SameRow
  <2> QED
    BY <2>2, <2>3
<1>15. ASSUME TransferSave(a) PROVE Did
  <2>1. task.at = "save" /\ UNCHANGED todo
    BY <1>3, <1>15 DEF TransferSave
  <2>2. row.status = "importing"
    BY <1>3, <1>9, <2>1 DEF TaskOK
  <2>3. CASE UNCHANGED imports /\ SetTask(a, [task EXCEPT !.at = "fail"])
    BY <1>13, <1>15, <2>1, <2>3 DEF TransferSave
  <2>4. ASSUME NEW l \in {"add", "fail"}, SetTask(a, [task EXCEPT !.at = l]),
               SetRow(a, [row EXCEPT !.remote = task.remote, !.duplicate = task.duplicate])
        PROVE  Did
    <3>1. tasks'[a] = [task EXCEPT !.at = l]
      BY <1>6, <2>4
    <3>2. imports'[b][a] = [row EXCEPT !.remote = task.remote, !.duplicate = task.duplicate]
      BY <1>10, <2>2, <2>4
    <3>3. tasks'[a].at = l /\ tasks'[a].remote = task.remote
      BY <3>1 DEF Task
    <3>4. /\ imports'[b][a].status = row.status /\ imports'[b][a].remote = task.remote
          /\ imports'[b][a].by = row.by /\ imports'[b][a].lost = row.lost
      BY <3>2 DEF ImportRow
    <3> QED
      BY <1>3, <2>1, <3>3, <3>4 DEF Saved, SameMark, SameCopy
  <2> QED
    BY <1>3, <1>15, <2>3, <2>4 DEF TransferSave
<1>16. ASSUME TransferAdd(a) PROVE Did
  <2>1. task.at = "add" /\ UNCHANGED <<imports, todo>>
    BY <1>3, <1>16 DEF TransferAdd
  <2>2. CASE SetTask(a, [task EXCEPT !.at = "fail"])
    BY <1>13, <1>16, <2>1, <2>2 DEF TransferAdd
  <2>3. CASE AddToAlbum(a) /\ SetTask(a, [task EXCEPT !.at = "done"])
    <3>1. tasks'[a] = [task EXCEPT !.at = "done"]
      BY <1>6, <2>3
    <3>2. tasks'[a].at = "done" /\ tasks'[a].remote = task.remote
      BY <3>1 DEF Task
    <3> QED
      BY <1>3, <2>1, <2>3, <3>2 DEF Shelved, SameRow, SameCopy, AddToAlbum
  <2> QED
    BY <1>3, <1>16, <2>2, <2>3 DEF TransferAdd
<1>17. ASSUME TransferDone(a) PROVE Did
  <2> DEFINE st == IF task.duplicate THEN "duplicate" ELSE "imported"
  <2>1. task.at = "done" /\ UNCHANGED todo
    BY <1>3, <1>17 DEF TransferDone
  <2>2. row.status = "importing" /\ st \in Accounted
    BY <1>3, <1>9, <2>1 DEF TaskOK, Accounted
  <2>3. CASE UNCHANGED imports /\ SetTask(a, [task EXCEPT !.at = "fail"])
    BY <1>13, <1>17, <2>1, <2>3 DEF TransferDone
  <2>4. ASSUME SetRow(a, [row EXCEPT !.status = st]),
               SetTask(a, NoTask) \/ SetTask(a, [task EXCEPT !.at = "fail"])
        PROVE  Did
    <3>1. imports'[b][a] = [row EXCEPT !.status = st]
      BY <1>10, <2>2, <2>4
    <3> HIDE DEF st
    <3>2. /\ imports'[b][a].status = st /\ imports'[b][a].remote = row.remote
          /\ imports'[b][a].by = row.by /\ imports'[b][a].lost = row.lost
      BY <3>1 DEF ImportRow
    <3>3. tasks'[a] = NoTask \/ tasks'[a] = [task EXCEPT !.at = "fail"]
      BY <1>6, <2>4
    <3>4. tasks'[a] = NoTask \/ (tasks'[a].at = "fail" /\ tasks'[a].remote = task.remote)
      BY <3>3 DEF Task
    <3> QED
      BY <1>3, <2>1, <2>2, <3>2, <3>4 DEF Closed, SameRemote, SameMark, SameCopy
  <2> QED
    BY <1>3, <1>17, <2>3, <2>4 DEF TransferDone
<1>18. ASSUME TransferFail(a) PROVE Did
  <2>1. task.at = "fail" /\ UNCHANGED todo /\ failed' = TRUE /\ tasks'[a] = NoTask
    BY <1>3, <1>6, <1>18 DEF TransferFail
  <2>2. row.status # "none"
    BY <1>3, <1>9, <2>1 DEF TaskOK, Accounted
  <2>3. CASE SetRow(a, [row EXCEPT !.status = FailedStatus])
    <3>1. imports'[b][a] = [row EXCEPT !.status = FailedStatus] /\ FailedStatus \in {"failed", "pending"}
      BY <1>10, <2>2, <2>3 DEF FailedStatus
    <3>2. /\ imports'[b][a].status \in {"failed", "pending"} /\ imports'[b][a].remote = row.remote
          /\ imports'[b][a].by = row.by
      BY <3>1 DEF ImportRow
    <3> QED
      BY <1>3, <2>1, <3>2 DEF Noted, SameRemote
  <2>4. CASE SetRow(a, [row EXCEPT !.lost = TRUE])
    <3>1. imports'[b][a] = [row EXCEPT !.lost = TRUE]
      BY <1>10, <2>2, <2>4
    <3>2. /\ imports'[b][a].status = row.status /\ imports'[b][a].remote = row.remote
          /\ imports'[b][a].by = row.by /\ imports'[b][a].lost
      BY <3>1 DEF ImportRow
    <3> QED
      BY <1>3, <2>1, <3>2 DEF Noted, SameRemote
  <2> QED
    BY <1>3, <1>18, <2>3, <2>4 DEF TransferFail
<1>19. Did
  BY <1>11, <1>12, <1>14, <1>15, <1>16, <1>17, <1>18 DEF Transfer
<1> QED
  BY <1>1, <1>2, <1>4, <1>5, <1>7, <1>8, <1>19 DEF Moved

LEMMA MovedKeeps ==
    ASSUME ImportInv, KeepInv, NEW b \in Binding, NEW a \in Asset, Moved(b, a)
    PROVE  KeepInv'
<1> USE DEF SameRow, SameRemote, SameMark, SameCopy
<1>0. /\ wk = "x_run" /\ b = exec.binding
      /\ UNCHANGED <<events, owner, bindings, jobs, wk, exec, album>>
      /\ BindingIds' = BindingIds
      /\ \A c \in Binding, x \in Asset : c # b \/ x # a => imports'[c][x] = imports[c][x]
      /\ \A x \in Asset : x # a => tasks'[x] = tasks[x]
      /\ \A s \in Target : stored[s] \subseteq stored'[s]
      /\ shelved \subseteq shelved'
  BY DEF Moved, BindingIds
<1>1. /\ b \in BindingIds /\ exec.target \in Target /\ exec.target = bindings[b].target
      /\ exec.id \in Job /\ jobs[exec.id].binding = b /\ Active(exec.id) /\ HasActive(b)
      /\ bindings[b].album = album.id /\ album.id # None
  <2>1. wk \in ExecPC
    BY <1>0 DEF ExecPC, ImportPC
  <2>2. album.id # None /\ exec.target \in Target /\ exec.id \in Job
    BY <1>0, <2>1, ImmichAssumption DEF ImportInv, ExecOK
  <2> QED
    BY <1>0, <2>1, <2>2, KeepFacts DEF KeepInv, BoundOK, AlbumAt, Active
<1>2. /\ \A j \in Job : Active(j)' <=> Active(j)
      /\ \A c \in Binding : HasActive(c)' <=> HasActive(c)
  BY <1>0 DEF Active, HasActive
<1>3. /\ Row(a) = imports[b][a] /\ Row(a)' = imports'[b][a]
      /\ \A x \in Asset : x # a => Row(x)' = Row(x)
  BY <1>0 DEF Row
<1>4. /\ imports[b][a] \in ImportRow /\ tasks[a] \in Task /\ imports[b][a].remote \in Target \cup {None}
      /\ tasks[a].remote \in Target \cup {None}
  <2>1. imports[b][a] \in ImportRow /\ tasks[a] \in Task
    BY DEF ImportInv, ImmichTypeOK
  <2> QED
    BY <2>1 DEF ImportRow, Task
<1>5. TaskOK(a) /\ RowOK(b, a)
  BY DEF KeepInv
<1>6. \/ Passed(b, a) \/ Taken(b, a) \/ Lost(b, a) \/ Uploaded(b, a) \/ Broken(b, a) \/ Saved(b, a)
      \/ Shelved(b, a) \/ Closed(b, a) \/ Noted(b, a)
  BY DEF Moved
<1>7. NoTask.at = "none" /\ NoTask.remote = None /\ NoImport.status = "none"
  BY DEF NoTask, NoImport
<1>8. BoundOK' /\ AlbumAt'
  BY <1>0 DEF KeepInv, BoundOK, AlbumAt
\* The row that the step is about is one that was selected.
<1>9. imports'[b][a] # imports[b][a] => imports[b][a].status # "none" /\ imports'[b][a].status # "none"
  BY <1>3, <1>5, <1>6 DEF Passed, Taken, Lost, Uploaded, Broken, Saved, Shelved, Closed, Noted, TaskOK, Accounted
<1>10. imports'[b][a].remote # None => a \in stored'[imports'[b][a].remote]
  <2>1. imports'[b][a].remote = imports[b][a].remote \/ imports'[b][a].remote = tasks[a].remote
    BY <1>6 DEF Passed, Taken, Lost, Uploaded, Broken, Saved, Shelved, Closed, Noted
  <2> QED
    BY <1>0, <1>4, <1>5, <2>1 DEF RowOK, TaskOK
<1>11. (\A c \in Binding, x \in Asset : RowOK(c, x))'
  <2> SUFFICES ASSUME NEW c \in Binding, NEW x \in Asset PROVE RowOK(c, x)'
    OBVIOUS
  <2>0. RowOK(c, x) /\ imports[c][x].remote \in Target \cup {None}
    BY DEF KeepInv, ImportInv, ImmichTypeOK, ImportRow
  <2>1. CASE c # b \/ x # a
    <3>1. imports'[c][x] = imports[c][x]
      BY <1>0, <2>1
    <3> QED
      BY <1>0, <2>0, <3>1 DEF RowOK
  <2>2. CASE c = b /\ x = a
    BY <1>0, <1>1, <1>5, <1>9, <1>10, <2>2 DEF RowOK
  <2> QED
    BY <2>1, <2>2
<1>12. (\A x \in Asset : TaskOK(x))'
  <2>1. ASSUME NEW x \in Asset, x # a PROVE TaskOK(x)'
    <3>1. TaskOK(x) /\ tasks'[x] = tasks[x] /\ Row(x)' = Row(x) /\ tasks[x].remote \in Target \cup {None}
      BY <1>0, <1>3, <2>1 DEF KeepInv, ImportInv, ImmichTypeOK, Task
    <3> QED
      BY <1>0, <1>1, <3>1 DEF TaskOK
  <2>2. TaskOK(a)'
    <3>0. imports'[b][a].by = imports[b][a].by
          /\ (imports[b][a].status = "pending" /\ jobs[exec.id].mode = "auto" => imports[b][a].by = exec.id)
      BY <1>1 DEF Moved, KeepInv, AutoOK
    <3> USE <1>0, <1>1, <1>3, <1>4, <1>5, <1>7, <3>0 DEF TaskOK
    <3>1. CASE Passed(b, a)
      BY <3>1 DEF Passed
    <3>2. CASE Taken(b, a)
      BY <3>2 DEF Taken, RowOK
    <3>3. CASE Lost(b, a)
      <4>1. tasks[a].at = "none"
        BY <3>3 DEF Lost, Accounted
      <4> QED
        BY <3>3, <4>1 DEF Lost
    <3>4. CASE Uploaded(b, a)
      BY <3>4 DEF Uploaded
    <3>5. CASE Broken(b, a)
      BY <3>5 DEF Broken
    <3>6. CASE Saved(b, a)
      BY <3>6 DEF Saved
    <3>7. CASE Shelved(b, a)
      BY <3>7, ImmichAssumption DEF Shelved
    <3>8. CASE Closed(b, a)
      BY <3>8 DEF Closed
    <3>9. CASE Noted(b, a)
      BY <3>9 DEF Noted
    <3> QED
      BY <1>6, <3>1, <3>2, <3>3, <3>4, <3>5, <3>6, <3>7, <3>8, <3>9
  <2> QED
    BY <2>1, <2>2
<1>13. QueueOK'
  BY <1>0, <1>2 DEF KeepInv, QueueOK
<1>14. PendingOK'
  <2> SUFFICES ASSUME ~failed', NEW x \in Asset, Row(x)'.status = "pending" PROVE x \in todo'
    BY <1>0 DEF PendingOK
  <2>1. ~failed /\ todo \ {a} \subseteq todo'
    BY DEF Moved
  <2>2. CASE x # a
    BY <1>0, <1>3, <2>1, <2>2 DEF KeepInv, PendingOK, PinnedPC
  <2>3. CASE x = a
    <3>1. todo' = todo /\ Row(a).status = "pending"
      BY <1>3, <1>5, <1>6, <2>3
      DEF Passed, Taken, Lost, Uploaded, Broken, Saved, Shelved, Closed, Noted, Accounted
    <3> QED
      BY <1>0, <2>1, <2>3, <3>1 DEF KeepInv, PendingOK, PinnedPC
  <2> QED
    BY <2>2, <2>3
<1>15. ImportingOK'
  <2> SUFFICES ASSUME NEW c \in Binding, NEW x \in Asset,
                      imports'[c][x].status = "importing", ~imports'[c][x].lost
               PROVE  HasActive(c) /\ c = b /\ x \in Busy'
    BY <1>0, <1>2 DEF ImportingOK
  <2>1. CASE c # b \/ x # a
    <3>1. imports'[c][x] = imports[c][x]
      BY <1>0, <2>1
    <3>2. HasActive(c) /\ c = b /\ x \in Busy
      BY <1>0, <3>1 DEF KeepInv, ImportingOK
    <3> QED
      BY <1>0, <2>1, <3>2 DEF Busy
  <2>2. CASE c = b /\ x = a
    <3>1. imports[b][a].status = "importing" /\ ~imports[b][a].lost => tasks[a].at # "none"
      BY <1>0 DEF KeepInv, ImportingOK, Busy
    <3>2. tasks'[a].at # "none"
      BY <1>3, <1>5, <1>6, <1>7, <2>2, <3>1
      DEF Passed, Taken, Lost, Uploaded, Broken, Saved, Shelved, Closed, Noted, Accounted
    <3> QED
      BY <1>1, <2>2, <3>2 DEF Busy
  <2> QED
    BY <2>1, <2>2
<1>16. AutoOK'
  <2> SUFFICES ASSUME NEW j \in Job, NEW x \in Asset, Active(j), jobs[j].mode = "auto",
                      imports'[jobs[j].binding][x].status \in {"pending", "importing"}
               PROVE  imports'[jobs[j].binding][x].by = j
    BY <1>0, <1>2 DEF AutoOK
  <2>1. jobs[j].binding \in Binding
    BY KeepFacts DEF ImportInv, RefsOK, JobIds, Active
  <2>2. CASE jobs[j].binding # b \/ x # a
    BY <1>0, <2>1, <2>2 DEF KeepInv, AutoOK
  <2>3. CASE jobs[j].binding = b /\ x = a
    <3>1. imports'[b][a].by = imports[b][a].by
      BY DEF Moved
    <3>2. CASE imports[b][a].status \in {"pending", "importing"}
      BY <2>3, <3>1, <3>2 DEF KeepInv, AutoOK
    <3>3. CASE imports[b][a].status \notin {"pending", "importing"}
      <4>1. tasks[a].at # "none"
        BY <1>6, <2>3, <3>3
        DEF Passed, Taken, Lost, Uploaded, Broken, Saved, Shelved, Closed, Noted
      <4>2. j = exec.id
        <5>1. j <= exec.id /\ exec.id <= j
          BY <1>1, <2>3 DEF KeepInv, QueueOK
        <5> QED
          BY <1>1, <5>1 DEF Job
      <4> QED
        BY <1>3, <1>5, <2>3, <3>1, <4>1, <4>2 DEF TaskOK
    <3> QED
      BY <3>2, <3>3
  <2> QED
    BY <2>2, <2>3
<1>17. WaitingOK'
  <2>1. \A c \in BindingIds, x \in Asset : ~HasActive(c) => imports'[c][x] = imports[c][x]
    BY <1>0, <1>1, KeepFacts
  <2> QED
    BY <1>0, <1>2, <2>1, KeepFacts DEF KeepInv, WaitingOK
<1>18. AccountedIsThere'
  <2> SUFFICES ASSUME NEW c \in BindingIds, NEW x \in Asset, imports'[c][x].status \in Accounted
               PROVE  /\ bindings[c].album # None
                      /\ x \in stored'[bindings[c].target]
                      /\ <<bindings[c].album, x>> \in shelved'
    BY <1>0 DEF AccountedIsThere
  <2>1. c \in Binding /\ bindings[c].target \in Target
    BY KeepFacts DEF ImportInv, RefsOK
  <2>2. CASE imports[c][x].status \in Accounted
    BY <1>0, <2>1, <2>2 DEF KeepInv, AccountedIsThere
  <2>3. CASE imports[c][x].status \notin Accounted
    <3>1. c = b /\ x = a
      BY <1>0, <2>1, <2>3
    <3>2. tasks[a].at = "done"
      BY <1>6, <2>3, <3>1
      DEF Passed, Taken, Lost, Uploaded, Broken, Saved, Shelved, Closed, Noted, Accounted
    <3> QED
      BY <1>0, <1>1, <1>5, <3>1, <3>2 DEF TaskOK
  <2> QED
    BY <2>2, <2>3
<1> QED
  BY <1>8, <1>11, <1>12, <1>13, <1>14, <1>15, <1>16, <1>17, <1>18 DEF KeepInv

LEMMA NextKeep ==
    ASSUME ImportInv, KeepInv, "delete" \notin Ops, [Next]_vars PROVE KeepInv'
<1>1. ASSUME NEW e \in Event, NEW t \in Target, NEW kind \in SendKind, NEW auto \in BOOLEAN,
             NEW b \in Binding, NEW j \in Job, Sent(e, t, kind, auto, b, j)
      PROVE  KeepInv'
  <2>1. Added(b, j)
    BY <1>1, SentAdds, Zenon
  <2> QED
    BY <2>1, AddedKeeps
<1>2. ASSUME NEW b \in Binding, NEW j \in Job, NEW S \in SUBSET Asset, Reconciled(b, j, S),
             UNCHANGED <<mediaVars, bindings, markers, serverVars, wk, jobVars>>
      PROVE  KeepInv'
  BY <1>2, ReconciledAdds, AddedKeeps
<1>3. ASSUME NEW a \in Asset, Transfer(a) PROVE KeepInv'
  BY <1>3, Moves, MovedKeeps
<1> QED
  BY <1>1, <1>2, <1>3, KeepSteps, RecoverKeeps, ClaimKeeps, FinishKeeps, QuietKeeps, MoveKeeps DEF KeepStep

LEMMA InitKeep == Init => KeepInv
<1> SUFFICES ASSUME Init PROVE KeepInv
  OBVIOUS
<1>1. BindingIds = {} /\ wk = "boot"
  BY DEF Init, BindingIds, NoBinding
<1>2. /\ \A b \in Binding, a \in Asset : imports[b][a] = NoImport
      /\ \A j \in Job : jobs[j] = NoJob
      /\ \A a \in Asset : tasks[a] = NoTask
      /\ \A e \in Event : events[e] = "none"
  BY DEF Init
<1>3. /\ NoImport.status = "none" /\ NoImport.remote = None /\ NoJob.status = "none"
      /\ NoTask.at = "none" /\ NoTask.remote = None
  BY DEF NoImport, NoJob, NoTask
<1>4. BoundOK /\ AlbumAt /\ PendingOK
  BY <1>1, <1>2 DEF BoundOK, AlbumAt, PendingOK, ExecPC, ImportPC, PinnedPC
<1>5. (\A b \in Binding, a \in Asset : RowOK(b, a)) /\ ImportingOK
  BY <1>2, <1>3 DEF RowOK, ImportingOK
<1>6. \A a \in Asset : TaskOK(a)
  BY <1>2, <1>3 DEF TaskOK
<1>7. QueueOK /\ AutoOK
  BY <1>2, <1>3 DEF QueueOK, AutoOK, Active
<1>8. WaitingOK /\ AccountedIsThere
  BY <1>1 DEF WaitingOK, AccountedIsThere
<1> QED
  BY <1>4, <1>5, <1>6, <1>7, <1>8 DEF KeepInv

\* The job that NothingLeftPending speaks of is the last of its binding.
LEMMA WaitingIsCancelled ==
    ASSUME ImportInv, KeepInv PROVE NothingLeftPending
<1> SUFFICES ASSUME NEW b \in BindingIds, ~HasActive(b), NEW a \in Asset,
                    imports[b][a].status = "pending", ~imports[b][a].lost
             PROVE  jobs[Latest(b)].status = "cancelled"
  BY DEF NothingLeftPending
<1>1. PICK j \in Job : /\ jobs[j].status = "cancelled" /\ jobs[j].binding = b
                       /\ \A k \in Job : jobs[k].binding = b => k <= j
  BY DEF KeepInv, WaitingOK
<1> DEFINE S == {k \in Job : jobs[k].binding = b}
<1>2. MaxJob \in Nat /\ S \in SUBSET (0..MaxJob) /\ S # {} /\ j \in S
  BY <1>1, ImmichAssumption DEF Job
<1>3. Max(S) \in S /\ \A y \in S : Max(S) >= y
  BY <1>2, MaxIs
<1>4. PICK m : m = Max(S)
  OBVIOUS
<1>5. m \in Job /\ m <= j /\ j <= m
  BY <1>1, <1>2, <1>3, <1>4 DEF Job
<1>6. m = j
  BY <1>5 DEF Job
<1> QED
  BY <1>1, <1>4, <1>6 DEF Latest

\* Without deletions: rows, transfers, jobs and albums agree, whatever fails,
\* stops or is cancelled, and wherever the process crashes.
THEOREM KeepInvariant ==
    ASSUME "delete" \notin Ops PROVE Spec => [](ImportInv /\ KeepInv)
<1>1. Init => ImportInv /\ KeepInv
  BY InitImport, InitKeep
<1>2. ImportInv /\ KeepInv /\ [Next]_vars => (ImportInv /\ KeepInv)'
  BY NextImport, NextKeep
<1> QED
  BY <1>1, <1>2, PTL DEF Spec

\* Media that count as imported or as duplicate are on the server of their
\* binding and in the album that it records.
THEOREM AccountedThere ==
    ASSUME "delete" \notin Ops PROVE Spec => []AccountedIsThere
<1>1. ImportInv /\ KeepInv => AccountedIsThere
  BY DEF KeepInv
<1> QED
  BY <1>1, KeepInvariant, PTL

\* A job that ended leaves no selected media waiting, unless it was cancelled
\* or the database did not take the row's failure.
THEOREM NothingForgotten ==
    ASSUME "delete" \notin Ops PROVE Spec => []NothingLeftPending
<1>1. ImportInv /\ KeepInv => NothingLeftPending
  BY WaitingIsCancelled
<1> QED
  BY <1>1, KeepInvariant, PTL

(* ---------------------------- action properties ------------------------- *)

\* What ProgressKept says of one row.
RowKept(b, a) ==
    /\ imports[b][a].status \in Accounted /\ ~(exec.binding = b /\ tasks[a].at = "fail")
       => imports'[b][a].status = imports[b][a].status
    /\ imports[b][a].remote # None => imports'[b][a].remote = imports[b][a].remote
    /\ imports[b][a].status = "failed" /\ imports'[b][a].status # "failed"
       => \E j \in Job : jobs[j] = NoJob /\ jobs'[j].mode = "retry"

LEMMA AddedProgress ==
    ASSUME KeepInv, NEW b \in Binding, NEW j \in Job, Added(b, j), NEW c \in Binding, NEW a \in Asset
    PROVE  RowKept(c, a)
<1>1. jobs[j] = NoJob
  BY DEF KeepInv, QueueOK, Added
<1>2. CASE imports'[c][a] = imports[c][a]
  BY <1>2 DEF RowKept
<1>3. CASE imports'[c][a] # imports[c][a]
  <2>1. c = b /\ Chosen(c, a, j)
    BY <1>3 DEF Added
  <2> QED
    BY <1>1, <1>3, <2>1 DEF Chosen, RowKept, Accounted
<1> QED
  BY <1>2, <1>3

LEMMA MovedProgress ==
    ASSUME KeepInv, NEW b \in Binding, NEW x \in Asset, Moved(b, x), NEW c \in Binding, NEW a \in Asset
    PROVE  RowKept(c, a)
<1>1. CASE imports'[c][a] = imports[c][a]
  BY <1>1 DEF RowKept
<1>2. CASE imports'[c][a] # imports[c][a]
  <2>1. c = b /\ a = x /\ b = exec.binding
    BY <1>2 DEF Moved
  <2>2. TaskOK(a) /\ Row(a) = imports[c][a]
    BY <2>1 DEF KeepInv, Row
  <2>3. \/ Taken(c, a) \/ Lost(c, a) \/ Saved(c, a) \/ Closed(c, a) \/ Noted(c, a)
    BY <1>2, <2>1 DEF Moved, Passed, Uploaded, Broken, Shelved, SameRow
  <2> QED
    BY <2>1, <2>2, <2>3
    DEF RowKept, TaskOK, Taken, Lost, Saved, Closed, Noted, SameRemote, Accounted
<1> QED
  BY <1>1, <1>2

LEMMA NextProgress ==
    ASSUME ImportInv, KeepInv, "delete" \notin Ops, [Next]_vars, NEW c \in Binding, NEW a \in Asset
    PROVE  RowKept(c, a)
<1>0. imports \in [Binding -> [Asset -> ImportRow]] /\ imports[c][a] \in ImportRow
  BY DEF ImportInv, ImmichTypeOK
<1>1. ASSUME NEW e \in Event, NEW t \in Target, NEW kind \in SendKind, NEW auto \in BOOLEAN,
             NEW b \in Binding, NEW j \in Job, Sent(e, t, kind, auto, b, j)
      PROVE  RowKept(c, a)
  <2>1. Added(b, j)
    BY <1>1, SentAdds, Zenon
  <2> QED
    BY <2>1, AddedProgress
<1>2. ASSUME NEW b \in Binding, NEW j \in Job, NEW S \in SUBSET Asset, Reconciled(b, j, S),
             UNCHANGED <<mediaVars, bindings, markers, serverVars, wk, jobVars>>
      PROVE  RowKept(c, a)
  BY <1>2, ReconciledAdds, AddedProgress
<1>3. ASSUME NEW x \in Asset, Transfer(x) PROVE RowKept(c, a)
  BY <1>3, Moves, MovedProgress
<1>4. CASE UNCHANGED imports
  BY <1>4 DEF RowKept
<1>5. CASE recover
  <2>1. imports'[c][a] = Recovered(imports[c][a])
    BY <1>5 DEF recover
  <2> QED
    BY <1>0, <2>1 DEF Recovered, ImportRow, RowKept, Accounted
<1>6. CASE Finish
  <2>1. imports'[c][a] \in {imports[c][a], GivenUp(imports[c][a])}
    BY <1>0, <1>6 DEF Finish
  <2> QED
    BY <1>0, <2>1 DEF GivenUp, ImportRow, RowKept, Accounted
<1>7. Claim \/ Quiet \/ Move => UNCHANGED imports
  BY DEF Claim, Quiet, Move
<1> QED
  BY <1>1, <1>2, <1>3, <1>4, <1>5, <1>6, <1>7, KeepSteps DEF KeepStep

\* Media accounted for stay so, a known remote id is kept, and a failed row is
\* taken up again only by a request to retry.
THEOREM ProgressIsKept ==
    ASSUME "delete" \notin Ops PROVE Spec => ProgressKept
<1>1. ASSUME ImportInv, KeepInv, [Next]_vars
      PROVE  [\A b \in BindingIds, a \in Asset :
                LET old == imports[b][a]
                    new == imports'[b][a] IN
                bindings'[b].marker = bindings[b].marker /\ owner'[a] = owner[a] =>
                  /\ old.status \in Accounted /\ ~(exec.binding = b /\ tasks[a].at = "fail")
                     => new.status = old.status
                  /\ old.remote # None => new.remote = old.remote
                  /\ old.status = "failed" /\ new.status # "failed"
                     => \E j \in Job : jobs[j] = NoJob /\ jobs'[j].mode = "retry"]_vars
  <2>1. \A b \in BindingIds, a \in Asset : RowKept(b, a)
    BY <1>1, KeepFacts, NextProgress
  <2> QED
    BY <2>1 DEF RowKept
<1> QED
  BY <1>1, KeepInvariant, PTL DEF Spec, ProgressKept

\* An automatic job only transfers rows that it selected itself: what failed or
\* was cancelled before waits for the administrator.
THEOREM AutoKeepsToItsOwn ==
    ASSUME "delete" \notin Ops PROVE Spec => AutoTakesOnlyItsOwn
<1>1. ASSUME ImportInv, KeepInv, [Next]_vars
      PROVE  [\A a \in Asset : tasks[a].at = "none" /\ tasks'[a].at # "none" /\ jobs[exec.id].mode = "auto"
                => imports[exec.binding][a].by = exec.id]_vars
  <2> SUFFICES ASSUME NEW a \in Asset, tasks[a].at = "none", tasks'[a].at # "none",
                      jobs[exec.id].mode = "auto"
               PROVE  imports[exec.binding][a].by = exec.id
    OBVIOUS
  <2>0. NoTask.at = "none"
    BY DEF NoTask
  <2>1. \E x \in Asset : Transfer(x)
    <3>1. KeepStep
      BY <1>1, KeepSteps
    <3>2. ASSUME NEW e \in Event, NEW t \in Target, NEW kind \in SendKind, NEW auto \in BOOLEAN,
                 NEW b \in Binding, NEW j \in Job, Sent(e, t, kind, auto, b, j)
          PROVE  FALSE
      BY <3>2 DEF Sent, jobVars
    <3>3. ~recover /\ ~Claim /\ ~Quiet
      BY DEF recover, Claim, Quiet, jobVars
    <3>4. ~Finish /\ ~Move
      BY <2>0 DEF Finish, Return, Forget, Move
    <3> QED
      BY <3>1, <3>2, <3>3, <3>4 DEF KeepStep, jobVars
  <2>2. PICK x \in Asset, b \in Binding : Moved(b, x)
    BY <1>1, <2>1, Moves
  <2>3. a = x
    BY <2>2 DEF Moved
  <2>4. Taken(b, a)
    BY <2>0, <2>2, <2>3
    DEF Moved, Passed, Lost, Uploaded, Broken, Saved, Shelved, Closed, Noted
  <2>5. /\ b = exec.binding /\ imports[b][a].status = "pending"
        /\ exec.id \in Job /\ Active(exec.id) /\ jobs[exec.id].binding = b
    BY <1>1, <2>2, <2>4, KeepFacts DEF Taken, Moved, KeepInv, BoundOK, Active, ExecPC, ImportPC
  <2> QED
    BY <1>1, <2>5 DEF KeepInv, AutoOK
<1> QED
  BY <1>1, KeepInvariant, PTL DEF Spec, AutoTakesOnlyItsOwn

=============================================================================
