--------------------------- MODULE ImmichTransfer ---------------------------
(***************************************************************************)
(* importAsset, run by up to Workers goroutines at a time over the media   *)
(* of the snapshot, and the transaction that ends a job.                   *)
(***************************************************************************)
EXTENDS ImmichWorker

Busy == {a \in Asset : tasks[a].at # "none"}
Row(a) == imports[exec.binding][a]
SetRow(a, new) ==
    imports' = [imports EXCEPT ![exec.binding][a] = Updated(@, new)]
SetTask(a, new) == tasks' = [tasks EXCEPT ![a] = new]
TaskAt(a, label) ==
    wk = "x_run" /\ tasks[a].at = label /\ UNCHANGED <<mediaVars, scanVars, wk>>
\* What a transfer leaves alone.
KeepJob == UNCHANGED <<bindings, jobs, markers, exec, ctx, pin, album>>

\* Media with a remote id are only added to the album.
FirstCall(row) ==
    [at |-> IF row.remote = None THEN "upload" ELSE "add",
     remote |-> row.remote, duplicate |-> row.duplicate]

\* A worker receives the next asset of the snapshot.  Only pending rows are
\* taken: the others are not selected, or accounted for, or failed before.
\* (SELECT and UPDATE are one step: the row belongs to media of the event that
\* is pinned, and its binding has an active job, so nobody else writes it.)
TransferTake(a) ==
    /\ wk = "x_run" /\ ctx = "live" /\ a \in todo /\ Cardinality(Busy) < Workers
    /\ todo' = todo \ {a}
    /\ \/ /\ Row(a).status # "pending"
          /\ UNCHANGED <<imports, tasks, failed>>
       \/ /\ Row(a).status = "pending"
          /\ SetRow(a, [Row(a) EXCEPT !.status = "importing"])
          /\ SetTask(a, FirstCall(Row(a)))
          /\ UNCHANGED failed
    /\ KeepJob /\ UNCHANGED <<mediaVars, serverVars, scanVars, wk>>

\* A statement fails before the deferred update is in place.
TransferTakeFails(a) ==
    /\ wk = "x_run" /\ a \in todo /\ Cardinality(Busy) < Workers /\ StatementMayFail
    /\ todo' = todo \ {a} /\ failed' = TRUE
    /\ \/ UNCHANGED imports
       \/ /\ Row(a).status = "pending"
          /\ SetRow(a, [Row(a) EXCEPT !.status = "importing", !.lost = TRUE])
    /\ KeepJob /\ UNCHANGED <<mediaVars, serverVars, scanVars, wk, tasks>>

\* Immich keeps one copy of the same content and says so.
TransferUpload(a) ==
    LET known == a \in stored[exec.target] IN
    /\ TaskAt(a, "upload")
    /\ \/ /\ Answered
          /\ stored' = [stored EXCEPT ![exec.target] = @ \cup {a}]
          /\ SetTask(a, [at |-> "save", remote |-> exec.target, duplicate |-> known])
       \/ /\ stored' \in {stored, [stored EXCEPT ![exec.target] = @ \cup {a}]}
          /\ SetTask(a, [tasks[a] EXCEPT !.at = "fail"])
    /\ KeepJob /\ UNCHANGED <<imports, created, shelved, todo, failed>>

\* The remote id is saved before the album is touched.
TransferSave(a) ==
    LET saved == [Row(a) EXCEPT !.remote = tasks[a].remote, !.duplicate = tasks[a].duplicate]
    IN
    /\ TaskAt(a, "save")
    /\ \/ ctx = "live" /\ SetRow(a, saved) /\ SetTask(a, [tasks[a] EXCEPT !.at = "add"])
       \/ /\ StatementMayFail
          /\ UNCHANGED imports \/ SetRow(a, saved)
          /\ SetTask(a, [tasks[a] EXCEPT !.at = "fail"])
    /\ KeepJob /\ UNCHANGED <<serverVars, todo, failed>>

\* Mutant: an entry of the answer that reports an error counts as success.
AddToAlbumUnchecked(a) == shelved' \in {shelved, shelved \cup {<<album.id, a>>}}

\* AddToAlbum: the server knows the album and the asset; being in it already
\* counts as success.
AddToAlbum(a) ==
    /\ album.id[1] = exec.target /\ tasks[a].remote = exec.target
    /\ shelved' = shelved \cup {<<album.id, a>>}

TransferAdd(a) ==
    /\ TaskAt(a, "add")
    /\ \/ Answered /\ AddToAlbum(a) /\ SetTask(a, [tasks[a] EXCEPT !.at = "done"])
       \/ /\ UNCHANGED shelved \/ AddToAlbum(a)
          /\ SetTask(a, [tasks[a] EXCEPT !.at = "fail"])
    /\ KeepJob /\ UNCHANGED <<imports, created, stored, todo, failed>>

\* The row is accounted for.
TransferDone(a) ==
    LET final == [Row(a) EXCEPT !.status = IF tasks[a].duplicate THEN "duplicate" ELSE "imported"]
    IN
    /\ TaskAt(a, "done")
    /\ \/ ctx = "live" /\ SetRow(a, final) /\ SetTask(a, NoTask)
       \/ /\ StatementMayFail
          /\ UNCHANGED imports \/ SetRow(a, final)
          /\ SetTask(a, [tasks[a] EXCEPT !.at = "fail"])
    /\ KeepJob /\ UNCHANGED <<serverVars, todo, failed>>

\* Mutant: a status that immich_asset_imports does not have.
FailedStatusCancelled == IF ctx = "live" THEN "failed" ELSE "cancelled"

FailedStatus == IF ctx = "live" THEN "failed" ELSE "pending"

\* The deferred update, under a context of its own; it may fail itself.
TransferFail(a) ==
    /\ TaskAt(a, "fail")
    /\ failed' = TRUE /\ SetTask(a, NoTask)
    /\ \/ SetRow(a, [Row(a) EXCEPT !.status = FailedStatus])
       \/ DBMayFail /\ SetRow(a, [Row(a) EXCEPT !.lost = TRUE])
    /\ KeepJob /\ UNCHANGED <<serverVars, todo>>

Transfer(a) ==
    \/ TransferTake(a) \/ TransferTakeFails(a) \/ TransferUpload(a) \/ TransferSave(a)
    \/ TransferAdd(a) \/ TransferDone(a) \/ TransferFail(a)

\* The queue is closed and every worker has returned.
TransfersOver == Busy = {} /\ (todo = {} \/ ctx # "live")

ImportEnds ==
    /\ AtLabel("x_run") /\ TransfersOver
    /\ ImportReturns(failed \/ ctx # "live")
    /\ UNCHANGED <<tableVars, serverVars>>

(* --------------------------- end of execute --------------------------- *)

Verdict(j) == IF jobs[j].cancel THEN "cancelled" ELSE IF failed THEN "failed" ELSE "completed"

\* Mutant: rows that were not attempted stay pending.
GivenUpNot(row) == row

\* Selected rows that a failed job did not attempt fail with it.
GivenUp(row) == IF row.status = "pending" THEN [row EXCEPT !.status = "failed"] ELSE row

\* One transaction, under a context of its own.
Finish ==
    /\ AtLabel("x_finish")
    /\ jobs[exec.id].status # "none"
    /\ jobs' = [jobs EXCEPT ![exec.id].status = Verdict(exec.id)]
    /\ imports' = IF Verdict(exec.id) = "failed"
                  THEN [imports EXCEPT ![exec.binding] = [a \in Asset |-> GivenUp(@[a])]]
                  ELSE imports
    /\ Return
    /\ UNCHANGED <<bindings, markers, serverVars>>

\* The row is gone, or the transaction fails: the job stays running.
FinishFails ==
    /\ AtLabel("x_finish")
    /\ jobs[exec.id].status = "none" \/ DBMayFail
    /\ Return
    /\ UNCHANGED <<tableVars, serverVars>>

Execute ==
    \/ CheckCancel \/ Validate \/ Snapshot \/ AlbumStep \/ ImportFails
    \/ (\E a \in Asset : Transfer(a)) \/ ImportEnds \/ Finish \/ FinishFails

=============================================================================
