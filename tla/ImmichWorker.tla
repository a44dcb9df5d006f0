---------------------------- MODULE ImmichWorker ----------------------------
(***************************************************************************)
(* The one worker: the loop of Run, recovery, the automatic pass, and      *)
(* execute with its cancellation monitor and its asset transfers.          *)
(*                                                                         *)
(* A call to Immich is one step; one that fails (a refusal, a timeout, a   *)
(* lost answer, a cancelled context) may have been carried out.            *)
(***************************************************************************)
EXTENDS ImmichAdmin

(* ----------------------------- the loop ------------------------------- *)

Recovered(row) == IF row.status = "importing" THEN [row EXCEPT !.status = "pending"] ELSE row

\* recover, tried again until it succeeds.
recover ==
    /\ wk = "boot"
    /\ imports' = [b \in Binding |-> [a \in Asset |-> Recovered(imports[b][a])]]
    /\ jobs' = [j \in Job |-> IF jobs[j].status = "running"
                              THEN [jobs[j] EXCEPT !.status = "queued"] ELSE jobs[j]]
    /\ wk' = "reconcile"
    /\ UNCHANGED <<mediaVars, bindings, markers, serverVars, jobVars, scanVars>>

\* The first bindings after the cursor that are automatic and have an album.
PageAfter(after) ==
    LET due == {b \in BindingIds : bindings[b].auto /\ bindings[b].state = "ready" /\ b > after}
    IN  {b \in due : Cardinality({c \in due : c <= b}) <= ReconcileBindings}

ReconcileBegin ==
    /\ wk = "reconcile"
    /\ page' = PageAfter(reconcileAfter)
    /\ fullPage' = (Cardinality(page') = ReconcileBindings)
    /\ wk' = "scan"
    /\ UNCHANGED <<mediaVars, tableVars, serverVars, jobVars, reconcileAfter>>

\* Mutant: unfinished rows do not hold automatic work back.
MayReconcileOver(b) ==
    /\ b \in BindingIds
    /\ bindings[b].auto /\ bindings[b].state = "ready" /\ bindings[b].album # None
    /\ events[bindings[b].event] = "open"
    /\ ~HasActive(b)

\* No job owns the binding and no selected media wait for the administrator.
MayReconcile(b) ==
    /\ b \in BindingIds
    /\ bindings[b].auto /\ bindings[b].state = "ready" /\ bindings[b].album # None
    /\ events[bindings[b].event] = "open"
    /\ ~HasActive(b)
    /\ \A a \in Asset : imports[b][a].status \notin {"pending", "importing"}

\* Ready media that were never selected, the oldest ReconcileAssets of them.
Untracked(b) == {a \in Ready(bindings[b].event) : imports[b][a].status = "none"}
Batch(b) ==
    {S \in SUBSET Untracked(b) :
        Cardinality(S) = Min({ReconcileAssets, Cardinality(Untracked(b))})}

\* reconcileBinding: select media and make a job, or change nothing.
reconcileBinding(b) ==
    LET j == NextId(JobIds) IN
    IF MayReconcile(b) /\ Untracked(b) # {}
    THEN \E S \in Batch(b) :
           /\ j \in Job
           /\ imports' = [imports EXCEPT ![b] = [a \in Asset |->
                 IF a \in S THEN [NoImport EXCEPT !.status = "pending", !.by = j] ELSE @[a]]]
           /\ jobs' = [jobs EXCEPT ![j] = [status |-> "queued", binding |-> b,
                                           cancel |-> FALSE, mode |-> "auto"]]
    ELSE UNCHANGED <<imports, jobs>>

ReconcileNext ==
    LET b == Min(page) IN
    /\ wk = "scan" /\ page # {}
    /\ reconcileBinding(b)
    /\ page' = page \ {b} /\ reconcileAfter' = b
    /\ UNCHANGED <<mediaVars, bindings, markers, serverVars, wk, jobVars, fullPage>>

\* Mutant: the cursor is not put back after the last page.
WrappedNot == reconcileAfter

Wrapped == IF fullPage THEN reconcileAfter ELSE 0

\* The end of the page, or an error that leaves the cursor where it is.
ReconcileEnd ==
    /\ wk = "scan"
    /\ \/ page = {} /\ reconcileAfter' = Wrapped
       \/ page # {} /\ DBMayFail /\ UNCHANGED reconcileAfter
    /\ page' = {} /\ fullPage' = FALSE
    /\ wk' = "claim"
    /\ UNCHANGED <<mediaVars, tableVars, serverVars, jobVars>>

Queued == {j \in Job : jobs[j].status = "queued"}

\* claim: the oldest queued job, joined with its binding.
Claim ==
    LET j == Min(Queued) IN
    /\ wk = "claim" /\ Queued # {}
    /\ jobs' = [jobs EXCEPT ![j].status = "running"]
    /\ exec' = [id |-> j, binding |-> jobs[j].binding,
                event |-> bindings[jobs[j].binding].event,
                target |-> bindings[jobs[j].binding].target]
    /\ wk' = "x_check"
    /\ UNCHANGED <<mediaVars, bindings, imports, markers, serverVars,
                   ctx, pin, album, todo, tasks, failed, scanVars>>

\* No job to claim: after a wake-up, or five seconds after the last pass, the
\* next pass is due.  (Until then the ticker only makes Run try to claim.)
Wake ==
    /\ wk = "claim" /\ (Queued = {} \/ DBMayFail)
    /\ wk' = "reconcile"
    /\ UNCHANGED <<mediaVars, tableVars, serverVars, jobVars, scanVars>>

Loop ==
    recover \/ ReconcileBegin \/ ReconcileNext \/ ReconcileEnd \/ Claim \/ Wake

(* ------------------------- execute, importJob ------------------------- *)

Goto(label) == wk' = label
AtLabel(label) == wk = label /\ UNCHANGED <<mediaVars, scanVars>>

\* A call is answered only under a live context; it may fail at any time.
Answered == ctx = "live"

\* execute returns to the loop, which ends when the server is stopping.
Return == wk' = (IF ctx = "stopped" THEN "down" ELSE "reconcile") /\ Forget

\* Mutant: a job that was cancelled in the queue is dropped, not ended.
CheckCancelDrops ==
    /\ AtLabel("x_check")
    /\ \/ /\ jobs[exec.id].status # "none" /\ ~jobs[exec.id].cancel
          /\ Goto("x_validate") /\ UNCHANGED jobVars
       \/ jobs[exec.id].cancel /\ Return
    /\ UNCHANGED <<tableVars, serverVars>>

\* The cancel flag is read before anything is done.
CheckCancel ==
    /\ AtLabel("x_check")
    /\ \/ /\ jobs[exec.id].status # "none"
          /\ ctx' = IF jobs[exec.id].cancel /\ ctx = "live" THEN "cancelled" ELSE ctx
          /\ Goto("x_validate")
          /\ UNCHANGED <<exec, pin, album, todo, tasks, failed>>
       \/ /\ jobs[exec.id].status = "none" \/ StatementMayFail
          /\ Return
    /\ UNCHANGED <<tableVars, serverVars>>

\* The monitor's poll: the flag is set, or the row is gone.
Monitor ==
    /\ wk \in ImportPC /\ ctx = "live"
    /\ jobs[exec.id].status = "none" \/ jobs[exec.id].cancel
    /\ ctx' = "cancelled"
    /\ UNCHANGED <<mediaVars, tableVars, serverVars, wk, exec, pin, album, todo, tasks,
                   failed, scanVars>>

\* importJob returns: the snapshot is closed, and a stopping server leaves the
\* job as it is for recovery.
ImportReturns(bad) ==
    /\ pin' = 0 /\ failed' = bad
    /\ Goto(IF ctx = "stopped" THEN "down" ELSE "x_finish")
    /\ UNCHANGED <<exec, ctx, album, todo, tasks>>

\* No credentials, a server that does not answer or is not compatible, an event
\* that cannot be read, an album that is not found, a statement that failed.
ImportFails ==
    /\ wk \in ImportPC \ {"x_run"}
    /\ ImportReturns(TRUE)
    /\ UNCHANGED <<mediaVars, tableVars, serverVars, scanVars>>

Validate ==
    /\ AtLabel("x_validate") /\ Answered
    /\ Goto("x_snapshot")
    /\ UNCHANGED <<tableVars, serverVars, jobVars>>

\* media.Snapshot: the read lock, an event that is not marked, its ready media.
Snapshot ==
    /\ AtLabel("x_snapshot") /\ ctx = "live"
    /\ events[exec.event] = "open"
    /\ pin' = exec.event /\ todo' = Ready(exec.event)
    /\ Goto("x_album")
    /\ UNCHANGED <<tableVars, serverVars, exec, ctx, album, tasks, failed>>

\* Mutant: a creation of unknown outcome is tried again.
AfterReadAgain(row) == IF row.album # None THEN "x_get" ELSE "x_mark"

\* What album does with the row: an id is checked, an unknown outcome is looked
\* up by marker, otherwise an album is created.
AfterRead(row) ==
    CASE row.album # None -> "x_get"
      [] row.album = None /\ row.state = "creating" -> "x_find"
      [] OTHER -> "x_mark"

AlbumRead ==
    LET row == bindings[exec.binding] IN
    /\ AtLabel("x_album") /\ ctx = "live" /\ exec.binding \in BindingIds
    /\ album' = [marker |-> row.marker, id |-> row.album]
    /\ Goto(AfterRead(row))
    /\ UNCHANGED <<tableVars, serverVars, exec, ctx, pin, todo, tasks, failed>>

UpdateBinding(row, new) == IF row.event = 0 THEN row ELSE new

\* The intent is saved before the request.
AlbumIntent ==
    /\ AtLabel("x_mark")
    /\ bindings' = [bindings EXCEPT ![exec.binding] =
           UpdateBinding(@, [@ EXCEPT !.state = "creating"])]
    /\ \/ ctx = "live" /\ Goto("x_create") /\ UNCHANGED jobVars
       \/ StatementMayFail /\ ImportReturns(TRUE)
    /\ UNCHANGED <<imports, jobs, markers, serverVars>>

\* CreateAlbum; when the answer is lost the album exists all the same.
AlbumCreate ==
    LET new == <<exec.target, album.marker>> IN
    /\ AtLabel("x_create")
    /\ created' = [created EXCEPT ![new] = @ + 1]
    /\ \/ /\ Answered /\ album' = [album EXCEPT !.id = new] /\ Goto("x_save")
          /\ UNCHANGED <<exec, ctx, pin, todo, tasks, failed>>
       \/ ImportReturns(TRUE)
    /\ UNCHANGED <<tableVars, stored, shelved>>

\* FindAlbum: exactly one album of this server carries the marker.
AlbumFind ==
    LET found == <<exec.target, album.marker>> IN
    /\ AtLabel("x_find") /\ Answered
    /\ created[found] = 1
    /\ album' = [album EXCEPT !.id = found]
    /\ Goto("x_save")
    /\ UNCHANGED <<tableVars, serverVars, exec, ctx, pin, todo, tasks, failed>>

\* Album: the recorded album is known to this server.
AlbumGet ==
    /\ AtLabel("x_get") /\ Answered
    /\ album.id[1] = exec.target /\ created[album.id] > 0
    /\ Goto("x_run")
    /\ UNCHANGED <<tableVars, serverVars, jobVars>>

AlbumSave ==
    /\ AtLabel("x_save")
    /\ bindings' = [bindings EXCEPT ![exec.binding] =
           UpdateBinding(@, [@ EXCEPT !.album = album.id, !.state = "ready"])]
    /\ \/ ctx = "live" /\ Goto("x_run") /\ UNCHANGED jobVars
       \/ StatementMayFail /\ ImportReturns(TRUE)
    /\ UNCHANGED <<imports, jobs, markers, serverVars>>

AlbumStep == AlbumRead \/ AlbumIntent \/ AlbumCreate \/ AlbumFind \/ AlbumGet \/ AlbumSave

=============================================================================
