----------------------------- MODULE ImmichAdmin ----------------------------
(***************************************************************************)
(* What administrators and guests do to the importer's tables: sending,    *)
(* retrying, album setup, cancelling, the automatic policy, events that    *)
(* come and go.  Each is one transaction.                                  *)
(***************************************************************************)
EXTENDS ImmichState

\* The binding of an event to a target; a new one when there is none.
BindingFor(e, t) ==
    LET known == {b \in BindingIds : bindings[b].event = e /\ bindings[b].target = t}
    IN  IF known # {} THEN known ELSE {NextId(BindingIds)} \cap Binding

Bound(b, e, t, auto) ==
    IF b \in BindingIds THEN bindings[b]
    ELSE [event |-> e, target |-> t, marker |-> markers + 1, state |-> "new",
          album |-> None, auto |-> auto]

\* Mutant: a send takes up failed media again.
SelectedAgain(row, j, kind, ready) ==
    CASE kind = "new" /\ ready /\ row.status \in {"none", "failed"} ->
            [row EXCEPT !.status = "pending", !.by = j, !.lost = FALSE]
      [] kind = "retry" /\ row.status \in {"failed", "importing"} ->
            [row EXCEPT !.status = "pending", !.by = j, !.lost = FALSE]
      [] OTHER -> row

\* INSERT OR IGNORE of the ready media, or UPDATE of the unfinished rows.
Selected(row, j, kind, ready) ==
    CASE kind = "new" /\ ready /\ row.status = "none" ->
            [NoImport EXCEPT !.status = "pending", !.by = j]
      [] kind = "retry" /\ row.status \in {"failed", "importing"} ->
            [row EXCEPT !.status = "pending", !.by = j, !.lost = FALSE]
      [] OTHER -> row

\* enqueueTx: ErrActive while the binding has a job, ErrInput for an album-only
\* job of a binding that has selected media.
enqueueTx(e, t, kind, auto) ==
    \E b \in BindingFor(e, t) :
        LET j == NextId(JobIds) IN
        /\ b \in BindingIds \/ markers < MaxMarker
        /\ ~HasActive(b)
        /\ kind = "album" => \A a \in Asset : imports[b][a].status = "none"
        /\ j <= MaxManual
        /\ bindings' = [bindings EXCEPT ![b] = Bound(b, e, t, auto)]
        /\ markers' = IF b \in BindingIds THEN markers ELSE markers + 1
        /\ imports' = [imports EXCEPT ![b] =
              [a \in Asset |-> Selected(@[a], j, kind, owner[a] = e)]]
        /\ jobs' = [jobs EXCEPT ![j] = [status |-> "queued", binding |-> b, cancel |-> FALSE,
                                        mode |-> IF kind = "retry" THEN "retry" ELSE "new"]]

\* Enqueue and Provision, for an event that is not being deleted.
Enqueue(e, t, kind) ==
    /\ kind \in {"new"} \cup Ops
    /\ events[e] = "open"
    /\ enqueueTx(e, t, kind, FALSE)
    /\ UNCHANGED <<mediaVars, serverVars, wk, jobVars, scanVars>>

NewEvent == NextId({e \in Event : events[e] # "none"})

\* events.CreateInTx alone, or with a binding and its album-only job.
CreateEvent ==
    /\ NewEvent \in Event
    /\ events' = [events EXCEPT ![NewEvent] = "open"]
    /\ \/ UNCHANGED tableVars
       \/ /\ "album" \in Ops
          /\ \E t \in Target, auto \in BOOLEAN :
                /\ auto => "auto" \in Ops
                /\ enqueueTx(NewEvent, t, "album", auto)
    /\ UNCHANGED <<owner, serverVars, wk, jobVars, scanVars>>

\* Cancel: only jobs that have not ended.
Cancel(b) ==
    /\ "cancel" \in Ops /\ HasActive(b)
    /\ jobs' = [j \in Job |-> IF Active(j) /\ jobs[j].binding = b
                              THEN [jobs[j] EXCEPT !.cancel = TRUE] ELSE jobs[j]]
    /\ UNCHANGED <<mediaVars, bindings, imports, markers, serverVars, wk, jobVars, scanVars>>

SetAutoImport(b, enabled) ==
    /\ "auto" \in Ops
    /\ b \in BindingIds /\ events[bindings[b].event] = "open"
    /\ bindings' = [bindings EXCEPT ![b].auto = enabled]
    /\ UNCHANGED <<mediaVars, imports, jobs, markers, serverVars, wk, jobVars, scanVars>>

(* ---------------------- the media service's part ---------------------- *)

\* An upload of an open event completes.
MediaReady(a, e) ==
    /\ owner[a] = NotYet /\ events[e] = "open"
    /\ owner' = [owner EXCEPT ![a] = e]
    /\ UNCHANGED <<events, tableVars, serverVars, wk, jobVars, scanVars>>

\* Mutant: the lock is not asked for.
NotBusyAlways(e) == TRUE

\* TryLock, or ErrBusy while a snapshot holds the event's lock.
NotBusy(e) == pin # e

\* DeleteEvent marks the event.
DeleteMark(e) ==
    /\ "delete" \in Ops /\ events[e] = "open" /\ NotBusy(e)
    /\ events' = [events EXCEPT ![e] = "deleting"]
    /\ UNCHANGED <<owner, tableVars, serverVars, wk, jobVars, scanVars>>

\* Its media and then its row are deleted; ON DELETE CASCADE does the rest.
DeleteDrop(e) ==
    LET gone == {b \in Binding : bindings[b].event = e} IN
    /\ events[e] = "deleting"
    /\ events' = [events EXCEPT ![e] = "none"]
    /\ owner' = [a \in Asset |-> IF owner[a] = e THEN Removed ELSE owner[a]]
    /\ bindings' = [b \in Binding |-> IF b \in gone THEN NoBinding ELSE bindings[b]]
    /\ imports' = [b \in Binding |-> [a \in Asset |->
           IF b \in gone \/ owner[a] = e THEN NoImport ELSE imports[b][a]]]
    /\ jobs' = [j \in Job |-> IF jobs[j].binding \in gone THEN NoJob ELSE jobs[j]]
    /\ UNCHANGED <<markers, serverVars, wk, jobVars, scanVars>>

=============================================================================
