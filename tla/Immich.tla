------------------------------- MODULE Immich -------------------------------
(***************************************************************************)
(* The Immich importer as a whole, and what it promises.                   *)
(***************************************************************************)
EXTENDS ImmichTransfer

Init ==
    /\ events = [e \in Event |-> "none"]
    /\ owner = [a \in Asset |-> NotYet]
    /\ bindings = [b \in Binding |-> NoBinding]
    /\ imports = [b \in Binding |-> [a \in Asset |-> NoImport]]
    /\ jobs = [j \in Job |-> NoJob]
    /\ markers = 0
    /\ created = [x \in Album |-> 0] /\ stored = [t \in Target |-> {}] /\ shelved = {}
    /\ wk = "boot"
    /\ exec = NoExec /\ ctx = "live" /\ pin = 0 /\ album = [marker |-> 0, id |-> None]
    /\ todo = {} /\ tasks = [a \in Asset |-> NoTask] /\ failed = FALSE
    /\ page = {} /\ fullPage = FALSE /\ reconcileAfter = 0

\* SIGTERM: the parent context ends; the loop does when it looks at it.
Stop ==
    /\ "stop" \in Ops /\ wk # "down"
    /\ \/ wk \in ExecPC /\ ctx # "stopped" /\ ctx' = "stopped" /\ UNCHANGED wk
       \/ wk \in LoopPC /\ wk' = "down" /\ UNCHANGED ctx
    /\ UNCHANGED <<mediaVars, tableVars, serverVars, exec, pin, album, todo, tasks, failed,
                   scanVars>>

\* The process ends anywhere, after SIGTERM or in a crash, and starts again.
Restart ==
    /\ "restart" \in Ops
    /\ wk' = "boot" /\ Forget
    /\ page' = {} /\ fullPage' = FALSE /\ reconcileAfter' = 0
    /\ UNCHANGED <<mediaVars, tableVars, serverVars>>

Administration ==
    \/ \E e \in Event, t \in Target, kind \in {"new", "retry", "album"} : Enqueue(e, t, kind)
    \/ CreateEvent
    \/ \E b \in Binding : Cancel(b) \/ \E on \in BOOLEAN : SetAutoImport(b, on)
    \/ \E e \in Event : DeleteMark(e) \/ DeleteDrop(e) \/ \E a \in Asset : MediaReady(a, e)

Next == Administration \/ Loop \/ Execute \/ Monitor \/ Stop \/ Restart

Spec == Init /\ [][Next]_vars

(***************************************************************************)
(* Fairness.  Nothing in Run or execute waits for anybody: statements and  *)
(* calls to Immich have deadlines and return, in failure if need be (weak  *)
(* fairness), and a pass is due five seconds after the last one.           *)
(***************************************************************************)
ImmichLiveSpec == Spec /\ WF_vars(Loop \/ Execute)

-----------------------------------------------------------------------------
(* Safety *)

Accounted == {"imported", "duplicate"}

\* "imported" and "duplicate" are never claimed too early or of the wrong place:
\* the binding's server has the asset, in the album that the binding records.
AccountedIsThere ==
    \A b \in BindingIds, a \in Asset : imports[b][a].status \in Accounted =>
        /\ bindings[b].album # None
        /\ a \in stored[bindings[b].target]
        /\ <<bindings[b].album, a>> \in shelved

\* However often the creation of an album is interrupted, repeated or left
\* without an answer, no binding gets a second one (album_state, album_marker).
OneAlbum == \A x \in Album : created[x] <= 1

Latest(b) == Max({j \in Job : jobs[j].binding = b})

\* A job that ended leaves no selected media waiting for nobody: what it did not
\* attempt is failed with it, unless the administrator cancelled it or the
\* row's own failure could not be recorded.
NothingLeftPending ==
    \A b \in BindingIds : ~HasActive(b) =>
        \A a \in Asset : imports[b][a].status = "pending" =>
            jobs[Latest(b)].status = "cancelled" \/ imports[b][a].lost

\* The snapshot pins its event: what is being transferred, or about to be, is
\* ready media of an event that is not being deleted.
TransfersPinned ==
    wk = "x_run" => /\ events[exec.event] = "open"
                    /\ todo \cup Busy \subseteq Ready(exec.event)

\* Failed and cancelled media wait for the administrator: an automatic job only
\* transfers rows that it selected itself.
AutoTakesOnlyItsOwn ==
    [][\A a \in Asset : tasks[a].at = "none" /\ tasks'[a].at # "none" /\ jobs[exec.id].mode = "auto"
         => imports[exec.binding][a].by = exec.id]_vars

\* While a binding lives (a marker is never drawn twice): media accounted for
\* stay so (but for an update that was reported as failed), a known remote id is
\* kept, and a failed row is taken up again only by a request to retry.
ProgressKept ==
    [][\A b \in BindingIds, a \in Asset :
         LET old == imports[b][a]
             new == imports'[b][a] IN
         bindings'[b].marker = bindings[b].marker /\ owner'[a] = owner[a] =>
           /\ old.status \in Accounted /\ ~(exec.binding = b /\ tasks[a].at = "fail")
              => new.status = old.status
           /\ old.remote # None => new.remote = old.remote
           /\ old.status = "failed" /\ new.status # "failed"
              => \E j \in Job : jobs[j] = NoJob /\ jobs'[j].mode = "retry"]_vars

-----------------------------------------------------------------------------
(* Liveness *)

\* Every job that was accepted comes to an end, whatever Immich answers.
JobEnds == \A j \in Job : Active(j) ~> ~Active(j)

\* Paused: selected media wait for the administrator.
Paused(b) == ~HasActive(b) /\ \E a \in Asset : imports[b][a].status \in {"pending", "importing"}
Automatic(b) ==
    b \in BindingIds /\ bindings[b].auto /\ bindings[b].state = "ready"
    /\ events[bindings[b].event] = "open"

\* No upload needs to be announced: media of an automatic binding are selected
\* sooner or later, however many other bindings and jobs there are, unless the
\* policy is switched off, the event is deleted or the binding is paused.
AutoImportReaches ==
    \A b \in Binding, a \in Asset :
        Automatic(b) /\ owner[a] = bindings[b].event
        ~> imports[b][a].status # "none" \/ ~Automatic(b) \/ Paused(b)

=============================================================================
