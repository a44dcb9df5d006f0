----------------------------- MODULE ImmichState ----------------------------
(***************************************************************************)
(* State of the Immich importer (internal/integrations/immich): its three  *)
(* tables, what the Immich servers hold, and the memory of the one worker. *)
(*                                                                         *)
(* SQLite ids are kept as numbers because they are reused: no table of the *)
(* schema is AUTOINCREMENT, so a new row gets the largest id plus one, and *)
(* a deleted last row gives its id away.  Of the media service only what   *)
(* the importer meets is here: events that open, are marked and go with    *)
(* everything that cascades, media that become ready, the read lock of a   *)
(* snapshot.                                                               *)
(***************************************************************************)
EXTENDS Integers, FiniteSets, FiniteSetsExt

CONSTANTS
    None,
    Target,             \* configured Immich servers
    Asset,              \* random asset ids, never reused
    MaxEvent, MaxBinding, MaxJob,   \* bounds: the largest id of each table
    MaxManual,          \* bound: the largest id of a job that a request makes
    MaxMarker,          \* bound: bindings ever created
    Workers,            \* asset transfers at a time
    ReconcileBindings, ReconcileAssets,     \* LIMITs of one automatic pass
    Ops                 \* bound: what a run lets happen

Event == 1..MaxEvent
Binding == 1..MaxBinding
Job == 1..MaxJob
Marker == 1..MaxMarker
\* An album is known by its server and by the marker it was created with.
Album == Target \X Marker

OpName == {"retry", "album", "cancel", "auto", "delete", "restart", "stop", "db"}

ASSUME ImmichAssumption ==
    /\ None \notin Target /\ None \notin Album
    /\ MaxEvent \in Nat /\ MaxBinding \in Nat /\ MaxJob \in Nat /\ MaxMarker \in Nat
    /\ MaxManual \in 0..MaxJob
    /\ Workers \in Nat \ {0}
    /\ ReconcileBindings \in Nat \ {0} /\ ReconcileAssets \in Nat \ {0}
    /\ Ops \subseteq OpName

VARIABLES
    \* SQLite
    events,         \* whether there is a row, and whether it is marked deleting
    owner,          \* the event of each ready asset
    bindings,       \* immich_event_imports
    imports,        \* immich_asset_imports
    jobs,           \* integration_jobs
    markers,        \* how many album markers were drawn
    \* the Immich servers
    created,        \* how many albums were created for each server and marker
    stored,         \* the media each server has
    shelved,        \* which media are in which album
    \* memory of the process
    wk,             \* where Run is
    exec,           \* the Job that execute was given
    ctx,            \* execute's context: live, cancelled, or its parent stopped
    pin,            \* the event that the snapshot holds for reading, or 0
    album,          \* local variables of album: marker read, id obtained
    todo,           \* snapshot.Assets not handed to a worker yet
    tasks,          \* what the workers do, by asset
    failed,         \* importJob will return an error
    page, fullPage, reconcileAfter      \* the pass of reconcile

mediaVars == <<events, owner>>
tableVars == <<bindings, imports, jobs, markers>>
serverVars == <<created, stored, shelved>>
jobVars == <<exec, ctx, pin, album, todo, tasks, failed>>
scanVars == <<page, fullPage, reconcileAfter>>
vars == <<mediaVars, tableVars, serverVars, wk, jobVars, scanVars>>

NotYet == 0
Removed == -1

\* event is 0 when there is no row.
BindingRow == [event : Event \cup {0}, target : Target \cup {None},
               marker : Marker \cup {0}, state : {"new", "creating", "ready"},
               album : Album \cup {None}, auto : BOOLEAN]
NoBinding == [event |-> 0, target |-> None, marker |-> 0, state |-> "new",
              album |-> None, auto |-> FALSE]

\* remote: the server whose asset id is recorded.  History: by is the job that
\* selected or reset the row, lost that its failure could not be recorded.
ImportRow == [status : {"none", "pending", "importing", "imported", "duplicate", "failed"},
              remote : Target \cup {None}, duplicate : BOOLEAN,
              by : Job \cup {0}, lost : BOOLEAN]
NoImport == [status |-> "none", remote |-> None, duplicate |-> FALSE, by |-> 0, lost |-> FALSE]

\* The column mode is never read; here it also tells what made the job: a
\* request to send or set up, a request to retry, or reconcileBinding.
JobRow == [status : {"none", "queued", "running", "completed", "failed", "cancelled"},
           binding : Binding \cup {0}, cancel : BOOLEAN,
           mode : {"new", "retry", "auto"}]
NoJob == [status |-> "none", binding |-> 0, cancel |-> FALSE, mode |-> "new"]

Exec == [id : Job \cup {0}, binding : Binding \cup {0}, event : Event \cup {0},
         target : Target \cup {None}]
NoExec == [id |-> 0, binding |-> 0, event |-> 0, target |-> None]

Task == [at : {"none", "upload", "save", "add", "done", "fail"},
         remote : Target \cup {None}, duplicate : BOOLEAN]
NoTask == [at |-> "none", remote |-> None, duplicate |-> FALSE]

ImportPC == {"x_validate", "x_snapshot", "x_album", "x_mark", "x_create", "x_find", "x_get",
             "x_save", "x_run"}
ExecPC == ImportPC \cup {"x_check", "x_finish"}
LoopPC == {"boot", "reconcile", "scan", "claim", "down"}

ImmichTypeOK ==
    /\ events \in [Event -> {"none", "open", "deleting"}]
    /\ owner \in [Asset -> Event \cup {NotYet, Removed}]
    /\ bindings \in [Binding -> BindingRow]
    /\ imports \in [Binding -> [Asset -> ImportRow]]
    /\ jobs \in [Job -> JobRow]
    /\ markers \in 0..MaxMarker
    /\ created \in [Album -> Nat]
    /\ stored \in [Target -> SUBSET Asset]
    /\ shelved \subseteq Album \X Asset
    /\ wk \in ExecPC \cup LoopPC
    /\ exec \in Exec /\ ctx \in {"live", "cancelled", "stopped"}
    /\ pin \in Event \cup {0}
    /\ album \in [marker : Marker \cup {0}, id : Album \cup {None}]
    /\ todo \subseteq Asset /\ tasks \in [Asset -> Task] /\ failed \in BOOLEAN
    /\ page \subseteq Binding /\ fullPage \in BOOLEAN
    /\ reconcileAfter \in Binding \cup {0}

-----------------------------------------------------------------------------
\* The id of the next row of a table that has the ids S.
NextId(S) == 1 + Max(S \cup {0})

JobIds == {j \in Job : jobs[j].status # "none"}
BindingIds == {b \in Binding : bindings[b].event # 0}

Active(j) == jobs[j].status \in {"queued", "running"}
HasActive(b) == \E j \in Job : Active(j) /\ jobs[j].binding = b
Ready(e) == {a \in Asset : owner[a] = e}

\* UPDATE ... WHERE event_import_id = ? AND asset_id = ?: nothing without a row.
Updated(row, new) == IF row.status = "none" THEN row ELSE new

\* A statement under execute's context may fail once that is cancelled; any
\* statement may, where a run lets the database fail.
DBMayFail == "db" \in Ops
StatementMayFail == DBMayFail \/ ctx # "live"

\* All that execute keeps in memory is gone.
Forget ==
    /\ exec' = NoExec /\ ctx' = "live" /\ pin' = 0
    /\ album' = [marker |-> 0, id |-> None]
    /\ todo' = {} /\ tasks' = [a \in Asset |-> NoTask] /\ failed' = FALSE

=============================================================================
