------------------------------ MODULE MediaInv ------------------------------
(***************************************************************************)
(* The inductive invariant behind the safety properties of Media: who      *)
(* holds which lock at which label, what each goroutine may rely on about  *)
(* the row it works on, and what the tables say about the stores; and what *)
(* the capacity limits rely on.                                            *)
(***************************************************************************)
EXTENDS Media

\* Labels at which Upload owns an asset row of its own making, at which
\* Complete verifies an object, and at which the asset's stripe is held.
UploadPC == {"u_open", "u_write", "u_finish"}
VerifyPC == {"f_head", "f_prefix", "f_reject", "f_commit"}
StripedPC == VerifyPC \cup {"a_sign"}

Removing(p) == pc[p] \in RemovalPC
Uploading(p) == pc[p] \in UploadPC \/ (Removing(p) /\ loc[p].op = "upload")
Striped(p) == pc[p] \in StripedPC

\* Where the event lock is held for reading and for writing.
Reading(p) ==
    \/ pc[p] \in UploadPC \cup StripedPC \cup {"u_reserve", "stripe", "s_open"}
    \/ Removing(p) /\ loc[p].op = "upload"
Writing(p) ==
    \/ pc[p] \in {"d_pick", "d_drop"}
    \/ Removing(p) /\ loc[p].op \in {"delete", "cleanup"}

\* Where a goroutine relies on the row loc[p].at.
Holding(p) == pc[p] \in UploadPC \cup StripedPC \cup RemovalPC

-----------------------------------------------------------------------------
\* The labels of a goroutine, and the locals that are set at each label.
HandlerOK(p) ==
    LET l == loc[p] IN
    /\ pc[p] \in HandlerPC \cup RemovalPC
    /\ pc[p] # "idle" => l.ev \in Event
    /\ pc[p] \in UploadPC \cup StripedPC \cup RemovalPC \cup {"stripe"} => l.at \in Asset
    /\ pc[p] = "rlock" =>
          /\ l.op \in OpName \ {"delete"}
          /\ l.op = "upload" => l.body \in Bodies /\ l.session \in Session
          /\ l.op = "prepare" => l.size \in Nat /\ l.session \in Session /\ l.class \in Class
          /\ l.op \in {"authorize", "complete"} => l.at \in Asset
    /\ pc[p] = "stripe" => l.op \in {"authorize", "complete"}
    /\ pc[p] \in UploadPC \cup {"u_reserve"} =>
          l.op = "upload" /\ l.body \in Bodies /\ l.session \in Session
    /\ pc[p] = "a_sign" => l.op = "authorize"
    /\ pc[p] \in VerifyPC => l.op = "complete"
    /\ pc[p] \in VerifyPC \ {"f_head"} => l.body \in Bodies
    /\ pc[p] = "s_open" => l.op = "snapshot"
    /\ pc[p] \in {"d_lock", "d_pick", "d_drop"} => l.op = "delete"
    /\ Removing(p) => l.op \in {"upload", "delete"}

CleanerOK ==
    LET l == loc[Cleaner] IN
    /\ pc[Cleaner] \in CleanerPC \cup RemovalPC
    /\ pc[Cleaner] # "idle" => l.op = "cleanup"
    /\ Removing(Cleaner) => l.ev \in Event /\ l.at \in Asset
    /\ pc[Cleaner] = "r_mark" => l.at \in Asset

LocalsOK == (\A p \in Proc : HandlerOK(p)) /\ CleanerOK

\* Readers and the writer of an event exclude each other; a stripe has one
\* holder; every label holds the locks it needs.
LocksOK ==
    /\ \A e \in Event : writer[e] # None => readers[e] = {}
    /\ \A p \in Actor : Reading(p) => p \in readers[loc[p].ev]
    /\ \A p \in Actor : Writing(p) => writer[loc[p].ev] = p
    /\ \A p \in Actor : Striped(p) => stripes[StripeOf[loc[p].at]] = p

-----------------------------------------------------------------------------
\* What the tables say about a key.
KeyOK(a) ==
    /\ assets[a].status = "unused" =>
          objects[a] = None /\ a \notin parts /\ a \notin urls /\ retired[a] = "none"
    /\ HasRow(a) => assets[a].event \in Event
    /\ HasRow(a) /\ assets[a].backend = "local" => a \notin urls /\ retired[a] = "none"
TablesOK == \A a \in Asset : KeyOK(a)

\* What a goroutine relies on about the row it holds.
RowOK(p) ==
    LET a == loc[p].at  row == assets[a]  b == loc[p].body IN
    /\ HasRow(a) /\ row.event = loc[p].ev
    /\ pc[p] # "rm_read" => row.status = "pending"
    /\ Uploading(p) => row.backend = "local"
    /\ pc[p] \in UploadPC => row.class = ClassOf(b)
    /\ pc[p] = "u_finish" => objects[a] = b /\ Sniff(b)
    /\ Striped(p) => row.backend = "s3"
    /\ pc[p] = "f_commit" => Sniff(b) /\ (objects[a] = b \/ retired[a] # "none")
    /\ pc[p] = "rm_retire" => row.backend = "s3"
    /\ pc[p] \in {"rm_object", "rm_row"} /\ row.backend = "s3" => retired[a] # "none"
    /\ pc[p] = "rm_row" /\ row.backend = "local" => objects[a] = None /\ a \notin parts
WorkOK == \A p \in Actor : Holding(p) => RowOK(p)

\* No two uploads own the same row.
UploadsDisjoint ==
    \A p, q \in Actor : Uploading(p) /\ Uploading(q) /\ p # q => loc[p].at # loc[q].at

\* What is true of whole tables at some labels: the event that is about to be
\* dropped is empty, a snapshot's assets are ready, the keys a pass over
\* s3_cleanup deletes are retired.
EmptiedOK == \A p \in Actor : pc[p] = "d_drop" => OfEvent(assets, loc[p].ev) = {}
SnapshotOK ==
    \A p \in Actor : pc[p] = "s_open" => \A a \in loc[p].list :
        assets[a].status = "ready" /\ assets[a].event = loc[p].ev
PassOK ==
    /\ pc[Cleaner] \in {"r_next", "r_mark"} => \A a \in loc[Cleaner].list : retired[a] # "none"
    /\ pc[Cleaner] = "r_mark" => retired[loc[Cleaner].at] # "none"

IInv ==
    /\ TypeOK /\ LocalsOK /\ LocksOK /\ TablesOK /\ WorkOK /\ UploadsDisjoint
    /\ EmptiedOK /\ SnapshotOK /\ PassOK /\ NothingOrphaned /\ ReadyIsBacked

-----------------------------------------------------------------------------
\* Where DeleteEvent works on an event whose row it has marked.
Deleting(p) == pc[p] \in {"d_pick", "d_drop"} \/ (Removing(p) /\ loc[p].op = "delete")

\* The mark stays, on the row with the public id that the deletion was asked
\* for, as long as the deletion goes on.
MarksOK ==
    /\ \A e \in Event : events[e].deleting => events[e].pub # 0
    /\ \A p \in Proc : pc[p] = "d_lock" => loc[p].pub # 0
    /\ \A p \in Proc : Deleting(p) =>
          events[loc[p].ev].deleting /\ events[loc[p].ev].pub = loc[p].pub

-----------------------------------------------------------------------------
\* What capacity relies on: a row belongs to a session of its own event, ...
SessionsOK ==
    /\ \A s \in Session : sessions[s].state = "unused" => sessions[s].event = None
    /\ \A a \in Asset : HasRow(a) =>
          /\ assets[a].session \in Session
          /\ sessions[assets[a].session].event = assets[a].event

\* ... an upload that is finished has at most the bytes it reserved, and a
\* completion verifies the size and the class that its row still has.
SizesOK(p) ==
    LET l == loc[p]  row == assets[l.at] IN
    /\ pc[p] = "u_finish" => l.body.size <= row.expected
    /\ pc[p] \in VerifyPC => l.size = row.expected /\ l.class = row.class
    /\ pc[p] \in {"f_prefix", "f_commit"} => l.body.size = l.size
    /\ pc[p] = "f_commit" => l.class \in {None, ClassOf(l.body)}

CapacityOK ==
    /\ IsFiniteSet(Live(assets)) /\ SessionsOK
    /\ \A p \in Actor : SizesOK(p)

=============================================================================
