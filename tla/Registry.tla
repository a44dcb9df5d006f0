------------------------------ MODULE Registry ------------------------------
(***************************************************************************)
(* What a process does to the database before it serves: database.migrate, *)
(* storage.Reconcile and immich.Reconcile.  The server and the export CLI  *)
(* may start at the same time, every start with another binary and another *)
(* environment, and each may stop between any two transactions.            *)
(*                                                                         *)
(* Triggers keep the id and the key of a registered backend or target      *)
(* together for ever, so the key stands for both.                          *)
(***************************************************************************)
EXTENDS Integers, Sequences, FiniteSets

CONSTANTS
    Nobody,         \* no backend id (SQL NULL)
    Process,        \* processes on this data directory
    Release,        \* the migrations a binary embeds: sequences of [name, sum]
    Configuration,  \* environments: [s3, active, immich]
    OldHistory,     \* histories of databases from before the registry
    Stored,         \* assets
    LegacyAt,       \* of the Gate 4 assets among them: where they were put
    LocalKey        \* "local-default"

VARIABLES
    history,        \* schema_migrations
    schema,         \* the scripts that were executed on this file, in order
    backends,       \* storage_backends: key -> addressing
    targets,        \* immich_targets: key -> base URL
    home,           \* storage_backend_id of each asset row
    where,          \* external: the place each asset's object was put at
    process         \* of each process: phase, binary, environment, clients

registryVars == <<history, schema, backends, targets, home, where, process>>

\* An address is a place and the style of naming it; the Gate 4 fingerprint
\* (Target) covers endpoint, region, bucket and prefix, not the style.
Fingerprint(address) == address.place
LocalPlace == "uploads"

NotRunning == [phase |-> "down", release |-> <<>>, cfg |-> Nobody, clients |-> {}]

\* A script by its name and its checksum.
MigrationScript == [name : STRING, sum : Nat]

ASSUME RegistryAssumption ==
    /\ DOMAIN LegacyAt \subseteq Stored
    /\ Release \cup OldHistory \subseteq Seq(MigrationScript)
    /\ LocalKey # Nobody
    /\ \A c \in Configuration :
         /\ LocalKey \notin DOMAIN c.s3 /\ Nobody \notin DOMAIN c.s3
         /\ c.active = LocalKey \/ c.active \in DOMAIN c.s3

RegistryInit ==
    /\ history \in OldHistory
    /\ schema = history
    /\ backends = [k \in {} |-> Nobody]
    /\ targets = [k \in {} |-> Nobody]
    /\ home = [a \in Stored |-> Nobody]
    /\ where = [a \in Stored |-> IF a \in DOMAIN LegacyAt THEN LegacyAt[a] ELSE Nobody]
    /\ process = [p \in Process |-> NotRunning]

Phase(p, from, to) ==
    /\ process[p].phase = from
    /\ process' = [process EXCEPT ![p].phase = to]

Launch(p, r, c) ==
    /\ process[p].phase = "down"
    /\ process' = [process EXCEPT ![p] = [NotRunning EXCEPT !.phase = "open", !.release = r, !.cfg = c]]
    /\ UNCHANGED <<history, schema, backends, targets, home, where>>

\* A crash, an orderly stop, or an error that ends the process.
Quit(p) ==
    /\ process[p].phase # "down"
    /\ process' = [process EXCEPT ![p] = NotRunning]
    /\ UNCHANGED <<history, schema, backends, targets, home, where>>

\* Mutant: the checksum of an applied script is not compared.
HistoryMatchesNames(r) ==
    Len(history) <= Len(r) /\ \A v \in DOMAIN history : history[v].name = r[v].name

\* Version by version the same name and checksum, and nothing beyond.
HistoryMatches(r) ==
    Len(history) <= Len(r) /\ \A v \in DOMAIN history : history[v] = r[v]

\* One IMMEDIATE transaction: history is read under the write lock, the rest of
\* the scripts run and are recorded, or a script fails and nothing is kept.
Migrate(p) ==
    LET r == process[p].release IN
    /\ Phase(p, "open", "migrated")
    /\ HistoryMatches(r)
    /\ history' = r
    /\ schema' = schema \o SubSeq(r, Len(history) + 1, Len(r))
    /\ UNCHANGED <<backends, targets, home, where>>

\* Mutant: a key that is registered is taken to be the same destination.
SameDestinationAlways(s3) == TRUE

\* Every configured key that is registered has the persisted addressing.
SameDestination(s3) == \A k \in DOMAIN s3 \cap DOMAIN backends : backends[k] = s3[k]

\* Rows from before the registry, and the configured backends that could be theirs.
Unassociated == {a \in Stored : where[a] # Nobody /\ home[a] = Nobody}
Candidates(s3, a) == {k \in DOMAIN s3 : Fingerprint(s3[k]) = where[a]}

\* Mutant: rows without a candidate are left for later.
AllIdentifiedOrNone(s3) == \A a \in Unassociated : Cardinality(Candidates(s3, a)) <= 1

\* Each legacy target must match exactly one configured backend.
AllIdentified(s3) == \A a \in Unassociated : Cardinality(Candidates(s3, a)) = 1

\* Registration and all associations in one transaction; then every registered
\* backend becomes known to the process, with a client where it is configured.
Reconcile(p) ==
    LET s3 == process[p].cfg.s3 IN
    /\ process[p].phase = "migrated"
    /\ SameDestination(s3) /\ AllIdentified(s3)
    /\ backends' = [k \in DOMAIN backends \cup DOMAIN s3 |->
                      IF k \in DOMAIN backends THEN backends[k] ELSE s3[k]]
    /\ home' = [a \in Stored |->
                  IF a \in Unassociated /\ Candidates(s3, a) # {}
                  THEN CHOOSE k \in Candidates(s3, a) : TRUE ELSE home[a]]
    /\ process' = [process EXCEPT ![p].phase = "stores", ![p].clients = DOMAIN s3]
    /\ UNCHANGED <<history, schema, targets, where>>

\* Every configured target that is registered has the stored URL.
SameServer(wanted) == \A k \in DOMAIN wanted \cap DOMAIN targets : targets[k] = wanted[k]

\* immich.Reconcile, which the export CLI does not call (its environment has none).
ReconcileTargets(p) ==
    LET wanted == process[p].cfg.immich IN
    /\ Phase(p, "stores", "serving")
    /\ SameServer(wanted)
    /\ targets' = [k \in DOMAIN targets \cup DOMAIN wanted |->
                     IF k \in DOMAIN targets THEN targets[k] ELSE wanted[k]]
    /\ UNCHANGED <<history, schema, backends, home, where>>

\* Resolve: local always, an S3 backend when this process has its client.
Resolves(p, k) == k = LocalKey \/ k \in process[p].clients
PlaceOf(p, k) == IF k = LocalKey THEN LocalPlace ELSE process[p].cfg.s3[k].place

\* A new asset goes to the active backend, and its row says so.
Store(p, a) ==
    LET k == process[p].cfg.active IN
    /\ process[p].phase = "serving" /\ where[a] = Nobody
    /\ Resolves(p, k)
    /\ home' = [home EXCEPT ![a] = k]
    /\ where' = [where EXCEPT ![a] = PlaceOf(p, k)]
    /\ UNCHANGED <<history, schema, backends, targets, process>>

RegistryNext ==
    \E p \in Process :
        \/ \E r \in Release, c \in Configuration : Launch(p, r, c)
        \/ Migrate(p) \/ Reconcile(p) \/ ReconcileTargets(p) \/ Quit(p)
        \/ \E a \in Stored : Store(p, a)

RegistrySpec == RegistryInit /\ [][RegistryNext]_registryVars

-----------------------------------------------------------------------------
\* docs/storage-backends.md: "Nothing is silently repointed".  Whatever was
\* configured at each start, a process that serves knows the backend of every
\* asset, one it can reach is the place where the asset was put, and an API key
\* is only ever sent to the server it was given for (the client of a target is
\* built from the stored URL and the key in the environment).
NothingRepointed ==
    \A p \in Process : process[p].phase = "serving" =>
        /\ \A a \in Stored : where[a] # Nobody =>
             /\ home[a] # Nobody
             /\ Resolves(p, home[a]) => PlaceOf(p, home[a]) = where[a]
        /\ \A k \in DOMAIN process[p].cfg.immich : targets[k] = process[p].cfg.immich[k]

\* Every script ran once, in the recorded order, whoever started when; and a
\* process serves only on a schema that begins with exactly its own scripts.
SchemaNeverForks ==
    /\ schema = history
    /\ \A p \in Process : process[p].phase \in {"migrated", "stores", "serving"} =>
         LET r == process[p].release IN Len(r) <= Len(history) /\ SubSeq(history, 1, Len(r)) = r

=============================================================================
