---------------------------- MODULE ServerProofs ----------------------------
(***************************************************************************)
(* Proofs about the parts of the server around the media service that keep *)
(* little state: the end of the process, the admission of guests, the      *)
(* registries at startup, the rate limiter, and whose address it charges.  *)
(***************************************************************************)
EXTENDS Shutdown, Challenge, Registry, Limiter, ClientAddress, NumberLemmas

(* ------------------------- the end of the process --------------------- *)

\* Where main is once Serve has returned, and once the workers are joined.
ServeReturned == {"deferred", "join", "returned", "exit", "gone"}
WorkersJoined == {"returned", "exit", "gone"}

\* What each place of main relies on: only a process that is serving takes new
\* requests; requests outlast Serve only when it reports an error.
ShutdownInv ==
    /\ mainAt \in {"select", "shutdown"} \cup ServeReturned
    /\ listener = "accepting" => mainAt = "select"
    /\ mainAt \in ServeReturned => outcome = "error" \/ handlers = {}
    /\ mainAt \in WorkersJoined => workers = {}
    /\ database = "closed" => mainAt \in {"exit", "gone"}

\* SIGTERM joins the workers before SQLite is closed, and the database is
\* closed under a request only when Serve says that it failed.
THEOREM DatabaseClosedLast == ShutdownSpec => []ClosedAfterUse
<1> USE DEF ShutdownInv, ServeReturned, WorkersJoined
<1>1. ShutdownInit => ShutdownInv
  BY DEF ShutdownInit
<1>2. ShutdownInv /\ [ShutdownNext]_shutdownVars => ShutdownInv'
  <2> SUFFICES ASSUME ShutdownInv, [ShutdownNext]_shutdownVars
               PROVE  ShutdownInv'
    OBVIOUS
  <2>1. CASE MainStep
    BY <2>1 DEF MainStep, ShutdownBegins, Drained, IsDrained, DrainTimeout, StopMaintenance, Join,
                Joined, CloseDatabase, Exit, Move
  <2>2. CASE Signal \/ ListenerFails
    BY <2>2 DEF Signal, ListenerFails, Move
  <2>3. ASSUME NEW h \in Handler, HandlerStarts(h) \/ HandlerEnds(h)
        PROVE  ShutdownInv'
    BY <2>3 DEF HandlerStarts, HandlerEnds
  <2>4. ASSUME NEW w \in Worker, WorkerEnds(w)
        PROVE  ShutdownInv'
    BY <2>4 DEF WorkerEnds
  <2>5. CASE UNCHANGED shutdownVars
    BY <2>5 DEF shutdownVars
  <2> QED
    BY <2>1, <2>2, <2>3, <2>4, <2>5 DEF ShutdownNext
<1>3. ShutdownInv => ClosedAfterUse
  BY DEF ClosedAfterUse
<1> QED
  BY <1>1, <1>2, <1>3, PTL DEF ShutdownSpec

(* ------------------------- the admission of guests -------------------- *)

\* The value a request's token has before it arrives counts as one, too.
AnyToken == WidgetToken \cup ForeignToken \cup {CHOOSE t \in WidgetToken : TRUE}
GuestPC == {"new", "slot", "verify", "verified", "grant", "granted", "refused"}

\* A request that was told "ours" showed a token of the widget that the service
\* has redeemed, and no other request was told so for the same token; only
\* such a request gets a session, for the token it showed.
ChallengeInv ==
    /\ guestPc \in [Guest -> GuestPC] /\ shown \in [Guest -> AnyToken]
    /\ verdict \in [Guest -> Verdict]
    /\ \A g \in Guest : guestPc[g] \in {"new", "slot", "verify"} => verdict[g] = "none"
    /\ \A g \in Guest : verdict[g] = "ours" => shown[g] \in WidgetToken \cap redeemed
    /\ \A g, h \in Guest :
         verdict[g] = "ours" /\ verdict[h] = "ours" /\ g # h => shown[g] # shown[h]
    /\ \A g \in Guest : guestPc[g] \in {"grant", "granted"} => verdict[g] = "ours"
    /\ \A x \in grants : \E g \in Guest : /\ x = [guest |-> g, token |-> shown[g]]
                                          /\ verdict[g] = "ours"

\* A token admits one guest, whatever requests carry it at the same time and
\* whichever answers of the verification service are lost.
THEOREM TokenAdmitsOne == ChallengeSpec => []OneGrantPerToken
<1> USE DEF ChallengeInv, GuestPC, Verdict, At
<1>1. ChallengeInit => ChallengeInv
  BY DEF ChallengeInit, AnyToken
<1>2. ChallengeInv /\ [ChallengeNext]_challengeVars => ChallengeInv'
  <2> SUFFICES ASSUME ChallengeInv, [ChallengeNext]_challengeVars
               PROVE  ChallengeInv'
    OBVIOUS
  <2>1. CASE Closes
    BY <2>1 DEF Closes
  <2>2. ASSUME NEW g \in Guest, NEW t \in WidgetToken \cup ForeignToken, CheckOpen(g, t)
        PROVE  ChallengeInv'
    BY <2>2 DEF CheckOpen, AnyToken
  <2>3. ASSUME NEW g \in Guest, TakeSlot(g) PROVE ChallengeInv'
    BY <2>3 DEF TakeSlot
  <2>4. ASSUME NEW g \in Guest, Redeem(g) PROVE ChallengeInv'
    BY <2>4 DEF Redeem
  <2>5. ASSUME NEW g \in Guest, Judge(g) PROVE ChallengeInv'
    BY <2>5 DEF Judge, Validates
  <2>6. ASSUME NEW g \in Guest, CreateUploadSession(g) PROVE ChallengeInv'
    BY <2>6 DEF CreateUploadSession
  <2>7. CASE UNCHANGED challengeVars
    BY <2>7 DEF challengeVars
  <2> QED
    BY <2>1, <2>2, <2>3, <2>4, <2>5, <2>6, <2>7 DEF ChallengeNext, GuestStep
<1>3. ChallengeInv => OneGrantPerToken
  BY DEF OneGrantPerToken
<1> QED
  BY <1>1, <1>2, <1>3, PTL DEF ChallengeSpec

(* ------------------------ the registries at startup ------------------- *)

\* Every name a configuration has for an S3 backend.
S3Key == UNION {DOMAIN c.s3 : c \in Configuration}
Up == {"open", "migrated", "stores", "serving"}

ProcessRow == [phase : {"down"} \cup Up, release : Release \cup {<<>>},
               cfg : Configuration \cup {Nobody}, clients : SUBSET S3Key]

ProcessOK ==
    /\ process \in [Process -> ProcessRow]
    /\ \A p \in Process : process[p].phase \in Up =>
         process[p].release \in Release /\ process[p].cfg \in Configuration

TablesOK ==
    /\ history \in Seq(MigrationScript) /\ schema \in Seq(MigrationScript)
    /\ home = [a \in Stored |-> home[a]] /\ where = [a \in Stored |-> where[a]]

\* Version by version, r is the beginning of h.
BeginsWith(h, r) == Len(r) <= Len(h) /\ \A v \in 1..Len(r) : h[v] = r[v]

MigratedInv ==
    /\ schema = history
    /\ \A p \in Process : process[p].phase \in Up \ {"open"} =>
         BeginsWith(history, process[p].release)

\* What a process was configured with agrees with what is registered, from its
\* Reconcile on; a row that names a backend was put where that backend is; and
\* once anybody has reconciled, every row names one.
Associated(a) ==
    where[a] # Nobody /\ home[a] # Nobody =>
        \/ home[a] = LocalKey /\ where[a] = LocalPlace
        \/ home[a] \in DOMAIN backends /\ backends[home[a]].place = where[a]

RegisteredInv ==
    /\ LocalKey \notin DOMAIN backends
    /\ \A a \in Stored : Associated(a)
    /\ \A p \in Process : process[p].phase \in {"stores", "serving"} =>
         /\ process[p].clients = DOMAIN process[p].cfg.s3
         /\ \A k \in DOMAIN process[p].cfg.s3 :
              k \in DOMAIN backends /\ backends[k] = process[p].cfg.s3[k]
         /\ \A a \in Stored : where[a] # Nobody => home[a] # Nobody
    /\ \A p \in Process : process[p].phase = "serving" =>
         \A k \in DOMAIN process[p].cfg.immich :
           k \in DOMAIN targets /\ targets[k] = process[p].cfg.immich[k]

RegistryInv == ProcessOK /\ TablesOK /\ MigratedInv /\ RegisteredInv

\* Being the beginning, as SchemaNeverForks states it.
LEMMA BeginsWithSubSeq ==
    ASSUME NEW S, NEW h \in Seq(S), NEW r \in Seq(S), BeginsWith(h, r)
    PROVE  Len(r) <= Len(h) /\ SubSeq(h, 1, Len(r)) = r
BY DEF BeginsWith

\* What migrate appends completes the history to the binary's own list.
LEMMA MigrateCompletes ==
    ASSUME NEW S, NEW h \in Seq(S), NEW r \in Seq(S), BeginsWith(r, h)
    PROVE  h \o SubSeq(r, Len(h) + 1, Len(r)) = r
BY DEF BeginsWith

LEMMA RegistryStart == RegistryInit => RegistryInv
<1> SUFFICES ASSUME RegistryInit PROVE RegistryInv
  OBVIOUS
<1>1. ProcessOK /\ TablesOK
  BY RegistryAssumption DEF RegistryInit, ProcessOK, ProcessRow, TablesOK, NotRunning, Up
<1> QED
  BY <1>1 DEF RegistryInit, RegistryInv, MigratedInv, RegisteredInv, Associated, NotRunning, Up

\* Every step of a process replaces what it remembers and nothing of the others.
LEMMA ProcessReplaced ==
    ASSUME ProcessOK, NEW p \in Process, NEW row \in ProcessRow,
           row.phase \in Up => row.release \in Release /\ row.cfg \in Configuration,
           process' = [process EXCEPT ![p] = row]
    PROVE  /\ ProcessOK'
           /\ process'[p] = row
           /\ \A q \in Process : q # p => process'[q] = process[q]
BY DEF ProcessOK

\* Launch and Quit only replace what one process remembers.
LEMMA ProcessComesAndGoes ==
    ASSUME RegistryInv, NEW p \in Process,
           Quit(p) \/ \E r \in Release, c \in Configuration : Launch(p, r, c)
    PROVE  RegistryInv'
<1>1. UNCHANGED <<history, schema, backends, targets, home, where>>
  BY DEF Quit, Launch
<1>2. PICK row \in ProcessRow :
        /\ process' = [process EXCEPT ![p] = row]
        /\ row.phase \in {"down", "open"}
        /\ row.phase \in Up => row.release \in Release /\ row.cfg \in Configuration
  <2>1. CASE Quit(p)
    <3>1. NotRunning \in ProcessRow /\ NotRunning.phase = "down" /\ "down" \notin Up
      BY DEF NotRunning, ProcessRow, Up
    <3> QED
      BY <2>1, <3>1 DEF Quit
  <2>2. CASE \E r \in Release, c \in Configuration : Launch(p, r, c)
    <3>1. PICK r \in Release, c \in Configuration : Launch(p, r, c)
      BY <2>2
    <3> DEFINE row == [NotRunning EXCEPT !.phase = "open", !.release = r, !.cfg = c]
    <3>2. row \in ProcessRow /\ row.phase = "open" /\ row.release = r /\ row.cfg = c
      BY DEF NotRunning, ProcessRow, Up
    <3>3. process' = [process EXCEPT ![p] = row]
      BY <3>1 DEF Launch
    <3> HIDE DEF row
    <3> QED
      BY <3>2, <3>3
  <2> QED
    BY <2>1, <2>2
<1>3. /\ ProcessOK' /\ process'[p].phase \in {"down", "open"}
      /\ \A q \in Process : q # p => process'[q] = process[q]
  BY <1>2, ProcessReplaced DEF RegistryInv
<1>4. TablesOK'
  BY <1>1 DEF RegistryInv, TablesOK
<1>5. MigratedInv'
  BY <1>1, <1>3 DEF RegistryInv, MigratedInv, BeginsWith, Up
<1>6. RegisteredInv'
  BY <1>1, <1>3 DEF RegistryInv, RegisteredInv, Associated
<1> QED
  BY <1>3, <1>4, <1>5, <1>6 DEF RegistryInv

\* The row of a process that moves from one phase to the next.
LEMMA PhaseMoves ==
    ASSUME ProcessOK, NEW p \in Process, NEW from \in Up, NEW to \in Up, Phase(p, from, to)
    PROVE  /\ ProcessOK'
           /\ process[p].phase = from /\ process'[p].phase = to
           /\ process[p].cfg \in Configuration /\ process[p].release \in Release
           /\ process'[p].release = process[p].release /\ process'[p].cfg = process[p].cfg
           /\ process'[p].clients = process[p].clients
           /\ \A q \in Process : q # p => process'[q] = process[q]
BY DEF ProcessOK, ProcessRow, Phase

LEMMA MigrateKeeps ==
    ASSUME RegistryInv, NEW p \in Process, Migrate(p)
    PROVE  RegistryInv'
<1> DEFINE r == process[p].release
<1>1. /\ ProcessOK' /\ process'[p].phase = "migrated"
      /\ r \in Release /\ process'[p].release = r
      /\ \A q \in Process : q # p => process'[q] = process[q]
  BY PhaseMoves DEF RegistryInv, Migrate, Up
<1>2. r \in Seq(MigrationScript) /\ history \in Seq(MigrationScript)
  BY <1>1, RegistryAssumption DEF RegistryInv, TablesOK
<1>3. BeginsWith(r, history)
  BY <1>2 DEF Migrate, HistoryMatches, BeginsWith
<1>4. history' = r /\ schema' = r
  BY <1>2, <1>3, MigrateCompletes DEF Migrate, RegistryInv, MigratedInv
<1>5. UNCHANGED <<backends, targets, home, where>>
  BY DEF Migrate
<1>6. TablesOK'
  BY <1>2, <1>4, <1>5 DEF RegistryInv, TablesOK
<1>7. ASSUME NEW q \in Process, process'[q].phase \in Up \ {"open"}
      PROVE  BeginsWith(history', process'[q].release)
  <2>1. CASE q = p
    BY <1>1, <1>2, <1>4, <2>1 DEF BeginsWith
  <2>2. CASE q # p
    <3>1. BeginsWith(history, process[q].release) /\ process'[q] = process[q]
      BY <1>1, <1>7, <2>2 DEF RegistryInv, MigratedInv
    <3>2. process[q].release \in Release
      BY <1>7, <3>1 DEF RegistryInv, ProcessOK
    <3>3. process[q].release \in Seq(MigrationScript)
      BY <3>2, RegistryAssumption
    <3> QED
      BY <1>2, <1>3, <1>4, <3>1, <3>3 DEF BeginsWith
  <2> QED
    BY <2>1, <2>2
<1>8. MigratedInv'
  BY <1>4, <1>7 DEF MigratedInv
<1>9. RegisteredInv'
  <2>1. \A q \in Process : process'[q].phase \in {"stores", "serving"} => process'[q] = process[q]
    BY <1>1
  <2> QED
    BY <1>5, <2>1 DEF RegistryInv, RegisteredInv, Associated
<1> QED
  BY <1>1, <1>6, <1>8, <1>9 DEF RegistryInv

\* Registration adds keys and changes none, and a row from before the registry
\* is given the one key whose destination is where it was put.
LEMMA ReconcileKeeps ==
    ASSUME RegistryInv, NEW p \in Process, Reconcile(p)
    PROVE  RegistryInv'
<1> DEFINE s3 == process[p].cfg.s3
<1>1. process[p].cfg \in Configuration /\ DOMAIN s3 \subseteq S3Key
  BY DEF RegistryInv, ProcessOK, Reconcile, Up, S3Key
<1>2. /\ DOMAIN backends' = DOMAIN backends \cup DOMAIN s3
      /\ \A k \in DOMAIN backends : backends'[k] = backends[k]
      /\ \A k \in DOMAIN s3 : backends'[k] = s3[k]
  BY DEF Reconcile, SameDestination
<1>3. UNCHANGED <<history, schema, targets, where>>
  BY DEF Reconcile
<1>4. /\ ProcessOK' /\ process'[p].phase = "stores" /\ process'[p].clients = DOMAIN s3
      /\ process'[p].cfg = process[p].cfg /\ process'[p].release = process[p].release
      /\ \A q \in Process : q # p => process'[q] = process[q]
  <2> DEFINE row == [process[p] EXCEPT !.phase = "stores", !.clients = DOMAIN s3]
  <2>1. /\ row \in ProcessRow /\ row.phase = "stores" /\ row.clients = DOMAIN s3
        /\ row.cfg = process[p].cfg /\ row.release = process[p].release
    BY <1>1 DEF RegistryInv, ProcessOK, ProcessRow, Up
  <2>2. process' = [process EXCEPT ![p] = row] /\ process[p].phase = "migrated"
    BY DEF Reconcile, RegistryInv, ProcessOK
  <2>3. row.release \in Release /\ row.cfg \in Configuration
    BY <2>1, <2>2 DEF RegistryInv, ProcessOK, Up
  <2> HIDE DEF row
  <2> QED
    BY <2>1, <2>2, <2>3, ProcessReplaced DEF RegistryInv
<1>5. TablesOK'
  BY <1>3 DEF RegistryInv, TablesOK, Reconcile
<1>6. MigratedInv'
  <2>1. process[p].phase = "migrated"
    BY DEF Reconcile
  <2>2. ASSUME NEW q \in Process, process'[q].phase \in Up \ {"open"}
        PROVE  process[q].phase \in Up \ {"open"} /\ process'[q].release = process[q].release
    BY <1>4, <2>1, <2>2 DEF Up
  <2> QED
    BY <1>3, <2>2 DEF RegistryInv, MigratedInv
<1>7. ASSUME NEW a \in Stored, a \in Unassociated
      PROVE  /\ home'[a] \in DOMAIN s3 /\ backends'[home'[a]].place = where[a]
             /\ home'[a] # Nobody
  <2>1. Cardinality(Candidates(s3, a)) = 1
    BY <1>7 DEF Reconcile, AllIdentified
  <2>2. Candidates(s3, a) # {}
    BY <2>1, FS_EmptySet
  <2>3. home'[a] \in Candidates(s3, a)
    BY <1>7, <2>2 DEF Reconcile
  <2> QED
    BY <1>1, <1>2, <2>3, RegistryAssumption DEF Candidates, Fingerprint
<1>8. \A a \in Stored : a \notin Unassociated => home'[a] = home[a]
  BY DEF Reconcile
<1>9. \A a \in Stored : Associated(a)' /\ (where[a] # Nobody => home'[a] # Nobody)
  BY <1>1, <1>2, <1>3, <1>7, <1>8, RegistryAssumption
  DEF RegistryInv, RegisteredInv, Associated, Unassociated
<1>10. RegisteredInv'
  <2>1. LocalKey \notin DOMAIN backends'
    BY <1>1, <1>2, RegistryAssumption DEF RegistryInv, RegisteredInv
  <2>2. ASSUME NEW q \in Process, process'[q].phase \in {"stores", "serving"}
        PROVE  /\ process'[q].clients = DOMAIN process'[q].cfg.s3
               /\ \A k \in DOMAIN process'[q].cfg.s3 :
                    k \in DOMAIN backends' /\ backends'[k] = process'[q].cfg.s3[k]
    BY <1>2, <1>4, <2>2 DEF RegistryInv, RegisteredInv
  <2>3. ASSUME NEW q \in Process, process'[q].phase = "serving"
        PROVE  process'[q] = process[q]
    BY <1>4, <2>3
  <2> QED
    BY <1>3, <1>9, <2>1, <2>2, <2>3 DEF RegistryInv, RegisteredInv
<1> QED
  BY <1>4, <1>5, <1>6, <1>10 DEF RegistryInv

LEMMA ReconcileTargetsKeeps ==
    ASSUME RegistryInv, NEW p \in Process, ReconcileTargets(p)
    PROVE  RegistryInv'
<1> DEFINE wanted == process[p].cfg.immich
<1>1. /\ DOMAIN targets' = DOMAIN targets \cup DOMAIN wanted
      /\ \A k \in DOMAIN targets : targets'[k] = targets[k]
      /\ \A k \in DOMAIN wanted : targets'[k] = wanted[k]
  BY DEF ReconcileTargets, SameServer
<1>2. UNCHANGED <<history, schema, backends, home, where>>
  BY DEF ReconcileTargets
<1>3. /\ ProcessOK' /\ process[p].phase = "stores" /\ process'[p].phase = "serving"
      /\ process'[p].cfg = process[p].cfg /\ process'[p].clients = process[p].clients
      /\ process'[p].release = process[p].release
      /\ \A q \in Process : q # p => process'[q] = process[q]
  BY PhaseMoves DEF RegistryInv, ReconcileTargets, Up
<1>4. TablesOK'
  BY <1>2 DEF RegistryInv, TablesOK
<1>5. MigratedInv'
  BY <1>2, <1>3 DEF RegistryInv, MigratedInv, BeginsWith, Up
<1>6. RegisteredInv'
  <2>1. ASSUME NEW q \in Process, process'[q].phase \in {"stores", "serving"}
        PROVE  /\ process[q].phase \in {"stores", "serving"}
               /\ process'[q].cfg = process[q].cfg /\ process'[q].clients = process[q].clients
    BY <1>3, <2>1
  <2>2. ASSUME NEW q \in Process, process'[q].phase = "serving",
               NEW k \in DOMAIN process'[q].cfg.immich
        PROVE  k \in DOMAIN targets' /\ targets'[k] = process'[q].cfg.immich[k]
    BY <1>1, <1>3, <2>2 DEF RegistryInv, RegisteredInv
  <2> QED
    BY <1>2, <2>1, <2>2 DEF RegistryInv, RegisteredInv, Associated
<1> QED
  BY <1>3, <1>4, <1>5, <1>6 DEF RegistryInv

LEMMA StoreKeeps ==
    ASSUME RegistryInv, NEW p \in Process, NEW a \in Stored, Store(p, a)
    PROVE  RegistryInv'
<1> DEFINE k == process[p].cfg.active
<1>1. UNCHANGED <<history, schema, backends, targets, process>>
  BY DEF Store
<1>2. /\ home'[a] = k /\ where'[a] = PlaceOf(p, k)
      /\ \A b \in Stored : b # a => home'[b] = home[b] /\ where'[b] = where[b]
      /\ home' = [b \in Stored |-> home'[b]] /\ where' = [b \in Stored |-> where'[b]]
  BY DEF Store, RegistryInv, TablesOK
<1>3. process[p].cfg \in Configuration
  BY DEF Store, RegistryInv, ProcessOK, Up
<1>4. k # Nobody /\ (k = LocalKey \/ k \in DOMAIN process[p].cfg.s3)
  BY <1>3, RegistryAssumption
<1>5. Associated(a)'
  <2>1. CASE k = LocalKey
    BY <1>2, <2>1 DEF Associated, PlaceOf
  <2>2. CASE k # LocalKey
    <3>1. process[p].phase = "serving"
      BY DEF Store
    <3>2. k \in DOMAIN backends /\ backends[k] = process[p].cfg.s3[k]
      BY <1>4, <2>2, <3>1 DEF RegistryInv, RegisteredInv
    <3> QED
      BY <1>1, <1>2, <2>2, <3>2 DEF Associated, PlaceOf
  <2> QED
    BY <2>1, <2>2
<1>6. ProcessOK' /\ TablesOK' /\ MigratedInv'
  BY <1>1, <1>2 DEF RegistryInv, ProcessOK, TablesOK, MigratedInv
<1>7. RegisteredInv'
  BY <1>1, <1>2, <1>4, <1>5 DEF RegistryInv, RegisteredInv, Associated
<1> QED
  BY <1>6, <1>7 DEF RegistryInv

\* The invariant of the registries: migrations, backends and targets agree with
\* every process that has got past them, however starts and stops interleave.
THEOREM RegistryInvariant == RegistrySpec => []RegistryInv
<1>1. RegistryInv /\ [RegistryNext]_registryVars => RegistryInv'
  <2> SUFFICES ASSUME RegistryInv, [RegistryNext]_registryVars PROVE RegistryInv'
    OBVIOUS
  <2>1. CASE UNCHANGED registryVars
    BY <2>1 DEF registryVars, RegistryInv, ProcessOK, TablesOK, MigratedInv, RegisteredInv,
                Associated
  <2> QED
    BY <2>1, ProcessComesAndGoes, MigrateKeeps, ReconcileKeeps, ReconcileTargetsKeeps, StoreKeeps
    DEF RegistryNext
<1> QED
  BY <1>1, RegistryStart, PTL DEF RegistrySpec

\* Every script ran once and in the recorded order, and a process works only on
\* a schema that begins with its own scripts.
THEOREM SchemaForksNever == RegistrySpec => []SchemaNeverForks
<1>1. RegistryInv => SchemaNeverForks
  <2> SUFFICES ASSUME RegistryInv, NEW p \in Process, process[p].phase \in Up \ {"open"}
               PROVE  LET r == process[p].release
                      IN  Len(r) <= Len(history) /\ SubSeq(history, 1, Len(r)) = r
    BY DEF SchemaNeverForks, RegistryInv, MigratedInv, Up
  <2>1. process[p].release \in Seq(MigrationScript) /\ history \in Seq(MigrationScript)
    BY RegistryAssumption DEF RegistryInv, ProcessOK, TablesOK, Up
  <2> QED
    BY <2>1, BeginsWithSubSeq DEF RegistryInv, MigratedInv
<1> QED
  BY <1>1, RegistryInvariant, PTL

\* Nothing is silently repointed, whatever was configured at each start.
THEOREM NeverRepointed == RegistrySpec => []NothingRepointed
<1>1. RegistryInv => NothingRepointed
  BY DEF RegistryInv, RegisteredInv, Associated, NothingRepointed, Resolves, PlaceOf
<1> QED
  BY <1>1, RegistryInvariant, PTL

(* ---------------------------- the rate limiter ------------------------ *)

\* Facts about products and the rounded quotient that the solver needs.
LEMMA ProductMonotone ==
    ASSUME NEW a \in Nat, NEW b \in Nat, NEW r \in Nat, a <= b
    PROVE  a * r <= b * r /\ a * r \in Nat /\ b * r \in Nat
OBVIOUS

LEMMA ProductSuccessor ==
    ASSUME NEW a \in Nat, NEW r \in Nat
    PROVE  (a + 1) * r = a * r + r /\ a * r \in Nat
OBVIOUS

LEMMA QuotientRoundedUp ==
    ASSUME NEW n \in Nat \ {0}, NEW r \in Nat \ {0}
    PROVE  LET w == (n + r - 1) \div r IN
           w \in Nat /\ w >= 1 /\ w * r >= n /\ (w - 1) * r < n /\ w <= n
<1> DEFINE w == (n + r - 1) \div r
<1>1. w \in Int /\ w * r <= n + r - 1 /\ n + r - 1 < (w + 1) * r
  OBVIOUS
<1> HIDE DEF w
<1>2. (w + 1) * r = w * r + r /\ (w - 1) * r = w * r - r /\ w * r \in Int
  BY <1>1
<1>3. w * r >= n /\ (w - 1) * r < n
  BY <1>1, <1>2
<1>4. w >= 1
  BY <1>1, <1>3
<1>5. w <= n
  BY <1>1, <1>3, <1>4
<1> QED
  BY <1>1, <1>3, <1>4, <1>5 DEF w

\* What a bucket holds, and that a minute without use fills it.
LEMMA ContentsBounds ==
    ASSUME NEW k \in Key, NEW b \in Bucket
    PROVE  /\ LimiterFull(k) \in Nat /\ LimiterFull(k) >= Minute
           /\ Contents(k, b) \in Nat /\ Contents(k, b) <= LimiterFull(k)
           /\ b.age = 0 /\ b.units <= LimiterFull(k) => Contents(k, b) = b.units
           /\ b.age >= Minute => Contents(k, b) = LimiterFull(k)
<1>1. /\ Rate[k] \in Nat /\ Rate[k] >= 1 /\ Minute \in Nat /\ b.units \in Nat /\ b.age \in Nat
  BY LimiterAssumption DEF Bucket, Recent
<1>2. /\ Rate[k] * Minute \in Nat /\ b.age * Rate[k] \in Nat
      /\ Rate[k] * Minute = Minute * Rate[k] /\ Minute * 1 <= Minute * Rate[k]
  BY <1>1
<1>3. b.age >= Minute => b.age * Rate[k] >= Minute * Rate[k]
  BY <1>1, ProductMonotone
<1>4. b.age = 0 => b.age * Rate[k] = 0
  BY <1>1
<1> DEFINE full == LimiterFull(k)
           credit == b.age * Rate[k]
<1>5. /\ full \in Nat /\ credit \in Nat /\ full >= Minute
      /\ Contents(k, b) = IF full < b.units + credit THEN full ELSE b.units + credit
      /\ b.age = 0 => credit = 0
      /\ b.age >= Minute => credit >= full
  BY <1>1, <1>2, <1>3, <1>4 DEF Contents, LimiterFull, LimiterMin
<1> HIDE DEF full, credit
<1>6. /\ Contents(k, b) \in Nat /\ Contents(k, b) <= full
      /\ b.age = 0 /\ b.units <= full => Contents(k, b) = b.units
      /\ b.age >= Minute => Contents(k, b) = full
  BY <1>1, <1>5
<1> QED
  BY <1>5, <1>6 DEF full

\* Counting a tick as age is the same as adding a tick's tokens at once.
LEMMA ContentsTick ==
    ASSUME NEW k \in Key, NEW b \in Bucket
    PROVE  LET older == [b EXCEPT !.age = LimiterMin(@ + 1, Recent)] IN
           /\ older \in Bucket
           /\ Contents(k, older) = Reference!Refilled(k, Contents(k, b))
<1> DEFINE older == [b EXCEPT !.age = LimiterMin(@ + 1, Recent)]
<1>1. /\ Rate[k] \in Nat /\ Rate[k] >= 1 /\ Minute \in Nat /\ b.units \in Nat /\ b.age \in Nat
      /\ Recent \in Nat /\ Recent >= Minute /\ b.age <= Recent
  BY LimiterAssumption DEF Bucket, Recent
<1>2. /\ older \in Bucket /\ older.units = b.units
      /\ older.age = IF b.age < Recent THEN b.age + 1 ELSE b.age
  BY <1>1 DEF Bucket, LimiterMin
<1> HIDE DEF older
<1>3. /\ LimiterFull(k) \in Nat /\ Contents(k, b) \in Nat /\ Contents(k, b) <= LimiterFull(k)
      /\ b.age >= Minute => Contents(k, b) = LimiterFull(k)
      /\ older.age >= Minute => Contents(k, older) = LimiterFull(k)
  BY <1>2, ContentsBounds
<1> DEFINE full == LimiterFull(k)
           refilled == Reference!Refilled(k, Contents(k, b))
<1>4. refilled = IF Contents(k, b) + Rate[k] > full THEN full ELSE Contents(k, b) + Rate[k]
  BY DEF Reference!Refilled, Reference!Full, LimiterFull
<1> HIDE DEF refilled
<1>5. ASSUME b.age >= Recent PROVE Contents(k, older) = refilled
  <2>1. b.age >= Minute /\ older.age >= Minute
    BY <1>1, <1>2, <1>5
  <2> QED
    BY <1>1, <1>3, <1>4, <2>1
<1>6. ASSUME b.age < Recent PROVE Contents(k, older) = refilled
  <2> DEFINE credit == b.age * Rate[k]
  <2>1. older.age * Rate[k] = credit + Rate[k] /\ credit \in Nat
    BY <1>1, <1>2, <1>6, ProductSuccessor
  <2>2. /\ Contents(k, b) = IF full < b.units + credit THEN full ELSE b.units + credit
        /\ Contents(k, older) = IF full < b.units + (credit + Rate[k])
                                THEN full ELSE b.units + (credit + Rate[k])
    BY <1>2, <2>1 DEF Contents, LimiterMin
  <2> HIDE DEF credit, full
  <2>3. full \in Nat
    BY <1>3 DEF full
  <2> QED
    BY <1>1, <1>4, <2>1, <2>2, <2>3
<1> QED
  BY <1>1, <1>2, <1>5, <1>6 DEF older, refilled

\* The Retry-After of a refusal is the first tick at which the token is there.
LEMMA RetryAfterExact ==
    ASSUME NEW k \in Key, NEW units \in Nat, units < Minute
    PROVE  LET wait == RetryAfter(k, units) IN
           /\ wait \in 1..Minute
           /\ units + wait * Rate[k] >= Minute
           /\ units + (wait - 1) * Rate[k] < Minute
<1> DEFINE n == Minute - units
           w == (n + Rate[k] - 1) \div Rate[k]
<1>1. Rate[k] \in Nat \ {0} /\ Minute \in Nat /\ n \in Nat \ {0} /\ n <= Minute
  BY LimiterAssumption
<1> HIDE DEF n
<1>2. /\ w \in Nat /\ w >= 1 /\ w * Rate[k] >= n /\ (w - 1) * Rate[k] < n /\ w <= n
  BY <1>1, QuotientRoundedUp
<1>3. RetryAfter(k, units) = w
  BY <1>1, <1>2 DEF RetryAfter, LimiterMax, n
<1> HIDE DEF w
<1>4. w * Rate[k] \in Int /\ (w - 1) * Rate[k] \in Int
  BY <1>1, <1>2
<1> QED
  BY <1>1, <1>2, <1>3, <1>4 DEF n

\* An entry is never older than the last sweep allows; an answer "full" was
\* given over a table of recently used keys, and stays the last word until the
\* clock moves or somebody asks again.
LimiterInv ==
    /\ DOMAIN entries \subseteq Key /\ \A k \in DOMAIN entries : entries[k] \in Bucket
    /\ sinceSweep \in 0..Minute
    /\ asking \in [Caller -> Seq(Key)]
    /\ said \in [key : Key, says : {"nothing", "yes", "no", "full"}, retry : Int]
    /\ sinceSweep < Minute => \A k \in DOMAIN entries : entries[k].age < Idle + sinceSweep
    /\ said.says = "full" =>
         /\ said.key \notin DOMAIN entries /\ Cardinality(DOMAIN entries) >= Capacity
         /\ \A k \in DOMAIN entries : entries[k].age < Recent

LEMMA LimiterStart == LimiterInit => LimiterInv
BY LimiterAssumption DEF LimiterInit, LimiterInv

\* What is left of the table after the sweep of a call.
Remaining == [j \in DOMAIN entries \ Swept |-> entries[j]]

LEMMA SweepFacts ==
    ASSUME LimiterInv
    PROVE  /\ DOMAIN Remaining \subseteq DOMAIN entries
           /\ \A j \in DOMAIN Remaining : Remaining[j] = entries[j] /\ Remaining[j] \in Bucket
           /\ \A j \in DOMAIN entries : j \notin DOMAIN Remaining => entries[j].age >= Minute
           /\ \A j \in DOMAIN Remaining :
                entries[j].age < Idle + (IF sinceSweep >= Minute THEN 0 ELSE sinceSweep)
<1>1. DOMAIN Remaining = DOMAIN entries \ Swept
  BY DEF Remaining
<1>2. \A j \in DOMAIN entries : entries[j] \in Bucket /\ entries[j].age \in Nat
  BY LimiterAssumption DEF LimiterInv, Bucket, Recent
<1> QED
  BY <1>1, <1>2, LimiterAssumption DEF Remaining, Swept, LimiterInv, Recent

\* The bucket of a key as the reference keeps it, and the table with one entry
\* written by a call.
LevelOf(k) == IF k \in DOMAIN entries THEN Contents(k, entries[k]) ELSE LimiterFull(k)
Written(k, units) ==
    [j \in DOMAIN Remaining \cup {k} |->
        IF j = k THEN [units |-> units, age |-> 0] ELSE Remaining[j]]

LEMMA LevelBounds ==
    ASSUME LimiterInv, NEW k \in Key
    PROVE  LevelOf(k) \in Nat /\ LevelOf(k) <= LimiterFull(k) /\ LimiterFull(k) \in Nat
<1>1. LimiterFull(k) \in Nat
  BY LimiterAssumption DEF LimiterFull
<1> QED
  BY <1>1, ContentsBounds DEF LevelOf, LimiterInv

\* The three ways a call ends, in terms of the level the key has.
LEMMA AllowEnds ==
    ASSUME LimiterInv, NEW k \in Key, Allow(k)
    PROVE  /\ sinceSweep' = IF sinceSweep >= Minute THEN 0 ELSE sinceSweep
           /\ \/ /\ k \notin DOMAIN Remaining /\ Cardinality(DOMAIN Remaining) >= Capacity
                 /\ LevelOf(k) = LimiterFull(k)
                 /\ entries' = Remaining /\ said' = [key |-> k, says |-> "full", retry |-> Minute]
              \/ /\ LevelOf(k) >= Minute /\ entries' = Written(k, LevelOf(k) - Minute)
                 /\ said' = [key |-> k, says |-> "yes", retry |-> 0]
              \/ /\ LevelOf(k) < Minute /\ entries' = Written(k, LevelOf(k))
                 /\ said' = [key |-> k, says |-> "no", retry |-> RetryAfter(k, LevelOf(k))]
<1> DEFINE known == k \in DOMAIN Remaining
           units == IF known THEN Contents(k, Remaining[k]) ELSE LimiterFull(k)
<1>1. k \notin DOMAIN Remaining => LevelOf(k) = LimiterFull(k)
  BY SweepFacts, ContentsBounds DEF LevelOf, LimiterInv
<1>2. LevelOf(k) = units
  BY <1>1, SweepFacts DEF LevelOf
<1>3. /\ sinceSweep' = IF sinceSweep >= Minute THEN 0 ELSE sinceSweep
      /\ \/ /\ ~known /\ Cardinality(DOMAIN Remaining) >= Capacity /\ entries' = Remaining
            /\ said' = [key |-> k, says |-> "full", retry |-> Minute]
         \/ /\ units >= Minute /\ entries' = Written(k, units - Minute)
            /\ said' = [key |-> k, says |-> "yes", retry |-> 0]
         \/ /\ units < Minute /\ entries' = Written(k, units)
            /\ said' = [key |-> k, says |-> "no", retry |-> RetryAfter(k, units)]
  BY Zenon DEF Allow, Remaining, Written
<1> HIDE DEF units
<1> QED
  BY <1>1, <1>2, <1>3

\* The table after a call: entries are buckets, and as recent as the sweep says.
LEMMA WrittenFacts ==
    ASSUME LimiterInv, NEW k \in Key, NEW u \in Nat
    PROVE  /\ DOMAIN Written(k, u) = DOMAIN Remaining \cup {k}
           /\ Written(k, u)[k] = [units |-> u, age |-> 0]
           /\ \A j \in DOMAIN Remaining : j # k => Written(k, u)[j] = entries[j]
           /\ \A j \in DOMAIN Written(k, u) : Written(k, u)[j] \in Bucket
           /\ \A j \in DOMAIN Written(k, u) :
                Written(k, u)[j].age < Idle + (IF sinceSweep >= Minute THEN 0 ELSE sinceSweep)
<1>1. [units |-> u, age |-> 0] \in Bucket
  BY LimiterAssumption DEF Bucket, Recent
<1>2. /\ DOMAIN Written(k, u) = DOMAIN Remaining \cup {k}
      /\ Written(k, u)[k] = [units |-> u, age |-> 0]
      /\ \A j \in DOMAIN Remaining : j # k => Written(k, u)[j] = Remaining[j]
  BY DEF Written
<1> QED
  BY <1>1, <1>2, SweepFacts, LimiterAssumption DEF LimiterInv

LEMMA AllowKeeps ==
    ASSUME LimiterInv, NEW k \in Key, Allow(k), asking' \in [Caller -> Seq(Key)]
    PROVE  LimiterInv'
<1>1. /\ sinceSweep' \in 0..Minute /\ sinceSweep' < Minute
      /\ sinceSweep' = IF sinceSweep >= Minute THEN 0 ELSE sinceSweep
  BY AllowEnds, LimiterAssumption DEF LimiterInv
<1>2. CASE /\ k \notin DOMAIN Remaining /\ Cardinality(DOMAIN Remaining) >= Capacity
           /\ entries' = Remaining /\ said' = [key |-> k, says |-> "full", retry |-> Minute]
  <2>1. \A j \in DOMAIN Remaining : Remaining[j] \in Bucket /\ Remaining[j].age < Idle + sinceSweep'
    BY <1>1, SweepFacts
  <2>2. \A j \in DOMAIN Remaining : Remaining[j].age < Recent
    BY <1>1, <2>1, LimiterAssumption DEF Bucket, Recent
  <2> QED
    BY <1>1, <1>2, <2>1, <2>2, SweepFacts, LimiterAssumption DEF LimiterInv
<1>3. ASSUME NEW u \in Nat, entries' = Written(k, u), NEW says \in {"yes", "no"}, NEW retry \in Int,
             said' = [key |-> k, says |-> says, retry |-> retry]
      PROVE  LimiterInv'
  <2>1. said' \in [key : Key, says : {"nothing", "yes", "no", "full"}, retry : Int]
        /\ said'.says # "full"
    BY <1>3
  <2>2. /\ DOMAIN entries' \subseteq Key /\ \A j \in DOMAIN entries' : entries'[j] \in Bucket
        /\ \A j \in DOMAIN entries' : entries'[j].age < Idle + sinceSweep'
    <3>1. DOMAIN Remaining \cup {k} \subseteq Key
      BY SweepFacts DEF LimiterInv
    <3>2. /\ DOMAIN Written(k, u) = DOMAIN Remaining \cup {k}
          /\ \A j \in DOMAIN Written(k, u) : Written(k, u)[j] \in Bucket
          /\ \A j \in DOMAIN Written(k, u) : Written(k, u)[j].age < Idle + sinceSweep'
      BY <1>1, <1>3, WrittenFacts
    <3> QED
      BY <1>3, <3>1, <3>2
  <2> QED
    BY <1>1, <2>1, <2>2 DEF LimiterInv
<1>4. CASE /\ LevelOf(k) >= Minute /\ entries' = Written(k, LevelOf(k) - Minute)
           /\ said' = [key |-> k, says |-> "yes", retry |-> 0]
  <2>1. LevelOf(k) - Minute \in Nat
    BY <1>4, LevelBounds, LimiterAssumption
  <2> QED
    BY <1>3, <1>4, <2>1
<1>5. CASE /\ LevelOf(k) < Minute /\ entries' = Written(k, LevelOf(k))
           /\ said' = [key |-> k, says |-> "no", retry |-> RetryAfter(k, LevelOf(k))]
  <2>1. LevelOf(k) \in Nat /\ RetryAfter(k, LevelOf(k)) \in Int
    BY <1>5, LevelBounds, RetryAfterExact, LimiterAssumption
  <2> QED
    BY <1>3, <1>5, <2>1
<1> QED
  BY <1>2, <1>4, <1>5, AllowEnds

LEMMA LimiterStep == LimiterInv /\ [LimiterNext]_limiterVars => LimiterInv'
<1> SUFFICES ASSUME LimiterInv, [LimiterNext]_limiterVars PROVE LimiterInv'
  OBVIOUS
<1>1. CASE Tick
  <2>1. /\ DOMAIN entries' = DOMAIN entries
        /\ \A k \in DOMAIN entries : entries'[k] = [entries[k] EXCEPT !.age = LimiterMin(@ + 1, Recent)]
    BY <1>1 DEF Tick
  <2>2. \A k \in DOMAIN entries : entries'[k] \in Bucket /\ entries'[k].age <= entries[k].age + 1
    <3> SUFFICES ASSUME NEW k \in DOMAIN entries
                 PROVE  entries'[k] \in Bucket /\ entries'[k].age <= entries[k].age + 1
      OBVIOUS
    <3>1. k \in Key /\ entries[k] \in Bucket
      BY DEF LimiterInv
    <3>2. entries'[k] \in Bucket
      BY <2>1, <3>1, ContentsTick
    <3>3. entries[k].age \in Nat /\ Recent \in Nat
      BY <3>1, LimiterAssumption DEF Bucket, Recent
    <3>4. entries'[k].age = LimiterMin(entries[k].age + 1, Recent)
      BY <2>1, <3>1 DEF Bucket
    <3> QED
      BY <3>2, <3>3, <3>4 DEF LimiterMin
  <2>3. /\ sinceSweep' \in 0..Minute
        /\ sinceSweep' < Minute => sinceSweep' = sinceSweep + 1
    BY <1>1, LimiterAssumption DEF Tick, LimiterInv, LimiterMin
  <2>4. said' \in [key : Key, says : {"nothing", "yes", "no", "full"}, retry : Int]
        /\ said'.says = "nothing" /\ asking' = asking
    <3>1. said \in [key : Key, says : {"nothing", "yes", "no", "full"}, retry : Int]
      BY DEF LimiterInv
    <3>2. said' = [said EXCEPT !.says = "nothing", !.retry = 0] /\ asking' = asking
      BY <1>1 DEF Tick
    <3>3. said' = [key |-> said.key, says |-> "nothing", retry |-> 0] /\ said.key \in Key
      BY <3>1, <3>2
    <3> QED
      BY <3>2, <3>3
  <2>5. sinceSweep' < Minute => \A k \in DOMAIN entries' : entries'[k].age < Idle + sinceSweep'
    BY <2>1, <2>2, <2>3, LimiterAssumption DEF LimiterInv, Bucket, Recent
  <2> QED
    BY <2>1, <2>2, <2>3, <2>4, <2>5 DEF LimiterInv
<1>2. ASSUME NEW c \in Caller, Ask(c) PROVE LimiterInv'
  <2>1. asking[c] \in Seq(Key) /\ asking[c] # <<>> /\ asking[c][1] \in Key
    BY <1>2 DEF Ask, LimiterInv
  <2>2. asking' \in [Caller -> Seq(Key)]
    BY <1>2, <2>1 DEF Ask, LimiterInv
  <2> QED
    BY <1>2, <2>1, <2>2, AllowKeeps DEF Ask
<1>3. ASSUME NEW c \in Caller, NEW own \in Key,
             Arrive(c, own, <<GlobalKey, own>>) \/ Arrive(c, own, <<own, GlobalKey>>)
      PROVE  LimiterInv'
  <2>1. asking' \in [Caller -> Seq(Key)] /\ UNCHANGED <<entries, sinceSweep, said>>
    <3>1. <<GlobalKey, own>> \in Seq(Key) /\ <<own, GlobalKey>> \in Seq(Key)
      BY <1>3, LimiterAssumption
    <3>2. asking \in [Caller -> Seq(Key)]
      BY DEF LimiterInv
    <3> QED
      BY <1>3, <3>1, <3>2 DEF Arrive
  <2> QED
    BY <2>1 DEF LimiterInv
<1>4. CASE UNCHANGED limiterVars
  BY <1>4 DEF limiterVars, LimiterInv
<1> QED
  BY <1>1, <1>2, <1>3, <1>4 DEF LimiterNext

THEOREM LimiterInvariant == LimiterSpec => []LimiterInv
BY LimiterStart, LimiterStep, PTL DEF LimiterSpec

\* A key is turned away for want of room only while Capacity other keys were
\* used within the last Idle + Minute.
THEOREM NewKeysHaveRoom == LimiterSpec => []RoomForNewKeys
<1>1. LimiterInv => RoomForNewKeys
  <2> SUFFICES ASSUME LimiterInv, said.says = "full"
               PROVE  Cardinality({k \in DOMAIN entries \ {said.key} : entries[k].age < Recent}) >= Capacity
    BY DEF RoomForNewKeys
  <2>1. {k \in DOMAIN entries \ {said.key} : entries[k].age < Recent} = DOMAIN entries
    BY DEF LimiterInv
  <2> QED
    BY <2>1 DEF LimiterInv
<1> QED
  BY <1>1, LimiterInvariant, PTL

\* The levels of the reference after a call that wrote u for k: the entries the
\* sweep removed are those of full buckets, so only k's level moves.
LEMMA LevelsWritten ==
    ASSUME LimiterInv, NEW k \in Key, NEW u \in Nat, u <= LimiterFull(k),
           entries' = Written(k, u)
    PROVE  \A j \in Key : LevelOf(j)' = IF j = k THEN u ELSE LevelOf(j)
<1> SUFFICES ASSUME NEW j \in Key PROVE LevelOf(j)' = IF j = k THEN u ELSE LevelOf(j)
  OBVIOUS
<1>1. CASE j = k
  <2>1. k \in DOMAIN entries' /\ entries'[k] = [units |-> u, age |-> 0] /\ entries'[k] \in Bucket
    BY WrittenFacts
  <2>2. Contents(k, entries'[k]) = u
    BY <2>1, ContentsBounds
  <2> QED
    BY <1>1, <2>1, <2>2 DEF LevelOf
<1>2. CASE j # k /\ j \in DOMAIN Remaining
  <2>1. j \in DOMAIN entries' /\ j \in DOMAIN entries /\ entries'[j] = entries[j]
    BY <1>2, WrittenFacts, SweepFacts
  <2> QED
    BY <1>2, <2>1 DEF LevelOf
<1>3. CASE j # k /\ j \notin DOMAIN Remaining
  <2>1. j \notin DOMAIN entries'
    <3>1. DOMAIN Written(k, u) = DOMAIN Remaining \cup {k}
      BY WrittenFacts
    <3> QED
      BY <1>3, <3>1
  <2>2. LevelOf(j) = LimiterFull(j)
    BY <1>3, SweepFacts, ContentsBounds DEF LevelOf, LimiterInv
  <2> QED
    BY <1>3, <2>1, <2>2 DEF LevelOf
<1> QED
  BY <1>1, <1>2, <1>3

\* The same for a call that only swept.
LEMMA LevelsSwept ==
    ASSUME LimiterInv, entries' = Remaining
    PROVE  \A j \in Key : LevelOf(j)' = LevelOf(j)
<1> SUFFICES ASSUME NEW j \in Key PROVE LevelOf(j)' = LevelOf(j)
  OBVIOUS
<1>1. CASE j \in DOMAIN Remaining
  BY <1>1, SweepFacts DEF LevelOf
<1>2. CASE j \notin DOMAIN Remaining
  <2>1. LevelOf(j) = LimiterFull(j)
    BY <1>2, SweepFacts, ContentsBounds DEF LevelOf, LimiterInv
  <2> QED
    BY <1>2, <2>1 DEF LevelOf
<1> QED
  BY <1>1, <1>2

\* The level of the refinement mapping.
Levels == [k \in Key |-> LevelOf(k)]

\* One call of Allow is one answer of the reference.
LEMMA AllowRefines ==
    ASSUME LimiterInv, NEW k \in Key, Allow(k)
    PROVE  Reference!Grant(k) \/ Reference!Deny(k) \/ Reference!TurnAway(k)
<1>1. /\ LevelOf(k) \in Nat /\ LevelOf(k) <= LimiterFull(k) /\ LimiterFull(k) \in Nat
      /\ Minute \in Nat /\ Levels[k] = LevelOf(k)
  BY LevelBounds, LimiterAssumption DEF Levels
<1>2. CASE /\ LevelOf(k) = LimiterFull(k) /\ entries' = Remaining
           /\ said' = [key |-> k, says |-> "full", retry |-> Minute]
  <2>1. Levels' = Levels
    BY <1>2, LevelsSwept DEF Levels
  <2>2. Reference!Full(k) = LimiterFull(k)
    BY DEF Reference!Full, LimiterFull
  <2> QED
    BY <1>1, <1>2, <2>1, <2>2 DEF Reference!TurnAway, Levels, LevelOf
<1>3. CASE /\ LevelOf(k) >= Minute /\ entries' = Written(k, LevelOf(k) - Minute)
           /\ said' = [key |-> k, says |-> "yes", retry |-> 0]
  <2> DEFINE u == LevelOf(k) - Minute
  <2>1. u \in Nat /\ u <= LimiterFull(k)
    BY <1>1, <1>3
  <2>2. \A j \in Key : LevelOf(j)' = IF j = k THEN u ELSE LevelOf(j)
    BY <1>3, <2>1, LevelsWritten
  <2>3. Levels' = [Levels EXCEPT ![k] = @ - Minute]
    BY <2>2 DEF Levels
  <2> QED
    BY <1>1, <1>3, <2>3 DEF Reference!Grant, Levels, LevelOf
<1>4. CASE /\ LevelOf(k) < Minute /\ entries' = Written(k, LevelOf(k))
           /\ said' = [key |-> k, says |-> "no", retry |-> RetryAfter(k, LevelOf(k))]
  <2>1. \A j \in Key : LevelOf(j)' = IF j = k THEN LevelOf(k) ELSE LevelOf(j)
    BY <1>1, <1>4, LevelsWritten
  <2>2. Levels' = Levels
    BY <2>1 DEF Levels
  <2> DEFINE wait == RetryAfter(k, LevelOf(k))
  <2>3. /\ wait \in 1..Minute
        /\ LevelOf(k) + wait * Rate[k] >= Minute /\ LevelOf(k) + (wait - 1) * Rate[k] < Minute
    BY <1>1, <1>4, RetryAfterExact
  <2> HIDE DEF wait
  <2>4. \E w \in 1..Minute :
          /\ Levels[k] + w * Rate[k] >= Minute /\ Levels[k] + (w - 1) * Rate[k] < Minute
          /\ said' = [key |-> k, says |-> "no", retry |-> w]
    BY <1>1, <1>4, <2>3 DEF wait
  <2> QED
    BY <1>1, <1>4, <2>2, <2>4 DEF Reference!Deny, Levels, LevelOf
<1> QED
  BY <1>2, <1>3, <1>4, AllowEnds

\* A tick of the clock is a tick of the reference.
LEMMA TickRefines ==
    ASSUME LimiterInv, Tick
    PROVE  Reference!BucketTick
<1>1. \A k \in Key : LevelOf(k)' = Reference!Refilled(k, LevelOf(k))
  <2> SUFFICES ASSUME NEW k \in Key PROVE LevelOf(k)' = Reference!Refilled(k, LevelOf(k))
    OBVIOUS
  <2>1. CASE k \in DOMAIN entries
    <3>1. entries[k] \in Bucket
      BY <2>1 DEF LimiterInv
    <3>2. /\ k \in DOMAIN entries'
          /\ entries'[k] = [entries[k] EXCEPT !.age = LimiterMin(@ + 1, Recent)]
      BY <2>1 DEF Tick
    <3>3. Contents(k, entries'[k]) = Reference!Refilled(k, Contents(k, entries[k]))
      BY <3>1, <3>2, ContentsTick
    <3> QED
      BY <2>1, <3>2, <3>3 DEF LevelOf
  <2>2. CASE k \notin DOMAIN entries
    <3>1. k \notin DOMAIN entries'
      BY <2>2 DEF Tick
    <3>2. LevelOf(k) = LimiterFull(k) /\ LevelOf(k)' = LimiterFull(k)
      BY <2>2, <3>1 DEF LevelOf
    <3>3. LimiterFull(k) \in Nat /\ Rate[k] \in Nat /\ Rate[k] >= 1
      BY LevelBounds, LimiterAssumption
    <3>4. Reference!Refilled(k, LimiterFull(k)) =
            IF LimiterFull(k) + Rate[k] > LimiterFull(k) THEN LimiterFull(k)
                                                         ELSE LimiterFull(k) + Rate[k]
      BY DEF Reference!Refilled, Reference!Full, LimiterFull
    <3> HIDE DEF LimiterFull
    <3> QED
      BY <3>2, <3>3, <3>4
  <2> QED
    BY <2>1, <2>2
<1>2. Levels' = [k \in Key |-> Reference!Refilled(k, Levels[k])]
  BY <1>1 DEF Levels
<1>3. said' = [said EXCEPT !.says = "nothing", !.retry = 0]
  BY DEF Tick
<1> QED
  BY <1>2, <1>3 DEF Reference!BucketTick, Levels, LevelOf

LEMMA LimiterRefines ==
    ASSUME LimiterInv, [LimiterNext]_limiterVars
    PROVE  [Reference!BucketNext]_Reference!bucketVars
<1>1. CASE Tick
  BY <1>1, TickRefines DEF Reference!BucketNext
<1>2. ASSUME NEW c \in Caller, Ask(c) PROVE Reference!BucketNext
  <2>1. asking[c][1] \in Key /\ Allow(asking[c][1])
    BY <1>2 DEF Ask, LimiterInv
  <2> QED
    BY <2>1, AllowRefines DEF Reference!BucketNext
<1>3. ASSUME UNCHANGED <<entries, said>> PROVE UNCHANGED Reference!bucketVars
  BY <1>3 DEF Reference!bucketVars
<1>4. ASSUME NEW c \in Caller, NEW own \in Key,
             Arrive(c, own, <<GlobalKey, own>>) \/ Arrive(c, own, <<own, GlobalKey>>)
      PROVE  UNCHANGED <<entries, said>>
  BY <1>4 DEF Arrive
<1>5. CASE UNCHANGED limiterVars
  BY <1>3, <1>5 DEF limiterVars
<1> QED
  BY <1>1, <1>2, <1>3, <1>4, <1>5 DEF LimiterNext

\* Sweeping cannot be noticed: the limiter with its bounded, swept table is the
\* set of buckets that are never forgotten, for every rate and every capacity.
THEOREM SweepingIsInvisible == LimiterSpec => ForgettingIsInvisible
<1>1. LimiterInit => Reference!BucketInit
  BY DEF LimiterInit, Reference!BucketInit, LimiterFull, Reference!Full
<1>2. LimiterInv /\ [LimiterNext]_limiterVars => [Reference!BucketNext]_Reference!bucketVars
  BY LimiterRefines
<1> QED
  BY <1>1, <1>2, LimiterInvariant, PTL DEF LimiterSpec, ForgettingIsInvisible, Reference!BucketSpec

(* ------------------------- the client's address ----------------------- *)

\* One turn of the loop, and the loop: at[i] is resolved once the parts from i
\* on were seen, down to lo.
Turn(ip, part) == IF ip \in Trusted THEN part ELSE ip
WalkedTo(at, lo, p, ips) ==
    at = [i \in lo..(Len(ips) + 1) |-> IF i = Len(ips) + 1 THEN p ELSE Turn(at[i + 1], ips[i])]

LEMMA WalkExists ==
    ASSUME NEW p, NEW T, NEW ips \in Seq(T)
    PROVE  \E at : WalkedTo(at, 1, p, ips)
<1> DEFINE n == Len(ips)
           S == {k \in 0..n : \E at : WalkedTo(at, n + 1 - k, p, ips)}
<1>0. n \in Nat
  OBVIOUS
<1>1. 0 \in S
  <2>1. [i \in (n + 1)..(n + 1) |-> p] =
        [i \in (n + 1)..(n + 1) |-> IF i = n + 1 THEN p
            ELSE Turn([j \in (n + 1)..(n + 1) |-> p][i + 1], ips[i])]
    BY <1>0
  <2>2. WalkedTo([i \in (n + 1)..(n + 1) |-> p], n + 1 - 0, p, ips)
    BY <1>0, <2>1 DEF WalkedTo
  <2> QED
    BY <1>0, <2>2
<1>2. ASSUME NEW k \in 0..n, k < n, k \in S PROVE k + 1 \in S
  <2>1. PICK f : WalkedTo(f, n + 1 - k, p, ips)
    BY <1>2
  <2>2. PICK lo \in 1..n : lo = n - k /\ n + 1 - k = lo + 1 /\ n + 1 - (k + 1) = lo
    BY <1>0, <1>2
  <2>3. f = [i \in (lo + 1)..(n + 1) |-> IF i = n + 1 THEN p ELSE Turn(f[i + 1], ips[i])]
    BY <2>1, <2>2 DEF WalkedTo
  <2> DEFINE g == [i \in lo..(n + 1) |-> IF i = lo THEN Turn(f[lo + 1], ips[lo]) ELSE f[i]]
  <2>4. \A i \in lo..(n + 1) : g[i] = IF i = n + 1 THEN p ELSE Turn(g[i + 1], ips[i])
    <3> TAKE i \in lo..(n + 1)
    <3>1. CASE i = lo
      BY <1>0, <3>1
    <3>2. CASE i # lo
      <4>1. i \in (lo + 1)..(n + 1) /\ g[i] = f[i] /\ (i # n + 1 => g[i + 1] = f[i + 1])
        BY <1>0, <3>2
      <4>2. f[i] = IF i = n + 1 THEN p ELSE Turn(f[i + 1], ips[i])
        BY <2>3, <4>1
      <4> QED
        BY <4>1, <4>2
    <3> QED
      BY <3>1, <3>2
  <2>5. g = [i \in lo..(n + 1) |-> g[i]]
    OBVIOUS
  <2> HIDE DEF g
  <2>6. g = [i \in lo..(n + 1) |-> IF i = n + 1 THEN p ELSE Turn(g[i + 1], ips[i])]
    BY <2>4, <2>5
  <2>7. WalkedTo(g, n + 1 - (k + 1), p, ips)
    BY <2>2, <2>6 DEF WalkedTo
  <2> QED
    BY <1>0, <1>2, <2>7
<1>3. n \in S
  <2> HIDE DEF S
  <2>1. \A k \in 0..n : k \in S
    BY <1>0, <1>1, <1>2, Climb
  <2> QED
    BY <1>0, <2>1
<1>4. n + 1 - n = 1
  BY <1>0
<1> QED
  BY <1>3, <1>4

LEMMA WalkIs ==
    ASSUME NEW p, NEW T, NEW ips \in Seq(T)
    PROVE  \E at : WalkedTo(at, 1, p, ips) /\ Walk(p, ips) = at[1]
<1>1. \E at : WalkedTo(at, 1, p, ips)
  BY WalkExists
<1> DEFINE at == CHOOSE f : WalkedTo(f, 1, p, ips)
<1>2. WalkedTo(at, 1, p, ips)
  BY <1>1
<1>3. Walk(p, ips) = at[1]
  BY DEF Walk, WalkedTo, Turn
<1> QED
  BY <1>2, <1>3

\* The parts of the header that the proxies wrote are the senders but the last,
\* at its end; the last is the peer.  What the client made up comes before.
Anyone == Address \cup {Unusable}
EndsWith(ips, who) ==
    /\ Len(ips) >= Len(who) - 1
    /\ \A i \in 1..(Len(who) - 1) : ips[Len(ips) - Len(who) + 1 + i] = who[i]

\* Through trusted senders the walk goes back from one to the one before, and it
\* stays at the first other one, whatever is left of the header.
LEMMA WalkStops ==
    ASSUME NEW ips \in Seq(Anyone), NEW who \in Seq(Anyone), EndsWith(ips, who),
           NEW last \in 1..Len(who), who[last] \notin Trusted,
           \A i \in 1..Len(who) : i > last => who[i] \in Trusted
    PROVE  Walk(who[Len(who)], ips) = who[last]
<1> DEFINE n == Len(ips)
           m == Len(who)
<1>0. n \in Nat /\ m \in Nat /\ 1 <= last /\ last <= m /\ n >= m - 1 /\ last \in Nat
  BY DEF EndsWith
<1>1. \A i \in 1..(m - 1) : ips[n - m + 1 + i] = who[i]
  BY DEF EndsWith
<1>2. PICK at : WalkedTo(at, 1, who[m], ips) /\ Walk(who[m], ips) = at[1]
  BY WalkIs
<1>3. at[n + 1] = who[m] /\ \A i \in 1..n : at[i] = Turn(at[i + 1], ips[i])
  BY <1>0, <1>2 DEF WalkedTo
<1> HIDE DEF n, m
<1>4. \A k \in 0..(m - last) : at[n + 1 - k] = who[m - k]
  <2> DEFINE S == {k \in 0..(m - last) : at[n + 1 - k] = who[m - k]}
  <2>1. 0 \in S
    BY <1>0, <1>3
  <2>2. ASSUME NEW k \in 0..(m - last), k < m - last, k \in S PROVE k + 1 \in S
    <3>1. /\ m - k \in 1..m /\ m - k > last /\ n - k \in 1..n /\ n + 1 - k = n - k + 1
          /\ n + 1 - (k + 1) = n - k /\ m - (k + 1) \in 1..(m - 1)
          /\ n - m + 1 + (m - (k + 1)) = n - k
      BY <1>0, <2>2
    <3>2. at[n - k + 1] = who[m - k] /\ who[m - k] \in Trusted
      BY <2>2, <3>1 DEF m
    <3>3. at[n - k] = ips[n - k] /\ ips[n - k] = who[m - (k + 1)]
      BY <1>1, <1>3, <3>1, <3>2 DEF Turn
    <3> QED
      BY <1>0, <2>2, <3>1, <3>3
  <2>3. \A k \in 0..(m - last) : k \in S
    <3> HIDE DEF S
    <3>1. m - last \in Nat
      BY <1>0
    <3> QED
      BY <2>1, <2>2, <3>1, Climb
  <2> QED
    BY <2>3
<1>5. \A k \in (m - last)..n : at[n + 1 - k] = who[last]
  <2> DEFINE S == {k \in (m - last)..n : at[n + 1 - k] = who[last]}
  <2>1. m - last \in S
    <3>1. m - last \in 0..(m - last) /\ m - last \in (m - last)..n /\ m - (m - last) = last
      BY <1>0
    <3> QED
      BY <1>4, <3>1
  <2>2. ASSUME NEW k \in (m - last)..n, k < n, k \in S PROVE k + 1 \in S
    <3>1. n - k \in 1..n /\ n + 1 - k = n - k + 1 /\ n + 1 - (k + 1) = n - k /\ k + 1 \in (m - last)..n
      BY <1>0, <2>2
    <3>2. at[n - k] = who[last]
      BY <1>3, <2>2, <3>1 DEF Turn
    <3> QED
      BY <3>1, <3>2
  <2>3. \A k \in (m - last)..n : k \in S
    <3> HIDE DEF S
    <3>1. m - last \in Nat
      BY <1>0
    <3> QED
      BY <1>0, <2>1, <2>2, <3>1, Climb
  <2> QED
    BY <2>3
<1>6. n \in (m - last)..n /\ n + 1 - n = 1
  BY <1>0
<1> QED
  BY <1>2, <1>5, <1>6 DEF m

\* The server's answer to the chain it receives.
Charged(ip, malformed) ==
    LET outside == {i \in DOMAIN senders : senders[i] \notin Trusted}
        last == CHOOSE i \in outside : \A j \in outside : j <= i
    IN
    /\ malformed => ip = peer
    /\ outside # {} /\ ~malformed => ip = senders[last]

AddressInv ==
    /\ senders \in Seq(Anyone) /\ chain \in Seq(Anyone) /\ EndsWith(chain, senders)
    /\ senders # <<>> => peer = senders[Len(senders)]
    /\ senders = <<>> => resolved = Unresolved
    /\ ChargedToNearestUntrusted

LEMMA ReceiveCharges ==
    ASSUME AddressInv, senders # <<>>
    PROVE  Charged(ClientIP(peer, chain).ip, ClientIP(peer, chain).malformed)
<1> DEFINE m == Len(senders)
           outside == {i \in DOMAIN senders : senders[i] \notin Trusted}
           last == CHOOSE i \in outside : \A j \in outside : j <= i
           r == ClientIP(peer, chain)
<1>0. /\ m \in Nat \ {0} /\ DOMAIN senders = 1..m /\ senders[m] = peer
      /\ senders \in Seq(Anyone) /\ chain \in Seq(Anyone) /\ EndsWith(chain, senders)
  BY DEF AddressInv
<1>1. /\ r.malformed => r.ip = peer
      /\ ~r.malformed => \/ r.ip = peer /\ (peer \notin Trusted \/ chain = <<>>)
                         \/ r.ip = Walk(peer, chain)
  <2>1. CASE peer = Unusable
    BY <2>1 DEF ClientIP, NoIP
  <2>2. CASE peer # Unusable /\ (peer \notin Trusted \/ chain = <<>>)
    <3>1. r = [ip |-> peer, malformed |-> FALSE]
      BY <2>2 DEF ClientIP
    <3> QED
      BY <2>2, <3>1
  <2>3. CASE /\ peer # Unusable /\ ~(peer \notin Trusted \/ chain = <<>>)
             /\ Len(chain) > MaxParts \/ \E i \in DOMAIN chain : chain[i] = Unusable
    <3>1. r = [ip |-> peer, malformed |-> TRUE]
      BY <2>3 DEF ClientIP
    <3> QED
      BY <3>1
  <2>4. CASE /\ peer # Unusable /\ ~(peer \notin Trusted \/ chain = <<>>)
             /\ ~(Len(chain) > MaxParts \/ \E i \in DOMAIN chain : chain[i] = Unusable)
    <3>1. r = [ip |-> Walk(peer, chain), malformed |-> FALSE]
      BY <2>4 DEF ClientIP
    <3> QED
      BY <3>1
  <2> QED
    BY <2>1, <2>2, <2>3, <2>4
<1>2. CASE outside = {}
  BY <1>1, <1>2 DEF Charged
<1>3. CASE outside # {}
  <2>1. outside \in SUBSET (1..m)
    BY <1>0
  <2>2. PICK l : l = last
    OBVIOUS
  <2>3. l \in outside /\ \A j \in outside : j <= l
    <3>1. \E i \in outside : \A j \in outside : j <= i
      <4>1. outside \in SUBSET (0..m)
        BY <1>0, <2>1
      <4> HIDE DEF outside, m
      <4> QED
        BY <1>0, <1>3, <4>1, LargestOf
    <3> HIDE DEF outside
    <3> QED
      BY <2>2, <3>1
  <2>4. l \in 1..m /\ senders[l] \notin Trusted /\ \A i \in 1..m : i > l => senders[i] \in Trusted
    BY <1>0, <2>3
  <2>5. Walk(peer, chain) = senders[l]
    <3>1. l \in 1..Len(senders) /\ \A i \in 1..Len(senders) : i > l => senders[i] \in Trusted
      BY <2>4
    <3>2. Walk(senders[Len(senders)], chain) = senders[l]
      BY <1>0, <2>4, <3>1, WalkStops
    <3> QED
      BY <1>0, <3>2
  <2>0. m \in 1..m /\ m \in Nat /\ l \in Nat /\ 1 <= l /\ l <= m
    <3> HIDE DEF m
    <3> QED
      BY <1>0, <2>4
  <2>6. peer \notin Trusted => l = m
    <3>1. m > l => senders[m] \in Trusted
      BY <2>0, <2>4
    <3> HIDE DEF m
    <3> QED
      BY <1>0, <2>0, <3>1
  <2>7. chain = <<>> => l = m
    <3>1. SUFFICES ASSUME chain = <<>> PROVE l = m
      OBVIOUS
    <3>2. Len(<<>>) = 0
      OBVIOUS
    <3>3. Len(chain) = 0 /\ Len(chain) >= m - 1
      BY <1>0, <3>1, <3>2 DEF EndsWith
    <3> HIDE DEF m
    <3> QED
      BY <2>0, <3>3
  <2>8. ~r.malformed => r.ip = senders[l]
    BY <1>0, <1>1, <2>5, <2>6, <2>7
  <2> QED
    BY <1>1, <2>2, <2>8 DEF Charged
<1> QED
  BY <1>2, <1>3

\* Whose address a limit is charged to: the nearest sender that is not a trusted
\* proxy, however long the way and whatever the client put into the header.
THEOREM NearestUntrustedPays == AddressSpec => []ChargedToNearestUntrusted
<1>1. AddressInit => AddressInv
  <2> SUFFICES ASSUME AddressInit PROVE AddressInv
    OBVIOUS
  <2>1. senders = <<>> /\ chain = <<>> /\ resolved = Unresolved
    BY DEF AddressInit
  <2>2. EndsWith(<<>>, <<>>)
    BY DEF EndsWith
  <2>3. <<>> \in Seq(Anyone)
    OBVIOUS
  <2> QED
    BY <2>1, <2>2, <2>3 DEF AddressInv, ChargedToNearestUntrusted
<1>2. AddressInv /\ [AddressNext]_addressVars => AddressInv'
  <2> SUFFICES ASSUME AddressInv, [AddressNext]_addressVars PROVE AddressInv'
    OBVIOUS
  <2>0. senders \in Seq(Anyone) /\ chain \in Seq(Anyone) /\ EndsWith(chain, senders)
    BY DEF AddressInv
  <2>1. ASSUME NEW c \in Anyone, NEW h \in MadeUp, Send(c, h) PROVE AddressInv'
    <3>1. senders' = <<c>> /\ chain' = h /\ peer' = c /\ resolved' = Unresolved
      BY <2>1 DEF Send, AddressInv
    <3>2. h \in Seq(Anyone)
      <4>1. PICK n \in 0..MaxMadeUp : h \in [1..n -> Anyone]
        BY AddressAssumption DEF MadeUp, Anyone
      <4>2. n \in Nat
        BY <4>1, AddressAssumption
      <4> QED
        BY <4>1, <4>2
    <3>3. <<c>> \in Seq(Anyone) /\ Len(<<c>>) = 1 /\ <<c>>[1] = c
      OBVIOUS
    <3>4. EndsWith(h, <<c>>)
      <4>1. Len(h) \in Nat /\ 1..(1 - 1) = {}
        BY <3>2
      <4> QED
        BY <3>3, <4>1 DEF EndsWith
    <3>5. <<c>> # <<>>
      OBVIOUS
    <3>6. EndsWith(chain, senders)'
      BY <3>1, <3>4 DEF EndsWith
    <3>7. ChargedToNearestUntrusted'
      BY <3>1 DEF ChargedToNearestUntrusted, Unresolved
    <3> QED
      BY <3>1, <3>2, <3>3, <3>5, <3>6, <3>7 DEF AddressInv
  <2>2. ASSUME NEW p \in Address, Forward(p) PROVE AddressInv'
    <3>1. /\ senders # <<>> /\ resolved' = Unresolved
          /\ peer' = p /\ chain' = Append(chain, peer) /\ senders' = Append(senders, p)
          /\ peer = senders[Len(senders)] /\ peer \in Anyone /\ p \in Anyone
      BY <2>0, <2>2 DEF Forward, AddressInv, Anyone
    <3>2. /\ senders' \in Seq(Anyone) /\ chain' \in Seq(Anyone) /\ senders' # <<>>
          /\ Len(senders') = Len(senders) + 1 /\ Len(chain') = Len(chain) + 1
          /\ senders'[Len(senders')] = p
      BY <2>0, <3>1
    <3>3. EndsWith(chain, senders)'
      <4> DEFINE m == Len(senders)
                 n == Len(chain)
      <4>1. m \in Nat \ {0} /\ n \in Nat /\ n >= m - 1
        BY <2>0, <3>1 DEF EndsWith
      <4>2. ASSUME NEW i \in 1..m PROVE chain'[n - m + 1 + i] = senders'[i]
        <5>1. CASE i = m
          BY <2>0, <3>1, <4>1, <5>1
        <5>2. CASE i # m
          <6>1. i \in 1..(m - 1) /\ n - m + 1 + i \in 1..n
            BY <4>1, <5>2
          <6>2. chain[n - m + 1 + i] = senders[i]
            BY <2>0, <6>1 DEF EndsWith
          <6> QED
            BY <2>0, <3>1, <4>1, <6>1, <6>2
        <5> QED
          BY <5>1, <5>2
      <4>3. (n + 1) - (m + 1) + 1 = n - m + 1 /\ (m + 1) - 1 = m /\ n + 1 >= m
        BY <4>1
      <4>4. PICK k \in Nat, l \in Nat : k = n /\ l = m
        BY <4>1
      <4>5. Len(chain') = k + 1 /\ Len(senders') = l + 1 /\ k + 1 >= l
        BY <3>2, <4>3, <4>4
      <4>6. \A i \in 1..l : chain'[k - l + 1 + i] = senders'[i]
        BY <4>2, <4>4
      <4>7. (l + 1) - 1 = l /\ (k + 1) - (l + 1) + 1 = k - l + 1
        BY <4>4
      <4> HIDE DEF m, n
      <4> QED
        BY <4>5, <4>6, <4>7 DEF EndsWith
    <3>4. ChargedToNearestUntrusted'
      BY <3>1 DEF ChargedToNearestUntrusted, Unresolved
    <3> QED
      BY <3>1, <3>2, <3>3, <3>4 DEF AddressInv
  <2>3. CASE Receive
    <3>1. Charged(resolved'.ip, resolved'.malformed)
      BY <2>3, ReceiveCharges DEF Receive
    <3>2. UNCHANGED <<peer, chain, senders>>
      BY <2>3 DEF Receive
    <3>3. ChargedToNearestUntrusted'
      BY <3>1, <3>2 DEF ChargedToNearestUntrusted, Charged
    <3>4. EndsWith(chain, senders)'
      BY <2>0, <3>2 DEF EndsWith
    <3>5. senders # <<>>
      BY <2>3 DEF Receive
    <3> QED
      BY <2>0, <3>2, <3>3, <3>4, <3>5 DEF AddressInv
  <2>4. CASE UNCHANGED addressVars
    BY <2>4 DEF addressVars, AddressInv, ChargedToNearestUntrusted, EndsWith
  <2> QED
    BY <2>1, <2>2, <2>3, <2>4 DEF AddressNext, Anyone
<1>3. AddressInv => ChargedToNearestUntrusted
  BY DEF AddressInv
<1> QED
  BY <1>1, <1>2, <1>3, PTL DEF AddressSpec

=============================================================================
