----------------------------- MODULE MCServer -------------------------------
(***************************************************************************)
(* Model checking of the parts of the server around the media service.     *)
(* They share no state with each other, so a behaviour is one of a single  *)
(* part: "part" is chosen at the start and the other parts stay as they    *)
(* were.  The state space is the sum of theirs and not their product.      *)
(***************************************************************************)
EXTENDS Limiter, ClientAddress, Access, Challenge, Registry, Shutdown, Export,
        Maintenance, TLC

CONSTANT Parts      \* the parts that the run is about

VARIABLE part

serverVars == <<part, limiterVars, addressVars, accessVars, challengeVars, registryVars,
                shutdownVars, exportVars, maintenanceVars>>

ServerInit ==
    /\ part \in Parts
    /\ LimiterInit /\ AddressInit /\ AccessInit /\ ChallengeInit /\ ShutdownInit
    /\ RegistryInit /\ (part # "registry" => history = CHOOSE h \in OldHistory : TRUE)
    /\ MaintenanceInit
    /\ ExportInit /\ (part # "export" => ~blind)

ServerNext ==
    \/ /\ part = "limiter" /\ LimiterNext
       /\ UNCHANGED <<part, addressVars, accessVars, challengeVars, registryVars,
                      shutdownVars, exportVars, maintenanceVars>>
    \/ /\ part = "address" /\ AddressNext
       /\ UNCHANGED <<part, limiterVars, accessVars, challengeVars, registryVars,
                      shutdownVars, exportVars, maintenanceVars>>
    \/ /\ part = "password" /\ PasswordStep
       /\ UNCHANGED <<part, limiterVars, addressVars, challengeVars, registryVars,
                      shutdownVars, exportVars, maintenanceVars>>
    \/ /\ part = "oidc" /\ OIDCStep
       /\ UNCHANGED <<part, limiterVars, addressVars, challengeVars, registryVars,
                      shutdownVars, exportVars, maintenanceVars>>
    \/ /\ part = "challenge" /\ ChallengeNext
       /\ UNCHANGED <<part, limiterVars, addressVars, accessVars, registryVars,
                      shutdownVars, exportVars, maintenanceVars>>
    \/ /\ part = "registry" /\ RegistryNext
       /\ UNCHANGED <<part, limiterVars, addressVars, accessVars, challengeVars,
                      shutdownVars, exportVars, maintenanceVars>>
    \/ /\ part = "shutdown" /\ ShutdownNext
       /\ UNCHANGED <<part, limiterVars, addressVars, accessVars, challengeVars,
                      registryVars, exportVars, maintenanceVars>>
    \/ /\ part = "export" /\ ExportNext
       /\ UNCHANGED <<part, limiterVars, addressVars, accessVars, challengeVars,
                      registryVars, shutdownVars, maintenanceVars>>
    \/ /\ part = "maintenance" /\ MaintenanceNext
       /\ UNCHANGED <<part, limiterVars, addressVars, accessVars, challengeVars,
                      registryVars, shutdownVars, exportVars>>

ServerSafety == ServerInit /\ [][ServerNext]_serverVars

\* The fairness of a part asks for nothing while another part runs: none of its
\* steps is enabled in its initial state.
ServerSpec == ServerSafety /\ AccessFairness /\ ShutdownFairness /\ MaintenanceFairness

-----------------------------------------------------------------------------
(* Constants of the runs *)

\* The shared key may be used twice a minute, the others once.
TwoForAll == [k \in Key |-> IF k = GlobalKey THEN 2 ELSE 1]

\* One process signs in by password and OIDC; the other, which replaces it or is
\* replaced by it, by another password.
Rotation == [s \in Server |-> IF s = "old" THEN {[pw |-> "one", oidc |-> TRUE]}
                                           ELSE {[pw |-> "two", oidc |-> FALSE]}]

\* Binaries: of today, with one migration more, and one whose second script was
\* edited after it had been released.
Script(n, s) == [name |-> n, sum |-> s]
Gate4 == <<Script("init", 1)>>
Today == Gate4 \o <<Script("backends", 1)>>
Edited == Gate4 \o <<Script("backends", 2)>>
Tomorrow == Today \o <<Script("next", 1)>>
Binaries == {Today, Edited, Tomorrow}
Histories == {<<>>, Gate4}

\* Environments: S3 keys and what they address, the active key, Immich targets.
At1 == [place |-> "bucket1", style |-> "path"]
At1Virtual == [place |-> "bucket1", style |-> "virtual"]
At2 == [place |-> "bucket2", style |-> "path"]
Env(s3, active, immich) == [s3 |-> s3, active |-> active, immich |-> immich]
NoTarget == [k \in {} |-> "none"]
Environments ==
    { Env([main |-> At1], "main", [home |-> "server1"]),
      Env([main |-> At2], "main", [home |-> "server1"]),
      Env([main |-> At1, other |-> At2], "other", [home |-> "server2"]),
      Env([main |-> At1, other |-> At1Virtual], "local", NoTarget),
      Env([k \in {} |-> At1], "local", NoTarget) }
NoLegacy == [a \in {} |-> "bucket1"]
OneLegacy == [a \in {"photo1"} |-> "bucket1"]

\* Filenames that clash, clash up to case, with a suffix given to another or with
\* a temporary name, and need every rule of Filename.
OddNames ==
    { <<"a", ".jpg">>, <<"A", ".jpg">>, <<"a", "_2", ".jpg">>, <<"a", ".jpg", ".part">>,
      <<"dir", "/", "con", " ">>, <<" ", "/", " ">>, <<"a", "?", " ", ".jpg">>,
      <<"con", " ", " ", "x">> }
OddSnapshots ==
    [1..2 -> OddNames] \cup [1..3 -> {<<"a", ".jpg">>, <<"A", ".jpg">>, <<"a", "_2", ".jpg">>}]

LowerCase == ("A" :> "a")
Suffixes == (2 :> "_2") @@ (3 :> "_3") @@ (4 :> "_4")

AccessSymmetry == Permutations(Browser) \cup Permutations(Request)

=============================================================================
