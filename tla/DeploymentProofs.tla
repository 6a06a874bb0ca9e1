-------------------------- MODULE DeploymentProofs ---------------------------
(***************************************************************************)
(* The start-up of the dynamic stack, for every number of tries of the     *)
(* compiler and of crashes of healthd.                                     *)
(***************************************************************************)
EXTENDS Deployment, TLAPS

(* Where the services are. *)
Services ==
  /\ status \in {"none", "up", "down"}
  /\ compiler \in {"running", "done", "failed"}
  /\ healthd \in {"on", "off", "stopped"}

(* Their counters: the loop gives up at its last try and never before. *)
Counters ==
  /\ tries \in 0 .. MaxTries
  /\ crashes \in 0 .. MaxCrashes
  /\ compiler = "failed" <=> tries = MaxTries

Switches == {pgReady, redisUp, emptied, alive, routeKey} \subseteq BOOLEAN

(* Redis keeps nothing while it is down. *)
DownIsEmpty == ~redisUp => status = "none" /\ ~routeKey

DepIInv == Services /\ Counters /\ Switches /\ DownIsEmpty /\ EndedWellMeansSeeded

(* Every service stays in its states. *)
LEMMA ServicesStep ==
  ASSUME Services, [DeploymentNext]_depVars
  PROVE  Services'
BY DEF Services, DeploymentNext, PostgresReady, RedisStart, RedisCrash, TunnelChanges, Compile,
   CompileFails, HealthdStart, HealthdCrash, HealthdStop, Poll, Expire, depVars

(* The counters keep their bounds. *)
LEMMA CountersStep ==
  ASSUME Services, Counters, [DeploymentNext]_depVars
  PROVE  Counters'
<1> USE DEF Counters
<1>1. CASE CompileFails
  <2>1. compiler = "running" /\ tries' = tries + 1 /\ crashes' = crashes
        /\ compiler' = IF tries + 1 >= MaxTries THEN "failed" ELSE compiler
    BY <1>1 DEF CompileFails
  <2>2. tries \in Nat /\ MaxTries \in Nat /\ tries < MaxTries
    BY <2>1, DeploymentAssumption
  <2>3. tries' \in 0 .. MaxTries /\ (compiler' = "failed" <=> tries' = MaxTries)
    BY <2>1, <2>2
  <2> QED
    BY <2>1, <2>3
<1>2. CASE HealthdCrash
  <2>1. crashes < MaxCrashes /\ crashes' = crashes + 1 /\ UNCHANGED <<tries, compiler>>
    BY <1>2 DEF HealthdCrash
  <2>2. crashes' \in 0 .. MaxCrashes
    BY <2>1, DeploymentAssumption
  <2> QED
    BY <2>1, <2>2
<1>3. CASE Compile
  <2>1. compiler = "running" /\ compiler' = "done" /\ UNCHANGED <<tries, crashes>>
    BY <1>3 DEF Compile
  <2> QED
    BY <2>1
<1>4. CASE UNCHANGED <<tries, crashes, compiler>>
  BY <1>4
<1> QED
  BY <1>1, <1>2, <1>3, <1>4 DEF DeploymentNext, PostgresReady, RedisStart, RedisCrash,
     TunnelChanges, HealthdStart, HealthdStop, Poll, Expire, depVars

(* The flags are flags. *)
LEMMA SwitchesStep ==
  ASSUME Switches, [DeploymentNext]_depVars
  PROVE  Switches'
<1>1. /\ pgReady' \in {pgReady, TRUE}
      /\ redisUp' \in {redisUp, TRUE, FALSE}
      /\ emptied' \in {emptied, TRUE}
      /\ alive' \in {alive, ~alive}
      /\ routeKey' \in {routeKey, TRUE, FALSE}
  BY DEF DeploymentNext, PostgresReady, RedisStart, RedisCrash, TunnelChanges, Compile,
     CompileFails, MayHaveSeeded, HealthdStart, HealthdCrash, HealthdStop, Poll, Expire, depVars
<1> QED
  BY <1>1, Zenon DEF Switches

(* Only what finds Redis up writes to it. *)
LEMMA DownIsEmptyStep ==
  ASSUME DownIsEmpty, [DeploymentNext]_depVars
  PROVE  DownIsEmpty'
<1> USE DEF DownIsEmpty
<1>1. CASE RedisStart \/ RedisCrash
  BY <1>1, Zenon DEF RedisStart, RedisCrash
<1>2. CASE Compile \/ CompileFails
  <2>1. redisUp' = redisUp /\ status' = status /\ (redisUp \/ routeKey' = routeKey)
    BY <1>2 DEF Compile, CompileFails, MayHaveSeeded
  <2> QED
    BY <2>1, Zenon
<1>3. CASE Poll \/ Expire
  BY <1>3, Zenon DEF Poll, Expire
<1>4. CASE UNCHANGED <<redisUp, status, routeKey>>
  BY <1>4
<1> QED
  BY <1>1, <1>2, <1>3, <1>4 DEF DeploymentNext, PostgresReady, TunnelChanges, HealthdStart,
     HealthdCrash, HealthdStop, depVars

(* Only a crash of Redis takes the route away, and the compiler's service  *)
(* ends well only with the route in place.                                 *)
LEMMA SeededStep ==
  ASSUME Services, EndedWellMeansSeeded, [DeploymentNext]_depVars
  PROVE  EndedWellMeansSeeded'
<1> USE DEF EndedWellMeansSeeded
<1>1. CASE Compile
  BY <1>1, Zenon DEF Compile
<1>2. CASE CompileFails
  <2>1. compiler' # "done"
    BY <1>2 DEF CompileFails
  <2> QED
    BY <2>1
<1>3. CASE RedisStart \/ RedisCrash
  BY <1>3, Zenon DEF RedisStart, RedisCrash
<1>4. CASE UNCHANGED <<redisUp, emptied, routeKey, compiler>>
  BY <1>4
<1> QED
  BY <1>1, <1>2, <1>3, <1>4 DEF DeploymentNext, PostgresReady, TunnelChanges, HealthdStart,
     HealthdCrash, HealthdStop, Poll, Expire, depVars

(* The invariant of the stack's start-up. *)
THEOREM DeploymentInductive == DeploymentSpec => []DepIInv
<1>1. DeploymentInit => DepIInv
  <2> SUFFICES ASSUME DeploymentInit
               PROVE  DepIInv
    OBVIOUS
  <2>1. Services /\ Counters
    BY DeploymentAssumption DEF DeploymentInit, Services, Counters
  <2>2. Switches
    BY DEF DeploymentInit, Switches
  <2>3. DownIsEmpty /\ EndedWellMeansSeeded
    BY DEF DeploymentInit, DownIsEmpty, EndedWellMeansSeeded
  <2> QED
    BY <2>1, <2>2, <2>3 DEF DepIInv
<1>2. DepIInv /\ [DeploymentNext]_depVars => DepIInv'
  BY ServicesStep, CountersStep, SwitchesStep, DownIsEmptyStep, SeededStep DEF DepIInv
<1> QED
  BY <1>1, <1>2, PTL DEF DeploymentSpec

(* The stack's state is well formed: a Redis that is down holds nothing,   *)
(* and the compiler's loop has given up exactly when its tries are spent   *)
(* (docker-compose.dynamic.yml, proxy-compiler).                           *)
THEOREM DeploymentTypeCorrect == DeploymentSpec => []DeploymentTypeOK
<1>1. DepIInv => DeploymentTypeOK
  BY DEF DepIInv, Services, Counters, Switches, DownIsEmpty, DeploymentTypeOK
<1> QED
  BY <1>1, DeploymentInductive, PTL

(* A compiler service that ended well has left the route, and it stays     *)
(* until Redis is emptied (docker-compose.dynamic.yml, proxy-compiler:     *)
(* restart "no"; cmd/compiler, run).                                       *)
THEOREM CompilerLeavesRoute == DeploymentSpec => []EndedWellMeansSeeded
<1>1. DepIInv => EndedWellMeansSeeded
  BY DEF DepIInv
<1> QED
  BY <1>1, DeploymentInductive, PTL

==============================================================================
