----------------------------- MODULE Deployment ------------------------------
(***************************************************************************)
(* The dynamic stack as docker-compose.dynamic.yml runs it, without clocks *)
(* and with one target and one tunnel: Redis, kept in memory only and      *)
(* restarted when it dies; Postgres, ready some time after the start; the  *)
(* compiler, a one-shot service whose shell loop retries it; and healthd,  *)
(* restarted when it dies.  A poll is one step here (Healthd has its       *)
(* parts), and so is a compiler run (RouteCompiler has its parts).         *)
(***************************************************************************)
EXTENDS Naturals

CONSTANTS
  MaxTries,    \* runs of the compiler before its loop gives up
  MaxCrashes   \* bound on the crashes of healthd

ASSUME DeploymentAssumption == MaxTries \in Nat \ {0} /\ MaxCrashes \in Nat

VARIABLES
  pgReady,     \* Postgres answers
  redisUp,     \* Redis answers
  emptied,     \* a crash has emptied Redis since the start
  alive,       \* the tunnel carries traffic
  routeKey,    \* route:<target> names the tunnel
  status,      \* vpn:status:<profile>, "none" when there is no key
  compiler,    \* the one-shot service
  tries,       \* its loop's n
  healthd,     \* "on", "off" or, once the operator stops it, "stopped"
  crashes      \* its crashes so far

depVars == <<pgReady, redisUp, emptied, alive, routeKey, status, compiler, tries, healthd, crashes>>

DeploymentTypeOK ==
  /\ {pgReady, redisUp, emptied, alive, routeKey} \subseteq BOOLEAN
  /\ status \in {"none", "up", "down"}
  /\ compiler \in {"running", "done", "failed"}
  /\ healthd \in {"on", "off", "stopped"}
  /\ tries \in 0..MaxTries
  /\ crashes \in 0..MaxCrashes
  /\ ~redisUp => status = "none" /\ ~routeKey
  /\ compiler = "failed" <=> tries = MaxTries

DeploymentInit ==
  /\ pgReady = FALSE /\ redisUp = FALSE /\ emptied = FALSE /\ alive = FALSE
  /\ routeKey = FALSE /\ status = "none"
  /\ compiler = "running" /\ tries = 0
  /\ healthd = "off" /\ crashes = 0

------------------------------------------------------------------------------
(* What compose and the operator's environment do. *)

PostgresReady ==
  /\ ~pgReady
  /\ pgReady' = TRUE
  /\ UNCHANGED <<redisUp, emptied, alive, routeKey, status, compiler, tries, healthd, crashes>>

RedisStart ==
  /\ ~redisUp
  /\ redisUp' = TRUE
  /\ UNCHANGED <<pgReady, emptied, alive, routeKey, status, compiler, tries, healthd, crashes>>

(* Nothing is saved (--save "" --appendonly no). *)
RedisCrash ==
  /\ redisUp
  /\ redisUp' = FALSE
  /\ emptied' = TRUE
  /\ routeKey' = FALSE
  /\ status' = "none"
  /\ UNCHANGED <<pgReady, alive, compiler, tries, healthd, crashes>>

TunnelChanges ==
  /\ alive' = ~alive
  /\ UNCHANGED <<pgReady, redisUp, emptied, routeKey, status, compiler, tries, healthd, crashes>>

------------------------------------------------------------------------------
(* The compiler and the loop around it. *)

(* Mutant: a run that cannot seed Redis still counts as a success. *)
Compile_IgnoresSeeding ==
  /\ compiler = "running"
  /\ pgReady
  /\ routeKey' = redisUp
  /\ compiler' = "done"
  /\ UNCHANGED <<pgReady, redisUp, emptied, alive, status, tries, healthd, crashes>>

(* A run that reads the tables and seeds the route ends the service; it    *)
(* has restart "no".                                                       *)
Compile ==
  /\ compiler = "running"
  /\ pgReady /\ redisUp
  /\ routeKey' = TRUE
  /\ compiler' = "done"
  /\ UNCHANGED <<pgReady, redisUp, emptied, alive, status, tries, healthd, crashes>>

(* What a run that fails may have done: one that reads the tables and      *)
(* reaches Redis may die after it seeded the route.                        *)
MayHaveSeeded == routeKey' = routeKey \/ (pgReady /\ redisUp /\ routeKey' = TRUE)

(* Mutant: one run too many before giving up. *)
CompileFails_Late ==
  /\ compiler = "running"
  /\ MayHaveSeeded
  /\ tries' = IF tries < MaxTries THEN tries + 1 ELSE tries
  /\ compiler' = IF tries >= MaxTries THEN "failed" ELSE compiler
  /\ UNCHANGED <<pgReady, redisUp, emptied, alive, status, healthd, crashes>>

(* A run may fail for other reasons than an unready database or Redis. *)
CompileFails ==
  /\ compiler = "running"
  /\ MayHaveSeeded
  /\ tries' = tries + 1
  /\ compiler' = IF tries + 1 >= MaxTries THEN "failed" ELSE compiler
  /\ UNCHANGED <<pgReady, redisUp, emptied, alive, status, healthd, crashes>>

------------------------------------------------------------------------------
(* healthd. *)

(* run needs an answer to its PING; without one it exits and is restarted. *)
HealthdStart ==
  /\ healthd = "off"
  /\ redisUp
  /\ healthd' = "on"
  /\ UNCHANGED <<pgReady, redisUp, emptied, alive, routeKey, status, compiler, tries, crashes>>

HealthdCrash ==
  /\ healthd = "on"
  /\ crashes < MaxCrashes
  /\ healthd' = "off"
  /\ crashes' = crashes + 1
  /\ UNCHANGED <<pgReady, redisUp, emptied, alive, routeKey, status, compiler, tries>>

(* restart: unless-stopped does not bring back what the operator stops. *)
HealthdStop ==
  /\ healthd # "stopped"
  /\ healthd' = "stopped"
  /\ UNCHANGED <<pgReady, redisUp, emptied, alive, routeKey, status, compiler, tries, crashes>>

(* Mutant: only a key that exists is refreshed. *)
Poll_OnlyExisting ==
  /\ healthd = "on"
  /\ redisUp
  /\ status # "none"
  /\ status' = IF alive THEN "up" ELSE "down"
  /\ UNCHANGED <<pgReady, redisUp, emptied, alive, routeKey, compiler, tries, healthd, crashes>>

(* A poll writes its verdict whether or not it is news.  Without Redis the *)
(* write fails, which is only logged.                                      *)
Poll ==
  /\ healthd = "on"
  /\ redisUp
  /\ status' = IF alive THEN "up" ELSE "down"
  /\ UNCHANGED <<pgReady, redisUp, emptied, alive, routeKey, compiler, tries, healthd, crashes>>

(* Mutant: SET without an expiry. *)
Expire_Never ==
  /\ FALSE
  /\ UNCHANGED depVars

(* The key's TTL is over before the next poll's write arrives. *)
Expire ==
  /\ status # "none"
  /\ status' = "none"
  /\ UNCHANGED <<pgReady, redisUp, emptied, alive, routeKey, compiler, tries, healthd, crashes>>

DeploymentNext ==
  \/ PostgresReady \/ RedisStart \/ RedisCrash \/ TunnelChanges
  \/ Compile \/ CompileFails
  \/ HealthdStart \/ HealthdCrash \/ HealthdStop \/ Poll \/ Expire

DeploymentSpec == DeploymentInit /\ [][DeploymentNext]_depVars

(* Compose restarts Redis and healthd, the loop runs the compiler again,   *)
(* the ticker fires, keys expire.  Postgres and the tunnel owe nothing.    *)
FairDeployment ==
  /\ DeploymentSpec
  /\ WF_depVars(RedisStart) /\ WF_depVars(Compile \/ CompileFails)
  /\ WF_depVars(HealthdStart) /\ WF_depVars(Poll) /\ WF_depVars(Expire)

------------------------------------------------------------------------------
(* What the helper answers a request made now (Decide). *)
Answer == IF redisUp /\ routeKey /\ status = "up" THEN "OK" ELSE "ERR"

(* The compiler's exit can be trusted: from the end of a service that      *)
(* ended well until a crash empties Redis, Redis is up and the route is    *)
(* there, however many runs failed before and wherever they failed.        *)
EndedWellMeansSeeded == compiler = "done" /\ ~emptied => redisUp /\ routeKey

Kept == [](healthd # "stopped")

(* Once the tunnel and Redis stay up, the tunnel reads up again and again, *)
(* whatever crashed before: healthd writes its verdict on every poll.      *)
StatusRecovers == Kept /\ <>[](alive /\ redisUp) => []<>(status = "up")

(* Once the tunnel stays dead, requests are refused for good, even if      *)
(* healthd was stopped with "up" as its last word: the key expires.        *)
DeadTunnelRefused == <>[]~alive => <>[](Answer = "ERR")

(* A stack whose Redis is never emptied and whose compiler does not give   *)
(* up serves its target once Postgres, Redis and the tunnel stay up.       *)
BootServes ==
  Kept /\ <>[](pgReady /\ redisUp /\ alive) /\ []~emptied /\ [](compiler # "failed")
  => []<>(Answer = "OK")

==============================================================================
