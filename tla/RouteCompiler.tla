---------------------------- MODULE RouteCompiler ----------------------------
(***************************************************************************)
(* The config compiler (cmd/compiler, internal/routing): one pass reads    *)
(* the tables query by query, without a transaction, while the API changes *)
(* them; it renders the Squid include, the Dante routes and the PAC file,  *)
(* writes them one after the other and then seeds route:<alias> in Redis,  *)
(* key by key.  Any step may fail and end the pass; the container's start  *)
(* loop, or an operator, runs another one.                                 *)
(***************************************************************************)
EXTENDS ConfigStore, FiniteSetsExt

CONSTANT NoTunnel   \* route:<alias> does not exist

ASSUME CompilerAssumption == NoTunnel \notin Names

VARIABLES
  cpc,      \* what the pass does next
  profiles, \* the rows ListProfiles returned
  targets,  \* the rows ListTargets returned
  todo,     \* targets whose tiers are still to be read
  routes,   \* routes[a]: the tunnel resolved for alias a, on its domain
  seeded,   \* aliases this pass has seeded
  squid,    \* the Squid include: its cache_peers, and whether it is whole
  dante,    \* the Dante routes on disk, from alias to tunnel
  pac,      \* the aliases in the PAC file on disk
  redisUp,  \* Redis answers
  route     \* route[a]: the tunnel named by route:<a>

passVars == <<cpc, profiles, targets, todo, routes, seeded>>
fileVars == <<squid, dante, pac>>
redisVars == <<redisUp, route>>
vars == <<storeVars, passVars, fileVars, redisVars>>

PassSteps == {"off", "profiles", "targets", "tiers", "squid", "dante", "pac", "open", "seed", "done"}

Init ==
  /\ StoreInit
  /\ cpc = "off"
  /\ profiles = Empty /\ targets = Empty /\ todo = {} /\ routes = Empty /\ seeded = {}
  /\ squid = [peers |-> {}, whole |-> TRUE]   \* the fail-closed placeholder
  /\ dante = Empty /\ pac = {}
  /\ redisUp = TRUE
  /\ route = [a \in Aliases |-> NoTunnel]

------------------------------------------------------------------------------
(* ResolveTunnels: the enabled profiles are the cache_peers. *)
ResolveTunnels(rows) == {rows[i].name : i \in {j \in DOMAIN rows : rows[j].enabled}}

(* The include, complete. *)
RenderSquidInclude(rows) == [peers |-> ResolveTunnels(rows), whole |-> TRUE]

ListTiers(t) == {k \in Tiers : <<t, k>> \in DOMAIN db.tiers}

(* Mutant: the last tier is taken for the first. *)
primaryTunnel_LastTier(t, chain, rows) ==
  LET id == IF chain # {} THEN db.tiers[<<t, Max(chain)>>] ELSE targets[t].vpn
  IN  IF id \in DOMAIN rows THEN rows[id].name ELSE NoTunnel

(* primaryTunnel: the name of the lowest tier's profile, of the target's   *)
(* own when it has no tiers.                                               *)
primaryTunnel(t, chain, rows) ==
  LET id == IF chain # {} THEN db.tiers[<<t, Min(chain)>>] ELSE targets[t].vpn
  IN  IF id \in DOMAIN rows THEN rows[id].name ELSE NoTunnel

EnabledTargets(rows) == {t \in DOMAIN rows : rows[t].enabled}

RenderPAC(rows) == {rows[t].alias : t \in EnabledTargets(rows)}

(* The next target of the loop: ListTargets is ordered by alias. *)
NextTarget == CHOOSE t \in todo : \A u \in todo : targets[t].alias <= targets[u].alias

------------------------------------------------------------------------------
Start ==
  /\ cpc \in {"off", "done"}
  /\ cpc' = "profiles"
  /\ profiles' = Empty /\ targets' = Empty /\ todo' = {} /\ routes' = Empty /\ seeded' = {}
  /\ UNCHANGED <<storeVars, fileVars, redisVars>>

ListProfiles ==
  /\ cpc = "profiles"
  /\ profiles' = db.profiles
  /\ cpc' = "targets"
  /\ UNCHANGED <<targets, todo, routes, seeded, storeVars, fileVars, redisVars>>

(* Mutant: disabled targets are resolved too. *)
ListTargets_Disabled ==
  /\ cpc = "targets"
  /\ targets' = db.targets
  /\ todo' = DOMAIN db.targets
  /\ cpc' = IF DOMAIN db.targets = {} THEN "squid" ELSE "tiers"
  /\ UNCHANGED <<profiles, routes, seeded, storeVars, fileVars, redisVars>>

ListTargets ==
  /\ cpc = "targets"
  /\ targets' = db.targets
  /\ todo' = EnabledTargets(db.targets)
  /\ cpc' = IF EnabledTargets(db.targets) = {} THEN "squid" ELSE "tiers"
  /\ UNCHANGED <<profiles, routes, seeded, storeVars, fileVars, redisVars>>

(* Mutant: the tunnel is not looked up among the enabled ones. *)
ResolveTarget_AnyPeer ==
  /\ cpc = "tiers"
  /\ LET t == NextTarget
         tunnel == primaryTunnel(t, ListTiers(t), profiles)
     IN  /\ routes' = IF tunnel # NoTunnel
                      THEN Put(routes, targets[t].alias, tunnel) ELSE routes
         /\ todo' = todo \ {t}
         /\ cpc' = IF todo = {t} THEN "squid" ELSE "tiers"
  /\ UNCHANGED <<profiles, targets, seeded, storeVars, fileVars, redisVars>>

(* One round of CompileAll's loop; an orphan, or a target whose tunnel is  *)
(* not enabled, is skipped.                                                *)
ResolveTarget ==
  /\ cpc = "tiers"
  /\ LET t == NextTarget
         tunnel == primaryTunnel(t, ListTiers(t), profiles)
     IN  /\ routes' = IF tunnel \in ResolveTunnels(profiles)
                      THEN Put(routes, targets[t].alias, tunnel) ELSE routes
         /\ todo' = todo \ {t}
         /\ cpc' = IF todo = {t} THEN "squid" ELSE "tiers"
  /\ UNCHANGED <<profiles, targets, seeded, storeVars, fileVars, redisVars>>

WriteSquid ==
  /\ cpc = "squid"
  /\ squid' = RenderSquidInclude(profiles)
  /\ cpc' = "dante"
  /\ UNCHANGED <<profiles, targets, todo, routes, seeded, dante, pac, storeVars, redisVars>>

(* Mutant: the routes of the last pass are not truncated. *)
WriteDante_Appends ==
  /\ cpc = "dante"
  /\ dante' = [a \in DOMAIN routes \cup DOMAIN dante |->
                IF a \in DOMAIN routes THEN routes[a] ELSE dante[a]]
  /\ cpc' = "pac"
  /\ UNCHANGED <<profiles, targets, todo, routes, seeded, squid, pac, storeVars, redisVars>>

WriteDante ==
  /\ cpc = "dante"
  /\ dante' = routes
  /\ cpc' = "pac"
  /\ UNCHANGED <<profiles, targets, todo, routes, seeded, squid, pac, storeVars, redisVars>>

WritePAC ==
  /\ cpc = "pac"
  /\ pac' = RenderPAC(targets)
  /\ cpc' = "open"
  /\ UNCHANGED <<profiles, targets, todo, routes, seeded, squid, dante, storeVars, redisVars>>

(* The pass is over: only what it seeded is remembered. *)
Finish(after) ==
  /\ cpc' = after
  /\ profiles' = Empty /\ targets' = Empty /\ todo' = {} /\ routes' = Empty

OpenRedis ==
  /\ cpc = "open"
  /\ redisUp
  /\ IF routes = Empty
     THEN Finish("done")
     ELSE cpc' = "seed" /\ UNCHANGED <<profiles, targets, todo, routes>>
  /\ UNCHANGED <<seeded, storeVars, fileVars, redisVars>>

(* Mutant: a write that succeeded is repeated. *)
SetRoute_Repeats ==
  /\ cpc = "seed"
  /\ redisUp
  /\ LET a == Min(DOMAIN routes \ seeded)
     IN  route' = [route EXCEPT ![a] = routes[a]]
  /\ UNCHANGED <<passVars, storeVars, fileVars, redisUp>>

SetRoute ==
  /\ cpc = "seed"
  /\ redisUp
  /\ LET a == Min(DOMAIN routes \ seeded)
     IN  /\ route' = [route EXCEPT ![a] = routes[a]]
         /\ seeded' = seeded \cup {a}
         /\ IF DOMAIN routes \subseteq seeded \cup {a}
            THEN Finish("done")
            ELSE UNCHANGED <<cpc, profiles, targets, todo, routes>>
  /\ UNCHANGED <<storeVars, fileVars, redisUp>>

(* A query, a write or a Redis call fails, or the process dies; a file     *)
(* being written is left truncated.                                        *)
Fail ==
  /\ cpc \notin {"off", "done"}
  /\ Finish("off")
  /\ \/ UNCHANGED fileVars
     \/ /\ cpc = "squid"
        /\ \E peers \in SUBSET ResolveTunnels(profiles) :
             squid' = [peers |-> peers, whole |-> FALSE]
        /\ UNCHANGED <<dante, pac>>
     \/ /\ cpc = "dante"
        /\ \E part \in SUBSET DOMAIN routes : dante' = [a \in part |-> routes[a]]
        /\ UNCHANGED <<squid, pac>>
     \/ /\ cpc = "pac"
        /\ \E part \in SUBSET RenderPAC(targets) : pac' = part
        /\ UNCHANGED <<squid, dante>>
  /\ UNCHANGED <<seeded, storeVars, redisVars>>

(* Redis keeps nothing across a restart. *)
RedisCrash ==
  /\ redisUp
  /\ redisUp' = FALSE
  /\ route' = [a \in Aliases |-> NoTunnel]
  /\ UNCHANGED <<storeVars, passVars, fileVars>>

RedisStart ==
  /\ ~redisUp
  /\ redisUp' = TRUE
  /\ UNCHANGED <<route, storeVars, passVars, fileVars>>

PassStep ==
  \/ ListProfiles \/ ListTargets \/ ResolveTarget
  \/ WriteSquid \/ WriteDante \/ WritePAC
  \/ OpenRedis \/ SetRoute

CompilerNext ==
  \/ Start \/ PassStep \/ Fail
  \/ RedisCrash \/ RedisStart

Next ==
  \/ CompilerNext
  \/ StoreNext /\ UNCHANGED <<passVars, fileVars, redisVars>>

Spec == Init /\ [][Next]_vars

AliasesOf(ids) == {targets[t].alias : t \in ids}

(* A failed pass is run again (the start loop of the compiler's container, *)
(* docker-compose.dynamic.yml), and no query, write or Redis call fails    *)
(* every time it is tried.  Nothing makes a finished pass run again.       *)
Fairness ==
  /\ WF_vars(cpc = "off" /\ Start)
  /\ SF_vars(ListProfiles) /\ SF_vars(ListTargets)
  /\ SF_vars(WriteSquid) /\ SF_vars(WriteDante) /\ SF_vars(WritePAC)
  /\ SF_vars(OpenRedis)
  /\ \A a \in Aliases : /\ SF_vars(ResolveTarget /\ a \in AliasesOf(todo) \ AliasesOf(todo'))
                        /\ SF_vars(SetRoute /\ a \in seeded' \ seeded)

------------------------------------------------------------------------------
TypeOK ==
  /\ StoreTypeOK
  /\ cpc \in PassSteps
  /\ IsTable(profiles, ProfileIds, Profile)
  /\ IsTable(targets, TargetIds, Target)
  /\ todo \subseteq DOMAIN targets
  /\ IsTable(routes, Aliases, Names)
  /\ seeded \subseteq Aliases
  /\ squid \in [peers: SUBSET Names, whole: BOOLEAN]
  /\ IsTable(dante, Aliases, Names)
  /\ pac \subseteq Aliases
  /\ redisUp \in BOOLEAN
  /\ route \in [Aliases -> Names \cup {NoTunnel}]

(* The reference: the tunnel the tables d give alias a. *)
Routed(d, a) ==
  LET Chain(t) == {k \in Tiers : <<t, k>> \in DOMAIN d.tiers}
      Primary(t, i) == IF Chain(t) = {} THEN d.targets[t].vpn = i
                       ELSE \E k \in Chain(t) : /\ d.tiers[<<t, k>>] = i
                                                /\ \A l \in Chain(t) : k <= l
      found == {i \in DOMAIN d.profiles :
                  /\ d.profiles[i].enabled
                  /\ \E t \in DOMAIN d.targets : /\ d.targets[t].alias = a
                                                 /\ d.targets[t].enabled
                                                 /\ Primary(t, i)}
  IN  IF found = {} THEN NoTunnel ELSE d.profiles[CHOOSE i \in found : TRUE].name

(* A key this pass has seeded names a tunnel that the include on disk      *)
(* gives a cache_peer: the include is written, whole, before the first key *)
(* and from the same profile rows, whatever the API commits in between.    *)
SeededHavePeer ==
  \A a \in seeded : route[a] # NoTunnel => squid.whole /\ route[a] \in squid.peers

(* The artifacts of a finished pass agree: Dante and the seeded keys use   *)
(* only tunnels of the include, and clients are sent to the proxy for      *)
(* every target routed.                                                    *)
ArtifactsAgree ==
  cpc = "done" =>
    /\ squid.whole
    /\ DOMAIN dante = seeded
    /\ \A a \in seeded : dante[a] \in squid.peers /\ a \in pac

(* Once Redis stays up, a pass that failed (before, between or after the   *)
(* artifact writes, or with some keys seeded and some not) is followed by  *)
(* one that runs to its end.                                               *)
FailedPassIsRedone == <>[]redisUp => (cpc = "off" ~> cpc = "done")

==============================================================================
