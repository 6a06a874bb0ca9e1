------------------------- MODULE RouteCompilerProofs -------------------------
(***************************************************************************)
(* What a compiler pass leaves behind, for any tables and whatever the API *)
(* commits while it runs: every key it seeds names a tunnel of the include *)
(* on disk, and the artifacts of a finished pass agree.  The invariant     *)
(* says which artifact is already this pass's at each of its steps.  The   *)
(* second half follows what a pass reads while one mutation is committed:  *)
(* every target is given a tunnel of the tables before or after it.        *)
(***************************************************************************)
EXTENDS PassHistory, ConfigStoreProofs

PassInv ==
  /\ todo \subseteq EnabledTargets(targets)
  /\ cpc = "tiers" => todo # {}
  /\ cpc \in {"profiles", "targets"} => routes = Empty /\ todo = {}
  /\ \A a \in DOMAIN routes : routes[a] \in ResolveTunnels(profiles) /\ a \in RenderPAC(targets)
  /\ cpc \in {"dante", "pac", "open", "seed"} => squid = RenderSquidInclude(profiles)
  /\ cpc \in {"pac", "open", "seed"} => dante = routes
  /\ cpc \in {"open", "seed"} => pac = RenderPAC(targets)
  /\ cpc \notin {"off", "seed", "done"} => seeded = {}
  /\ cpc = "seed" => seeded \subseteq DOMAIN routes /\ seeded # DOMAIN routes

CompilerIInv == StoreIInv /\ TypeOK /\ PassInv /\ SeededHavePeer /\ ArtifactsAgree

(* Min finds an element. *)
LEMMA MinOfNats ==
  ASSUME NEW S \in SUBSET Nat, S # {}
  PROVE  Min(S) \in S /\ \A y \in S : Min(S) <= y
<1>1. \E x \in S : \A y \in S : x <= y
  BY LeastNat
<1> QED BY <1>1, Zenon DEF Min

(* The loop of CompileAll always finds its next target. *)
LEMMA NextTargetExists ==
  ASSUME TypeOK, todo # {}
  PROVE  NextTarget \in todo
<1> DEFINE S == {targets[t].alias : t \in todo}
<1>1. \A t \in todo : targets[t].alias \in Nat
  BY StoreAssumption DEF TypeOK, IsTable, Target
<1>2. S \in SUBSET Nat /\ S # {}
  BY <1>1
<1>3. PICK t \in todo : targets[t].alias = Min(S)
  BY <1>2, MinOfNats
<1>4. \A u \in todo : targets[t].alias <= targets[u].alias
  <2>1. \A y \in S : Min(S) <= y
    BY <1>2, MinOfNats
  <2>2. \A u \in todo : targets[u].alias \in S
    OBVIOUS
  <2> QED BY <1>3, <2>1, <2>2, Zenon
<1> QED BY <1>4, Zenon DEF NextTarget

(* The tunnels of the include are profile names, its aliases aliases. *)
LEMMA RenderedTypes ==
  ASSUME TypeOK
  PROVE  ResolveTunnels(profiles) \subseteq Names /\ RenderPAC(targets) \subseteq Aliases
BY DEF TypeOK, IsTable, Profile, Target, ResolveTunnels, RenderPAC, EnabledTargets

(* The fail-closed placeholders. *)
LEMMA CompilerStart == Init => CompilerIInv
<1> SUFFICES ASSUME Init PROVE CompilerIInv
  OBVIOUS
<1>1. StoreIInv
  BY StoreStart DEF Init
<1>2. TypeOK
  BY <1>1 DEF Init, TypeOK, StoreIInv, PassSteps, IsTable, Empty
<1> QED BY <1>1, <1>2 DEF Init, CompilerIInv, PassInv, Empty, SeededHavePeer, ArtifactsAgree

(* Nothing of the pass survives its start or its end but what it seeded. *)
LEMMA StartStep == CompilerIInv /\ Start => CompilerIInv'
<1> SUFFICES ASSUME CompilerIInv, Start PROVE CompilerIInv'
  OBVIOUS
<1>1. StoreIInv' /\ UNCHANGED storeVars
  BY StoreStep DEF CompilerIInv, Start
<1>2. TypeOK'
  BY <1>1 DEF CompilerIInv, TypeOK, Start, StoreIInv, fileVars, redisVars, PassSteps, IsTable, Empty
<1>3. PassInv'
  BY DEF CompilerIInv, PassInv, Start, Empty
<1>4. SeededHavePeer' /\ ArtifactsAgree'
  BY DEF Start, SeededHavePeer, ArtifactsAgree
<1> QED BY <1>1, <1>2, <1>3, <1>4 DEF CompilerIInv

(* ListProfiles: the routes are still empty. *)
LEMMA ListProfilesStep == CompilerIInv /\ ListProfiles => CompilerIInv'
<1> SUFFICES ASSUME CompilerIInv, ListProfiles PROVE CompilerIInv'
  OBVIOUS
<1>1. StoreIInv'
  BY StoreStep DEF CompilerIInv, ListProfiles
<1>2. TypeOK'
  BY <1>1 DEF CompilerIInv, TypeOK, ListProfiles, StoreIInv, StoreTypeOK, IsDB, storeVars, fileVars,
     redisVars, PassSteps
<1>3. PassInv'
  BY DEF CompilerIInv, PassInv, ListProfiles, Empty, EnabledTargets
<1>4. SeededHavePeer' /\ ArtifactsAgree'
  BY DEF CompilerIInv, PassInv, ListProfiles, SeededHavePeer, ArtifactsAgree
<1> QED BY <1>1, <1>2, <1>3, <1>4 DEF CompilerIInv

(* ListTargets: the loop is over the enabled targets. *)
LEMMA ListTargetsStep == CompilerIInv /\ ListTargets => CompilerIInv'
<1> SUFFICES ASSUME CompilerIInv, ListTargets PROVE CompilerIInv'
  OBVIOUS
<1>1. StoreIInv'
  BY StoreStep DEF CompilerIInv, ListTargets
<1>2. TypeOK'
  BY <1>1 DEF CompilerIInv, TypeOK, ListTargets, StoreIInv, StoreTypeOK, IsDB, storeVars, fileVars,
     redisVars, PassSteps, EnabledTargets
<1>3. PassInv'
  BY DEF CompilerIInv, PassInv, ListTargets, Empty
<1>4. SeededHavePeer' /\ ArtifactsAgree'
  BY DEF CompilerIInv, PassInv, ListTargets, SeededHavePeer, ArtifactsAgree
<1> QED BY <1>1, <1>2, <1>3, <1>4 DEF CompilerIInv

(* A round of the loop: the target is enabled and its tunnel resolved.     *)
LEMMA ResolveTargetStep == CompilerIInv /\ ResolveTarget => CompilerIInv'
<1> SUFFICES ASSUME CompilerIInv, ResolveTarget PROVE CompilerIInv'
  OBVIOUS
<1> DEFINE t == NextTarget
           tunnel == primaryTunnel(t, ListTiers(t), profiles)
<1>1. StoreIInv'
  BY StoreStep DEF CompilerIInv, ResolveTarget
<1>2. t \in todo /\ t \in EnabledTargets(targets) /\ t \in DOMAIN targets
  BY NextTargetExists DEF CompilerIInv, PassInv, ResolveTarget, TypeOK
<1>3. /\ cpc = "tiers" /\ todo' = todo \ {t}
      /\ cpc' = IF todo = {t} THEN "squid" ELSE "tiers"
      /\ routes' = IF tunnel \in ResolveTunnels(profiles)
                   THEN Put(routes, targets[t].alias, tunnel) ELSE routes
      /\ UNCHANGED <<profiles, targets, seeded, storeVars, fileVars, redisVars>>
  BY DEF ResolveTarget
<1> HIDE DEF t, tunnel
<1>4. \A a \in DOMAIN routes' :
        routes'[a] \in ResolveTunnels(profiles) /\ a \in RenderPAC(targets)
  BY <1>2, <1>3 DEF CompilerIInv, PassInv, Put, RenderPAC
<1>5. IsTable(routes', Aliases, Names)
  <2>1. DOMAIN routes' \subseteq Aliases /\ \A a \in DOMAIN routes' : routes'[a] \in Names
    BY <1>4, RenderedTypes DEF CompilerIInv
  <2>2. routes' = [a \in DOMAIN routes' |-> routes'[a]]
    BY <1>3 DEF Put, CompilerIInv, TypeOK, IsTable
  <2> QED BY <2>1, <2>2 DEF IsTable
<1>6. TypeOK'
  BY <1>1, <1>3, <1>5 DEF CompilerIInv, TypeOK, StoreIInv, storeVars, fileVars, redisVars, PassSteps
<1>7. PassInv'
  <2>1. todo' \subseteq EnabledTargets(targets) /\ (cpc' = "tiers" => todo' # {})
    BY <1>2, <1>3 DEF CompilerIInv, PassInv
  <2> QED BY <1>3, <1>4, <2>1 DEF CompilerIInv, PassInv
<1>8. SeededHavePeer' /\ ArtifactsAgree'
  BY <1>3 DEF CompilerIInv, PassInv, SeededHavePeer, ArtifactsAgree
<1> QED BY <1>1, <1>6, <1>7, <1>8 DEF CompilerIInv

(* The three files, in their order; no key is seeded yet. *)
LEMMA WriteStep == CompilerIInv /\ (WriteSquid \/ WriteDante \/ WritePAC) => CompilerIInv'
<1> SUFFICES ASSUME CompilerIInv, WriteSquid \/ WriteDante \/ WritePAC PROVE CompilerIInv'
  OBVIOUS
<1>1. StoreIInv'
  BY StoreStep DEF CompilerIInv, WriteSquid, WriteDante, WritePAC
<1>2. /\ ResolveTunnels(profiles) \subseteq Names
      /\ RenderPAC(targets) \subseteq Aliases
  BY RenderedTypes DEF CompilerIInv
<1>3. CASE WriteSquid
  <2>1. TypeOK'
    BY <1>1, <1>2, <1>3 DEF CompilerIInv, TypeOK, WriteSquid, RenderSquidInclude, StoreIInv,
       storeVars, redisVars, PassSteps
  <2>2. PassInv'
    BY <1>3 DEF CompilerIInv, PassInv, WriteSquid
  <2>3. SeededHavePeer' /\ ArtifactsAgree'
    BY <1>3 DEF CompilerIInv, PassInv, WriteSquid, SeededHavePeer, ArtifactsAgree
  <2> QED BY <1>1, <2>1, <2>2, <2>3 DEF CompilerIInv
<1>4. CASE WriteDante
  <2>1. TypeOK'
    BY <1>1, <1>4 DEF CompilerIInv, TypeOK, WriteDante, StoreIInv, storeVars, redisVars, PassSteps
  <2>2. PassInv'
    BY <1>4 DEF CompilerIInv, PassInv, WriteDante
  <2>3. SeededHavePeer' /\ ArtifactsAgree'
    BY <1>4 DEF CompilerIInv, PassInv, WriteDante, SeededHavePeer, ArtifactsAgree
  <2> QED BY <1>1, <2>1, <2>2, <2>3 DEF CompilerIInv
<1>5. CASE WritePAC
  <2>1. TypeOK'
    BY <1>1, <1>2, <1>5 DEF CompilerIInv, TypeOK, WritePAC, StoreIInv, storeVars, redisVars, PassSteps
  <2>2. PassInv'
    BY <1>5 DEF CompilerIInv, PassInv, WritePAC
  <2>3. SeededHavePeer' /\ ArtifactsAgree'
    BY <1>5 DEF CompilerIInv, PassInv, WritePAC, SeededHavePeer, ArtifactsAgree
  <2> QED BY <1>1, <2>1, <2>2, <2>3 DEF CompilerIInv
<1> QED BY <1>3, <1>4, <1>5

(* What a pass that ends leaves of itself. *)
LEMMA FinishedPass ==
  ASSUME NEW after \in {"off", "done"}, Finish(after)
  PROVE  /\ PassInv'
         /\ cpc' \in PassSteps /\ todo' \subseteq DOMAIN targets'
         /\ IsTable(profiles', ProfileIds, Profile) /\ IsTable(targets', TargetIds, Target)
         /\ IsTable(routes', Aliases, Names)
BY DEF Finish, PassInv, PassSteps, IsTable, Empty

(* Redis answers; without routes the pass is over. *)
LEMMA OpenRedisStep == CompilerIInv /\ OpenRedis => CompilerIInv'
<1> SUFFICES ASSUME CompilerIInv, OpenRedis PROVE CompilerIInv'
  OBVIOUS
<1>1. StoreIInv'
  BY StoreStep DEF CompilerIInv, OpenRedis
<1>2. CASE routes = Empty
  <2>1. PassInv' /\ TypeOK'
    BY <1>1, <1>2, FinishedPass DEF CompilerIInv, TypeOK, OpenRedis, StoreIInv, storeVars, fileVars,
       redisVars
  <2>2. cpc = "open" /\ cpc' = "done" /\ UNCHANGED <<seeded, squid, dante, pac, route>>
    BY <1>2 DEF OpenRedis, Finish, fileVars, redisVars
  <2>3. seeded = {} /\ squid.whole /\ DOMAIN dante = {}
    BY <1>2, <2>2 DEF CompilerIInv, PassInv, RenderSquidInclude, Empty
  <2>4. SeededHavePeer' /\ ArtifactsAgree'
    BY <2>2, <2>3 DEF SeededHavePeer, ArtifactsAgree
  <2> QED BY <1>1, <2>1, <2>4 DEF CompilerIInv
<1>3. CASE routes # Empty
  <2>1. TypeOK'
    BY <1>1, <1>3 DEF CompilerIInv, TypeOK, OpenRedis, StoreIInv, storeVars, fileVars, redisVars, PassSteps
  <2>2. DOMAIN routes # {}
    BY <1>3 DEF CompilerIInv, TypeOK, IsTable, Empty
  <2>3. PassInv'
    BY <1>3, <2>2 DEF CompilerIInv, PassInv, OpenRedis, fileVars
  <2>4. SeededHavePeer' /\ ArtifactsAgree'
    BY <1>3 DEF CompilerIInv, PassInv, OpenRedis, SeededHavePeer, ArtifactsAgree
  <2> QED BY <1>1, <2>1, <2>3, <2>4 DEF CompilerIInv
<1> QED BY <1>2, <1>3

(* A key is seeded: its tunnel was resolved from the rows the include was  *)
(* rendered from.                                                          *)
LEMMA SetRouteStep == CompilerIInv /\ SetRoute => CompilerIInv'
<1> SUFFICES ASSUME CompilerIInv, SetRoute PROVE CompilerIInv'
  OBVIOUS
<1> DEFINE a == Min(DOMAIN routes \ seeded)
<1>1. StoreIInv'
  BY StoreStep DEF CompilerIInv, SetRoute
<1>2. DOMAIN routes \ seeded \in SUBSET Nat /\ DOMAIN routes \ seeded # {}
  BY StoreAssumption DEF CompilerIInv, PassInv, TypeOK, IsTable, SetRoute
<1>3. a \in DOMAIN routes /\ a \in Aliases /\ routes[a] \in Names
  BY <1>2, MinOfNats DEF CompilerIInv, TypeOK, IsTable
<1>4. /\ cpc = "seed" /\ route' = [route EXCEPT ![a] = routes[a]] /\ seeded' = seeded \cup {a}
      /\ IF DOMAIN routes \subseteq seeded \cup {a}
         THEN Finish("done")
         ELSE UNCHANGED <<cpc, profiles, targets, todo, routes>>
      /\ UNCHANGED <<storeVars, fileVars, redisUp>>
  BY DEF SetRoute
<1> HIDE DEF a
<1>5. /\ squid = RenderSquidInclude(profiles) /\ dante = routes /\ pac = RenderPAC(targets)
      /\ seeded \subseteq DOMAIN routes
      /\ squid.whole /\ squid.peers = ResolveTunnels(profiles)
      /\ \A b \in DOMAIN routes : routes[b] \in squid.peers /\ b \in pac
  BY <1>4 DEF CompilerIInv, PassInv, RenderSquidInclude
<1>6. route' \in [Aliases -> Names \cup {NoTunnel}] /\ seeded' \subseteq Aliases
  BY <1>3, <1>4 DEF CompilerIInv, TypeOK
<1>7. SeededHavePeer'
  <2>1. squid' = squid
    BY <1>4 DEF fileVars
  <2>2. \A b \in seeded : b # a => route'[b] = route[b]
    BY <1>4 DEF CompilerIInv, TypeOK
  <2>3. route'[a] = routes[a]
    BY <1>3, <1>4 DEF CompilerIInv, TypeOK
  <2> QED BY <1>3, <1>4, <1>5, <2>1, <2>2, <2>3 DEF CompilerIInv, SeededHavePeer
<1>8. CASE DOMAIN routes \subseteq seeded \cup {a}
  <2>1. Finish("done")
    BY <1>4, <1>8
  <2>2. PassInv' /\ TypeOK'
    BY <1>1, <1>4, <1>6, <2>1, FinishedPass DEF CompilerIInv, TypeOK, StoreIInv, storeVars, fileVars
  <2>3. seeded' = DOMAIN routes
    BY <1>3, <1>4, <1>5, <1>8
  <2>4. ArtifactsAgree'
    BY <1>4, <1>5, <2>3 DEF ArtifactsAgree, fileVars
  <2> QED BY <1>1, <1>7, <2>2, <2>4 DEF CompilerIInv
<1>9. CASE ~(DOMAIN routes \subseteq seeded \cup {a})
  <2>1. UNCHANGED <<cpc, profiles, targets, todo, routes, storeVars, fileVars, redisUp>>
    BY <1>4, <1>9
  <2>2. TypeOK'
    BY <1>1, <1>6, <2>1 DEF CompilerIInv, TypeOK, StoreIInv, storeVars, fileVars
  <2>3. PassInv'
    BY <1>3, <1>4, <1>5, <1>9, <2>1 DEF CompilerIInv, PassInv, fileVars
  <2>4. ArtifactsAgree'
    BY <1>4, <2>1 DEF ArtifactsAgree
  <2> QED BY <1>1, <1>7, <2>2, <2>3, <2>4 DEF CompilerIInv
<1> QED BY <1>8, <1>9

(* A pass may fail anywhere; the include is torn only before any key. *)
LEMMA FailStep == CompilerIInv /\ Fail => CompilerIInv'
<1> SUFFICES ASSUME CompilerIInv, Fail PROVE CompilerIInv'
  OBVIOUS
<1>1. StoreIInv'
  BY StoreStep DEF CompilerIInv, Fail
<1>2. Finish("off") /\ cpc' = "off" /\ UNCHANGED <<seeded, storeVars, redisVars>>
  BY DEF Fail, Finish
<1> DEFINE FilesTyped == /\ squid \in [peers: SUBSET Names, whole: BOOLEAN]
                         /\ IsTable(dante, Aliases, Names) /\ pac \subseteq Aliases
<1>3. FilesTyped'
  <2>1. /\ ResolveTunnels(profiles) \subseteq Names /\ RenderPAC(targets) \subseteq Aliases
        /\ FilesTyped /\ IsTable(routes, Aliases, Names)
    BY RenderedTypes DEF CompilerIInv, TypeOK
  <2>2. CASE UNCHANGED fileVars
    BY <2>1, <2>2 DEF fileVars
  <2>3. ASSUME NEW peers \in SUBSET ResolveTunnels(profiles),
               squid' = [peers |-> peers, whole |-> FALSE], UNCHANGED <<dante, pac>>
        PROVE  FilesTyped'
    BY <2>1, <2>3
  <2>4. ASSUME NEW part \in SUBSET DOMAIN routes,
               dante' = [a \in part |-> routes[a]], UNCHANGED <<squid, pac>>
        PROVE  FilesTyped'
    BY <2>1, <2>4 DEF IsTable
  <2>5. ASSUME NEW part \in SUBSET RenderPAC(targets), pac' = part, UNCHANGED <<squid, dante>>
        PROVE  FilesTyped'
    BY <2>1, <2>5
  <2> QED BY <2>2, <2>3, <2>4, <2>5 DEF Fail
<1>4. PassInv' /\ TypeOK'
  BY <1>1, <1>2, <1>3, FinishedPass DEF CompilerIInv, TypeOK, StoreIInv, storeVars, redisVars
<1>5. squid' = squid \/ seeded = {}
  BY DEF CompilerIInv, PassInv, Fail, fileVars
<1>6. SeededHavePeer' /\ ArtifactsAgree'
  BY <1>2, <1>5 DEF CompilerIInv, SeededHavePeer, ArtifactsAgree, redisVars
<1> QED BY <1>1, <1>4, <1>6 DEF CompilerIInv

(* Redis, the API, and steps that change nothing here. *)
LEMMA OutsideStep ==
  ASSUME CompilerIInv,
         \/ RedisCrash \/ RedisStart \/ UNCHANGED vars
         \/ StoreNext /\ UNCHANGED <<passVars, fileVars, redisVars>>
  PROVE  CompilerIInv'
<1>1. StoreIInv'
  BY StoreStep DEF CompilerIInv, RedisCrash, RedisStart, vars
<1>2. UNCHANGED <<passVars, fileVars>>
  BY DEF RedisCrash, RedisStart, vars
<1>3. /\ redisUp' \in BOOLEAN /\ route' \in [Aliases -> Names \cup {NoTunnel}]
      /\ \A b \in Aliases : route'[b] = route[b] \/ route'[b] = NoTunnel
  BY DEF CompilerIInv, TypeOK, RedisCrash, RedisStart, vars, redisVars
<1>4. TypeOK'
  BY <1>1, <1>2, <1>3 DEF CompilerIInv, TypeOK, StoreIInv, passVars, fileVars
<1>5. PassInv'
  BY <1>2 DEF CompilerIInv, PassInv, passVars, fileVars
<1>6. SeededHavePeer' /\ ArtifactsAgree'
  BY <1>2, <1>3 DEF CompilerIInv, TypeOK, SeededHavePeer, ArtifactsAgree, passVars, fileVars
<1> QED BY <1>1, <1>4, <1>5, <1>6 DEF CompilerIInv

(* The invariant is inductive. *)
THEOREM CompilerInductive == Spec => []CompilerIInv
<1>1. CompilerIInv /\ [Next]_vars => CompilerIInv'
  BY StartStep, ListProfilesStep, ListTargetsStep, ResolveTargetStep, WriteStep, OpenRedisStep,
     SetRouteStep, FailStep, OutsideStep DEF Next, CompilerNext, PassStep
<1> QED BY <1>1, CompilerStart, PTL DEF Spec

(* TypeOK, for every instance. *)
THEOREM CompilerTypeCorrect == Spec => []TypeOK
<1>1. CompilerIInv => TypeOK
  BY DEF CompilerIInv
<1> QED BY <1>1, CompilerInductive, PTL

(* SeededHavePeer: no pass seeds a key before its peer is in the include,  *)
(* whatever the API commits between its queries.                           *)
THEOREM KeysFollowPeers == Spec => []SeededHavePeer
<1>1. CompilerIInv => SeededHavePeer
  BY DEF CompilerIInv
<1> QED BY <1>1, CompilerInductive, PTL

(* ArtifactsAgree: the files and the keys of a finished pass. *)
THEOREM ArtifactsOfOnePass == Spec => []ArtifactsAgree
<1>1. CompilerIInv => ArtifactsAgree
  BY DEF CompilerIInv
<1> QED BY <1>1, CompilerInductive, PTL

------------------------------------------------------------------------------
(* What one mutation may do to the three tables a pass reads: change one   *)
(* of them, or delete a profile, or a target, with what depends on it.     *)
ProfileGone(d, e, i) ==
  /\ i \in ProfileIds
  /\ e.profiles = Without(d.profiles, {i})
  /\ DOMAIN e.targets = DOMAIN d.targets
  /\ \A t \in DOMAIN d.targets :
       /\ e.targets[t].alias = d.targets[t].alias
       /\ e.targets[t].enabled = d.targets[t].enabled
       /\ e.targets[t].vpn = IF d.targets[t].vpn = i THEN NoId ELSE d.targets[t].vpn
  /\ e.tiers = Without(d.tiers, {k \in DOMAIN d.tiers : d.tiers[k] = i})

TargetGone(d, e, x) ==
  /\ e.profiles = d.profiles
  /\ e.targets = Without(d.targets, {x})
  /\ e.tiers = Without(d.tiers, {k \in DOMAIN d.tiers : k[1] = x})

Edit(d, e) ==
  \/ e.targets = d.targets /\ e.tiers = d.tiers
  \/ e.profiles = d.profiles /\ e.tiers = d.tiers
  \/ e.profiles = d.profiles /\ e.targets = d.targets
  \/ \E i \in ProfileIds : ProfileGone(d, e, i)
  \/ \E x \in TargetIds : TargetGone(d, e, x)

(* An edit is about the three tables. *)
LEMMA EditTables ==
  ASSUME NEW d, NEW e, NEW f, Edit(d, e),
         f.profiles = e.profiles, f.targets = e.targets, f.tiers = e.tiers
  PROVE  Edit(d, f)
BY DEF Edit, ProfileGone, TargetGone

(* Deleting a profile. *)
LEMMA DeleteProfileEdits ==
  ASSUME NEW d, Good(d), NEW i \in ProfileIds, NEW e \in DeleteProfile(d, i)
  PROVE  Edit(d, e)
<1> DEFINE orphaned == [t \in DOMAIN d.targets |->
                         IF d.targets[t].vpn = i
                         THEN [d.targets[t] EXCEPT !.vpn = NoId] ELSE d.targets[t]]
           cut == {k \in DOMAIN d.tiers : d.tiers[k] = i}
<1>1. e = [profiles |-> Without(d.profiles, {i}), targets |-> orphaned,
           tiers |-> Without(d.tiers, cut), rules |-> d.rules,
           users |-> d.users, spent |-> d.spent, audit |-> d.audit]
  BY DEF Good, IsDB, DeleteProfile
<1>2. \A t \in DOMAIN d.targets : d.targets[t] \in Target
  BY DEF Good, IsDB, IsTable
<1>3. \A t \in DOMAIN d.targets :
        /\ orphaned[t].alias = d.targets[t].alias
        /\ orphaned[t].enabled = d.targets[t].enabled
        /\ orphaned[t].vpn = IF d.targets[t].vpn = i THEN NoId ELSE d.targets[t].vpn
  BY <1>2 DEF Target
<1>4. DOMAIN orphaned = DOMAIN d.targets
  OBVIOUS
<1> HIDE DEF orphaned
<1>5. /\ e.profiles = Without(d.profiles, {i}) /\ e.targets = orphaned
      /\ e.tiers = Without(d.tiers, cut)
  BY <1>1
<1>6. ProfileGone(d, e, i)
  BY <1>3, <1>4, <1>5 DEF ProfileGone
<1> QED BY <1>6 DEF Edit

(* Every statement of the API is an edit. *)
LEMMA StatementsEdit ==
  ASSUME StoreIInv,
         \/ PutProfile \/ DelProfile \/ PutTarget \/ DelTarget
         \/ PutTier \/ DelTier \/ PutRule \/ DelRule \/ PutUser
  PROVE  tx' # NoTx => Edit(db, tx'.db)
<1> SUFFICES ASSUME tx' # NoTx PROVE Edit(db, tx'.db)
  OBVIOUS
<1>1. Good(db)
  BY DEF StoreIInv, StoreTypeOK, Good
<1>2. ASSUME NEW outcomes, Mutate(outcomes), \A e \in outcomes : Edit(db, e)
      PROVE  Edit(db, tx'.db)
  BY <1>2 DEF Mutate
<1>3. db = [profiles |-> db.profiles, targets |-> db.targets, tiers |-> db.tiers,
            rules |-> db.rules, users |-> db.users, spent |-> db.spent, audit |-> db.audit]
  BY <1>1 DEF Good, IsDB
<1>4. CASE PutProfile
  <2>1. PICK n \in Names, b \in BOOLEAN : Mutate(UpsertProfile(db, n, b))
    BY <1>4 DEF PutProfile
  <2>2. \A e \in UpsertProfile(db, n, b) : e.targets = db.targets /\ e.tiers = db.tiers
    BY <1>3 DEF UpsertProfile
  <2> QED BY <1>2, <2>1, <2>2 DEF Edit
<1>5. CASE DelProfile
  <2>1. PICK i \in ProfileIds : Mutate(DeleteProfile(db, i))
    BY <1>5 DEF DelProfile
  <2> QED BY <1>1, <1>2, <2>1, DeleteProfileEdits
<1>6. CASE PutTarget
  <2>1. PICK a \in Aliases, v \in ProfileIds \cup {NoId}, b \in BOOLEAN :
          Mutate(UpsertTarget(db, a, v, b))
    BY <1>6 DEF PutTarget
  <2>2. \A e \in UpsertTarget(db, a, v, b) : e.profiles = db.profiles /\ e.tiers = db.tiers
    BY <1>3 DEF UpsertTarget
  <2> QED BY <1>2, <2>1, <2>2 DEF Edit
<1>7. CASE DelTarget
  <2>1. PICK x \in TargetIds : Mutate(DeleteTarget(db, x))
    BY <1>7 DEF DelTarget
  <2>2. \A e \in DeleteTarget(db, x) : TargetGone(db, e, x)
    BY <1>3 DEF DeleteTarget, TargetGone
  <2> QED BY <1>2, <2>1, <2>2 DEF Edit
<1>8. CASE PutTier
  <2>1. PICK t \in TargetIds, k \in Tiers, i \in ProfileIds : Mutate(UpsertTier(db, t, k, i))
    BY <1>8 DEF PutTier
  <2>2. \A e \in UpsertTier(db, t, k, i) : e.profiles = db.profiles /\ e.targets = db.targets
    BY <1>3 DEF UpsertTier
  <2> QED BY <1>2, <2>1, <2>2 DEF Edit
<1>9. CASE DelTier
  <2>1. PICK t \in TargetIds, k \in Tiers : Mutate(DeleteTier(db, t, k))
    BY <1>9 DEF DelTier
  <2>2. \A e \in DeleteTier(db, t, k) : e.profiles = db.profiles /\ e.targets = db.targets
    BY <1>3 DEF DeleteTier
  <2> QED BY <1>2, <2>1, <2>2 DEF Edit
<1>10. CASE PutRule
  <2>1. PICK id \in RuleIds \cup {NoId}, rule \in Rule : Mutate(UpsertRule(db, id, rule))
    BY <1>10 DEF PutRule
  <2>2. \A e \in UpsertRule(db, id, rule) : e.targets = db.targets /\ e.tiers = db.tiers
    BY <1>3 DEF UpsertRule
  <2> QED BY <1>2, <2>1, <2>2 DEF Edit
<1>11. CASE DelRule
  <2>1. PICK r \in RuleIds : Mutate(DeleteRule(db, r))
    BY <1>11 DEF DelRule
  <2>2. \A e \in DeleteRule(db, r) : e.targets = db.targets /\ e.tiers = db.tiers
    BY <1>3 DEF DeleteRule
  <2> QED BY <1>2, <2>1, <2>2 DEF Edit
<1>12. CASE PutUser
  <2>1. PICK u \in Usernames, role \in Roles, s \in BOOLEAN, b \in BOOLEAN :
          Mutate(UpsertUser(db, u, role, s, b))
    BY <1>12 DEF PutUser
  <2>2. \A e \in UpsertUser(db, u, role, s, b) : e.targets = db.targets /\ e.tiers = db.tiers
    BY <1>3 DEF UpsertUser
  <2> QED BY <1>2, <2>1, <2>2 DEF Edit
<1> QED BY <1>4, <1>5, <1>6, <1>7, <1>8, <1>9, <1>10, <1>11, <1>12

------------------------------------------------------------------------------
(* The tiers of a target, its first tunnel, and where that tunnel leads. *)
Chain(tiers, t) == {k \in Tiers : <<t, k>> \in DOMAIN tiers}

First(tiers, vpn, t) ==
  IF Chain(tiers, t) # {} THEN tiers[<<t, Min(Chain(tiers, t))>>] ELSE vpn

Via(rows, id) == IF id \in DOMAIN rows /\ rows[id].enabled THEN rows[id].name ELSE NoTunnel

(* The reference finds the tunnel of the target that has the alias. *)
LEMMA RoutedVia ==
  ASSUME NEW d, Good(d), NEW t \in DOMAIN d.targets, d.targets[t].enabled
  PROVE  Routed(d, d.targets[t].alias) = Via(d.profiles, First(d.tiers, d.targets[t].vpn, t))
<1> DEFINE a == d.targets[t].alias
           C(u) == {k \in Tiers : <<u, k>> \in DOMAIN d.tiers}
           Primary(u, i) == IF C(u) = {} THEN d.targets[u].vpn = i
                            ELSE \E k \in C(u) : /\ d.tiers[<<u, k>>] = i
                                                 /\ \A l \in C(u) : k <= l
           found == {i \in DOMAIN d.profiles :
                       /\ d.profiles[i].enabled
                       /\ \E u \in DOMAIN d.targets : /\ d.targets[u].alias = a
                                                      /\ d.targets[u].enabled
                                                      /\ Primary(u, i)}
           id == First(d.tiers, d.targets[t].vpn, t)
<1>1. Routed(d, a) = IF found = {} THEN NoTunnel ELSE d.profiles[CHOOSE i \in found : TRUE].name
  BY DEF Routed
<1>2. \A u \in DOMAIN d.targets : d.targets[u].alias = a => u = t
  BY DEF Good, Consistent
<1>3. \A i : Primary(t, i) <=> i = id
  <2>1. CASE C(t) = {}
    BY <2>1 DEF First, Chain
  <2>2. CASE C(t) # {}
    <3>1. C(t) \in SUBSET Nat
      BY StoreAssumption
    <3>2. Min(C(t)) \in C(t) /\ \A l \in C(t) : Min(C(t)) <= l
      BY <2>2, <3>1, MinOfNats
    <3>3. id = d.tiers[<<t, Min(C(t))>>]
      BY <2>2 DEF First, Chain
    <3>4. ASSUME NEW k \in C(t), \A l \in C(t) : k <= l PROVE k = Min(C(t))
      <4>1. k \in Nat /\ Min(C(t)) \in Nat
        BY <3>1, <3>2
      <4>2. k <= Min(C(t)) /\ Min(C(t)) <= k
        BY <3>2, <3>4
      <4> QED BY <4>1, <4>2
    <3> QED BY <2>2, <3>2, <3>3, <3>4
  <2> QED BY <2>1, <2>2
<1> HIDE DEF Primary, id
<1>4. found = IF id \in DOMAIN d.profiles /\ d.profiles[id].enabled THEN {id} ELSE {}
  BY <1>2, <1>3
<1> QED BY <1>1, <1>4 DEF Via, id

(* Without an enabled target the alias has no tunnel. *)
LEMMA RoutedNowhere ==
  ASSUME NEW d, NEW a, \A t \in EnabledTargets(d.targets) : d.targets[t].alias # a
  PROVE  Routed(d, a) = NoTunnel
BY DEF Routed, EnabledTargets

(* primaryTunnel and the lookup among the enabled ones find the same. *)
LEMMA ResolvesVia ==
  ASSUME TypeOK, NEW t \in DOMAIN targets,
         \A i, j \in DOMAIN profiles : profiles[i].name = profiles[j].name => i = j
  PROVE  LET tunnel == primaryTunnel(t, ListTiers(t), profiles)
         IN  Via(profiles, First(db.tiers, targets[t].vpn, t)) =
               IF tunnel \in ResolveTunnels(profiles) THEN tunnel ELSE NoTunnel
<1> DEFINE id == First(db.tiers, targets[t].vpn, t)
           tunnel == primaryTunnel(t, ListTiers(t), profiles)
<1>1. tunnel = IF id \in DOMAIN profiles THEN profiles[id].name ELSE NoTunnel
  BY DEF primaryTunnel, ListTiers, First, Chain
<1> HIDE DEF id, tunnel
<1>2. \A i \in DOMAIN profiles : profiles[i].name \in Names
  BY DEF TypeOK, IsTable, Profile
<1>3. NoTunnel \notin ResolveTunnels(profiles)
  BY <1>2, CompilerAssumption DEF ResolveTunnels
<1>4. \A i \in DOMAIN profiles : profiles[i].name \in ResolveTunnels(profiles)
                                   <=> profiles[i].enabled
  BY DEF ResolveTunnels
<1>5. Via(profiles, id) = IF tunnel \in ResolveTunnels(profiles) THEN tunnel ELSE NoTunnel
  BY <1>1, <1>3, <1>4 DEF Via
<1> QED BY <1>5 DEF id, tunnel

(* References to a deleted profile are gone with it. *)
LEMMA FirstResolves ==
  ASSUME NEW e, Good(e), NEW t \in DOMAIN e.targets
  PROVE  First(e.tiers, e.targets[t].vpn, t) \in DOMAIN e.profiles \cup {NoId}
<1>1. CASE Chain(e.tiers, t) = {}
  BY <1>1 DEF First, Good, Consistent
<1>2. CASE Chain(e.tiers, t) # {}
  <2>1. Chain(e.tiers, t) \in SUBSET Nat
    BY StoreAssumption DEF Chain
  <2>2. <<t, Min(Chain(e.tiers, t))>> \in DOMAIN e.tiers
    BY <1>2, <2>1, MinOfNats DEF Chain
  <2>3. e.tiers[<<t, Min(Chain(e.tiers, t))>>] \in DOMAIN e.profiles
    BY <2>2 DEF Good, Consistent
  <2> QED BY <1>2, <2>3 DEF First
<1> QED BY <1>1, <1>2

(* Where a reference that does not name the deleted profile leads. *)
LEMMA ViaAfterDelete ==
  ASSUME NEW d, NEW e, NEW i, ProfileGone(d, e, i), NEW id, id # i
  PROVE  Via(d.profiles, id) = Via(e.profiles, id)
BY DEF ProfileGone, Without, Via

(* The rows of the other targets stay. *)
LEMMA FirstOfOthers ==
  ASSUME NEW d, NEW e, NEW x, TargetGone(d, e, x), NEW t, t # x, NEW v
  PROVE  First(e.tiers, v, t) = First(d.tiers, v, t)
<1>1. \A k : <<t, k>> \in DOMAIN e.tiers <=> <<t, k>> \in DOMAIN d.tiers
  BY DEF TargetGone, Without
<1>2. \A k : <<t, k>> \in DOMAIN e.tiers => e.tiers[<<t, k>>] = d.tiers[<<t, k>>]
  BY DEF TargetGone, Without
<1>3. Chain(e.tiers, t) = Chain(d.tiers, t)
  BY <1>1 DEF Chain
<1>4. CASE Chain(e.tiers, t) = {}
  BY <1>3, <1>4 DEF First
<1>5. CASE Chain(e.tiers, t) # {}
  <2>1. Chain(e.tiers, t) \in SUBSET Nat
    BY StoreAssumption DEF Chain
  <2>2. <<t, Min(Chain(e.tiers, t))>> \in DOMAIN e.tiers
    BY <1>5, <2>1, MinOfNats DEF Chain
  <2> QED BY <1>2, <1>3, <1>5, <2>2 DEF First
<1> QED BY <1>4, <1>5

(* The tiers are read after a profile was deleted, the target before: the  *)
(* chain is as it was, or has lost the profile; when nothing of it is left *)
(* the target's own profile takes its place, as it would before or after.  *)
LEMMA FirstAfterDelete ==
  ASSUME NEW d, Good(d), NEW e, Good(e), NEW i, ProfileGone(d, e, i),
         NEW t \in DOMAIN d.targets
  PROVE  LET mixed == First(e.tiers, d.targets[t].vpn, t)
         IN  \/ mixed = First(d.tiers, d.targets[t].vpn, t)
             \/ mixed # i /\ mixed = First(e.tiers, e.targets[t].vpn, t)
<1> DEFINE vpn == d.targets[t].vpn
<1>1. /\ \A k : <<t, k>> \in DOMAIN e.tiers <=>
                  <<t, k>> \in DOMAIN d.tiers /\ d.tiers[<<t, k>>] # i
      /\ t \in DOMAIN e.targets /\ e.targets[t].vpn = IF vpn = i THEN NoId ELSE vpn
  BY DEF ProfileGone, Without
<1>2. i \in ProfileIds /\ i # NoId /\ i \notin DOMAIN e.profiles
  BY StoreAssumption DEF ProfileGone, Without
<1>3. First(e.tiers, e.targets[t].vpn, t) # i
  BY <1>1, <1>2, FirstResolves
<1>4. CASE Chain(e.tiers, t) # {} \/ vpn # i
  <2>1. First(e.tiers, vpn, t) = First(e.tiers, e.targets[t].vpn, t)
    BY <1>1, <1>4 DEF First
  <2> QED BY <1>3, <2>1
<1>5. CASE Chain(e.tiers, t) = {} /\ vpn = i
  <2>1. First(e.tiers, vpn, t) = i
    BY <1>5 DEF First
  <2>2. CASE Chain(d.tiers, t) = {}
    BY <1>5, <2>1, <2>2 DEF First
  <2>3. CASE Chain(d.tiers, t) # {}
    <3>1. Chain(d.tiers, t) \in SUBSET Nat
      BY StoreAssumption DEF Chain
    <3>2. Min(Chain(d.tiers, t)) \in Chain(d.tiers, t)
      BY <2>3, <3>1, MinOfNats
    <3>3. Min(Chain(d.tiers, t)) \notin Chain(e.tiers, t)
      BY <1>5
    <3>4. d.tiers[<<t, Min(Chain(d.tiers, t))>>] = i
      BY <1>1, <3>2, <3>3 DEF Chain
    <3> QED BY <2>1, <2>3, <3>4 DEF First
  <2> QED BY <2>2, <2>3
<1> QED BY <1>4, <1>5

(* A pass that reads the profiles and the targets before an edit, and the  *)
(* tiers of a target after it.                                             *)
LEMMA EditBeforeTiers ==
  ASSUME NEW d, Good(d), NEW e, Good(e), Edit(d, e),
         NEW t \in DOMAIN d.targets, t \in DOMAIN e.targets, d.targets[t].enabled
  PROVE  Via(d.profiles, First(e.tiers, d.targets[t].vpn, t))
           \in {Routed(d, d.targets[t].alias), Routed(e, d.targets[t].alias)}
<1> DEFINE a == d.targets[t].alias
<1>1. Routed(d, a) = Via(d.profiles, First(d.tiers, d.targets[t].vpn, t))
  BY RoutedVia
<1>2. ASSUME e.targets[t].enabled, e.targets[t].alias = a
      PROVE  Routed(e, a) = Via(e.profiles, First(e.tiers, e.targets[t].vpn, t))
  <2>1. Routed(e, e.targets[t].alias) = Via(e.profiles, First(e.tiers, e.targets[t].vpn, t))
    BY <1>2, RoutedVia
  <2> QED BY <1>2, <2>1
<1>3. CASE e.tiers = d.tiers
  BY <1>1, <1>3
<1>4. CASE e.profiles = d.profiles /\ e.targets = d.targets
  BY <1>2, <1>4
<1>5. ASSUME NEW i \in ProfileIds, ProfileGone(d, e, i)
      PROVE  Via(d.profiles, First(e.tiers, d.targets[t].vpn, t)) \in {Routed(d, a), Routed(e, a)}
  <2>1. e.targets[t].enabled /\ e.targets[t].alias = a
    BY <1>5 DEF ProfileGone
  <2>2. Routed(e, a) = Via(e.profiles, First(e.tiers, e.targets[t].vpn, t))
    BY <1>2, <2>1
  <2> DEFINE mixed == First(e.tiers, d.targets[t].vpn, t)
  <2>3. \/ mixed = First(d.tiers, d.targets[t].vpn, t)
        \/ mixed # i /\ mixed = First(e.tiers, e.targets[t].vpn, t)
    BY <1>5, FirstAfterDelete
  <2>4. mixed # i => Via(d.profiles, mixed) = Via(e.profiles, mixed)
    BY <1>5, ViaAfterDelete
  <2> QED BY <1>1, <2>2, <2>3, <2>4
<1>6. ASSUME NEW x \in TargetIds, TargetGone(d, e, x)
      PROVE  Via(d.profiles, First(e.tiers, d.targets[t].vpn, t)) \in {Routed(d, a), Routed(e, a)}
  <2>1. t # x
    BY <1>6 DEF TargetGone, Without
  <2>2. First(e.tiers, d.targets[t].vpn, t) = First(d.tiers, d.targets[t].vpn, t)
    BY <1>6, <2>1, FirstOfOthers
  <2> QED BY <1>1, <2>2
<1> QED BY <1>3, <1>4, <1>5, <1>6 DEF Edit

(* A pass that reads the profiles before an edit, the rest after it. *)
LEMMA EditBeforeTargets ==
  ASSUME NEW d, Good(d), NEW e, Good(e), Edit(d, e),
         NEW t \in DOMAIN e.targets, e.targets[t].enabled
  PROVE  Via(d.profiles, First(e.tiers, e.targets[t].vpn, t))
           \in {Routed(d, e.targets[t].alias), Routed(e, e.targets[t].alias)}
<1> DEFINE a == e.targets[t].alias
           id == First(e.tiers, e.targets[t].vpn, t)
<1>1. Routed(e, a) = Via(e.profiles, id)
  BY RoutedVia
<1>2. CASE e.profiles = d.profiles
  BY <1>1, <1>2
<1>3. CASE e.targets = d.targets /\ e.tiers = d.tiers
  BY <1>3, RoutedVia
<1>4. ASSUME NEW i \in ProfileIds, ProfileGone(d, e, i) PROVE Via(d.profiles, id) = Routed(e, a)
  <2>1. i # NoId /\ i \notin DOMAIN e.profiles
    BY <1>4, StoreAssumption DEF ProfileGone, Without
  <2>2. id # i
    BY <2>1, FirstResolves
  <2> QED BY <1>1, <1>4, <2>2, ViaAfterDelete
<1> QED BY <1>2, <1>3, <1>4 DEF Edit, TargetGone

------------------------------------------------------------------------------
(* The committed tables are those of the start, or one edit away, while    *)
(* their audit rows say so; an open transaction is one edit ahead.         *)
SinceStart ==
  /\ Good(before)
  /\ before.audit <= db.audit
  /\ db.audit = before.audit => db = before
  /\ db.audit = before.audit + 1 => Edit(before, db)
  /\ tx # NoTx => Edit(db, tx.db)

(* The queries of a pass come in this order, so that what it read first is *)
(* at most older than what it read next.                                   *)
Reading == cpc \in {"tiers", "squid", "dante", "pac", "open", "seed"}

ReadInOrder ==
  /\ cpc = "targets" => profiles \in {before.profiles, db.profiles}
  /\ Reading => \/ profiles = before.profiles /\ targets \in {before.targets, db.targets}
                \/ profiles = db.profiles /\ targets = db.targets

(* Each target that is done was given the tunnel of one of the two tables, *)
(* unless it is deleted; only targets that are done have a route.          *)
DoneTargets == EnabledTargets(targets) \ todo

ResolvedSoFar ==
  Reading =>
    /\ \A a \in DOMAIN routes : \E t \in DoneTargets : targets[t].alias = a
    /\ \A t \in DoneTargets : t \in DOMAIN db.targets =>
         Resolved(targets[t].alias) \in {Routed(before, targets[t].alias),
                                         Routed(db, targets[t].alias)}

HistoryInv ==
  /\ SinceStart
  /\ ReadAll => todo = {}
  /\ db.audit <= before.audit + 1 => ReadInOrder /\ ResolvedSoFar

(* The committed tables are in order. *)
LEMMA TablesInOrder ==
  ASSUME StoreIInv
  PROVE  Good(db)
BY DEF StoreIInv, StoreTypeOK, Good

(* The audit rows are a number. *)
LEMMA AuditRows ==
  ASSUME NEW d, Good(d)
  PROVE  d.audit \in Nat
BY StoreAssumption DEF Good, IsDB

(* Only the start of a pass changes the record. *)
LEMMA RecordKept ==
  ASSUME HNext
  PROVE  \/ Start /\ before' = db
         \/ before' = before /\ ~Start
<1>1. CASE Start
  BY <1>1 DEF HNext, Start
<1>2. CASE ~Start
  <2>1. cpc' = cpc \/ cpc' # "profiles"
    BY <1>2 DEF HNext, Next, CompilerNext, PassStep, ListProfiles, ListTargets, ResolveTarget,
       WriteSquid, WriteDante, WritePAC, OpenRedis, SetRoute, Fail, Finish, RedisCrash, RedisStart,
       passVars
  <2> QED BY <1>2, <2>1 DEF HNext
<1> QED BY <1>1, <1>2

(* The tables since the start of the pass. *)
LEMMA SinceStartStep ==
  ASSUME StoreIInv, SinceStart, HNext
  PROVE  SinceStart'
<1>1. db.audit \in Nat /\ before.audit \in Nat /\ Good(db)
  BY TablesInOrder, AuditRows DEF SinceStart
<1>2. CASE Start
  <2>1. before' = db /\ db' = db /\ tx' = tx
    BY <1>2, RecordKept DEF Start, storeVars
  <2> QED BY <1>1, <2>1 DEF SinceStart
<1>3. CASE ~Start /\ CompilerNext
  <2>1. before' = before
    BY <1>3, RecordKept
  <2>2. db' = db /\ tx' = tx
    BY <1>3 DEF CompilerNext, PassStep, ListProfiles, ListTargets, ResolveTarget,
       WriteSquid, WriteDante, WritePAC, OpenRedis, SetRoute, Fail, RedisCrash, RedisStart, storeVars
  <2> QED BY <2>1, <2>2 DEF SinceStart
<1>4. CASE ~Start /\ StoreNext
  <2>1. before' = before
    BY <1>4, RecordKept
  <2>2. CASE Commit
    <3>1. db' = tx.db /\ tx # NoTx /\ tx' = NoTx
      BY <2>2 DEF Commit
    <3>2. db'.audit = db.audit + 1 /\ Edit(db, db')
      BY <2>2, <3>1 DEF Commit, StoreIInv, SinceStart
    <3>3. CASE db.audit = before.audit
      BY <1>1, <2>1, <3>1, <3>2, <3>3 DEF SinceStart
    <3>4. CASE db.audit # before.audit
      BY <1>1, <2>1, <3>1, <3>2, <3>4 DEF SinceStart
    <3> QED BY <3>3, <3>4
  <2>3. CASE Rollback
    BY <2>1, <2>3 DEF Rollback, SinceStart
  <2>4. CASE AppendAudit
    <3>1. /\ tx # NoTx /\ db' = db
          /\ tx' = [next |-> "commit", db |-> [tx.db EXCEPT !.audit = @ + 1]]
      BY <2>4 DEF AppendAudit
    <3>2. tx.db = [profiles |-> tx.db.profiles, targets |-> tx.db.targets,
                   tiers |-> tx.db.tiers, rules |-> tx.db.rules, users |-> tx.db.users,
                   spent |-> tx.db.spent, audit |-> tx.db.audit]
      BY <3>1 DEF StoreIInv, StoreTypeOK, IsDB
    <3>3. /\ tx'.db.profiles = tx.db.profiles /\ tx'.db.targets = tx.db.targets
          /\ tx'.db.tiers = tx.db.tiers
      BY <3>1, <3>2
    <3>4. Edit(db, tx'.db)
      BY <3>1, <3>3, EditTables DEF SinceStart
    <3> QED BY <2>1, <3>1, <3>4 DEF SinceStart
  <2>5. CASE \/ PutProfile \/ DelProfile \/ PutTarget \/ DelTarget
             \/ PutTier \/ DelTier \/ PutRule \/ DelRule \/ PutUser
    <3>1. db' = db
      BY <2>5 DEF PutProfile, DelProfile, PutTarget, DelTarget, PutTier, DelTier, PutRule, DelRule,
         PutUser, Mutate
    <3>2. tx' # NoTx => Edit(db, tx'.db)
      BY <2>5, StatementsEdit
    <3> QED BY <2>1, <3>1, <3>2 DEF SinceStart
  <2> QED BY <1>4, <2>2, <2>3, <2>4, <2>5 DEF StoreNext
<1> QED BY <1>2, <1>3, <1>4 DEF HNext, Next

(* A round of the loop gives the target the tunnel of one of the tables. *)
LEMMA RoundIsHarmless ==
  ASSUME CompilerIInv, SinceStart, ReadInOrder, db.audit <= before.audit + 1, Reading,
         NEW t \in EnabledTargets(targets), t \in DOMAIN db.targets
  PROVE  LET tunnel == primaryTunnel(t, ListTiers(t), profiles)
             a == targets[t].alias
         IN  (IF tunnel \in ResolveTunnels(profiles) THEN tunnel ELSE NoTunnel)
               \in {Routed(before, a), Routed(db, a)}
<1> DEFINE a == targets[t].alias
           mixed == Via(profiles, First(db.tiers, targets[t].vpn, t))
<1>1. /\ Good(db) /\ Good(before) /\ t \in DOMAIN targets /\ targets[t].enabled
      /\ (db = before \/ Edit(before, db))
  <2>1. db.audit \in Nat /\ before.audit \in Nat
    BY TablesInOrder, AuditRows DEF CompilerIInv, SinceStart
  <2>2. db.audit = before.audit \/ db.audit = before.audit + 1
    BY <2>1 DEF SinceStart
  <2> QED BY <2>2, TablesInOrder DEF CompilerIInv, SinceStart, EnabledTargets
<1>2. \A i, j \in DOMAIN profiles : profiles[i].name = profiles[j].name => i = j
  <2>1. profiles = before.profiles \/ profiles = db.profiles
    BY DEF ReadInOrder
  <2>2. CASE profiles = before.profiles
    BY <1>1, <2>2 DEF Good, Consistent
  <2>3. CASE profiles = db.profiles
    BY <1>1, <2>3 DEF Good, Consistent
  <2> QED BY <2>1, <2>2, <2>3
<1>3. mixed \in {Routed(before, a), Routed(db, a)}
  <2>1. CASE db = before
    BY <1>1, <2>1, RoutedVia DEF ReadInOrder
  <2>2. CASE Edit(before, db)
    <3>1. CASE profiles = before.profiles /\ targets = before.targets
      BY <1>1, <2>2, <3>1, EditBeforeTiers
    <3>2. CASE profiles = before.profiles /\ targets = db.targets
      BY <1>1, <2>2, <3>2, EditBeforeTargets
    <3>3. CASE profiles = db.profiles /\ targets = db.targets
      BY <1>1, <3>3, RoutedVia
    <3> QED BY <3>1, <3>2, <3>3 DEF ReadInOrder
  <2> QED BY <1>1, <2>1, <2>2
<1>4. mixed = LET tunnel == primaryTunnel(t, ListTiers(t), profiles)
              IN  IF tunnel \in ResolveTunnels(profiles) THEN tunnel ELSE NoTunnel
  BY <1>1, <1>2, ResolvesVia DEF CompilerIInv
<1> QED BY <1>3, <1>4

(* A round of the loop. *)
LEMMA ResolveTargetHistory ==
  ASSUME CompilerIInv, HistoryInv, ResolveTarget, before' = before
  PROVE  /\ ReadAll' => todo' = {}
         /\ db'.audit <= before'.audit + 1 => ReadInOrder' /\ ResolvedSoFar'
<1> DEFINE t == NextTarget
           tunnel == primaryTunnel(t, ListTiers(t), profiles)
           a == targets[t].alias
<1>1. t \in todo /\ t \in EnabledTargets(targets) /\ t \in DOMAIN targets
  BY NextTargetExists DEF CompilerIInv, PassInv, ResolveTarget, TypeOK
<1>2. /\ cpc = "tiers" /\ todo' = todo \ {t}
      /\ cpc' = IF todo = {t} THEN "squid" ELSE "tiers"
      /\ routes' = IF tunnel \in ResolveTunnels(profiles) THEN Put(routes, a, tunnel) ELSE routes
      /\ UNCHANGED <<profiles, targets, db>>
  BY DEF ResolveTarget, storeVars
<1>3. ASSUME db.audit <= before.audit + 1, t \in DOMAIN db.targets
      PROVE  (IF tunnel \in ResolveTunnels(profiles) THEN tunnel ELSE NoTunnel)
               \in {Routed(before, a), Routed(db, a)}
  BY <1>1, <1>2, <1>3, RoundIsHarmless DEF HistoryInv, Reading
<1> HIDE DEF t, tunnel
<1>4. ReadAll' => todo' = {}
  BY <1>1, <1>2 DEF ReadAll
<1>5. ASSUME db'.audit <= before'.audit + 1 PROVE ReadInOrder' /\ ResolvedSoFar'
  <2>1. db.audit <= before.audit + 1
    BY <1>2, <1>5
  <2>2. ReadInOrder /\ ResolvedSoFar /\ Reading
    BY <1>2, <2>1 DEF HistoryInv, Reading
  <2>3. ReadInOrder'
    BY <1>2, <2>2 DEF ReadInOrder, Reading
  <2>4. DoneTargets' = DoneTargets \cup {t}
    BY <1>1, <1>2 DEF DoneTargets
  <2>5. \A u \in DOMAIN targets : targets[u].alias = a => u = t
    BY <1>1, <2>2 DEF ReadInOrder, HistoryInv, SinceStart, CompilerIInv, StoreIInv, Good, Consistent
  <2>6. a \notin DOMAIN routes
    BY <1>1, <2>2, <2>5 DEF ResolvedSoFar, DoneTargets, EnabledTargets
  <2>7. DOMAIN routes' \subseteq DOMAIN routes \cup {a}
    BY <1>2 DEF Put
  <2>8. \A b : b # a => Resolved(b)' = Resolved(b)
    BY <1>2 DEF Put, Resolved
  <2>9. \A b : b = a => Resolved(b)' = IF tunnel \in ResolveTunnels(profiles)
                                       THEN tunnel ELSE NoTunnel
    BY <1>2, <2>6 DEF Put, Resolved
  <2>10. \A b \in DOMAIN routes' : \E u \in DoneTargets' : targets'[u].alias = b
    BY <1>2, <2>2, <2>4, <2>7 DEF ResolvedSoFar
  <2>11. ASSUME NEW u \in DoneTargets', u \in DOMAIN db'.targets
         PROVE  (Resolved(targets[u].alias) \in {Routed(before, targets[u].alias),
                                                 Routed(db, targets[u].alias)})'
    <3> DEFINE b == targets[u].alias
    <3>1. targets' = targets /\ db' = db /\ before' = before
      BY <1>2
    <3>2. \A c : c = b => Resolved(c)' \in {Routed(before, c), Routed(db, c)}
      <4>1. CASE u = t
        BY <1>3, <2>1, <2>9, <2>11, <3>1, <4>1
      <4>2. CASE u # t
        <5>1. u \in DoneTargets /\ u \in DOMAIN targets /\ u \in DOMAIN db.targets
          BY <2>4, <2>11, <3>1, <4>2 DEF DoneTargets, EnabledTargets
        <5>2. b # a
          BY <2>5, <4>2, <5>1
        <5>3. Resolved(b) \in {Routed(before, b), Routed(db, b)}
          BY <2>2, <5>1 DEF ResolvedSoFar
        <5> QED BY <2>8, <5>2, <5>3
      <4> QED BY <4>1, <4>2
    <3> QED BY <3>1, <3>2 DEF Resolved
  <2> QED BY <2>3, <2>10, <2>11 DEF ResolvedSoFar
<1> QED BY <1>4, <1>5

(* A commit: what was read and resolved came from the tables of the start. *)
LEMMA CommitHistory ==
  ASSUME CompilerIInv, HistoryInv, Commit, UNCHANGED <<passVars, before>>
  PROVE  /\ ReadAll' => todo' = {}
         /\ db'.audit <= before'.audit + 1 => ReadInOrder' /\ ResolvedSoFar'
<1>1. UNCHANGED <<cpc, profiles, targets, todo, routes, before>>
  BY DEF passVars
<1>2. /\ db'.audit = db.audit + 1 /\ db.audit \in Nat /\ before.audit \in Nat
      /\ before.audit <= db.audit
  <2>1. Good(db) /\ Good(before) /\ before.audit <= db.audit
    BY TablesInOrder DEF CompilerIInv, HistoryInv, SinceStart
  <2>2. db'.audit = db.audit + 1
    BY DEF Commit, CompilerIInv, StoreIInv
  <2> QED BY <2>1, <2>2, AuditRows
<1>3. ASSUME db'.audit <= before'.audit + 1 PROVE ReadInOrder' /\ ResolvedSoFar'
  <2>1. db = before
    <3>1. db.audit = before.audit
      BY <1>1, <1>2, <1>3
    <3> QED BY <3>1 DEF HistoryInv, SinceStart
  <2>2. ReadInOrder /\ ResolvedSoFar
    BY <1>2, <2>1 DEF HistoryInv
  <2>3. /\ cpc = "targets" => profiles = before.profiles
        /\ Reading => profiles = before.profiles /\ targets = before.targets
    BY <2>1, <2>2 DEF ReadInOrder
  <2>4. ReadInOrder'
    BY <1>1, <2>3 DEF ReadInOrder, Reading
  <2>5. DoneTargets' = DoneTargets /\ \A a : Resolved(a)' = Resolved(a)
    BY <1>1 DEF DoneTargets, Resolved
  <2>6. Reading => \A t \in DoneTargets :
          Resolved(targets[t].alias) = Routed(before, targets[t].alias)
    BY <2>1, <2>2, <2>3 DEF ResolvedSoFar, DoneTargets, EnabledTargets
  <2>7. ResolvedSoFar'
    BY <1>1, <2>2, <2>5, <2>6 DEF ResolvedSoFar, Reading
  <2> QED BY <2>4, <2>7
<1> QED BY <1>1, <1>3 DEF HistoryInv, ReadAll

(* The record of a pass is kept right by every step. *)
LEMMA HistoryStep ==
  ASSUME CompilerIInv, HistoryInv, HNext
  PROVE  HistoryInv'
<1> DEFINE Passes == /\ ReadAll => todo = {}
                     /\ db.audit <= before.audit + 1 => ReadInOrder /\ ResolvedSoFar
<1>1. SinceStart'
  BY SinceStartStep DEF CompilerIInv, HistoryInv
<1> SUFFICES Passes'
  BY <1>1 DEF HistoryInv
<1>2. CASE cpc' \in {"off", "done", "profiles"}
  BY <1>2 DEF ReadAll, ReadInOrder, ResolvedSoFar, Reading
<1>3. ASSUME UNCHANGED <<cpc, profiles, targets, todo, routes, before, db>> PROVE Passes'
  <2>1. DoneTargets' = DoneTargets /\ \A a : Resolved(a)' = Resolved(a)
    BY <1>3 DEF DoneTargets, Resolved
  <2> QED BY <1>3, <2>1 DEF HistoryInv, ReadAll, ReadInOrder, ResolvedSoFar, Reading
<1>4. ASSUME UNCHANGED <<profiles, targets, todo, routes, before, db>>,
             ReadAll, cpc' \in {"dante", "pac", "open", "seed"}
      PROVE  Passes'
  <2>1. DoneTargets' = DoneTargets /\ \A a : Resolved(a)' = Resolved(a)
    BY <1>4 DEF DoneTargets, Resolved
  <2>2. Reading /\ Reading' /\ cpc' # "targets"
    BY <1>4 DEF Reading, ReadAll
  <2> QED BY <1>4, <2>1, <2>2 DEF HistoryInv, ReadAll, ReadInOrder, ResolvedSoFar
<1>5. CASE Start
  BY <1>2, <1>5 DEF Start
<1>6. ~Start => before' = before
  BY RecordKept
<1>7. CASE ListProfiles
  BY <1>7 DEF ListProfiles, ReadAll, ReadInOrder, ResolvedSoFar, Reading, storeVars
<1>8. CASE ListTargets
  <2>1. before' = before
    BY <1>6, <1>8 DEF ListTargets, Start
  <2>2. /\ cpc = "targets" /\ UNCHANGED <<profiles, routes, db>> /\ targets' = db.targets
        /\ todo' = EnabledTargets(db.targets)
        /\ cpc' = IF todo' = {} THEN "squid" ELSE "tiers"
    BY <1>8 DEF ListTargets, storeVars
  <2>3. DOMAIN routes' = {} /\ DoneTargets' = {}
    BY <2>2 DEF CompilerIInv, PassInv, Empty, DoneTargets
  <2>4. db'.audit <= before'.audit + 1 => ReadInOrder'
    BY <2>1, <2>2 DEF HistoryInv, ReadInOrder, Reading
  <2> QED BY <2>2, <2>3, <2>4 DEF ReadAll, ResolvedSoFar
<1>9. CASE ResolveTarget
  <2>1. before' = before
    BY <1>6, <1>9 DEF ResolveTarget, Start
  <2> QED BY <1>9, <2>1, ResolveTargetHistory
<1>10. CASE WriteSquid \/ WriteDante \/ WritePAC
  BY <1>4, <1>6, <1>10 DEF WriteSquid, WriteDante, WritePAC, ReadAll, Start, storeVars
<1>11. CASE OpenRedis
  BY <1>2, <1>4, <1>6, <1>11 DEF OpenRedis, Finish, ReadAll, Start, storeVars
<1>12. CASE SetRoute
  BY <1>2, <1>3, <1>6, <1>12 DEF SetRoute, Finish, Start, storeVars
<1>13. CASE Fail
  BY <1>2, <1>13 DEF Fail, Finish
<1>14. CASE ~Start /\ (RedisCrash \/ RedisStart)
  BY <1>3, <1>6, <1>14 DEF RedisCrash, RedisStart, passVars, storeVars
<1>15. CASE StoreNext /\ UNCHANGED <<passVars, fileVars, redisVars>>
  <2>1. before' = before
    BY <1>15, <1>6 DEF passVars, Start
  <2>2. CASE Commit
    BY <1>15, <2>1, <2>2, CommitHistory
  <2>3. CASE ~Commit
    <3>1. db' = db
      BY <1>15, <2>3 DEF StoreNext, Mutate, PutProfile, DelProfile, PutTarget, DelTarget,
         PutTier, DelTier, PutRule, DelRule, PutUser, AppendAudit, Rollback
    <3> QED BY <1>3, <1>15, <2>1, <3>1 DEF passVars
  <2> QED BY <2>2, <2>3
<1> QED
  BY <1>5, <1>7, <1>8, <1>9, <1>10, <1>11, <1>12, <1>13, <1>14, <1>15
     DEF HNext, Next, CompilerNext, PassStep

(* At the start the tables are their own record. *)
LEMMA HistoryStart == HInit => HistoryInv
<1> SUFFICES ASSUME HInit PROVE HistoryInv
  OBVIOUS
<1>1. StoreIInv /\ tx = NoTx /\ cpc = "off" /\ before = db
  BY StoreStart DEF HInit, Init, StoreInit
<1>2. db.audit \in Nat /\ Good(db)
  BY <1>1, TablesInOrder, AuditRows
<1>3. SinceStart
  BY <1>1, <1>2 DEF SinceStart
<1>4. ~ReadAll /\ ~Reading /\ cpc # "targets"
  BY <1>1 DEF ReadAll, Reading
<1> QED BY <1>3, <1>4 DEF HistoryInv, ReadInOrder, ResolvedSoFar

(* What the record says of a pass that has read everything. *)
LEMMA HistoryMeans == CompilerIInv /\ HistoryInv => OneEditIsHarmless
<1> SUFFICES ASSUME CompilerIInv, HistoryInv, ReadAll, db.audit <= before.audit + 1,
                    NEW a \in Aliases, StillThere(a)
             PROVE  Resolved(a) \in {Routed(before, a), Routed(db, a)}
  BY DEF OneEditIsHarmless
<1>1. ReadInOrder /\ ResolvedSoFar /\ Reading /\ DoneTargets = EnabledTargets(targets)
  BY DEF HistoryInv, Reading, ReadAll, DoneTargets
<1>2. CASE \E t \in EnabledTargets(targets) : targets[t].alias = a
  BY <1>1, <1>2 DEF ResolvedSoFar, StillThere, EnabledTargets
<1>3. CASE \A t \in EnabledTargets(targets) : targets[t].alias # a
  <2>1. Resolved(a) = NoTunnel
    BY <1>1, <1>3 DEF ResolvedSoFar, Resolved
  <2>2. targets = before.targets \/ targets = db.targets
    BY <1>1 DEF ReadInOrder
  <2> QED BY <1>3, <2>1, <2>2, RoutedNowhere
<1> QED BY <1>2, <1>3

(* The record of every pass. *)
THEOREM HistoryInductive == HSpec => [](CompilerIInv /\ HistoryInv)
<1>1. HInit => Init
  BY DEF HInit
<1>2. [HNext]_historyVars => [Next]_vars
  BY DEF HNext, historyVars
<1>3. HSpec => []CompilerIInv
  BY <1>1, <1>2, CompilerInductive, PTL DEF HSpec, Spec
<1>4. CompilerIInv /\ HistoryInv /\ [HNext]_historyVars => HistoryInv'
  <2> SUFFICES ASSUME CompilerIInv, HistoryInv, [HNext]_historyVars PROVE HistoryInv'
    OBVIOUS
  <2>1. CASE UNCHANGED historyVars
    <3>1. UNCHANGED <<db, tx, cpc, profiles, targets, todo, routes, before>>
      BY <2>1 DEF historyVars, vars, storeVars, passVars
    <3> QED BY <3>1 DEF HistoryInv, SinceStart, ReadAll, ReadInOrder, ResolvedSoFar, Reading,
               DoneTargets, Resolved
  <2> QED BY <2>1, HistoryStep
<1> QED BY <1>3, <1>4, HistoryStart, PTL DEF HSpec

(* OneEditIsHarmless, for any tables and any mutation. *)
THEOREM PassSeesOneOfTwoTables == HSpec => []OneEditIsHarmless
<1> QED BY HistoryInductive, HistoryMeans, PTL

------------------------------------------------------------------------------
(* What a finished pass leaves behind.                                     *)

(* Squid and Dante are told the same, while keys are seeded and after. *)
SameTunnel ==
  cpc \in {"seed", "done"} => \A a \in seeded : route[a] \in {dante[a], NoTunnel}

(* Dante's routes are those of one of the two tables. *)
DanteFollows ==
  cpc = "done" /\ db.audit <= before.audit + 1 =>
    \A a \in Aliases : StillListed(a) => DanteRoute(a) \in {Routed(before, a), Routed(db, a)}

(* The keys go on agreeing with the file. *)
LEMMA SameTunnelStep ==
  ASSUME CompilerIInv, SameTunnel, [Next]_vars
  PROVE  SameTunnel'
<1>1. CASE cpc' \notin {"seed", "done"}
  BY <1>1 DEF SameTunnel
<1>2. CASE UNCHANGED <<cpc, seeded, dante>> /\ \A a \in seeded : route'[a] \in {route[a], NoTunnel}
  BY <1>2 DEF SameTunnel
<1>3. CASE OpenRedis
  <2>1. seeded' = {}
    BY <1>3 DEF OpenRedis, CompilerIInv, PassInv
  <2> QED BY <2>1 DEF SameTunnel
<1>4. CASE SetRoute
  <2> DEFINE a == Min(DOMAIN routes \ seeded)
  <2>1. /\ cpc = "seed" /\ route' = [route EXCEPT ![a] = routes[a]] /\ seeded' = seeded \cup {a}
        /\ dante' = dante
    BY <1>4 DEF SetRoute, fileVars
  <2>2. DOMAIN routes \ seeded \in SUBSET Nat /\ DOMAIN routes \ seeded # {}
    BY <2>1, StoreAssumption DEF CompilerIInv, PassInv, TypeOK, IsTable
  <2>3. a \in DOMAIN routes /\ a \in Aliases
    BY <2>2, MinOfNats DEF CompilerIInv, TypeOK, IsTable
  <2> HIDE DEF a
  <2>4. dante = routes /\ route \in [Aliases -> Names \cup {NoTunnel}] /\ seeded \subseteq Aliases
    BY <2>1 DEF CompilerIInv, PassInv, TypeOK
  <2>5. ASSUME NEW b \in seeded' PROVE route'[b] \in {dante'[b], NoTunnel}
    BY <2>1, <2>3, <2>4, <2>5 DEF SameTunnel
  <2> QED BY <2>5 DEF SameTunnel
<1>5. CASE RedisCrash
  BY <1>2, <1>5 DEF RedisCrash, passVars, fileVars, CompilerIInv, TypeOK
<1>6. CASE RedisStart \/ UNCHANGED vars \/ (StoreNext /\ UNCHANGED <<passVars, fileVars, redisVars>>)
  BY <1>2, <1>6 DEF RedisStart, vars, passVars, fileVars, redisVars
<1>7. CASE \/ Start \/ ListProfiles \/ ListTargets \/ ResolveTarget
           \/ WriteSquid \/ WriteDante \/ WritePAC \/ Fail
  BY <1>1, <1>7 DEF Start, ListProfiles, ListTargets, ResolveTarget, WriteSquid, WriteDante,
     WritePAC, Fail, Finish
<1> QED BY <1>3, <1>4, <1>5, <1>6, <1>7 DEF Next, CompilerNext, PassStep

(* The pass that ends has written what it resolved. *)
LEMMA FinishFollows ==
  ASSUME CompilerIInv, HistoryInv, cpc \in {"open", "seed"}, cpc' = "done",
         UNCHANGED <<db, before, dante>>
  PROVE  DanteFollows'
<1> SUFFICES ASSUME db.audit <= before.audit + 1, NEW a \in Aliases, StillListed(a)
             PROVE  DanteRoute(a) \in {Routed(before, a), Routed(db, a)}
  BY DEF DanteFollows, StillListed, DanteRoute
<1>1. ReadAll /\ dante = routes
  BY DEF CompilerIInv, PassInv, ReadAll
<1>2. StillThere(a)
  <2>1. targets = before.targets \/ targets = db.targets
    BY <1>1 DEF HistoryInv, ReadInOrder, Reading, ReadAll
  <2> QED BY <2>1 DEF StillListed, StillThere
<1>3. Resolved(a) \in {Routed(before, a), Routed(db, a)}
  BY <1>1, <1>2, HistoryMeans DEF OneEditIsHarmless
<1> QED BY <1>1, <1>3 DEF DanteRoute, Resolved

(* A commit after the pass: its routes were those of the tables before. *)
LEMMA CommitFollows ==
  ASSUME CompilerIInv, HistoryInv, DanteFollows, Commit, UNCHANGED <<cpc, before, dante>>
  PROVE  DanteFollows'
<1> SUFFICES ASSUME cpc = "done", db'.audit <= before.audit + 1, NEW a \in Aliases
             PROVE  DanteRoute(a) = Routed(before, a)
  BY DEF DanteFollows, StillListed, DanteRoute
<1>1. db = before
  <2>1. Good(db) /\ Good(before) /\ before.audit <= db.audit
    BY TablesInOrder DEF CompilerIInv, HistoryInv, SinceStart
  <2>2. db'.audit = db.audit + 1
    BY DEF Commit, CompilerIInv, StoreIInv
  <2>3. db.audit \in Nat /\ before.audit \in Nat
    BY <2>1, AuditRows
  <2>4. db.audit = before.audit
    BY <2>1, <2>2, <2>3
  <2> QED BY <2>4 DEF HistoryInv, SinceStart
<1>2. StillListed(a) /\ db.audit <= before.audit + 1
  <2>1. before.audit \in Nat
    BY AuditRows DEF HistoryInv, SinceStart
  <2> QED BY <1>1, <2>1 DEF StillListed
<1> QED BY <1>1, <1>2 DEF DanteFollows

(* Every step keeps the file with the tables. *)
LEMMA DanteFollowsStep ==
  ASSUME CompilerIInv, HistoryInv, DanteFollows, [HNext]_historyVars
  PROVE  DanteFollows'
<1>1. CASE cpc' # "done"
  BY <1>1 DEF DanteFollows
<1>2. CASE UNCHANGED <<cpc, db, before, dante>>
  BY <1>2 DEF DanteFollows, StillListed, DanteRoute
<1>3. CASE UNCHANGED historyVars
  BY <1>2, <1>3 DEF historyVars, vars, storeVars, passVars, fileVars
<1>4. HNext /\ ~Start => before' = before
  BY RecordKept
<1>5. CASE HNext /\ (OpenRedis \/ SetRoute)
  <2>1. /\ cpc \in {"open", "seed"} /\ UNCHANGED <<db, dante>> /\ before' = before
        /\ cpc' = cpc \/ cpc' \in {"seed", "done"}
    BY <1>4, <1>5 DEF OpenRedis, SetRoute, Finish, storeVars, fileVars, Start
  <2> QED BY <1>1, <2>1, FinishFollows
<1>6. CASE HNext /\ (RedisCrash \/ RedisStart) /\ ~Start
  BY <1>2, <1>4, <1>6 DEF RedisCrash, RedisStart, storeVars, passVars, fileVars
<1>7. CASE HNext /\ StoreNext /\ UNCHANGED <<passVars, fileVars, redisVars>>
  <2>1. UNCHANGED <<cpc, dante>> /\ before' = before
    BY <1>4, <1>7 DEF passVars, fileVars, Start
  <2>2. CASE Commit
    BY <2>1, <2>2, CommitFollows
  <2>3. CASE ~Commit
    <3>1. db' = db
      BY <1>7, <2>3 DEF StoreNext, Mutate, PutProfile, DelProfile, PutTarget, DelTarget,
         PutTier, DelTier, PutRule, DelRule, PutUser, AppendAudit, Rollback
    <3> QED BY <1>2, <2>1, <3>1
  <2> QED BY <2>2, <2>3
<1>8. CASE \/ Start \/ ListProfiles \/ ListTargets \/ ResolveTarget
           \/ WriteSquid \/ WriteDante \/ WritePAC \/ Fail
  BY <1>1, <1>8 DEF Start, ListProfiles, ListTargets, ResolveTarget, WriteSquid, WriteDante,
     WritePAC, Fail, Finish
<1> QED BY <1>3, <1>5, <1>6, <1>7, <1>8 DEF HNext, Next, CompilerNext, PassStep

(* ArtifactsFollowTables, for any tables and any mutation: what a finished *)
(* pass has written to disk and to Redis (compiler.go, CompileAll; main.go *)
(* of cmd/compiler) is what the tables said.                               *)
THEOREM FinishedPassIsRight == HSpec => []ArtifactsFollowTables
<1>1. HInit => SameTunnel /\ DanteFollows
  BY DEF HInit, Init, SameTunnel, DanteFollows
<1>2. [HNext]_historyVars => [Next]_vars
  BY DEF HNext, historyVars
<1>3. CompilerIInv /\ SameTunnel /\ [HNext]_historyVars => SameTunnel'
  BY <1>2, SameTunnelStep
<1>4. CompilerIInv /\ HistoryInv /\ DanteFollows /\ [HNext]_historyVars => DanteFollows'
  BY DanteFollowsStep
<1>5. SameTunnel /\ DanteFollows => ArtifactsFollowTables
  BY DEF SameTunnel, DanteFollows, ArtifactsFollowTables
<1> QED BY <1>1, <1>3, <1>4, <1>5, HistoryInductive, PTL DEF HSpec

==============================================================================
