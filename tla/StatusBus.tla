------------------------------ MODULE StatusBus ------------------------------
(***************************************************************************)
(* Redis as the control plane uses it (internal/redis/client.go): the      *)
(* vpn:status:<profile> keys with their expiry, the route:<target> keys    *)
(* without one, and the clock all processes of the host share.  PUBLISH on *)
(* vpn:events leaves nothing in Redis.  Redis runs without persistence     *)
(* (docker-compose.dynamic.yml: --save "" --appendonly no), so a crash     *)
(* empties it.                                                             *)
(***************************************************************************)
EXTENDS HealthVerdict, FiniteSets

CONSTANTS
  Profiles,   \* names of VPN profiles
  Targets,    \* public aliases clients ask for
  NoRoute,    \* route:<target> does not exist
  NoTunnel,   \* route:<target> exists with an empty Tunnel field
  TTL,        \* ttlSeconds healthd passes to SetStatus
  MaxAge,     \* the reader's freshness window; 0 switches the guard off
  NetDelay,   \* longest time a command may take to reach Redis
  MaxFlight,  \* bound on the SETs of one key under way at a time
  MaxTime     \* bound on the clock

ASSUME BusAssumption ==
  /\ NoRoute # NoTunnel
  /\ NoRoute \notin Profiles /\ NoTunnel \notin Profiles
  /\ TTL \in Nat \ {0}
  /\ MaxAge \in Nat
  /\ NetDelay \in Nat
  /\ MaxFlight \in Nat
  /\ MaxTime \in Nat \ {0}

VARIABLES
  now,        \* the clock
  redisUp,    \* Redis is running
  status,     \* status[p]: the key vpn:status:<p>
  route,      \* route[t]: the tunnel named by route:<t>
  flight      \* flight[p]: SETs of the status key that may still arrive

busVars == <<now, redisUp, status, route, flight>>

Routes == Profiles \cup {NoRoute, NoTunnel}

BusTypeOK ==
  /\ now \in Nat \ {0}
  /\ redisUp \in BOOLEAN
  /\ status \in [Profiles -> Key]
  /\ route \in [Targets -> Routes]
  /\ flight \in [Profiles -> SUBSET [key: Key, until: Nat]]

BusInit ==
  /\ now = 1
  /\ redisUp = TRUE
  /\ status = [p \in Profiles |-> NoKey]
  /\ route = [t \in Targets |-> NoRoute]
  /\ flight = [p \in Profiles |-> {}]

Found(p) == status[p].expires > now

(* GetStatus: the state reported for p now. *)
GetStatus(p) == evaluateStatus(status[p], Found(p), now, MaxAge)

(* Mutant: the state is missing from the value, and reads as "". *)
Marshal_NoState(s) == [state |-> "", checkedAt |-> s.checkedAt, expires |-> 0]

(* The value SetStatus sends; its expiry counts from its arrival. *)
Marshal(s) == [state |-> s.state, checkedAt |-> s.checkedAt, expires |-> 0]

(* SET with its expiry, on arrival. *)
StoreKey(p, key) == status' = [status EXCEPT ![p] = [key EXCEPT !.expires = now + TTL]]

(* A SET is sent and the client gives up on its answer. *)
SendLate(p, key) ==
  /\ Cardinality(flight[p]) < MaxFlight
  /\ flight' = [flight EXCEPT ![p] = @ \cup {[key |-> key, until |-> now + NetDelay]}]

------------------------------------------------------------------------------
(* Time passes.  Redis drops keys whose expiry has come, and commands that *)
(* have been under way for NetDelay are lost.                              *)
Tick ==
  /\ now < MaxTime
  /\ now' = now + 1
  /\ status' = [p \in Profiles |->
                  IF status[p].expires > now + 1 THEN status[p] ELSE NoKey]
  /\ flight' = [p \in Profiles |-> {f \in flight[p] : f.until >= now + 1}]
  /\ UNCHANGED <<redisUp, route>>

(* A SET the client gave up on arrives after all; a retried one may arrive *)
(* more than once.                                                         *)
LandStatus(p) ==
  /\ redisUp
  /\ \E f \in flight[p] : StoreKey(p, f.key)
  /\ UNCHANGED <<now, redisUp, route, flight>>

(* Another client of Redis leaves bytes that are not a snapshot. *)
GarbleStatus(p) ==
  /\ redisUp
  /\ Found(p)
  /\ status' = [status EXCEPT ![p].state = "corrupt"]
  /\ UNCHANGED <<now, redisUp, route, flight>>

(* The compiler's SetRoute; it has no expiry. *)
SetRoute(t, tunnel) ==
  /\ redisUp
  /\ route' = [route EXCEPT ![t] = tunnel]
  /\ UNCHANGED <<now, redisUp, status, flight>>

RedisCrash ==
  /\ redisUp
  /\ redisUp' = FALSE
  /\ status' = [p \in Profiles |-> NoKey]
  /\ route' = [t \in Targets |-> NoRoute]
  /\ UNCHANGED <<now, flight>>

RedisStart ==
  /\ ~redisUp
  /\ redisUp' = TRUE
  /\ UNCHANGED <<now, status, route, flight>>

BusNext ==
  \/ Tick
  \/ \E p \in Profiles : LandStatus(p) \/ GarbleStatus(p)
  \/ \E t \in Targets, tunnel \in Profiles \cup {NoTunnel} : SetRoute(t, tunnel)
  \/ RedisCrash
  \/ RedisStart

==============================================================================
