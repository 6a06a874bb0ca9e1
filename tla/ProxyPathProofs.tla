--------------------------- MODULE ProxyPathProofs ---------------------------
(***************************************************************************)
(* ProxyPath, for every set of profiles, targets and helpers, every timing *)
(* constant and every bound: type correctness; the tunnels', healthd's,    *)
(* Redis's and the helpers' parts of the inductive invariant (what the     *)
(* clock, a tunnel and a poll under way do to each other, the SETs under   *)
(* way and the keys, and what a reader that finds "up" may rely on); the   *)
(* safety theorems; and that it implements FailClosedGate.                 *)
(***************************************************************************)
EXTENDS ProxyPath, TLAPS

USE BusAssumption, HealthdAssumption, HelperAssumption

(* A component whose variables do not change keeps its types. *)
LEMMA UnchangedTypes ==
  /\ BusTypeOK /\ UNCHANGED busVars => BusTypeOK'
  /\ HealthdTypeOK /\ UNCHANGED healthdVars => HealthdTypeOK'
  /\ HelperTypeOK /\ HelperPC /\ UNCHANGED helperVars => HelperTypeOK' /\ HelperPC'
<1>1. BusTypeOK /\ UNCHANGED busVars => BusTypeOK'
  BY DEF BusTypeOK, busVars
<1>2. HealthdTypeOK /\ UNCHANGED healthdVars => HealthdTypeOK'
  BY DEF HealthdTypeOK, healthdVars, tunnelVars, loopVars
<1>3. HelperTypeOK /\ HelperPC /\ UNCHANGED helperVars => HelperTypeOK' /\ HelperPC'
  BY DEF HelperTypeOK, HelperPC, helperVars
<1>4. QED
  BY <1>1, <1>2, <1>3

(* Redis's own steps keep the bus's types. *)
LEMMA BusTypes ==
  ASSUME BusTypeOK, BusNext
  PROVE  BusTypeOK'
<1> USE DEF BusTypeOK
<1>0. NoKey \in Key
  BY DEF NoKey, Key, State
<1>1. CASE Tick
  <2>1. status' \in [Profiles -> Key]
    BY <1>0, <1>1 DEF Tick
  <2>2. flight' \in [Profiles -> SUBSET [key: Key, until: Nat]]
    BY <1>1 DEF Tick
  <2> QED
    BY <1>1, <2>1, <2>2 DEF Tick
<1>2. ASSUME NEW p \in Profiles, LandStatus(p) PROVE BusTypeOK'
  <2>1. PICK f \in flight[p] : StoreKey(p, f.key)
    BY <1>2 DEF LandStatus
  <2>2. [f.key EXCEPT !.expires = now + TTL] \in Key
    BY DEF Key
  <2> QED
    BY <1>2, <2>1, <2>2 DEF LandStatus, StoreKey
<1>3. ASSUME NEW p \in Profiles, GarbleStatus(p) PROVE BusTypeOK'
  <2>1. [status[p] EXCEPT !.state = "corrupt"] \in Key
    BY DEF Key
  <2> QED
    BY <1>3, <2>1 DEF GarbleStatus
<1>4. ASSUME NEW t \in Targets, NEW tunnel \in Profiles \cup {NoTunnel}, SetRoute(t, tunnel)
      PROVE BusTypeOK'
  BY <1>4 DEF SetRoute, Routes
<1>5. CASE RedisCrash
  BY <1>0, <1>5, Zenon DEF RedisCrash, Routes
<1>6. CASE RedisStart
  BY <1>6 DEF RedisStart
<1>7. QED
  BY <1>1, <1>2, <1>3, <1>4, <1>5, <1>6 DEF BusNext

(* The tunnels' steps keep healthd's types and leave the bus alone. *)
LEMMA TunnelTypes ==
  ASSUME BusTypeOK, HealthdTypeOK, TunnelNext
  PROVE  HealthdTypeOK' /\ UNCHANGED busVars
<1> USE DEF HealthdTypeOK, loopVars
<1> PICK p \in Profiles : TunnelUp(p) \/ TunnelDown(p) \/ Handshake(p)
                           \/ SendBytes(p) \/ InterfaceReset(p)
  BY DEF TunnelNext
<1>1. CASE TunnelUp(p)
  BY <1>1 DEF TunnelUp
<1>2. CASE TunnelDown(p)
  BY <1>2 DEF TunnelDown, BusTypeOK
<1>3. CASE Handshake(p)
  BY <1>3 DEF Handshake, BusTypeOK
<1>4. CASE SendBytes(p)
  BY <1>4 DEF SendBytes
<1>5. CASE InterfaceReset(p)
  BY <1>5 DEF InterfaceReset, ZeroTime
<1>6. QED
  BY <1>1, <1>2, <1>3, <1>4, <1>5

(* A verdict is up or down, and leaves the rest of the snapshot alone. *)
LEMMA EvaluateType ==
  ASSUME NEW p, NEW s \in Snapshot
  PROVE  Evaluate(p, s) \in Snapshot
<1>1. DecideHealth(prevTx[p], s, HostIP, Freshness) \in {"up", "down"}
  BY DEF DecideHealth
<1>2. QED
  BY <1>1 DEF Evaluate, Snapshot, State

(* Stamping the probe keeps a snapshot a snapshot. *)
LEMMA ProbeStampType ==
  ASSUME NEW s \in Snapshot
  PROVE  [s EXCEPT !.liveProbeAt = s.checkedAt] \in Snapshot
BY SMTT(30) DEF Snapshot

(* healthd's steps keep the types of healthd and of the bus. *)
LEMMA HealthdTypes ==
  ASSUME BusTypeOK, HealthdTypeOK, HealthdNext
  PROVE  BusTypeOK' /\ HealthdTypeOK'
<1> USE DEF HealthdTypeOK, tunnelVars, Steps
<1>0. \A t \in Nat : NewSnapshot(t) \in Snapshot
  BY DEF NewSnapshot, Snapshot, State, ZeroTime
<1>n. now \in Nat
  BY DEF BusTypeOK
<1>b. UNCHANGED busVars => BusTypeOK'
  BY UnchangedTypes
<1>1. CASE HealthdStart
  BY <1>0, <1>1, <1>b, <1>n DEF HealthdStart, FreshLocals, State
<1>2. CASE HealthdStop
  BY <1>0, <1>2, <1>b DEF HealthdStop, FreshLocals, State
<1>3. ASSUME NEW p \in Profiles, StartPoll(p) PROVE BusTypeOK' /\ HealthdTypeOK'
  <2>1. NextTick(nextAt[p]) \in Nat
    BY <1>3, <1>n DEF StartPoll, NextTick
  <2> QED
    BY <1>0, <1>3, <1>b, <1>n, <2>1 DEF StartPoll
<1>4. ASSUME NEW p \in Profiles, EgressIP(p) PROVE BusTypeOK' /\ HealthdTypeOK'
  <2>1. cur' \in [Profiles -> Snapshot]
    BY <1>0, <1>n, <1>4 DEF EgressIP, Snapshot
  <2> QED
    BY <1>4, <1>b, <2>1 DEF EgressIP
<1>5. ASSUME NEW p \in Profiles, EgressIPFails(p) PROVE BusTypeOK' /\ HealthdTypeOK'
  <2>1. cur' \in [Profiles -> Snapshot]
    BY <1>0, <1>n, <1>5 DEF EgressIPFails, NewSnapshot, ZeroTime, Snapshot, State
  <2> QED
    BY <1>5, <1>b, <2>1 DEF EgressIPFails
<1>6. ASSUME NEW p \in Profiles, ShowTransfer(p) PROVE BusTypeOK' /\ HealthdTypeOK'
  <2>1. cur' \in [Profiles -> Snapshot]
    BY <1>0, <1>n, <1>6, SMTT(30) DEF ShowTransfer, Snapshot
  <2> QED
    BY <1>6, <1>b, <2>1 DEF ShowTransfer
<1>7. ASSUME NEW p \in Profiles, ShowLatestHandshakes(p) PROVE BusTypeOK' /\ HealthdTypeOK'
  <2>1. cur' \in [Profiles -> Snapshot]
    BY <1>0, <1>n, <1>7 DEF ShowLatestHandshakes, Snapshot
  <2> QED
    BY <1>7, <1>b, <2>1 DEF ShowLatestHandshakes
<1>8. ASSUME NEW p \in Profiles, WGSampleFails(p) PROVE BusTypeOK' /\ HealthdTypeOK'
  <2>1. cur' \in [Profiles -> Snapshot]
    BY <1>0, <1>n, <1>8, SMTT(30) DEF WGSampleFails, Snapshot
  <2> QED
    BY <1>8, <1>b, <2>1 DEF WGSampleFails
<1>9. ASSUME NEW p \in Profiles, ProbeOK(p) PROVE BusTypeOK' /\ HealthdTypeOK'
  <2>0. cur[p] \in Snapshot
    OBVIOUS
  <2>1. [cur[p] EXCEPT !.liveProbeAt = cur[p].checkedAt] \in Snapshot
    BY <2>0, ProbeStampType
  <2>2. Evaluate(p, [cur[p] EXCEPT !.liveProbeAt = cur[p].checkedAt]) \in Snapshot
    BY <2>1, EvaluateType
  <2> QED
    BY <1>9, <1>b, <2>2 DEF ProbeOK
<1>10. ASSUME NEW p \in Profiles, NoProbe(p) PROVE BusTypeOK' /\ HealthdTypeOK'
  <2>1. cur[p] \in Snapshot
    BY DEF Snapshot
  <2>2. Evaluate(p, cur[p]) \in Snapshot
    BY <2>1, EvaluateType
  <2> QED
    BY <1>10, <1>b, <2>2 DEF NoProbe
<1>11. ASSUME NEW p \in Profiles, SetStatus(p) PROVE BusTypeOK' /\ HealthdTypeOK'
  <2>1. Marshal(cur[p]) \in Key
    BY DEF Marshal, Key, Snapshot
  <2>2. CASE StoreKey(p, Marshal(cur[p])) /\ UNCHANGED flight
    <3>1. [Marshal(cur[p]) EXCEPT !.expires = now + TTL] \in Key
      BY <2>1, <1>n DEF Key
    <3> QED
      BY <1>11, <2>2, <3>1 DEF SetStatus, StoreKey, BusTypeOK
  <2>3. CASE SendLate(p, Marshal(cur[p])) /\ UNCHANGED status
    <3>1. [key |-> Marshal(cur[p]), until |-> now + NetDelay] \in [key: Key, until: Nat]
      BY <2>1, <1>n
    <3> QED
      BY <1>11, <2>3, <3>1 DEF SetStatus, SendLate, BusTypeOK
  <2> QED
    BY <1>11, <2>2, <2>3 DEF SetStatus
<1>12. ASSUME NEW p \in Profiles, SetStatusFails(p) PROVE BusTypeOK' /\ HealthdTypeOK'
  BY <1>12, <1>b DEF SetStatusFails
<1>13. ASSUME NEW p \in Profiles, FinishPoll(p) PROVE BusTypeOK' /\ HealthdTypeOK'
  <2>1. cur[p].tx \in Nat /\ cur[p].state \in State
    BY SMTT(30) DEF Snapshot
  <2> QED
    BY <1>0, <1>13, <1>b, <2>1 DEF FinishPoll
<1>14. QED
  BY <1>1, <1>2, <1>3, <1>4, <1>5, <1>6, <1>7, <1>8, <1>9, <1>10, <1>11, <1>12, <1>13, ZenonT(30)
     DEF HealthdNext, PollStep

(* The helpers' steps keep their types and leave the bus alone. *)
LEMMA HelperTypes ==
  ASSUME BusTypeOK, HelperTypeOK, HelperPC, HelperNext
  PROVE  HelperTypeOK' /\ HelperPC' /\ UNCHANGED busVars
<1> USE DEF HelperTypeOK, HelperPC, HelperSteps
<1> PICK h \in Helpers : HelperStep(h)
  BY DEF HelperNext
<1>1. CASE Spawn(h)
  BY <1>1 DEF Spawn
<1>2. CASE Exit(h) \/ BlankRequest(h) \/ NoUsableRoute(h) \/ DecideNotUp(h)
           \/ LookupFails(h) \/ Reply(h)
  <2>1. PICK to \in {"off", "idle", "reply"} : hpc' = [hpc EXCEPT ![h] = to]
    BY <1>2 DEF Exit, BlankRequest, NoUsableRoute, DecideNotUp, LookupFails, Reply, Refuse
  <2>2. Forget(h) /\ UNCHANGED busVars
    BY <1>2 DEF Exit, BlankRequest, NoUsableRoute, DecideNotUp, LookupFails, Reply, Refuse
  <2>3. NoKey \in Key
    BY DEF NoKey, Key, State
  <2>4. HelperTypeOK'
    BY <2>1, <2>2, <2>3 DEF Forget, Routes
  <2>5. HelperPC'
    BY <2>1, <2>2 DEF Forget
  <2> QED
    BY <2>2, <2>4, <2>5
<1>3. CASE Request(h)
  BY <1>3, SMTT(30) DEF Request, BusTypeOK
<1>4. CASE GetRoute(h)
  <2>1. route[host[h]] \in Profiles
    BY <1>4 DEF GetRoute, Routes, BusTypeOK
  <2> QED
    BY <1>4, <2>1 DEF GetRoute, Routes
<1>5. CASE DecideUp(h)
  <2>1. status[tag[h]] \in Key /\ now \in Nat
    BY <1>5 DEF DecideUp, BusTypeOK
  <2> QED
    BY <1>5, <2>1 DEF DecideUp
<1>6. QED
  BY <1>1, <1>2, <1>3, <1>4, <1>5 DEF HelperStep

(* Every step keeps the types. *)
LEMMA TypeStep ==
  ASSUME TypeOK, HelperPC, [Next]_vars
  PROVE  TypeOK' /\ HelperPC'
<1> USE UnchangedTypes DEF TypeOK
<1>1. CASE BusNext /\ UNCHANGED <<healthdVars, helperVars>>
  BY <1>1, BusTypes
<1>2. CASE TunnelNext /\ UNCHANGED helperVars
  BY <1>2, TunnelTypes
<1>3. CASE HealthdNext /\ UNCHANGED helperVars
  BY <1>3, HealthdTypes
<1>4. CASE HelperNext /\ UNCHANGED healthdVars
  BY <1>4, HelperTypes
<1>5. CASE UNCHANGED vars
  BY <1>5 DEF vars
<1>6. QED
  BY <1>1, <1>2, <1>3, <1>4, <1>5 DEF Next

(* The initial state is well typed. *)
LEMMA TypeInit ==
  ASSUME Init PROVE TypeOK /\ HelperPC
<1>1. NoKey \in Key /\ NewSnapshot(0) \in Snapshot
  BY DEF NoKey, Key, NewSnapshot, Snapshot, State, ZeroTime
<1>2. BusTypeOK
  BY <1>1 DEF Init, BusInit, BusTypeOK, Routes
<1>3. HealthdTypeOK
  BY <1>1 DEF Init, HealthdInit, HealthdTypeOK, Steps, State, ZeroTime
<1>4. HelperTypeOK /\ HelperPC
  BY <1>1 DEF Init, HelperInit, HelperTypeOK, HelperPC, HelperSteps, Routes
<1>5. QED
  BY <1>2, <1>3, <1>4 DEF TypeOK

(* Type correctness of the whole decision path. *)
THEOREM TypeCorrect == Spec => []TypeOK
<1>1. Init => TypeOK /\ HelperPC
  BY TypeInit
<1>2. TypeOK /\ HelperPC /\ [Next]_vars => TypeOK' /\ HelperPC'
  BY TypeStep
<1>3. QED
  BY <1>1, <1>2, PTL DEF Spec

------------------------------------------------------------------------------
(* What "up" rests on: a handshake or a probe at most freshness old. *)
LEMMA VerdictNeedsProof ==
  ASSUME NEW prev, NEW s \in Snapshot, NEW ip, NEW freshness \in Nat,
         DecideHealth(prev, s, ip, freshness) = "up"
  PROVE  \/ s.checkedAt <= s.lastHandshake + freshness
         \/ s.checkedAt <= s.liveProbeAt + freshness
<1>1. wgProofFresh(prev, s, freshness) \/ liveProbeFresh(s, freshness)
  BY DEF DecideHealth
<1>2. QED
  BY <1>1 DEF wgProofFresh, liveProbeFresh, Snapshot

(* Only Tick moves the clock, and only forward. *)
LEMMA ClockStep ==
  ASSUME TypeOK, [Next]_vars
  PROVE  now <= now'
<1>1. now \in Nat
  BY DEF TypeOK, BusTypeOK
<1>2. CASE BusNext
  BY <1>1, <1>2 DEF BusNext, Tick, LandStatus, GarbleStatus, SetRoute, RedisCrash, RedisStart
<1>3. CASE TunnelNext
  BY <1>1, <1>3 DEF TunnelNext, TunnelUp, TunnelDown, Handshake, SendBytes, InterfaceReset, busVars
<1>4. CASE HealthdNext
  <2>1. UNCHANGED now
    BY <1>4, Zenon DEF HealthdNext, HealthdStart, HealthdStop, PollStep, StartPoll, EgressIP,
       EgressIPFails, ShowTransfer, ShowLatestHandshakes, WGSampleFails, ProbeOK, NoProbe,
       SetStatus, SetStatusFails, FinishPoll, busVars
  <2>2. QED
    BY <1>1, <2>1
<1>5. CASE HelperNext
  <2>1. UNCHANGED busVars
    BY <1>5 DEF HelperNext, HelperStep, Spawn, Exit, Request, BlankRequest, GetRoute,
       NoUsableRoute, DecideUp, DecideNotUp, LookupFails, Reply
  <2>2. QED
    BY <1>1, <2>1 DEF busVars
<1>6. CASE UNCHANGED vars
  BY <1>1, <1>6 DEF vars, busVars
<1>7. QED
  BY <1>2, <1>3, <1>4, <1>5, <1>6 DEF Next

(* healthd and the helpers do not touch the tunnels. *)
LEMMA TunnelsApart ==
  ASSUME [Next]_vars, ~TunnelNext
  PROVE  UNCHANGED tunnelVars
BY Zenon DEF Next, vars, healthdVars, tunnelVars, HealthdNext, HealthdStart, HealthdStop, PollStep,
       StartPoll, EgressIP, EgressIPFails, ShowTransfer, ShowLatestHandshakes, WGSampleFails,
       ProbeOK, NoProbe, SetStatus, SetStatusFails, FinishPoll

(* No handshake without life, and the last sign of life never recedes. *)
LEMMA TunnelStep ==
  ASSUME TypeOK, TypeOK', TunnelInv, [Next]_vars
  PROVE  TunnelInv' /\ \A p \in Profiles : LastAlive(p) <= LastAlive(p)'
<1> USE DEF TypeOK, BusTypeOK, HealthdTypeOK, TunnelInv, LastAlive
<1>1. now <= now'
  BY ClockStep
<1>2. CASE ~TunnelNext
  <2>1. UNCHANGED <<alive, diedAt, hs>>
    BY <1>2, TunnelsApart DEF tunnelVars
  <2>2. QED
    BY <1>1, <2>1
<1>3. CASE TunnelNext
  <2>1. UNCHANGED now
    BY <1>3 DEF TunnelNext, TunnelUp, TunnelDown, Handshake, SendBytes, InterfaceReset, busVars
  <2>2. PICK p \in Profiles : TunnelUp(p) \/ TunnelDown(p) \/ Handshake(p)
                               \/ SendBytes(p) \/ InterfaceReset(p)
    BY <1>3 DEF TunnelNext
  <2>3. CASE TunnelUp(p)
    BY <2>1, <2>3 DEF TunnelUp
  <2>4. CASE TunnelDown(p)
    BY <2>1, <2>4 DEF TunnelDown
  <2>5. CASE Handshake(p)
    BY <2>1, <2>5 DEF Handshake
  <2>6. CASE SendBytes(p)
    BY <2>1, <2>6 DEF SendBytes
  <2>7. CASE InterfaceReset(p)
    BY <2>1, <2>7 DEF InterfaceReset, ZeroTime
  <2>8. QED
    BY <2>2, <2>3, <2>4, <2>5, <2>6, <2>7
<1>4. QED
  BY <1>2, <1>3

(* The last sign of life is a time. *)
LEMMA LastAliveType ==
  ASSUME TypeOK, TypeOK', NEW p \in Profiles
  PROVE  LastAlive(p) \in Nat /\ LastAlive(p)' \in Nat
BY DEF TypeOK, BusTypeOK, HealthdTypeOK, LastAlive

(* The snapshot being built. *)
LEMMA PollInvStep ==
  ASSUME TypeOK, TypeOK', TunnelInv, PollInv, [Next]_vars
  PROVE  PollInv'
<1>1. \A q \in Profiles : /\ LastAlive(q) \in Nat /\ LastAlive(q)' \in Nat
                          /\ LastAlive(q) <= LastAlive(q)'
  BY TunnelStep, LastAliveType
<1>2. now \in Nat /\ now' \in Nat /\ now <= now'
  BY ClockStep DEF TypeOK, BusTypeOK
<1>3. \A q \in Profiles : /\ cur[q] \in Snapshot /\ cur'[q] \in Snapshot
                          /\ deadline[q] \in Nat /\ deadline'[q] \in Nat
  BY DEF TypeOK, HealthdTypeOK
<1>4. CASE UNCHANGED <<cur, deadline>>
  BY <1>1, <1>2, <1>3, <1>4 DEF PollInv, Justified, Snapshot
<1>5. CASE HealthdNext
  <2> SUFFICES ASSUME NEW q \in Profiles
               PROVE  (/\ cur[q].checkedAt <= now
                       /\ deadline[q] <= cur[q].checkedAt + Interval
                       /\ cur[q].lastHandshake <= LastAlive(q)
                       /\ cur[q].liveProbeAt <= LastAlive(q)
                       /\ Justified(cur[q].state, cur[q].checkedAt, q))'
    BY DEF PollInv
  <2> USE DEF Justified
  <2>0. /\ cur[q].checkedAt <= now
        /\ deadline[q] <= cur[q].checkedAt + Interval
        /\ cur[q].lastHandshake <= LastAlive(q)
        /\ cur[q].liveProbeAt <= LastAlive(q)
        /\ Justified(cur[q].state, cur[q].checkedAt, q)
    BY DEF PollInv
  <2>a. /\ cur[q] \in Snapshot /\ deadline[q] \in Nat
        /\ cur[q].checkedAt \in Nat /\ cur[q].lastHandshake \in Nat /\ cur[q].liveProbeAt \in Nat
        /\ LastAlive(q) \in Nat /\ LastAlive(q)' \in Nat /\ LastAlive(q) <= LastAlive(q)'
        /\ cur \in [Profiles -> Snapshot] /\ deadline \in [Profiles -> Nat]
    BY <1>1, <1>3 DEF Snapshot, TypeOK, HealthdTypeOK
  <2>b. hs[q] <= LastAlive(q) /\ hs[q] \in Nat
    BY DEF TunnelInv, TypeOK, HealthdTypeOK
  <2>c. ASSUME cur'[q] = NewSnapshot(0), deadline'[q] = 0
        PROVE  (/\ cur[q].checkedAt <= now
                /\ deadline[q] <= cur[q].checkedAt + Interval
                /\ cur[q].lastHandshake <= LastAlive(q)
                /\ cur[q].liveProbeAt <= LastAlive(q)
                /\ Justified(cur[q].state, cur[q].checkedAt, q))'
    <3>1. /\ cur'[q].checkedAt = 0 /\ cur'[q].lastHandshake = 0 /\ cur'[q].liveProbeAt = 0
          /\ cur'[q].state = "unknown"
      BY <2>c DEF NewSnapshot, ZeroTime
    <3>2. QED
      BY <1>2, <2>a, <2>c, <3>1, HealthdAssumption
  <2>1. CASE HealthdStart \/ HealthdStop
    BY <2>1, <2>c, ZenonT(30) DEF HealthdStart, HealthdStop, FreshLocals
  <2>2. ASSUME NEW p \in Profiles, p # q, PollStep(p)
        PROVE  cur'[q] = cur[q] /\ deadline'[q] = deadline[q]
    BY <2>2, <2>a DEF PollStep, StartPoll, EgressIP, EgressIPFails, ShowTransfer,
       ShowLatestHandshakes, WGSampleFails, ProbeOK, NoProbe, SetStatus, SetStatusFails, FinishPoll
  <2>3. CASE StartPoll(q)
    <3>1. cur'[q] = NewSnapshot(now) /\ deadline'[q] = now + Interval /\ now' = now
      BY <2>3, <2>a DEF StartPoll, busVars
    <3>2. /\ cur'[q].checkedAt = now /\ cur'[q].lastHandshake = 0 /\ cur'[q].liveProbeAt = 0
          /\ cur'[q].state = "unknown"
      BY <3>1 DEF NewSnapshot, ZeroTime
    <3>3. QED
      BY <1>2, <2>a, <3>1, <3>2
  <2>4. CASE EgressIP(q)
    BY <1>2, <2>0, <2>4, <2>a DEF EgressIP, Snapshot
  <2>5. CASE EgressIPFails(q)
    BY <1>2, <2>0, <2>5, <2>a DEF EgressIPFails, NewSnapshot, ZeroTime
  <2>6. CASE ShowTransfer(q)
    BY <1>2, <2>0, <2>6, <2>a DEF ShowTransfer, Snapshot
  <2>7. CASE ShowLatestHandshakes(q)
    BY <1>2, <2>0, <2>7, <2>a, <2>b DEF ShowLatestHandshakes, Snapshot
  <2>8. CASE WGSampleFails(q)
    BY <1>2, <2>0, <2>8, <2>a DEF WGSampleFails, Snapshot
  <2>9. ASSUME NEW s \in Snapshot, s.checkedAt = cur[q].checkedAt,
               s.lastHandshake <= LastAlive(q), s.liveProbeAt <= LastAlive(q),
               cur'[q] = Evaluate(q, s), deadline'[q] = deadline[q]
        PROVE  (/\ cur[q].checkedAt <= now
                /\ deadline[q] <= cur[q].checkedAt + Interval
                /\ cur[q].lastHandshake <= LastAlive(q)
                /\ cur[q].liveProbeAt <= LastAlive(q)
                /\ Justified(cur[q].state, cur[q].checkedAt, q))'
    <3>1. /\ cur'[q].checkedAt = s.checkedAt /\ cur'[q].lastHandshake = s.lastHandshake
          /\ cur'[q].liveProbeAt = s.liveProbeAt
          /\ cur'[q].state = DecideHealth(prevTx[q], s, HostIP, Freshness)
      BY <2>9 DEF Evaluate, Snapshot
    <3>2. s.checkedAt \in Nat /\ s.lastHandshake \in Nat /\ s.liveProbeAt \in Nat
      BY DEF Snapshot
    <3>3. cur'[q].state = "up" => \/ s.checkedAt <= s.lastHandshake + Freshness
                                 \/ s.checkedAt <= s.liveProbeAt + Freshness
      BY <3>1, VerdictNeedsProof, Zenon
    <3>4. cur'[q].state = "up" => cur'[q].checkedAt <= LastAlive(q)' + Freshness
      BY <2>9, <2>a, <3>1, <3>2, <3>3
    <3>5. cur'[q].checkedAt <= now' /\ deadline'[q] <= cur'[q].checkedAt + Interval
      BY <1>2, <2>0, <2>9, <2>a, <3>1
    <3>6. cur'[q].lastHandshake <= LastAlive(q)' /\ cur'[q].liveProbeAt <= LastAlive(q)'
      BY <2>9, <2>a, <3>1, <3>2
    <3>7. QED
      BY <3>4, <3>5, <3>6
  <2>10. CASE ProbeOK(q)
    <3> DEFINE s == [cur[q] EXCEPT !.liveProbeAt = cur[q].checkedAt]
    <3>1. s \in Snapshot
      BY <2>a, ProbeStampType
    <3>2. LastAlive(q) = now
      BY <2>10 DEF ProbeOK, LastAlive
    <3>3. /\ s.checkedAt = cur[q].checkedAt /\ s.lastHandshake = cur[q].lastHandshake
          /\ s.liveProbeAt = cur[q].checkedAt
      BY <2>a DEF Snapshot
    <3>4. cur'[q] = Evaluate(q, s) /\ deadline'[q] = deadline[q]
      BY <2>10, <2>a, SMTT(30) DEF ProbeOK
    <3>5. QED
      BY <2>0, <2>9, <3>1, <3>2, <3>3, <3>4, Zenon
  <2>11. CASE NoProbe(q)
    <3>1. cur'[q] = Evaluate(q, cur[q]) /\ deadline'[q] = deadline[q]
      BY <2>11, <2>a DEF NoProbe
    <3>2. QED
      BY <2>0, <2>9, <2>a, <3>1
  <2>12. CASE SetStatus(q) \/ SetStatusFails(q)
    BY <1>2, <2>0, <2>12, <2>a DEF SetStatus, SetStatusFails
  <2>13. CASE FinishPoll(q)
    <3>1. cur'[q] = NewSnapshot(0) /\ deadline'[q] = 0
      BY <2>13, <2>a DEF FinishPoll
    <3>2. QED
      BY <2>c, <3>1
  <2>14. CASE cur'[q] = cur[q] /\ deadline'[q] = deadline[q]
    BY <1>2, <2>0, <2>14, <2>a
  <2>15. QED
    BY <1>5, <2>1, <2>2, <2>3, <2>4, <2>5, <2>6, <2>7, <2>8, <2>10, <2>11, <2>12, <2>13, <2>14, ZenonT(30)
       DEF HealthdNext, PollStep
<1>6. CASE ~HealthdNext
  <2>1. UNCHANGED <<cur, deadline>>
    BY <1>6 DEF Next, vars, healthdVars, loopVars, TunnelNext, TunnelUp, TunnelDown,
       Handshake, SendBytes, InterfaceReset
  <2>2. QED
    BY <1>4, <2>1, SMTT(30)
<1>7. QED
  BY <1>5, <1>6

------------------------------------------------------------------------------
(* Redis. *)

(* What healthd does to Redis: at most one key is sent or stored, by        *)
(* SetStatus, within the deadline of its poll.                              *)
LEMMA HealthdWrites ==
  ASSUME HealthdNext, ~ \E p \in Profiles : SetStatus(p)
  PROVE  UNCHANGED busVars
BY Zenon DEF HealthdNext, HealthdStart, HealthdStop, PollStep, StartPoll, EgressIP, EgressIPFails,
       ShowTransfer, ShowLatestHandshakes, WGSampleFails, ProbeOK, NoProbe, SetStatusFails,
       FinishPoll

(* Who else leaves Redis alone. *)
LEMMA OthersWrite ==
  ASSUME TunnelNext \/ HelperNext \/ UNCHANGED vars
  PROVE  UNCHANGED busVars
<1>1. CASE TunnelNext
  BY <1>1 DEF TunnelNext, TunnelUp, TunnelDown, Handshake, SendBytes, InterfaceReset
<1>2. CASE HelperNext
  BY <1>2 DEF HelperNext, HelperStep, Spawn, Exit, Request, BlankRequest, GetRoute,
     NoUsableRoute, DecideUp, DecideNotUp, LookupFails, Reply
<1>3. CASE UNCHANGED vars
  BY <1>3 DEF vars
<1>4. QED
  BY <1>1, <1>2, <1>3

(* A SET that is still under way. *)
LEMMA FlightInvStep ==
  ASSUME TypeOK, TypeOK', TunnelInv, PollInv, FlightInv, [Next]_vars
  PROVE  FlightInv'
<1>1. \A q \in Profiles : /\ LastAlive(q) \in Nat /\ LastAlive(q)' \in Nat
                          /\ LastAlive(q) <= LastAlive(q)'
  BY TunnelStep, LastAliveType
<1>2. now \in Nat /\ now' \in Nat /\ now <= now'
  BY ClockStep DEF TypeOK, BusTypeOK
<1>3. \A q \in Profiles : \A f \in flight[q] :
        f.until \in Nat /\ f.key.checkedAt \in Nat
  BY DEF TypeOK, BusTypeOK, Key
<1>4. CASE UNCHANGED <<now, flight>>
  BY <1>1, <1>2, <1>3, <1>4 DEF FlightInv, Justified
<1>5. CASE Tick
  <2>1. \A q \in Profiles : \A f \in flight'[q] : f \in flight[q] /\ f.until >= now'
    BY <1>5 DEF Tick
  <2>2. QED
    BY <1>1, <1>2, <1>3, <2>1 DEF FlightInv, Justified
<1>6. ASSUME NEW p \in Profiles, SetStatus(p)
      PROVE  FlightInv'
  <2>1. CASE UNCHANGED flight
    BY <1>4, <1>6, <2>1 DEF SetStatus
  <2>2. CASE SendLate(p, Marshal(cur[p]))
    <3> DEFINE new == [key |-> Marshal(cur[p]), until |-> now + NetDelay]
    <3>1. flight' = [flight EXCEPT ![p] = @ \cup {new}]
      BY <2>2 DEF SendLate
    <3>2. now <= deadline[p] /\ UNCHANGED now
      BY <1>6 DEF SetStatus, InTime
    <3>3. /\ cur[p].checkedAt \in Nat /\ deadline[p] \in Nat
          /\ new.key.checkedAt = cur[p].checkedAt /\ new.key.state = cur[p].state
          /\ new.until = now + NetDelay
      BY DEF TypeOK, HealthdTypeOK, Snapshot, Marshal
    <3>4. /\ cur[p].checkedAt <= now
          /\ deadline[p] <= cur[p].checkedAt + Interval
          /\ Justified(cur[p].state, cur[p].checkedAt, p)
      BY DEF PollInv
    <3>5. /\ new.until >= now' /\ new.until <= new.key.checkedAt + Interval + NetDelay
          /\ new.key.checkedAt <= now'
          /\ new.key.state = "up" => new.key.checkedAt <= LastAlive(p)' + Freshness
      BY <1>1, <1>2, <3>2, <3>3, <3>4 DEF Justified
    <3> HIDE DEF new
    <3>6. \A q \in Profiles : \A f \in flight'[q] : f \in flight[q] \/ (f = new /\ q = p)
      BY <3>1 DEF TypeOK, BusTypeOK
    <3>7. QED
      BY <1>1, <1>2, <1>3, <3>2, <3>5, <3>6 DEF FlightInv, Justified
  <2>3. QED
    BY <1>6, <2>1, <2>2 DEF SetStatus
<1>7. CASE BusNext
  BY <1>4, <1>5, <1>7 DEF BusNext, LandStatus, GarbleStatus, SetRoute, RedisCrash, RedisStart
<1>8. CASE ~BusNext /\ ~ \E p \in Profiles : SetStatus(p)
  <2>1. UNCHANGED busVars
    BY <1>8, HealthdWrites, OthersWrite DEF Next
  <2>2. QED
    BY <1>4, <2>1 DEF busVars
<1>9. QED
  BY <1>6, <1>7, <1>8

(* The key in Redis. *)
LEMMA KeyInvStep ==
  ASSUME TypeOK, TypeOK', TunnelInv, PollInv, FlightInv, KeyInv, [Next]_vars
  PROVE  KeyInv'
<1>1. \A q \in Profiles : /\ LastAlive(q) \in Nat /\ LastAlive(q)' \in Nat
                          /\ LastAlive(q) <= LastAlive(q)'
  BY TunnelStep, LastAliveType
<1>2. now \in Nat /\ now' \in Nat /\ now <= now'
  BY ClockStep DEF TypeOK, BusTypeOK
<1>3. \A q \in Profiles : status[q].checkedAt \in Nat /\ status[q].expires \in Nat
  BY DEF TypeOK, BusTypeOK, Key
<1>4. CASE UNCHANGED status
  BY <1>1, <1>2, <1>3, <1>4 DEF KeyInv, Justified
<1>5. CASE Tick \/ RedisCrash
  <2>1. \A q \in Profiles : status'[q] = status[q] \/ status'[q] = NoKey
    BY <1>5 DEF Tick, RedisCrash
  <2>2. ASSUME NEW q \in Profiles
        PROVE  (/\ status[q].checkedAt <= now
                /\ status[q].expires <= status[q].checkedAt + KeyLife
                /\ Justified(status[q].state, status[q].checkedAt, q))'
    <3>1. CASE status'[q] = status[q]
      BY <1>1, <1>2, <1>3, <3>1 DEF KeyInv, KeyLife, Justified
    <3>2. CASE status'[q] = NoKey
      BY <1>1, <1>2, <3>2 DEF KeyLife, Justified, NoKey
    <3>3. QED
      BY <2>1, <3>1, <3>2
  <2>3. QED
    BY <2>2 DEF KeyInv
<1>6. ASSUME NEW p \in Profiles, NEW k \in Key, StoreKey(p, k), UNCHANGED now,
             k.checkedAt <= now, now <= k.checkedAt + Interval + NetDelay,
             Justified(k.state, k.checkedAt, p)
      PROVE  KeyInv'
  <2>1. /\ status'[p].checkedAt = k.checkedAt /\ status'[p].state = k.state
        /\ status'[p].expires = now + TTL /\ k.checkedAt \in Nat
    BY <1>6 DEF StoreKey, TypeOK, BusTypeOK, Key
  <2>2. \A q \in Profiles : q # p => status'[q] = status[q]
    BY <1>6 DEF StoreKey, TypeOK, BusTypeOK
  <2>3. /\ status'[p].checkedAt <= now' /\ status'[p].expires <= status'[p].checkedAt + KeyLife
        /\ status'[p].state = "up" => status'[p].checkedAt <= LastAlive(p)' + Freshness
    BY <1>1, <1>2, <1>6, <2>1 DEF KeyLife, Justified
  <2>4. QED
    BY <1>1, <1>2, <1>3, <2>2, <2>3 DEF KeyInv, Justified
<1>7. ASSUME NEW p \in Profiles, LandStatus(p) PROVE KeyInv'
  <2>1. PICK f \in flight[p] : StoreKey(p, f.key)
    BY <1>7 DEF LandStatus
  <2>2. f.key \in Key /\ f.until \in Nat /\ f.key.checkedAt \in Nat
    BY DEF TypeOK, BusTypeOK, Key
  <2>3. /\ f.key.checkedAt <= now /\ now <= f.key.checkedAt + Interval + NetDelay
        /\ Justified(f.key.state, f.key.checkedAt, p)
    BY <1>2, <2>2 DEF FlightInv
  <2>4. QED
    BY <1>6, <1>7, <2>1, <2>2, <2>3 DEF LandStatus
<1>8. ASSUME NEW p \in Profiles, GarbleStatus(p) PROVE KeyInv'
  <2>1. /\ status'[p].checkedAt = status[p].checkedAt /\ status'[p].expires = status[p].expires
        /\ status'[p].state = "corrupt"
        /\ \A q \in Profiles : q # p => status'[q] = status[q]
    BY <1>8 DEF GarbleStatus, TypeOK, BusTypeOK, Key
  <2>2. QED
    BY <1>1, <1>2, <1>3, <2>1 DEF KeyInv, Justified
<1>9. ASSUME NEW p \in Profiles, SetStatus(p) PROVE KeyInv'
  <2>1. CASE UNCHANGED status
    BY <1>4, <2>1
  <2>2. CASE StoreKey(p, Marshal(cur[p]))
    <3>1. /\ Marshal(cur[p]) \in Key /\ Marshal(cur[p]).checkedAt = cur[p].checkedAt
          /\ Marshal(cur[p]).state = cur[p].state
          /\ cur[p].checkedAt \in Nat /\ deadline[p] \in Nat
      BY DEF TypeOK, HealthdTypeOK, Marshal, Key, Snapshot
    <3>2. /\ cur[p].checkedAt <= now /\ deadline[p] <= cur[p].checkedAt + Interval
          /\ Justified(cur[p].state, cur[p].checkedAt, p)
      BY DEF PollInv
    <3>3. now <= deadline[p] /\ UNCHANGED now
      BY <1>9 DEF SetStatus, InTime
    <3>4. now <= cur[p].checkedAt + Interval + NetDelay
      BY <1>2, <3>1, <3>2, <3>3
    <3>5. QED
      BY <1>6, <2>2, <3>1, <3>2, <3>3, <3>4
  <2>3. QED
    BY <1>9, <2>1, <2>2 DEF SetStatus
<1>10. CASE BusNext
  BY <1>4, <1>5, <1>7, <1>8, <1>10 DEF BusNext, SetRoute, RedisStart
<1>11. CASE ~BusNext /\ ~ \E p \in Profiles : SetStatus(p)
  <2>1. UNCHANGED busVars
    BY <1>11, HealthdWrites, OthersWrite DEF Next
  <2>2. QED
    BY <1>4, <2>1 DEF busVars
<1>12. QED
  BY <1>9, <1>10, <1>11

(* What a reader that gets "up" may rely on. *)
LEMMA ReadUp ==
  ASSUME TypeOK, KeyInv, NEW p \in Profiles, GetStatus(p) = "up"
  PROVE  /\ status[p].state = "up"
         /\ status[p].checkedAt <= now
         /\ ~TooOld(now - status[p].checkedAt)
         /\ Justified(status[p].state, status[p].checkedAt, p)
<1>1. /\ status[p].expires > now /\ status[p].state = "up"
      /\ ~(MaxAge > 0 /\ now - status[p].checkedAt > MaxAge)
  BY DEF GetStatus, evaluateStatus, Found
<1>2. now \in Nat /\ status[p].checkedAt \in Nat /\ status[p].expires \in Nat
  BY DEF TypeOK, BusTypeOK, Key
<1>3. /\ status[p].checkedAt <= now
      /\ status[p].expires <= status[p].checkedAt + KeyLife
      /\ Justified(status[p].state, status[p].checkedAt, p)
  BY DEF KeyInv
<1>4. now - status[p].checkedAt < KeyLife
  BY <1>1, <1>2, <1>3 DEF KeyLife
<1>5. ~TooOld(now - status[p].checkedAt)
  BY <1>1, <1>2, <1>4 DEF TooOld, KeyLife
<1>6. QED
  BY <1>1, <1>3, <1>5

------------------------------------------------------------------------------
(* The decision a helper has drawn. *)
LEMMA HelperInvStep ==
  ASSUME TypeOK, TypeOK', HelperPC, TunnelInv, KeyInv, HelperInv, [Next]_vars
  PROVE  HelperInv'
<1>1. \A q \in Profiles : /\ LastAlive(q) \in Nat /\ LastAlive(q)' \in Nat
                          /\ LastAlive(q) <= LastAlive(q)'
  BY TunnelStep, LastAliveType
<1>2. \A h \in Helpers : snap[h].checkedAt \in Nat
  BY DEF TypeOK, HelperTypeOK, Key
<1>3. ASSUME NEW g \in Helpers, ok'[g],
             ok'[g] = ok[g], tag'[g] = tag[g], snap'[g] = snap[g], readAt'[g] = readAt[g]
      PROVE  (/\ tag[g] \in Profiles
              /\ snap[g].state = "up"
              /\ snap[g].checkedAt <= readAt[g]
              /\ ~TooOld(readAt[g] - snap[g].checkedAt)
              /\ Justified(snap[g].state, snap[g].checkedAt, tag[g]))'
  <2>1. /\ tag[g] \in Profiles /\ snap[g].state = "up" /\ snap[g].checkedAt <= readAt[g]
        /\ ~TooOld(readAt[g] - snap[g].checkedAt)
        /\ Justified(snap[g].state, snap[g].checkedAt, tag[g])
    BY <1>3 DEF HelperInv
  <2>2. QED
    BY <1>1, <1>2, <1>3, <2>1 DEF Justified, TooOld
<1>4. CASE UNCHANGED <<ok, tag, snap, readAt>>
  BY <1>3, <1>4 DEF HelperInv
<1>5. ASSUME NEW h \in Helpers, HelperStep(h)
      PROVE  HelperInv'
  <2>1. CASE Spawn(h) \/ Request(h)
    BY <1>4, <2>1 DEF Spawn, Request
  <2>2. CASE GetRoute(h)
    <3>1. ~ok[h]
      BY <2>2 DEF GetRoute, HelperPC
    <3>2. QED
      BY <1>3, <2>2, <3>1 DEF GetRoute, HelperInv, TypeOK, HelperTypeOK
  <2>3. CASE Forget(h)
    <3>1. ~ok'[h]
      BY <2>3 DEF Forget, TypeOK, HelperTypeOK
    <3>2. \A g \in Helpers : g # h =>
            ok'[g] = ok[g] /\ tag'[g] = tag[g] /\ snap'[g] = snap[g] /\ readAt'[g] = readAt[g]
      BY <2>3 DEF Forget, TypeOK, HelperTypeOK
    <3>3. QED
      BY <1>3, <3>1, <3>2, Zenon DEF HelperInv
  <2>4. CASE DecideUp(h)
    <3>1. tag[h] \in Profiles /\ GetStatus(tag[h]) = "up"
      BY <2>4 DEF DecideUp, HelperPC
    <3>2. /\ status[tag[h]].state = "up"
          /\ status[tag[h]].checkedAt <= now
          /\ ~TooOld(now - status[tag[h]].checkedAt)
          /\ Justified(status[tag[h]].state, status[tag[h]].checkedAt, tag[h])
      BY <3>1, ReadUp
    <3>3. /\ snap'[h] = status[tag[h]] /\ readAt'[h] = now /\ tag'[h] = tag[h]
          /\ status[tag[h]].checkedAt \in Nat
      BY <2>4, <3>1 DEF DecideUp, TypeOK, HelperTypeOK, BusTypeOK, Key
    <3>4. (/\ tag[h] \in Profiles
           /\ snap[h].state = "up"
           /\ snap[h].checkedAt <= readAt[h]
           /\ ~TooOld(readAt[h] - snap[h].checkedAt)
           /\ Justified(snap[h].state, snap[h].checkedAt, tag[h]))'
      <4>1. TooOld(readAt[h] - snap[h].checkedAt)' <=> TooOld(now - status[tag[h]].checkedAt)
        BY <3>3 DEF TooOld
      <4>2. status[tag[h]].checkedAt <= LastAlive(tag[h])' + Freshness
        BY <1>1, <3>1, <3>2, <3>3, HealthdAssumption DEF Justified
      <4>3. QED
        BY <3>1, <3>2, <3>3, <4>1, <4>2 DEF Justified
    <3>5. \A g \in Helpers : g # h =>
            ok'[g] = ok[g] /\ tag'[g] = tag[g] /\ snap'[g] = snap[g] /\ readAt'[g] = readAt[g]
      BY <2>4 DEF DecideUp, TypeOK, HelperTypeOK
    <3>6. QED
      BY <1>3, <3>4, <3>5 DEF HelperInv
  <2>5. QED
    BY <1>5, <2>1, <2>2, <2>3, <2>4 DEF HelperStep, Exit, BlankRequest, NoUsableRoute,
       DecideNotUp, LookupFails, Reply, Refuse
<1>6. CASE ~HelperNext
  BY <1>4, <1>6 DEF Next, vars, helperVars
<1>7. QED
  BY <1>5, <1>6 DEF HelperNext

------------------------------------------------------------------------------
(* The theorems. *)

(* The inductive invariant holds when nothing has started yet. *)
LEMMA IInvInit ==
  ASSUME Init PROVE IInv
<1>1. TypeOK /\ HelperPC
  BY TypeInit
<1>2. TunnelInv
  BY DEF Init, BusInit, HealthdInit, TunnelInv, LastAlive, ZeroTime
<1>3. PollInv
  <2> SUFFICES ASSUME NEW p \in Profiles
               PROVE  /\ cur[p].checkedAt <= now
                      /\ deadline[p] <= cur[p].checkedAt + Interval
                      /\ cur[p].lastHandshake <= LastAlive(p)
                      /\ cur[p].liveProbeAt <= LastAlive(p)
                      /\ Justified(cur[p].state, cur[p].checkedAt, p)
    BY DEF PollInv
  <2>1. now = 1 /\ deadline[p] = 0 /\ LastAlive(p) = 0 /\ cur[p] = NewSnapshot(0)
    BY DEF Init, BusInit, HealthdInit, LastAlive
  <2>2. /\ cur[p].checkedAt = 0 /\ cur[p].lastHandshake = 0 /\ cur[p].liveProbeAt = 0
        /\ cur[p].state = "unknown"
    BY <2>1 DEF NewSnapshot, ZeroTime
  <2>3. QED
    BY <2>1, <2>2, HealthdAssumption DEF Justified
<1>4. FlightInv
  BY DEF Init, BusInit, FlightInv
<1>5. KeyInv
  <2> SUFFICES ASSUME NEW p \in Profiles
               PROVE  /\ status[p].checkedAt <= now
                      /\ status[p].expires <= status[p].checkedAt + KeyLife
                      /\ Justified(status[p].state, status[p].checkedAt, p)
    BY DEF KeyInv
  <2>1. now = 1 /\ status[p] = NoKey
    BY DEF Init, BusInit
  <2>2. status[p].state = "down" /\ status[p].checkedAt = 0 /\ status[p].expires = 0
    BY <2>1 DEF NoKey
  <2>3. QED
    BY <2>1, <2>2, HealthdAssumption, BusAssumption DEF Justified, KeyLife
<1>6. HelperInv
  BY DEF Init, HelperInit, HelperInv
<1>7. QED
  BY <1>1, <1>2, <1>3, <1>4, <1>5, <1>6 DEF IInv

(* Every step of a tunnel, of healthd, of Redis or of a helper preserves it. *)
LEMMA IInvStep ==
  ASSUME IInv, [Next]_vars PROVE IInv'
<1>1. TypeOK' /\ HelperPC'
  BY TypeStep DEF IInv
<1>2. QED
  BY <1>1, TunnelStep, PollInvStep, FlightInvStep, KeyInvStep, HelperInvStep DEF IInv

(* The strengthening is an invariant of the path. *)
THEOREM Inductive == Spec => []IInv
<1>1. Init => IInv
  BY IInvInit
<1>2. IInv /\ [Next]_vars => IInv'
  BY IInvStep
<1>3. QED
  BY <1>1, <1>2, PTL DEF Spec

(* Decide's OK always rests on a snapshot within the TTL and maxAge bounds. *)
THEOREM OkFreshness == Spec => []OkIsFresh
<1>1. IInv => OkIsFresh
  BY DEF IInv, HelperInv, OkIsFresh
<1>2. QED
  BY <1>1, Inductive, PTL

(* Decide's OK always names a tunnel that was carrying traffic recently. *)
THEOREM OkNamesLivingTunnel == Spec => []OkImpliesRecentlyAlive
<1>1. ASSUME IInv, NEW h \in Helpers, ok[h]
      PROVE  /\ tag[h] \in Profiles
             /\ ~TooOld(readAt[h] - LastAlive(tag[h]) - Freshness)
  <2>1. /\ tag[h] \in Profiles /\ snap[h].state = "up"
        /\ ~TooOld(readAt[h] - snap[h].checkedAt)
        /\ Justified(snap[h].state, snap[h].checkedAt, tag[h])
    BY <1>1 DEF IInv, HelperInv
  <2>2. snap[h].checkedAt \in Nat /\ readAt[h] \in Nat /\ LastAlive(tag[h]) \in Nat
    BY <1>1, <2>1 DEF IInv, TypeOK, HelperTypeOK, Key, BusTypeOK, HealthdTypeOK, LastAlive
  <2>3. QED
    BY <2>1, <2>2 DEF Justified, TooOld, KeyLife
<1>2. IInv => OkImpliesRecentlyAlive
  BY <1>1 DEF OkImpliesRecentlyAlive
<1>3. QED
  BY <1>2, Inductive, PTL

(* No reader of the bus sees a long dead tunnel up. *)
THEOREM FailClosed == Spec => []DeadTunnelReadsDown
<1>1. ASSUME IInv, NEW p \in Profiles, GetStatus(p) = "up"
      PROVE  ~TooOld(now - LastAlive(p) - Freshness)
  <2>1. /\ status[p].state = "up" /\ ~TooOld(now - status[p].checkedAt)
        /\ Justified(status[p].state, status[p].checkedAt, p)
    BY <1>1, ReadUp DEF IInv
  <2>2. status[p].checkedAt \in Nat /\ now \in Nat /\ LastAlive(p) \in Nat
    BY <1>1 DEF IInv, TypeOK, BusTypeOK, Key, HealthdTypeOK, LastAlive
  <2>3. QED
    BY <2>1, <2>2 DEF Justified, TooOld, KeyLife
<1>2. IInv => DeadTunnelReadsDown
  BY <1>1 DEF DeadTunnelReadsDown
<1>3. QED
  BY <1>2, Inductive, PTL

------------------------------------------------------------------------------
(* The refinement. *)

(* Every tunnel GetStatus shows up was carrying traffic within Window. *)
LEMMA ViewIsRecent ==
  IInv => View \subseteq {p \in Profiles : Gate!Recent(p)}
<1> SUFFICES ASSUME IInv, NEW p \in View PROVE p \in Profiles /\ Gate!Recent(p)
  OBVIOUS
<1>1. p \in Profiles /\ GetStatus(p) = "up"
  BY DEF View
<1>2. /\ status[p].state = "up" /\ ~TooOld(now - status[p].checkedAt)
      /\ Justified(status[p].state, status[p].checkedAt, p)
  BY <1>1, ReadUp DEF IInv
<1>3. status[p].checkedAt \in Nat /\ now \in Nat /\ diedAt[p] \in Nat /\ KeyLife \in Nat
  BY <1>1, HealthdAssumption, BusAssumption
  DEF IInv, TypeOK, BusTypeOK, Key, HealthdTypeOK, KeyLife
<1>4. CASE alive[p]
  BY <1>1, <1>4 DEF Gate!Recent
<1>5. CASE ~alive[p]
  <2>1. status[p].checkedAt <= diedAt[p] + Freshness
    BY <1>2, <1>5 DEF Justified, LastAlive
  <2>2. now - diedAt[p] <= Window
    BY <1>2, <1>3, <2>1, HealthdAssumption, BusAssumption DEF TooOld, Window
  <2>3. QED
    BY <1>1, <2>2 DEF Gate!Recent
<1>6. QED
  BY <1>1, <1>4, <1>5

(* A step that changes only what the bus holds, or healthd's own state, is *)
(* at most a new view of the gate.                                         *)
LEMMA NewView ==
  ASSUME IInv', UNCHANGED <<now, alive, diedAt, helperVars>> PROVE Gate!Refresh
<1>1. (IInv => View \subseteq {p \in Profiles : Gate!Recent(p)})'
  BY ViewIsRecent, PTL
<1>2. QED
  BY <1>1 DEF Gate!Refresh, Gate!Look, helperVars, Phase, Granted

(* What a helper's place in its loop means for the gate. *)
LEMMA Phases ==
  /\ PhaseOf("off") = "idle" /\ PhaseOf("idle") = "idle"
  /\ PhaseOf("route") = "asked" /\ PhaseOf("status") = "asked"
  /\ PhaseOf("reply") = "answered"
BY DEF PhaseOf

(* A helper that moves on moves alone. *)
LEMMA HelperMoves ==
  ASSUME TypeOK, NEW h \in Helpers
  PROVE  /\ hpc' = [hpc EXCEPT ![h] = "idle"] => Phase' = [Phase EXCEPT ![h] = "idle"]
         /\ hpc' = [hpc EXCEPT ![h] = "route"] => Phase' = [Phase EXCEPT ![h] = "asked"]
         /\ hpc' = [hpc EXCEPT ![h] = "status"] => Phase' = [Phase EXCEPT ![h] = "asked"]
         /\ hpc' = [hpc EXCEPT ![h] = "reply"] => Phase' = [Phase EXCEPT ![h] = "answered"]
         /\ hpc' = [hpc EXCEPT ![h] = "off"] => Phase' = [Phase EXCEPT ![h] = "idle"]
BY Phases DEF Phase, TypeOK, HelperTypeOK

(* A helper that drops its request, or refuses it, grants nothing. *)
LEMMA HelperForgets ==
  ASSUME TypeOK, NEW h \in Helpers, Forget(h)
  PROVE  Granted' = [Granted EXCEPT ![h] = NoRoute]
<1>1. /\ \A g \in Helpers : g # h => ok'[g] = ok[g] /\ tag'[g] = tag[g]
      /\ ~ok'[h]
  BY DEF Forget, TypeOK, HelperTypeOK
<1>2. QED
  BY <1>1 DEF Granted

(* Decide answering false is a refusal by the gate. *)
LEMMA Refusal ==
  ASSUME TypeOK, HelperPC, NEW h \in Helpers, Refuse(h), UNCHANGED <<busVars, healthdVars>>,
         hpc[h] \in {"idle", "route", "status"}
  PROVE  Gate!Deny(h)
<1>1. Phase' = [Phase EXCEPT ![h] = "answered"]
  BY HelperMoves DEF Refuse
<1>2. Granted' = Granted
  <2>1. Granted' = [Granted EXCEPT ![h] = NoRoute]
    BY HelperForgets DEF Refuse
  <2>2. Granted[h] = NoRoute
    BY DEF HelperPC, Granted
  <2>3. QED
    BY <2>1, <2>2 DEF Granted
<1>3. Phase[h] \in {"idle", "asked"}
  BY Phases DEF Phase
<1>4. View' = View
  BY DEF View, GetStatus, Found, busVars
<1>5. QED
  BY <1>1, <1>2, <1>3, <1>4 DEF Gate!Deny, busVars, healthdVars, tunnelVars

(* A helper that has written its answer, or is gone, leaves the gate. *)
LEMMA Departure ==
  ASSUME TypeOK, NEW h \in Helpers, Exit(h) \/ Reply(h), UNCHANGED healthdVars
  PROVE  Gate!Leave(h)
<1>1. Phase' = [Phase EXCEPT ![h] = "idle"]
  BY HelperMoves DEF Exit, Reply
<1>2. Granted' = [Granted EXCEPT ![h] = NoRoute]
  BY HelperForgets DEF Exit, Reply
<1>3. View' = View
  BY DEF View, GetStatus, Found, busVars, Exit, Reply
<1>4. QED
  BY <1>1, <1>2, <1>3 DEF Gate!Leave, busVars, healthdVars, tunnelVars, Exit, Reply

(* Decide answering true is the gate's grant: GetStatus is the look at the *)
(* view, whenever the route was read.                                      *)
LEMMA Approval ==
  ASSUME TypeOK, HelperPC, NEW h \in Helpers, DecideUp(h), UNCHANGED healthdVars
  PROVE  Gate!Grant(h)
<1>1. Phase' = [Phase EXCEPT ![h] = "answered"]
  BY HelperMoves DEF DecideUp
<1>2. tag[h] \in View
  BY DEF DecideUp, HelperPC, View
<1>3. Granted' = [Granted EXCEPT ![h] = tag[h]]
  <2>1. /\ \A g \in Helpers : g # h => ok'[g] = ok[g] /\ tag'[g] = tag[g]
        /\ ok'[h] /\ tag'[h] = tag[h]
    BY DEF DecideUp, TypeOK, HelperTypeOK
  <2>2. QED
    BY <2>1 DEF Granted
<1>4. View' = View
  BY DEF View, GetStatus, Found, busVars, DecideUp
<1>5. Phase[h] = "asked"
  BY Phases DEF Phase, DecideUp
<1>6. QED
  BY <1>1, <1>2, <1>3, <1>4, <1>5 DEF Gate!Grant, busVars, healthdVars, tunnelVars, DecideUp

(* Every step of a helper is a step of the gate, or shows nothing. *)
LEMMA HelperGateStep ==
  ASSUME IInv, HelperNext, UNCHANGED healthdVars
  PROVE  [Gate!GateNext]_Gate!gateVars
<1>1. PICK h \in Helpers : HelperStep(h)
  BY DEF HelperNext
<1>2. TypeOK /\ HelperPC
  BY DEF IInv
<1>3. UNCHANGED <<now, alive, diedAt, View>>
  BY <1>1 DEF HelperStep, Spawn, Exit, Request, BlankRequest, GetRoute, NoUsableRoute,
     DecideUp, DecideNotUp, LookupFails, Reply, busVars, healthdVars, tunnelVars,
     View, GetStatus, Found
<1>4. CASE Spawn(h)
  <2>1. Phase' = [Phase EXCEPT ![h] = "idle"]
    BY <1>2, <1>4, HelperMoves DEF Spawn
  <2>2. Phase[h] = "idle"
    BY <1>4, Phases DEF Spawn, Phase
  <2>3. Phase' = Phase /\ Granted' = Granted
    BY <1>4, <2>1, <2>2 DEF Spawn, Phase, Granted
  <2>4. QED
    BY <1>3, <2>3 DEF Gate!gateVars
<1>5. CASE Request(h)
  <2>1. Phase' = [Phase EXCEPT ![h] = "asked"]
    BY <1>2, <1>5, HelperMoves DEF Request
  <2>2. Phase[h] = "idle" /\ Granted' = Granted
    BY <1>5, Phases DEF Request, Phase, Granted
  <2>3. Gate!Ask(h)
    BY <1>3, <2>1, <2>2 DEF Gate!Ask
  <2>4. QED
    BY <2>3 DEF Gate!GateNext
<1>6. CASE GetRoute(h)
  <2>1. Phase' = [Phase EXCEPT ![h] = "asked"]
    BY <1>2, <1>6, HelperMoves DEF GetRoute
  <2>2. Phase[h] = "asked" /\ ~ok[h]
    BY <1>2, <1>6, Phases DEF GetRoute, Phase, HelperPC
  <2>3. Phase' = Phase
    BY <2>1, <2>2 DEF Phase
  <2>4. Granted' = Granted
    <3>1. ok' = ok /\ \A g \in Helpers : g # h => tag'[g] = tag[g]
      BY <1>2, <1>6 DEF GetRoute, TypeOK, HelperTypeOK
    <3>2. QED
      BY <2>2, <3>1 DEF Granted
  <2>5. QED
    BY <1>3, <2>3, <2>4 DEF Gate!gateVars
<1>7. CASE DecideUp(h)
  BY <1>2, <1>7, Approval DEF Gate!GateNext
<1>8. CASE Exit(h) \/ Reply(h)
  BY <1>2, <1>8, Departure DEF Gate!GateNext
<1>9. CASE BlankRequest(h) \/ NoUsableRoute(h) \/ DecideNotUp(h) \/ LookupFails(h)
  <2>1. /\ Refuse(h) /\ hpc[h] \in {"idle", "route", "status"}
        /\ UNCHANGED <<busVars, healthdVars>>
    BY <1>9 DEF BlankRequest, NoUsableRoute, DecideNotUp, LookupFails
  <2>2. QED
    BY <1>2, <2>1, Refusal DEF Gate!GateNext
<1>10. QED
  BY <1>1, <1>4, <1>5, <1>6, <1>7, <1>8, <1>9 DEF HelperStep

(* Every step of the path is a step of the gate, or shows nothing. *)
LEMMA GateStep ==
  ASSUME IInv, IInv', [Next]_vars PROVE [Gate!GateNext]_Gate!gateVars
<1>1. CASE Tick /\ UNCHANGED <<healthdVars, helperVars>>
  <2>1. (IInv => View \subseteq {p \in Profiles : Gate!Recent(p)})'
    BY ViewIsRecent, PTL
  <2>2. Gate!Look
    BY <2>1 DEF Gate!Look
  <2>3. Gate!Advance
    BY <1>1, <2>2 DEF Gate!Advance, Tick, healthdVars, tunnelVars, helperVars, Phase, Granted
  <2>4. QED
    BY <2>3 DEF Gate!GateNext
<1>2. CASE BusNext /\ ~Tick /\ UNCHANGED <<healthdVars, helperVars>>
  <2>1. UNCHANGED <<now, alive, diedAt, helperVars>>
    BY <1>2 DEF BusNext, LandStatus, GarbleStatus, SetRoute, RedisCrash, RedisStart,
       healthdVars, tunnelVars
  <2>2. QED
    BY <2>1, NewView DEF Gate!GateNext
<1>3. CASE TunnelNext /\ UNCHANGED helperVars
  <2>1. PICK p \in Profiles : \/ TunnelUp(p) \/ TunnelDown(p) \/ Handshake(p)
                              \/ SendBytes(p) \/ InterfaceReset(p)
    BY <1>3 DEF TunnelNext
  <2>2. UNCHANGED <<now, View, Phase, Granted>>
    BY <1>3, <2>1 DEF TunnelUp, TunnelDown, Handshake, SendBytes, InterfaceReset, busVars,
       View, GetStatus, Found, Phase, Granted, helperVars
  <2>3. CASE TunnelUp(p)
    BY <2>2, <2>3 DEF TunnelUp, Gate!Rise, Gate!GateNext
  <2>4. CASE TunnelDown(p)
    BY <2>2, <2>4 DEF TunnelDown, Gate!Fall, Gate!GateNext
  <2>5. CASE Handshake(p) \/ SendBytes(p) \/ InterfaceReset(p)
    BY <2>2, <2>5 DEF Handshake, SendBytes, InterfaceReset, Gate!gateVars
  <2>6. QED
    BY <2>1, <2>3, <2>4, <2>5
<1>4. CASE HealthdNext /\ UNCHANGED helperVars
  <2>1. UNCHANGED <<now, alive, diedAt>>
    <3>1. CASE HealthdStart \/ HealthdStop
      BY <3>1 DEF HealthdStart, HealthdStop, busVars, tunnelVars
    <3>2. CASE \E p \in Profiles : PollStep(p)
      <4>1. PICK p \in Profiles : PollStep(p)
        BY <3>2
      <4>2. CASE StartPoll(p) \/ EgressIP(p) \/ EgressIPFails(p)
        BY <4>2 DEF StartPoll, EgressIP, EgressIPFails, busVars, tunnelVars
      <4>3. CASE ShowTransfer(p) \/ ShowLatestHandshakes(p) \/ WGSampleFails(p)
        BY <4>3 DEF ShowTransfer, ShowLatestHandshakes, WGSampleFails, busVars, tunnelVars
      <4>4. CASE ProbeOK(p) \/ NoProbe(p)
        BY <4>4 DEF ProbeOK, NoProbe, busVars, tunnelVars
      <4>5. CASE SetStatus(p) \/ SetStatusFails(p) \/ FinishPoll(p)
        BY <4>5 DEF SetStatus, SetStatusFails, FinishPoll, busVars, tunnelVars
      <4>6. QED
        BY <4>1, <4>2, <4>3, <4>4, <4>5 DEF PollStep
    <3>3. QED
      BY <1>4, <3>1, <3>2 DEF HealthdNext
  <2>2. QED
    BY <1>4, <2>1, NewView DEF Gate!GateNext
<1>5. CASE HelperNext /\ UNCHANGED healthdVars
  BY <1>5, HelperGateStep
<1>6. CASE UNCHANGED vars
  BY <1>6 DEF vars, busVars, healthdVars, tunnelVars, helperVars, Gate!gateVars,
     View, GetStatus, Found, Phase, Granted
<1>7. QED
  BY <1>1, <1>2, <1>3, <1>4, <1>5, <1>6 DEF Next

(* The request path implements the gate: its two lookups, its expiring     *)
(* keys and its restarts are invisible, and no grant rests on a tunnel     *)
(* that has been dead for longer than Window.                              *)
THEOREM PathImplementsGate == Spec => ImplementsGate
<1>1. Init => Gate!GateInit
  <2> SUFFICES ASSUME Init PROVE Gate!GateInit
    OBVIOUS
  <2>1. View = {}
    <3>1. \A p \in Profiles : status[p].expires = 0 /\ now = 1
      BY DEF Init, BusInit, NoKey
    <3>2. QED
      BY <3>1 DEF View, GetStatus, Found, evaluateStatus
  <2>2. Phase = [h \in Helpers |-> "idle"] /\ Granted = [h \in Helpers |-> NoRoute]
    BY Phases DEF Init, HelperInit, Phase, Granted
  <2>3. QED
    BY <2>1, <2>2 DEF Init, BusInit, HealthdInit, Gate!GateInit
<1>2. IInv /\ IInv' /\ [Next]_vars => [Gate!GateNext]_Gate!gateVars
  BY GateStep
<1>3. QED
  BY <1>1, <1>2, Inductive, PTL DEF Spec, ImplementsGate, Gate!GateSpec

==============================================================================
