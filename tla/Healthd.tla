------------------------------- MODULE Healthd -------------------------------
(***************************************************************************)
(* healthd (cmd/healthd/main.go): one goroutine per profile samples the    *)
(* tunnel, decides, writes the status key and announces transitions.       *)
(* Every call that leaves the process (gluetun's control API, the two wg   *)
(* executions, the probe through the tunnel, Redis) is a step of its own,  *)
(* so time may pass and the tunnel may change between any two of them.     *)
(* The tunnels themselves are the environment: a tunnel that is alive may  *)
(* complete handshakes and carry a probe, a dead one may not; bytes leave  *)
(* either (WireGuard counts its own handshake attempts).                   *)
(***************************************************************************)
EXTENDS StatusBus

CONSTANTS
  Interval,   \* HEALTHD_POLL_INTERVAL, also the deadline of one poll
  Freshness,  \* HEALTHD_FRESHNESS
  HostIP,     \* HEALTHD_HOST_IP; NoIP when it is not set
  WgReadable, \* profiles whose WireGuard interface healthd can read
  Probed,     \* profiles with a usable tunnel proxy URL
  MaxTx       \* bound on the interface's byte counter

ASSUME HealthdAssumption ==
  /\ Interval \in Nat \ {0}
  /\ Freshness \in Nat \ {0}
  /\ WgReadable \subseteq Profiles
  /\ Probed \subseteq Profiles
  /\ MaxTx \in Nat

VARIABLES
  alive,        \* alive[p]: the tunnel carries traffic
  diedAt,       \* diedAt[p]: when it last stopped doing so
  hs,           \* hs[p]: latest handshake shown by wg
  tx,           \* tx[p]: bytes sent shown by wg
  pc,           \* pc[p]: where p's goroutine is
  cur,          \* cur[p]: the snapshot being built
  prevTx,       \* prevTx[p]: prev.Tx, the baseline of the byte delta
  lastReported, \* lastReported[p]: state of the last announcement attempted
  deadline,     \* deadline[p]: when cctx of the running poll expires
  nextAt        \* nextAt[p]: when the ticker next delivers

tunnelVars == <<alive, diedAt, hs, tx>>
loopVars == <<pc, cur, prevTx, lastReported, deadline, nextAt>>
healthdVars == <<tunnelVars, loopVars>>

Steps == {"off", "wait", "egress", "transfer", "handshakes", "probe", "set", "event"}

NewSnapshot(t) ==
  [state |-> "unknown", checkedAt |-> t, egressIP |-> NoIP, tx |-> 0,
   lastHandshake |-> ZeroTime, liveProbeAt |-> ZeroTime]

HealthdTypeOK ==
  /\ alive \in [Profiles -> BOOLEAN]
  /\ diedAt \in [Profiles -> Nat]
  /\ hs \in [Profiles -> Nat]
  /\ tx \in [Profiles -> Nat]
  /\ pc \in [Profiles -> Steps]
  /\ cur \in [Profiles -> Snapshot]
  /\ prevTx \in [Profiles -> Nat]
  /\ lastReported \in [Profiles -> State]
  /\ deadline \in [Profiles -> Nat]
  /\ nextAt \in [Profiles -> Nat]

HealthdInit ==
  /\ alive = [p \in Profiles |-> FALSE]
  /\ diedAt = [p \in Profiles |-> 0]
  /\ hs = [p \in Profiles |-> ZeroTime]
  /\ tx = [p \in Profiles |-> 0]
  /\ pc = [p \in Profiles |-> "off"]
  /\ cur = [p \in Profiles |-> NewSnapshot(0)]
  /\ prevTx = [p \in Profiles |-> 0]
  /\ lastReported = [p \in Profiles |-> "unknown"]
  /\ deadline = [p \in Profiles |-> 0]
  /\ nextAt = [p \in Profiles |-> 0]

------------------------------------------------------------------------------
(* The tunnels.  Only a readable interface's handshakes and bytes matter. *)

TunnelUp(p) ==
  /\ ~alive[p]
  /\ alive' = [alive EXCEPT ![p] = TRUE]
  /\ UNCHANGED <<diedAt, hs, tx, loopVars, busVars>>

TunnelDown(p) ==
  /\ alive[p]
  /\ alive' = [alive EXCEPT ![p] = FALSE]
  /\ diedAt' = [diedAt EXCEPT ![p] = now]
  /\ UNCHANGED <<hs, tx, loopVars, busVars>>

Handshake(p) ==
  /\ p \in WgReadable
  /\ alive[p]
  /\ hs' = [hs EXCEPT ![p] = now]
  /\ UNCHANGED <<alive, diedAt, tx, loopVars, busVars>>

SendBytes(p) ==
  /\ p \in WgReadable
  /\ tx[p] < MaxTx
  /\ tx' = [tx EXCEPT ![p] = @ + 1]
  /\ UNCHANGED <<alive, diedAt, hs, loopVars, busVars>>

(* gluetun recreates the interface: its counters start again. *)
InterfaceReset(p) ==
  /\ p \in WgReadable
  /\ tx' = [tx EXCEPT ![p] = 0]
  /\ hs' = [hs EXCEPT ![p] = ZeroTime]
  /\ UNCHANGED <<alive, diedAt, loopVars, busVars>>

TunnelNext ==
  \E p \in Profiles : \/ TunnelUp(p) \/ TunnelDown(p) \/ Handshake(p)
                      \/ SendBytes(p) \/ InterfaceReset(p)

------------------------------------------------------------------------------
(* runProfile's locals before the first poll. *)
FreshLocals ==
  /\ cur' = [p \in Profiles |-> NewSnapshot(0)]
  /\ prevTx' = [p \in Profiles |-> 0]
  /\ lastReported' = [p \in Profiles |-> "unknown"]
  /\ deadline' = [p \in Profiles |-> 0]

(* The process: run needs Redis to answer its PING, then starts the        *)
(* goroutines with fresh locals and an immediate first poll.               *)
HealthdStart ==
  /\ redisUp
  /\ \A p \in Profiles : pc[p] = "off"
  /\ pc' = [p \in Profiles |-> "wait"]
  /\ FreshLocals
  /\ nextAt' = [p \in Profiles |-> now]
  /\ UNCHANGED <<tunnelVars, busVars>>

(* A crash, or a signal: cctx is a child of the cancelled context, so a    *)
(* poll under way writes nothing more.                                     *)
HealthdStop ==
  /\ \E p \in Profiles : pc[p] # "off"
  /\ pc' = [p \in Profiles |-> "off"]
  /\ FreshLocals
  /\ nextAt' = [p \in Profiles |-> 0]
  /\ UNCHANGED <<tunnelVars, busVars>>

(* The ticker's channel holds one tick and drops the ones that find it     *)
(* full: after a late poll the next tick is the next one still to come.    *)
NextTick(at) == at + Interval * (((now - at) \div Interval) + 1)

StartPoll(p) ==
  /\ pc[p] = "wait"
  /\ now >= nextAt[p]
  /\ pc' = [pc EXCEPT ![p] = "egress"]
  /\ cur' = [cur EXCEPT ![p] = NewSnapshot(now)]
  /\ deadline' = [deadline EXCEPT ![p] = now + Interval]
  /\ nextAt' = [nextAt EXCEPT ![p] = NextTick(@)]
  /\ UNCHANGED <<prevTx, lastReported, tunnelVars, busVars>>

InTime(p) == now <= deadline[p]

(* gluetun answers with the public IP it has cached. *)
EgressIP(p) ==
  /\ pc[p] = "egress"
  /\ InTime(p)
  /\ \E ip \in EgressIPs : cur' = [cur EXCEPT ![p].egressIP = ip]
  /\ pc' = [pc EXCEPT ![p] = "transfer"]
  /\ UNCHANGED <<prevTx, lastReported, deadline, nextAt, tunnelVars, busVars>>

(* The only sampling error: a fresh DOWN without counters. *)
EgressIPFails(p) ==
  /\ pc[p] = "egress"
  /\ cur' = [cur EXCEPT ![p] = [NewSnapshot(now) EXCEPT !.state = "down"]]
  /\ pc' = [pc EXCEPT ![p] = "set"]
  /\ UNCHANGED <<prevTx, lastReported, deadline, nextAt, tunnelVars, busVars>>

ShowTransfer(p) ==
  /\ pc[p] = "transfer"
  /\ p \in WgReadable
  /\ InTime(p)
  /\ cur' = [cur EXCEPT ![p].tx = tx[p]]
  /\ pc' = [pc EXCEPT ![p] = "handshakes"]
  /\ UNCHANGED <<prevTx, lastReported, deadline, nextAt, tunnelVars, busVars>>

ShowLatestHandshakes(p) ==
  /\ pc[p] = "handshakes"
  /\ InTime(p)
  /\ cur' = [cur EXCEPT ![p].lastHandshake = hs[p]]
  /\ pc' = [pc EXCEPT ![p] = "probe"]
  /\ UNCHANGED <<prevTx, lastReported, deadline, nextAt, tunnelVars, busVars>>

(* Either wg call failing loses both readings. *)
WGSampleFails(p) ==
  /\ pc[p] \in {"transfer", "handshakes"}
  /\ cur' = [cur EXCEPT ![p].tx = 0]
  /\ pc' = [pc EXCEPT ![p] = "probe"]
  /\ UNCHANGED <<prevTx, lastReported, deadline, nextAt, tunnelVars, busVars>>

Evaluate(p, snap) ==
  [snap EXCEPT !.state = DecideHealth(prevTx[p], snap, HostIP, Freshness)]

ProbeOK(p) ==
  /\ pc[p] = "probe"
  /\ p \in Probed
  /\ alive[p]
  /\ InTime(p)
  /\ cur' = [cur EXCEPT ![p] = Evaluate(p, [cur[p] EXCEPT !.liveProbeAt = cur[p].checkedAt])]
  /\ pc' = [pc EXCEPT ![p] = "set"]
  /\ UNCHANGED <<prevTx, lastReported, deadline, nextAt, tunnelVars, busVars>>

(* Mutant: a failed probe stamps LiveProbeAt too. *)
NoProbe_Stamped(p) ==
  /\ pc[p] = "probe"
  /\ cur' = [cur EXCEPT ![p] = Evaluate(p, [cur[p] EXCEPT !.liveProbeAt = cur[p].checkedAt])]
  /\ pc' = [pc EXCEPT ![p] = "set"]
  /\ UNCHANGED <<prevTx, lastReported, deadline, nextAt, tunnelVars, busVars>>

(* The probe fails, or there is none: LiveProbeAt stays zero. *)
NoProbe(p) ==
  /\ pc[p] = "probe"
  /\ cur' = [cur EXCEPT ![p] = Evaluate(p, cur[p])]
  /\ pc' = [pc EXCEPT ![p] = "set"]
  /\ UNCHANGED <<prevTx, lastReported, deadline, nextAt, tunnelVars, busVars>>

(* Mutant: SetStatus runs on the loop's context, which has no deadline. *)
SetStatus_NoDeadline(p) ==
  /\ pc[p] = "set"
  /\ redisUp
  /\ \/ StoreKey(p, Marshal(cur[p])) /\ UNCHANGED flight
     \/ SendLate(p, Marshal(cur[p])) /\ UNCHANGED status
  /\ pc' = [pc EXCEPT ![p] = "event"]
  /\ UNCHANGED <<cur, prevTx, lastReported, deadline, nextAt, tunnelVars, now, redisUp, route>>

(* SetStatus, whose error is only logged.  With cctx alive the SET is      *)
(* sent: it is applied at once, or the client gives up on it and it may    *)
(* still arrive within NetDelay.                                           *)
SetStatus(p) ==
  /\ pc[p] = "set"
  /\ redisUp
  /\ InTime(p)
  /\ \/ StoreKey(p, Marshal(cur[p])) /\ UNCHANGED flight
     \/ SendLate(p, Marshal(cur[p])) /\ UNCHANGED status
  /\ pc' = [pc EXCEPT ![p] = "event"]
  /\ UNCHANGED <<cur, prevTx, lastReported, deadline, nextAt, tunnelVars, now, redisUp, route>>

(* Nothing is sent: Redis is away or cctx has expired. *)
SetStatusFails(p) ==
  /\ pc[p] = "set"
  /\ pc' = [pc EXCEPT ![p] = "event"]
  /\ UNCHANGED <<cur, prevTx, lastReported, deadline, nextAt, tunnelVars, busVars>>

(* The end of tick(): publish a transition (lost when PublishEvent fails;  *)
(* lastReported moves on either way), then advance the baseline; cur and   *)
(* cctx go out of scope.                                                   *)
FinishPoll(p) ==
  /\ pc[p] = "event"
  /\ lastReported' = [lastReported EXCEPT ![p] = cur[p].state]
  /\ prevTx' = [prevTx EXCEPT ![p] =
                  IF \/ cur[p].state = "up"
                     \/ cur[p].tx > 0
                     \/ cur[p].lastHandshake # ZeroTime
                  THEN cur[p].tx ELSE @]
  /\ pc' = [pc EXCEPT ![p] = "wait"]
  /\ cur' = [cur EXCEPT ![p] = NewSnapshot(0)]
  /\ deadline' = [deadline EXCEPT ![p] = 0]
  /\ UNCHANGED <<nextAt, tunnelVars, busVars>>

PollStep(p) ==
  \/ StartPoll(p)
  \/ EgressIP(p) \/ EgressIPFails(p)
  \/ ShowTransfer(p) \/ ShowLatestHandshakes(p) \/ WGSampleFails(p)
  \/ ProbeOK(p) \/ NoProbe(p)
  \/ SetStatus(p) \/ SetStatusFails(p)
  \/ FinishPoll(p)

HealthdNext == HealthdStart \/ HealthdStop \/ \E p \in Profiles : PollStep(p)

==============================================================================
