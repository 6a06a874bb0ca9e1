---------------------------- MODULE HealthVerdict ----------------------------
(***************************************************************************)
(* The two pure verdicts that every request rests on:                      *)
(*  - DecideHealth (internal/vpn/health.go), which turns one poll of a     *)
(*    tunnel into "up" or "down";                                          *)
(*  - evaluateStatus (internal/redis/client.go), which turns what a reader *)
(*    finds under vpn:status:<profile> into the state it acts on.          *)
(* Times are naturals; ZeroTime is Go's zero time.Time.  Of the previous   *)
(* snapshot DecideHealth reads only Tx, so the baseline is that number.    *)
(* Rx is carried by the snapshots and read by nobody; it is left out.      *)
(***************************************************************************)
EXTENDS Integers

CONSTANTS
  NoIP,       \* the empty public IP
  EgressIPs   \* what gluetun may answer

ZeroTime == 0

State == {"up", "down", "unknown"}

(* A snapshot as healthd's sampler builds it. *)
Snapshot == [state: State, checkedAt: Nat, egressIP: EgressIPs \cup {NoIP}, tx: Nat,
             lastHandshake: Nat, liveProbeAt: Nat]

(* What its readers look at under the key.  "corrupt" stands for bytes     *)
(* that json.Unmarshal refuses; expires = 0 for a key that is not there.   *)
Key == [state: State \cup {"corrupt"}, checkedAt: Nat, expires: Nat]

NoKey == [state |-> "down", checkedAt |-> 0, expires |-> 0]

(* Mutant: any past handshake counts. *)
wgProofFresh_AnyAge(prevTx, cur, freshness) ==
  /\ cur.lastHandshake # ZeroTime
  /\ cur.lastHandshake <= cur.checkedAt
  /\ cur.tx > prevTx

wgProofFresh(prevTx, cur, freshness) ==
  /\ cur.lastHandshake # ZeroTime
  /\ cur.lastHandshake <= cur.checkedAt
  /\ cur.checkedAt - cur.lastHandshake <= freshness
  /\ cur.tx > prevTx

liveProbeFresh(cur, freshness) ==
  /\ cur.liveProbeAt # ZeroTime
  /\ cur.liveProbeAt <= cur.checkedAt
  /\ cur.checkedAt - cur.liveProbeAt <= freshness

DecideHealth(prevTx, cur, hostIP, freshness) ==
  IF /\ freshness > 0
     /\ cur.egressIP # NoIP
     /\ hostIP # NoIP => cur.egressIP # hostIP
     /\ \/ wgProofFresh(prevTx, cur, freshness)
        \/ liveProbeFresh(cur, freshness)
  THEN "up"
  ELSE "down"

(* Mutant: the freshness window is never applied. *)
evaluateStatus_NoWindow(key, found, t, maxAge) ==
  IF ~found \/ key.state = "corrupt" THEN "down" ELSE key.state

(* The state a reader acts on, at time t, having found (or not) key. *)
evaluateStatus(key, found, t, maxAge) ==
  IF ~found \/ key.state = "corrupt" THEN "down"
  ELSE IF key.state # "up" THEN key.state
  ELSE IF maxAge > 0 /\ t - key.checkedAt > maxAge THEN "down"
  ELSE "up"

==============================================================================
