------------------------------ MODULE ProxyPath ------------------------------
(***************************************************************************)
(* The decision path of a request: tunnels, healthd, Redis and the ACL     *)
(* helpers together.  What the path promises is fail-closed routing with a *)
(* bound: an OK names a tunnel that was seen up recently, and a tunnel     *)
(* that died longer ago than the bound reads down for every reader.        *)
(***************************************************************************)
EXTENDS Healthd, AclHelper

vars == <<busVars, healthdVars, helperVars>>

Init == BusInit /\ HealthdInit /\ HelperInit

Next ==
  \/ BusNext /\ UNCHANGED <<healthdVars, helperVars>>
  \/ TunnelNext /\ UNCHANGED helperVars
  \/ HealthdNext /\ UNCHANGED helperVars
  \/ HelperNext /\ UNCHANGED healthdVars

Spec == Init /\ [][Next]_vars

TypeOK == BusTypeOK /\ HealthdTypeOK /\ HelperTypeOK

------------------------------------------------------------------------------
(* How old an "up" may be when a reader acts on it: the poll that produced *)
(* it had Interval to send it, the command NetDelay to arrive, and the key *)
(* is gone when its TTL is over; a reader with a freshness window does not *)
(* act on one older than that.                                             *)
KeyLife == Interval + NetDelay + TTL

TooOld(age) == age >= KeyLife \/ (MaxAge > 0 /\ age > MaxAge)

(* The last moment p's tunnel was carrying traffic. *)
LastAlive(p) == IF alive[p] THEN now ELSE diedAt[p]

(* An OK rests on an "up" snapshot that was not too old when GetStatus     *)
(* read it, whatever became of healthd, of Redis or of delayed writes in   *)
(* between (Decide, decide.go; the TTL and maxAge guards of client.go).    *)
OkIsFresh ==
  \A h \in Helpers :
    ok[h] => /\ snap[h].state = "up"
             /\ snap[h].checkedAt <= readAt[h]
             /\ ~TooOld(readAt[h] - snap[h].checkedAt)

(* An OK names a tunnel that really carried traffic, at most Freshness     *)
(* before such a snapshot: end to end from the tunnel, through the         *)
(* sampler, DecideHealth, the status key and Decide.                       *)
OkImpliesRecentlyAlive ==
  \A h \in Helpers :
    ok[h] => /\ tag[h] \in Profiles
             /\ ~TooOld(readAt[h] - LastAlive(tag[h]) - Freshness)

(* Every reader of the bus (helper, API, metrics) sees a tunnel down once  *)
(* it has been dead for longer than that: the fail-closed layers (the      *)
(* verdict, the expiry, the window) leave no way to keep a dead tunnel up. *)
DeadTunnelReadsDown ==
  \A p \in Profiles :
    TooOld(now - LastAlive(p) - Freshness) => GetStatus(p) # "up"

------------------------------------------------------------------------------
(* The path as an implementation of FailClosedGate: the view is what       *)
(* GetStatus answers now, a request is asked until Decide has answered,    *)
(* and its two lookups are one look at the view, at the time of GetStatus. *)

Window ==
  Freshness + (IF MaxAge > 0 /\ MaxAge < KeyLife - 1 THEN MaxAge ELSE KeyLife - 1)

PhaseOf(step) ==
  CASE step \in {"off", "idle"} -> "idle"
    [] step \in {"route", "status"} -> "asked"
    [] step = "reply" -> "answered"

View == {p \in Profiles : GetStatus(p) = "up"}
Phase == [h \in Helpers |-> PhaseOf(hpc[h])]
Granted == [h \in Helpers |-> IF ok[h] THEN tag[h] ELSE NoRoute]

Gate == INSTANCE FailClosedGate
          WITH Tunnels <- Profiles, Clients <- Helpers, Nothing <- NoRoute,
               view <- View, phase <- Phase, granted <- Granted

(* Every behaviour of healthd, Redis and the helpers is one of the gate:   *)
(* an OK (Decide, decide.go) is one look at a view in which no tunnel has  *)
(* been dead for longer than Window, and nothing that happens between the  *)
(* two lookups or before the reply is written can show.                    *)
ImplementsGate == Gate!GateSpec

------------------------------------------------------------------------------
(* The inductive strengthening: what each place that can hold an "up"      *)
(* knows of the poll that produced it and of the tunnel.                   *)

(* wg shows only handshakes of a living tunnel. *)
TunnelInv ==
  \A p \in Profiles : diedAt[p] <= now /\ hs[p] <= LastAlive(p)

(* A snapshot not older than x + Freshness, x being the last sign of life. *)
Justified(state, checkedAt, p) ==
  state = "up" => checkedAt <= LastAlive(p) + Freshness

PollInv ==
  \A p \in Profiles :
    /\ cur[p].checkedAt <= now
    /\ deadline[p] <= cur[p].checkedAt + Interval
    /\ cur[p].lastHandshake <= LastAlive(p)
    /\ cur[p].liveProbeAt <= LastAlive(p)
    /\ Justified(cur[p].state, cur[p].checkedAt, p)

FlightInv ==
  \A p \in Profiles : \A f \in flight[p] :
    /\ f.until >= now
    /\ f.until <= f.key.checkedAt + Interval + NetDelay
    /\ f.key.checkedAt <= now
    /\ Justified(f.key.state, f.key.checkedAt, p)

KeyInv ==
  \A p \in Profiles :
    /\ status[p].checkedAt <= now
    /\ status[p].expires <= status[p].checkedAt + KeyLife
    /\ Justified(status[p].state, status[p].checkedAt, p)

(* A helper looks up only what it has, and decides last. *)
HelperPC ==
  \A h \in Helpers : /\ hpc[h] = "route" => host[h] \in Targets
                     /\ hpc[h] = "status" => tag[h] \in Profiles
                     /\ ok[h] => hpc[h] = "reply"

HelperInv ==
  \A h \in Helpers :
    ok[h] => /\ tag[h] \in Profiles
             /\ snap[h].state = "up"
             /\ snap[h].checkedAt <= readAt[h]
             /\ ~TooOld(readAt[h] - snap[h].checkedAt)
             /\ Justified(snap[h].state, snap[h].checkedAt, tag[h])

IInv == TypeOK /\ HelperPC /\ TunnelInv /\ PollInv /\ FlightInv /\ KeyInv /\ HelperInv

==============================================================================
