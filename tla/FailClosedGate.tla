--------------------------- MODULE FailClosedGate ---------------------------
(***************************************************************************)
(* What the request path promises, without healthd, Redis, keys, expiries  *)
(* or lookups: there is one view of the tunnels that may be used, every    *)
(* tunnel in it carried traffic within the last Window, and a client is    *)
(* granted a tunnel by one atomic look at that view.  The view may lose or *)
(* regain a tunnel at any time; time alone must take a dead tunnel out of  *)
(* it.  ProxyPath implements this specification.                           *)
(***************************************************************************)
EXTENDS Integers

CONSTANTS
  Tunnels,   \* the tunnels
  Clients,   \* who asks for one
  Nothing,   \* no tunnel is granted
  Window     \* how long a dead tunnel may stay in the view

VARIABLES
  now,       \* the clock
  alive,     \* alive[p]: the tunnel carries traffic
  diedAt,    \* diedAt[p]: when it last stopped doing so
  view,      \* the tunnels that may be used
  phase,     \* phase[c]: "idle", "asked" or "answered"
  granted    \* granted[c]: the tunnel the answer names, or Nothing

gateVars == <<now, alive, diedAt, view, phase, granted>>

Recent(p) == alive[p] \/ now - diedAt[p] <= Window

GateInit ==
  /\ now = 1
  /\ alive = [p \in Tunnels |-> FALSE]
  /\ diedAt = [p \in Tunnels |-> 0]
  /\ view = {}
  /\ phase = [c \in Clients |-> "idle"]
  /\ granted = [c \in Clients |-> Nothing]

(* A new view, of recently living tunnels only. *)
Look == view' \in SUBSET {p \in Tunnels : Recent(p)'}

Advance ==
  /\ now' = now + 1
  /\ Look
  /\ UNCHANGED <<alive, diedAt, phase, granted>>

Refresh ==
  /\ Look
  /\ UNCHANGED <<now, alive, diedAt, phase, granted>>

Rise(p) ==
  /\ ~alive[p]
  /\ alive' = [alive EXCEPT ![p] = TRUE]
  /\ UNCHANGED <<now, diedAt, view, phase, granted>>

Fall(p) ==
  /\ alive[p]
  /\ alive' = [alive EXCEPT ![p] = FALSE]
  /\ diedAt' = [diedAt EXCEPT ![p] = now]
  /\ UNCHANGED <<now, view, phase, granted>>

Ask(c) ==
  /\ phase[c] = "idle"
  /\ phase' = [phase EXCEPT ![c] = "asked"]
  /\ UNCHANGED <<now, alive, diedAt, view, granted>>

Grant(c) ==
  /\ phase[c] = "asked"
  /\ phase' = [phase EXCEPT ![c] = "answered"]
  /\ \E p \in view : granted' = [granted EXCEPT ![c] = p]
  /\ UNCHANGED <<now, alive, diedAt, view>>

(* A request may be refused for any reason, a meaningless one at once. *)
Deny(c) ==
  /\ phase[c] \in {"idle", "asked"}
  /\ phase' = [phase EXCEPT ![c] = "answered"]
  /\ UNCHANGED <<now, alive, diedAt, view, granted>>

(* The answer is written, or the client is gone. *)
Leave(c) ==
  /\ phase' = [phase EXCEPT ![c] = "idle"]
  /\ granted' = [granted EXCEPT ![c] = Nothing]
  /\ UNCHANGED <<now, alive, diedAt, view>>

GateNext ==
  \/ Advance \/ Refresh
  \/ \E p \in Tunnels : Rise(p) \/ Fall(p)
  \/ \E c \in Clients : Ask(c) \/ Grant(c) \/ Deny(c) \/ Leave(c)

GateSpec == GateInit /\ [][GateNext]_gateVars

==============================================================================
