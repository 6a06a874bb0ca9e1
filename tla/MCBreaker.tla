------------------------------ MODULE MCBreaker ------------------------------
(* Breakers under concurrent calls, and selection among changing tunnels. *)
EXTENDS Breaker

CONSTANTS t1, t2, r1, r2

T(tunnel, tier) == [tunnel |-> tunnel, tier |-> tier]

(* No tiers, in order, out of order, a tie, and a tunnel listed twice. *)
SomeTiers ==
  {<<>>, <<T(t1, 1), T(t2, 2)>>, <<T(t1, 2), T(t2, 1)>>, <<T(t1, 1), T(t2, 1)>>,
   <<T(t1, 3), T(t2, 2), T(t1, 1)>>}

(* Two probes of one tunnel; the other one's breaker is never asked to     *)
(* record.                                                                 *)
BothProbe == [t \in Tunnels |-> IF t = t1 THEN {r1, r2} ELSE {}]

==============================================================================
