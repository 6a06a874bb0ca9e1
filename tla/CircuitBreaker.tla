--------------------------- MODULE CircuitBreaker ---------------------------
(***************************************************************************)
(* What a tunnel's breaker promises, whoever calls it and however late:    *)
(* consecutive failures open it, after a rest it half-opens for one trial, *)
(* and the trial's verdict alone closes it or opens it again.              *)
(***************************************************************************)
EXTENDS Naturals

CONSTANTS
  Tunnels,
  Callers,    \* whoever may be on trial
  Threshold   \* the failures in a row that open a breaker

VARIABLE
  circuit   \* circuit[t]: mode, failures in a row, whether it has rested, its trial

State(mode, strikes, rested, trial) ==
  [mode |-> mode, strikes |-> strikes, rested |-> rested, trial |-> trial]

InMode(mode) == State(mode, 0, FALSE, {})

CircuitInit == circuit = [t \in Tunnels |-> InMode("closed")]

Becomes(t, c) == circuit' = [circuit EXCEPT ![t] = c]

------------------------------------------------------------------------------
(* Of a closed breaker. *)
Strike(t) ==
  /\ circuit[t].mode = "closed" /\ circuit[t].strikes + 1 < Threshold
  /\ Becomes(t, State("closed", circuit[t].strikes + 1, FALSE, {}))

Clear(t) ==
  /\ circuit[t].mode = "closed"
  /\ Becomes(t, InMode("closed"))

Trip(t) ==
  /\ circuit[t].mode = "closed" /\ circuit[t].strikes + 1 = Threshold
  /\ Becomes(t, InMode("open"))

(* Of an open one: any number of them have rested long enough. *)
Rest ==
  \E S \in SUBSET {t \in Tunnels : circuit[t].mode = "open"} :
    circuit' = [t \in Tunnels |->
                  IF t \in S THEN State("open", 0, TRUE, {}) ELSE circuit[t]]

Rested(t) == circuit[t].mode = "open" /\ circuit[t].rested

HalfOpen(t) ==
  /\ Rested(t)
  /\ Becomes(t, InMode("half-open"))

(* r is let through; its outcome will be ok. *)
Try(t, r, ok) ==
  /\ Rested(t) \/ circuit[t] = InMode("half-open")
  /\ Becomes(t, State("half-open", 0, FALSE, {<<r, ok>>}))

(* The verdict of the one trial. *)
Verdict(t, r, ok) ==
  /\ circuit[t].mode = "half-open" /\ circuit[t].trial = {<<r, ok>>}
  /\ Becomes(t, InMode(IF ok THEN "closed" ELSE "open"))

------------------------------------------------------------------------------
CircuitNext ==
  \/ Rest
  \/ \E t \in Tunnels :
       \/ Strike(t) \/ Clear(t) \/ Trip(t) \/ HalfOpen(t)
       \/ \E r \in Callers, ok \in BOOLEAN : Try(t, r, ok) \/ Verdict(t, r, ok)

CircuitSpec == CircuitInit /\ [][CircuitNext]_circuit

==============================================================================
