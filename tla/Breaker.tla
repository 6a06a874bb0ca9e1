------------------------------- MODULE Breaker -------------------------------
(***************************************************************************)
(* The circuit breakers and the tier selection of internal/breaker: a      *)
(* registry of one gobreaker per tunnel, fed by concurrent Record calls,   *)
(* and SelectTunnel scanning a target's tiers while breakers and tunnels   *)
(* change.  No program of the repository calls the package yet; its users  *)
(* here are the ones its comments describe.                                *)
(*                                                                         *)
(* gobreaker numbers its generations to tell a late outcome from a current *)
(* one.  A number is only ever compared with the current one, so a call in *)
(* flight keeps instead whether its generation is still current.           *)
(***************************************************************************)
EXTENDS Naturals, Sequences

CONSTANTS
  Tunnels,
  Recorders,      \* goroutines recording probe outcomes
  Probes,         \* Probes[t]: the ones that probe t
  Selectors,      \* goroutines choosing a tunnel
  TierLists,      \* the tiers a target may have: sequences of [tunnel, tier]
  FailThreshold,  \* Options.FailThreshold
  Cooldown        \* Options.Cooldown, in ticks

NoTunnel == ""

ASSUME BreakerAssumption ==
  /\ FailThreshold \in Nat /\ Cooldown \in Nat
  /\ NoTunnel \notin Tunnels
  /\ Probes \in [Tunnels -> SUBSET Recorders]
  /\ TierLists \subseteq Seq([tunnel : Tunnels, tier : Nat])

DefaultFailThreshold == 3
DefaultCooldown == 2

VARIABLES
  breakers,   \* breakers[t]: t's breaker, made when first asked for
  up,         \* up[t]: the tunnel's health
  call,       \* call[r]: r's Record call in Execute, if there is one
  scan,       \* scan[s]: s's SelectTunnel call
  streak,     \* streak[t]: failures in a row, of calls made since t last closed
  kept,       \* kept[s]: tunnels eligible ever since s began
  met         \* met[s]: <<tunnels closed, tunnels up>> at some moment since

bVars == <<breakers, up, call, scan, streak, kept, met>>

failThreshold == IF FailThreshold = 0 THEN DefaultFailThreshold ELSE FailThreshold

(* Mutant: the dwell time is not passed on. *)
cooldown_Lost == 0

cooldown == IF Cooldown = 0 THEN DefaultCooldown ELSE Cooldown

MaxRequests == 1

------------------------------------------------------------------------------
(* gobreaker *)

NewBreaker == [state |-> "closed", failures |-> 0, probes |-> 0, age |-> 0]

Moved(state) == [NewBreaker EXCEPT !.state = state]

ReadyToTrip(b) == b.failures >= failThreshold

(* An open breaker half-opens when it is looked at after its timeout; its  *)
(* age goes on telling for how long it had been open.                      *)
currentState(b) ==
  IF b.state = "open" /\ b.age > cooldown THEN [Moved("half-open") EXCEPT !.age = b.age] ELSE b

(* Mutant: a half-open breaker lets everyone through. *)
Admits_All(b) == b.state # "open"

Admits(b) ==
  /\ b.state # "open"
  /\ b.state = "half-open" => b.probes < MaxRequests

onRequest(b) == IF b.state = "half-open" THEN [b EXCEPT !.probes = @ + 1] ELSE b

onSuccess(b) ==
  IF b.state = "half-open" THEN Moved("closed") ELSE [b EXCEPT !.failures = 0]

onFailure(b) ==
  LET f == [b EXCEPT !.failures = @ + 1]
  IN  IF b.state = "half-open" \/ ReadyToTrip(f) THEN Moved("open") ELSE f

------------------------------------------------------------------------------
Unseen == [NewBreaker EXCEPT !.state = "unseen"]

Breakers ==
  [state : {"unseen", "closed", "half-open", "open"}, failures : 0 .. failThreshold - 1,
   probes : 0 .. MaxRequests, age : 0 .. cooldown + 1]

(* Registry.get, under its mutex. *)
get(t) == IF breakers[t] = Unseen THEN NewBreaker ELSE breakers[t]

(* Mutant: a new breaker is not kept. *)
Keep_NotNew(t, b) ==
  breakers' = IF breakers[t] = Unseen THEN breakers ELSE [breakers EXCEPT ![t] = b]

Keep(t, b) == breakers' = [breakers EXCEPT ![t] = b]

Idle == [tunnel |-> NoTunnel, ok |-> FALSE, current |-> FALSE,
         cooled |-> FALSE, since |-> FALSE]

Reading == [index |-> 0, tiers |-> <<>>, closed |-> FALSE, found |-> FALSE,
            best |-> 0, chosen |-> NoTunnel]

BreakerTypeOK ==
  /\ breakers \in [Tunnels -> Breakers]
  /\ up \in [Tunnels -> BOOLEAN]
  /\ call \in [Recorders -> [tunnel : Tunnels \cup {NoTunnel}, ok : BOOLEAN,
                             current : BOOLEAN, cooled : BOOLEAN, since : BOOLEAN]]
  /\ \A s \in Selectors : /\ scan[s].tiers \in TierLists \cup {<<>>}
                          /\ scan[s].index \in 0 .. 2 * Len(scan[s].tiers) + 1
                          /\ scan[s].chosen \in Tunnels \cup {NoTunnel}
  /\ streak \in [Tunnels -> 0 .. failThreshold]

BreakerInit ==
  /\ breakers = [t \in Tunnels |-> Unseen]
  /\ up \in [Tunnels -> BOOLEAN]
  /\ call = [r \in Recorders |-> Idle]
  /\ scan = [s \in Selectors |-> Reading]
  /\ streak = [t \in Tunnels |-> 0]
  /\ kept = [s \in Selectors |-> {}]
  /\ met = [s \in Selectors |-> <<{}, {}>>]

(* t's breaker becomes b.  A change of state begins a generation: calls in *)
(* flight are outdated.                                                    *)
Closing(t, b) == b.state = "closed" /\ get(t).state # "closed"

Outdate(t, b) ==
  [r \in Recorders |->
     IF call[r].tunnel # t THEN call[r]
     ELSE [call[r] EXCEPT !.current = @ /\ b.state = get(t).state,
                          !.since = @ /\ ~Closing(t, b)]]

------------------------------------------------------------------------------
(* Record: Registry.get and Execute's beforeRequest.  A call that is not   *)
(* admitted ends here.                                                     *)
Before(r, t) ==
  LET b == currentState(get(t))
  IN  /\ r \in Probes[t] /\ call[r] = Idle
      /\ Keep(t, IF Admits(b) THEN onRequest(b) ELSE b)
      /\ call' = [Outdate(t, b) EXCEPT
                    ![r] = IF Admits(b)
                           THEN [tunnel |-> t, ok |-> up[t], current |-> TRUE,
                                 cooled |-> b.age > Cooldown, since |-> TRUE]
                           ELSE Idle]
      /\ UNCHANGED <<up, scan, streak>>

(* Mutant: Record leaves a breaker alone that is not closed. *)
Record_OnlyClosed(r, t) == get(t).state = "closed" /\ Before(r, t)

Record(r, t) == Before(r, t)

(* Execute's afterRequest, with the outcome of the probe. *)
After(r) ==
  LET c == call[r]
      b == currentState(get(c.tunnel))
      n == IF ~c.current THEN b ELSE IF c.ok THEN onSuccess(b) ELSE onFailure(b)
  IN  /\ c # Idle
      /\ Keep(c.tunnel, n)
      /\ call' = [Outdate(c.tunnel, n) EXCEPT ![r] = Idle]
      /\ streak' = [streak EXCEPT ![c.tunnel] =
                      IF Closing(c.tunnel, n) \/ c.ok THEN 0
                      ELSE IF c.since /\ @ < failThreshold THEN @ + 1 ELSE @]
      /\ UNCHANGED <<up, scan>>

Tick ==
  /\ \E t \in Tunnels : breakers[t].state = "open" /\ breakers[t].age <= cooldown
  /\ breakers' = [t \in Tunnels |->
                    IF breakers[t].state = "open" /\ breakers[t].age <= cooldown
                    THEN [breakers[t] EXCEPT !.age = @ + 1] ELSE breakers[t]]
  /\ UNCHANGED <<up, call, scan, streak>>

HealthChanges(t) ==
  /\ up' = [up EXCEPT ![t] = ~@]
  /\ UNCHANGED <<breakers, call, scan, streak>>

------------------------------------------------------------------------------
(* SelectTunnel.  The state closure reads the breaker, then the health, of *)
(* one tier after the other; odd indices are at the first reading.         *)
Tier(s) == scan[s].tiers[(scan[s].index + 1) \div 2]

Select(s) ==
  /\ scan[s].index = 0
  /\ \E tiers \in TierLists :
       scan' = [scan EXCEPT ![s] = [Reading EXCEPT !.index = 1, !.tiers = tiers]]
  /\ UNCHANGED <<breakers, up, call, streak>>

Scanning(s) == scan[s].index \in 1 .. 2 * Len(scan[s].tiers)

Closed(b) == b.state = "closed"

(* Registry.Closed *)
ReadBreaker(s) ==
  LET t == Tier(s).tunnel
      b == currentState(get(t))
  IN  /\ Scanning(s) /\ scan[s].index % 2 = 1
      /\ Keep(t, b)
      /\ call' = Outdate(t, b)
      /\ scan' = [scan EXCEPT ![s].index = @ + 1, ![s].closed = Closed(b)]
      /\ UNCHANGED <<up, streak>>

(* Mutant: the last eligible tier is taken. *)
Better_Last(c, tier) == TRUE

Better(c, tier) == ~c.found \/ tier < c.best

(* The health is read and the tier compared with the best so far. *)
ReadHealth(s) ==
  LET c == [scan[s] EXCEPT !.index = @ + 1]
  IN  /\ Scanning(s) /\ scan[s].index % 2 = 0
      /\ scan' = [scan EXCEPT ![s] =
                     IF c.closed /\ up[Tier(s).tunnel] /\ Better(c, Tier(s).tier)
                     THEN [c EXCEPT !.found = TRUE, !.best = Tier(s).tier,
                                    !.chosen = Tier(s).tunnel]
                     ELSE c]
      /\ UNCHANGED <<breakers, up, call, streak>>

Returned(s) == scan[s].index = 2 * Len(scan[s].tiers) + 1

(* The caller takes the answer. *)
Take(s) ==
  /\ Returned(s)
  /\ scan' = [scan EXCEPT ![s] = Reading]
  /\ UNCHANGED <<breakers, up, call, streak>>

------------------------------------------------------------------------------
Step ==
  \/ Tick
  \/ \E t \in Tunnels : HealthChanges(t)
  \/ \E r \in Recorders : After(r) \/ \E t \in Tunnels : Record(r, t)
  \/ \E s \in Selectors : Select(s) \/ ReadBreaker(s) \/ ReadHealth(s) \/ Take(s)

Live == {t \in Tunnels : get(t).state = "closed"}

Up == {t \in Tunnels : up[t]}

(* What the history of a scan remembers: it starts with the call and ends  *)
(* with its answer.                                                        *)
Watch ==
  /\ kept' = [s \in Selectors |->
                IF scan'[s].index = 0 THEN {}
                ELSE (IF scan[s].index = 0 THEN Tunnels ELSE kept[s]) \cap (Live \cap Up)']
  /\ met' = [s \in Selectors |->
               IF scan'[s].index = 0 THEN <<{}, {}>>
               ELSE <<met[s][1] \cup Live', met[s][2] \cup Up'>>]

BreakerNext == Step /\ Watch

BreakerSpec == BreakerInit /\ [][BreakerNext]_bVars

(* Time passes, and every tunnel goes on being probed. *)
FairBreaker ==
  /\ BreakerSpec
  /\ WF_bVars(Tick /\ Watch)
  /\ \A r \in Recorders : WF_bVars(After(r) /\ Watch)
  /\ \A t \in Tunnels : SF_bVars(\E r \in Recorders : Record(r, t) /\ Watch)

------------------------------------------------------------------------------
(* If t's breaker closes, a successful Record that began when its cooldown *)
(* was over ends with it, and no other such Record is under way.           *)
ClosesByProbe(t) ==
  t \notin Live /\ t \in Live' =>
    \E r \in Recorders : /\ call[r].tunnel = t /\ call[r].ok /\ call[r].cooled
                         /\ call'[r] = Idle
                         /\ \A q \in Recorders \ {r} : call[q].tunnel = t => ~call[q].cooled

(* "after a cooldown it half-opens to admit a single recovery probe, and a *)
(* successful probe CLOSES it" (tunnelbreaker.go:4-6): a breaker closes    *)
(* again only at the end of a successful Record that began when its        *)
(* cooldown was over, however many calls of earlier states end late.       *)
ClosesByFreshProbe == [][\A t \in Tunnels : ClosesByProbe(t)]_bVars

(* "Consecutive health-probe failures OPEN a tunnel's breaker": whoever    *)
(* recorded them, FailThreshold failures in a row that were all recorded   *)
(* since the breaker last closed leave it not closed.                      *)
TripsWhenDue ==
  \A t \in Tunnels : streak[t] = failThreshold => t \notin Live

(* On trial are the calls that began when t's cooldown was over. *)
OnTrial(t) == {r \in Recorders : call[r].tunnel = t /\ call[r].cooled}

(* t's breaker as its users may think of it. *)
CircuitOf(t) ==
  LET b == get(t)
  IN  [mode    |-> b.state,
       strikes |-> IF b.state = "closed" THEN b.failures ELSE 0,
       rested  |-> b.state = "open" /\ b.age > cooldown,
       trial   |-> {<<r, call[r].ok>> : r \in OnTrial(t)}]

Circuits == [t \in Tunnels |-> CircuitOf(t)]

Circuit == INSTANCE CircuitBreaker
             WITH Callers <- Recorders, Threshold <- failThreshold, circuit <- Circuits

(* The package comment (tunnelbreaker.go:4-6) as a specification: under    *)
(* any number of concurrent Records, outcomes that come late included,     *)
(* every breaker opens from closed exactly at the FailThreshold-th failure *)
(* counted in a row, half-opens only after its cooldown, lets one probe    *)
(* through then, and leaves half-open by that probe's outcome and by       *)
(* nothing else.                                                           *)
ImplementsCircuit == Circuit!CircuitSpec

(* "It returns the LOWEST-tier tunnel whose breaker is CLOSED and whose    *)
(* health is UP ... If NO tunnel qualifies ... it returns "" (selection.go *)
(* :14-17), for states that change during the scan: the answer was closed, *)
(* and up, at some moment of it, and no tunnel eligible all along was of a *)
(* lower tier or passed over.                                              *)
SelectionJustified ==
  \A s \in Selectors : Returned(s) =>
    LET c == scan[s]
        Tiers(t) == {c.tiers[i].tier : i \in {j \in 1 .. Len(c.tiers) : c.tiers[j].tunnel = t}}
    IN  /\ c.chosen # NoTunnel =>
             c.chosen \in met[s][1] \cap met[s][2] /\ c.best \in Tiers(c.chosen)
        /\ \A t \in kept[s] : \A n \in Tiers(t) : c.found /\ c.best <= n

(* A tunnel that stays up is selectable again in the end: a breaker never  *)
(* stays open, or half-open behind a probe that does not count.            *)
ClosesAfterRecovery ==
  \A t \in Tunnels : <>[](t \in Up) => <>[](t \in Live)

==============================================================================
