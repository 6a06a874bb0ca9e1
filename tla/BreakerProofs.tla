---------------------------- MODULE BreakerProofs ----------------------------
(***************************************************************************)
(* The breakers trip when due, close again only by a fresh probe, and      *)
(* SelectTunnel's answer is justified, for every number of tunnels,        *)
(* recorders and selectors, every threshold and every cooldown.            *)
(***************************************************************************)
EXTENDS Breaker, SequenceTheorems, TLAPS

Calls == [tunnel : Tunnels \cup {NoTunnel}, ok : BOOLEAN, current : BOOLEAN,
          cooled : BOOLEAN, since : BOOLEAN]

Scans == [index : Nat, tiers : TierLists \cup {<<>>}, closed : BOOLEAN, found : BOOLEAN,
          best : Nat, chosen : Tunnels \cup {NoTunnel}]

(* The types of the state the code has. *)
Typed ==
  /\ breakers \in [Tunnels -> Breakers]
  /\ up \in [Tunnels -> BOOLEAN]
  /\ call \in [Recorders -> Calls]
  /\ streak \in [Tunnels -> 0 .. failThreshold]

(* A breaker's age counts its time open; a half-open one has waited long   *)
(* enough, and a closed one has seen every failure of the streak.          *)
AgeInv ==
  \A t \in Tunnels :
    /\ breakers[t].state = "unseen" => breakers[t] = Unseen
    /\ breakers[t].state = "half-open" => breakers[t].age > cooldown
    /\ get(t).state = "closed" => breakers[t].age = 0 /\ streak[t] <= get(t).failures

(* What a call in flight still counts for, by the state of its breaker. *)
Counts(c, b) ==
  /\ c.current => c.since
  /\ b.state = "closed" => (c.since => c.current) /\ ~c.cooled
  /\ b.state = "open" => ~c.current /\ ~c.cooled
  /\ b.state = "half-open" => (c.current <=> c.cooled) /\ (c.cooled => b.probes = 1)

CallInv ==
  \A r \in Recorders :
    /\ call[r].tunnel \in Tunnels \/ call[r] = Idle
    /\ \A t \in Tunnels : call[r].tunnel = t => Counts(call[r], get(t))

(* A half-open breaker has one probe. *)
OneProbe ==
  \A q, r \in Recorders :
    q # r /\ call[q].tunnel = call[r].tunnel => ~(call[q].cooled /\ call[r].cooled)

BInv == Typed /\ AgeInv /\ CallInv /\ OneProbe

(* Of a scan c, what may be counted on during it, and what was met: c has  *)
(* an answer only from its tiers, met closed and up;                       *)
Sourced(c, m) ==
  /\ c.chosen # NoTunnel => c.found
  /\ c.found => /\ c.chosen \in m[1] \cap m[2]
                /\ \E j \in 1 .. Len(c.tiers) : c.tiers[j] = [tunnel |-> c.chosen, tier |-> c.best]

(* no tier it is past beats the answer, if its tunnel is in k;             *)
Covers(c, k) ==
  \A j \in 1 .. Len(c.tiers) :
    2 * j < c.index /\ c.tiers[j].tunnel \in k => c.found /\ c.best <= c.tiers[j].tier

(* and between the two readings of a tier it knows of the first.           *)
HalfRead(c, k, m) ==
  \A j \in 1 .. Len(c.tiers) : c.index = 2 * j =>
    /\ c.closed => c.tiers[j].tunnel \in m[1]
    /\ c.tiers[j].tunnel \in k => c.closed

ScanTyped(c) ==
  /\ c \in Scans /\ c.index <= 2 * Len(c.tiers) + 1
  /\ c.index = 0 => c = Reading

ScanInv(s) ==
  /\ ScanTyped(scan[s])
  /\ Sourced(scan[s], met[s])
  /\ Covers(scan[s], kept[s])
  /\ HalfRead(scan[s], kept[s], met[s])

SelectInv ==
  /\ DOMAIN scan = Selectors /\ DOMAIN kept = Selectors /\ DOMAIN met = Selectors
  /\ \A s \in Selectors : ScanInv(s) /\ kept[s] \subseteq Live \cap Up

------------------------------------------------------------------------------
(* NewBreaker's defaults: both options are positive, whatever was passed. *)
LEMMA OptionsPositive ==
  /\ failThreshold \in Nat /\ failThreshold >= 1
  /\ cooldown \in Nat /\ cooldown >= 1 /\ cooldown >= Cooldown
BY BreakerAssumption DEF failThreshold, cooldown, DefaultFailThreshold, DefaultCooldown

(* Constant breakers. *)
LEMMA Fresh ==
  /\ NewBreaker \in Breakers /\ Unseen \in Breakers
  /\ NewBreaker.state = "closed" /\ NewBreaker.failures = 0 /\ NewBreaker.age = 0
  /\ Unseen.state = "unseen" /\ Unseen.age = 0
  /\ \A x \in {"closed", "half-open", "open"} :
       /\ Moved(x) \in Breakers /\ Moved(x).state = x
       /\ Moved(x).failures = 0 /\ Moved(x).probes = 0 /\ Moved(x).age = 0
BY OptionsPositive DEF NewBreaker, Unseen, Moved, Breakers, MaxRequests

(* Registry.get returns a breaker. *)
LEMMA GetTyped ==
  ASSUME Typed, AgeInv, NEW t \in Tunnels
  PROVE  /\ get(t) \in Breakers /\ get(t).state \in {"closed", "half-open", "open"}
         /\ get(t) = breakers[t] \/ (get(t) = NewBreaker /\ breakers[t] = Unseen)
         /\ get(t).state = "half-open" => get(t).age > cooldown
         /\ get(t).state = "closed" => get(t).age = 0
<1>1. CASE breakers[t] = Unseen
  BY <1>1, Fresh DEF get
<1>2. CASE breakers[t] # Unseen
  <2>1. get(t) = breakers[t] /\ breakers[t] \in Breakers /\ breakers[t].state # "unseen"
    BY <1>2 DEF get, Typed, AgeInv
  <2>2. QED
    BY <2>1 DEF AgeInv, Breakers
<1>3. QED
  BY <1>1, <1>2

(* currentState changes a breaker only from open to half-open. *)
LEMMA LookedAt ==
  ASSUME NEW b \in Breakers, b.state \in {"closed", "half-open", "open"}
  PROVE  LET n == currentState(b)
         IN  /\ n \in Breakers /\ n.state \in {"closed", "half-open", "open"}
             /\ \/ n = b /\ (b.state = "open" => b.age <= cooldown)
                \/ /\ b.state = "open" /\ n.state = "half-open" /\ n.probes = 0
                   /\ b.age > cooldown /\ n.age = b.age
<1>1. CASE b.state = "open" /\ b.age > cooldown
  <2>1. currentState(b) = [state |-> "half-open", failures |-> 0, probes |-> 0, age |-> b.age]
    BY <1>1 DEF currentState, Moved, NewBreaker
  <2>2. QED
    BY <1>1, <2>1, OptionsPositive DEF Breakers, MaxRequests
<1>2. CASE ~(b.state = "open" /\ b.age > cooldown)
  BY <1>2, OptionsPositive DEF currentState, Breakers
<1>3. QED
  BY <1>1, <1>2

(* The registry after one breaker was replaced. *)
LEMMA GetAfter ==
  ASSUME Typed, NEW t \in Tunnels, NEW n \in Breakers, n.state # "unseen", Keep(t, n)
  PROVE  /\ breakers' \in [Tunnels -> Breakers] /\ breakers'[t] = n /\ get(t)' = n
         /\ \A u \in Tunnels \ {t} : breakers'[u] = breakers[u] /\ get(u)' = get(u)
<1>1. /\ breakers' \in [Tunnels -> Breakers] /\ breakers'[t] = n
      /\ \A u \in Tunnels \ {t} : breakers'[u] = breakers[u]
  BY DEF Keep, Typed
<1>2. n # Unseen
  BY Fresh
<1>3. QED
  BY <1>1, <1>2 DEF get

(* A step that replaces one breaker keeps the invariant, if it does for    *)
(* that breaker and the calls on it.                                       *)
LEMMA Replace ==
  ASSUME BInv, NEW t \in Tunnels, NEW n \in Breakers,
         n.state \in {"closed", "half-open", "open"}, Keep(t, n),
         up' \in [Tunnels -> BOOLEAN], call' \in [Recorders -> Calls],
         streak' \in [Tunnels -> 0 .. failThreshold],
         \A u \in Tunnels \ {t} : streak'[u] = streak[u],
         n.state = "half-open" => n.age > cooldown,
         n.state = "closed" => n.age = 0 /\ streak'[t] <= n.failures,
         \A r \in Recorders : call'[r].tunnel # t => call'[r] = Idle \/ call'[r] = call[r],
         \A r \in Recorders : call'[r].tunnel = t => Counts(call'[r], n),
         \A q, r \in Recorders :
           q # r /\ call'[q].tunnel = t /\ call'[r].tunnel = t => ~(call'[q].cooled /\ call'[r].cooled)
  PROVE  BInv'
<1>1. /\ breakers' \in [Tunnels -> Breakers] /\ breakers'[t] = n
      /\ \A u \in Tunnels \ {t} : breakers'[u] = breakers[u]
  BY GetAfter DEF BInv
<1>2. Typed'
  BY <1>1 DEF Typed
<1>3. get(t)' = n /\ \A u \in Tunnels \ {t} : get(u)' = get(u)
  BY GetAfter DEF BInv
<1>4. AgeInv'
  BY <1>1, <1>3 DEF BInv, AgeInv
<1>5. CallInv'
  <2> SUFFICES ASSUME NEW r \in Recorders
               PROVE  /\ call'[r].tunnel \in Tunnels \/ call'[r] = Idle
                      /\ \A u \in Tunnels : call'[r].tunnel = u => Counts(call'[r], get(u)')
    BY DEF CallInv, Counts, Idle
  <2>1. CASE call'[r].tunnel = t
    BY <1>3, <2>1
  <2>2. CASE call'[r].tunnel # t
    BY <1>3, <2>2, BreakerAssumption DEF BInv, CallInv, Idle
  <2>3. QED
    BY <2>1, <2>2
<1>6. OneProbe'
  <2> SUFFICES ASSUME NEW q \in Recorders, NEW r \in Recorders, q # r,
                      call'[q].tunnel = call'[r].tunnel, call'[q].tunnel # t
               PROVE  ~(call'[q].cooled /\ call'[r].cooled)
    BY DEF OneProbe
  <2>1. Idle.cooled = FALSE
    BY DEF Idle
  <2>2. QED
    BY <2>1 DEF BInv, OneProbe
<1>7. QED
  BY <1>2, <1>4, <1>5, <1>6 DEF BInv

(* What becomes of the calls in flight when t's breaker becomes n. *)
LEMMA Outdated ==
  ASSUME Typed, NEW t \in Tunnels, NEW n
  PROVE  /\ Outdate(t, n) \in [Recorders -> Calls]
         /\ \A r \in Recorders :
              LET o == Outdate(t, n)[r]
                  c == call[r]
              IN  /\ o.tunnel = c.tunnel /\ o.cooled = c.cooled
                  /\ c.tunnel # t => o = c
                  /\ c.tunnel = t => /\ o.current <=> c.current /\ n.state = get(t).state
                                     /\ o.since <=> c.since /\ ~Closing(t, n)
<1> SUFFICES ASSUME NEW r \in Recorders
             PROVE  LET o == Outdate(t, n)[r]
                        c == call[r]
                    IN  /\ o \in Calls
                        /\ o.tunnel = c.tunnel /\ o.cooled = c.cooled
                        /\ c.tunnel # t => o = c
                        /\ c.tunnel = t => /\ o.current <=> c.current /\ n.state = get(t).state
                                           /\ o.since <=> c.since /\ ~Closing(t, n)
  BY DEF Outdate
<1>1. call[r] \in Calls
  BY DEF Typed
<1>2. CASE call[r].tunnel # t
  BY <1>1, <1>2 DEF Outdate
<1>3. CASE call[r].tunnel = t
  <2> DEFINE same == n.state = get(t).state
             kept1 == ~Closing(t, n)
  <2>1. same \in BOOLEAN /\ kept1 \in BOOLEAN
    OBVIOUS
  <2>2. Outdate(t, n)[r] = [call[r] EXCEPT !.current = @ /\ same, !.since = @ /\ kept1]
    BY <1>3 DEF Outdate
  <2> HIDE DEF same, kept1
  <2>3. /\ Outdate(t, n)[r] \in Calls
        /\ Outdate(t, n)[r].tunnel = call[r].tunnel /\ Outdate(t, n)[r].cooled = call[r].cooled
        /\ Outdate(t, n)[r].current = (call[r].current /\ same)
        /\ Outdate(t, n)[r].since = (call[r].since /\ kept1)
    BY <1>1, <2>1, <2>2 DEF Calls
  <2>4. QED
    BY <1>3, <2>3 DEF same, kept1
<1>4. QED
  BY <1>2, <1>3

(* Looking at a breaker keeps the invariant: when it half-opens, calls of  *)
(* before count no more (Registry.Closed, ReadBreaker).                    *)
LEMMA LookStep ==
  ASSUME BInv, NEW t \in Tunnels, Keep(t, currentState(get(t))),
         call' = Outdate(t, currentState(get(t))), UNCHANGED <<up, streak>>
  PROVE  BInv'
<1> DEFINE b == currentState(get(t))
<1>1. Typed /\ AgeInv /\ CallInv /\ OneProbe
  BY DEF BInv
<1>2. /\ b \in Breakers /\ b.state \in {"closed", "half-open", "open"}
      /\ \/ b = get(t)
         \/ get(t).state = "open" /\ b.state = "half-open" /\ b.age > cooldown
  BY <1>1, GetTyped, LookedAt
<1>3. /\ b.state = "half-open" => b.age > cooldown
      /\ b.state = "closed" => b.age = 0 /\ streak[t] <= b.failures
  BY <1>1, <1>2, GetTyped DEF AgeInv
<1>4. ~Closing(t, b)
  BY <1>2 DEF Closing
<1>5. /\ call' \in [Recorders -> Calls]
      /\ \A r \in Recorders :
           /\ call'[r].tunnel = call[r].tunnel /\ call'[r].cooled = call[r].cooled
           /\ call[r].tunnel # t => call'[r] = call[r]
           /\ call[r].tunnel = t => /\ call'[r].current <=> call[r].current /\ b.state = get(t).state
                                    /\ call'[r].since <=> call[r].since
  <2> HIDE DEF b
  <2>1. /\ Outdate(t, b) \in [Recorders -> Calls]
        /\ \A r \in Recorders :
             LET o == Outdate(t, b)[r]
             IN  /\ o.tunnel = call[r].tunnel /\ o.cooled = call[r].cooled
                 /\ call[r].tunnel # t => o = call[r]
                 /\ call[r].tunnel = t => /\ o.current <=> call[r].current /\ b.state = get(t).state
                                          /\ o.since <=> call[r].since /\ ~Closing(t, b)
    BY <1>1, Outdated
  <2>2. QED
    BY <1>4, <2>1 DEF b
<1>6. \A r \in Recorders : call'[r].tunnel = t => Counts(call'[r], b)
  <2> TAKE r \in Recorders
  <2> HAVE call'[r].tunnel = t
  <2>1. Counts(call[r], get(t))
    BY <1>1, <1>5 DEF CallInv
  <2>2. QED
    BY <1>2, <1>5, <2>1 DEF Counts
<1>7. up' \in [Tunnels -> BOOLEAN] /\ streak' \in [Tunnels -> 0 .. failThreshold]
  BY <1>1 DEF Typed
<1>8. \A q, r \in Recorders :
        q # r /\ call'[q].tunnel = t /\ call'[r].tunnel = t => ~(call'[q].cooled /\ call'[r].cooled)
  BY <1>1, <1>5 DEF OneProbe
<1>9. QED
  BY <1>2, <1>3, <1>5, <1>6, <1>7, <1>8, Replace

(* Record admits a call, or turns it away. *)
LEMMA BeforeStep ==
  ASSUME BInv, NEW r \in Recorders, NEW t \in Tunnels, Before(r, t)
  PROVE  BInv'
<1> DEFINE b == currentState(get(t))
           n == onRequest(b)
           new == [tunnel |-> t, ok |-> up[t], current |-> TRUE,
                   cooled |-> b.age > Cooldown, since |-> TRUE]
<1>1. Typed /\ AgeInv /\ CallInv /\ OneProbe
  BY DEF BInv
<1>2. UNCHANGED <<up, streak>> /\ call[r] = Idle
  BY DEF Before
<1>3. /\ b \in Breakers /\ b.state \in {"closed", "half-open", "open"}
      /\ \/ b = get(t) /\ (b.state = "open" => b.age <= cooldown)
         \/ get(t).state = "open" /\ b.state = "half-open" /\ b.age > cooldown /\ b.probes = 0
  BY <1>1, GetTyped, LookedAt
<1>4. /\ b.state = "half-open" => b.age > cooldown
      /\ b.state = "closed" => b.age = 0 /\ streak[t] <= b.failures
  BY <1>1, <1>3, GetTyped DEF AgeInv
<1>5. ~Closing(t, b)
  BY <1>3 DEF Closing
<1>6. /\ Outdate(t, b) \in [Recorders -> Calls]
      /\ \A q \in Recorders :
           LET o == Outdate(t, b)[q]
           IN  /\ o.tunnel = call[q].tunnel /\ o.cooled = call[q].cooled
               /\ call[q].tunnel # t => o = call[q]
               /\ call[q].tunnel = t => /\ o.current <=> call[q].current /\ b.state = get(t).state
                                        /\ o.since <=> call[q].since
  <2> HIDE DEF b
  <2>1. /\ Outdate(t, b) \in [Recorders -> Calls]
        /\ \A q \in Recorders :
             LET o == Outdate(t, b)[q]
             IN  /\ o.tunnel = call[q].tunnel /\ o.cooled = call[q].cooled
                 /\ call[q].tunnel # t => o = call[q]
                 /\ call[q].tunnel = t => /\ o.current <=> call[q].current /\ b.state = get(t).state
                                          /\ o.since <=> call[q].since /\ ~Closing(t, b)
    BY <1>1, Outdated
  <2>2. QED
    BY <1>5, <2>1
<1>7. CASE ~Admits(b)
  <2>1. Idle.tunnel # t
    BY BreakerAssumption DEF Idle
  <2>2. call' = Outdate(t, b)
    BY <1>2, <1>6, <1>7, <2>1 DEF Before
  <2>3. Keep(t, b)
    BY <1>7 DEF Before
  <2>4. QED
    BY <1>2, <2>2, <2>3, LookStep
<1>8. CASE Admits(b)
  <2>1. Keep(t, n) /\ call' = [Outdate(t, b) EXCEPT ![r] = new]
    BY <1>8 DEF Before
  <2>2. /\ b.state \in {"closed", "half-open"} /\ (b.state = "half-open" => b.probes = 0)
        /\ n \in Breakers /\ n.state = b.state /\ n.age = b.age /\ n.failures = b.failures
        /\ n.state = "half-open" => n.probes = 1
    BY <1>3, <1>8 DEF Admits, onRequest, Breakers, MaxRequests
  <2>3. new \in Calls /\ new.tunnel = t /\ new.current /\ new.since /\ (new.cooled <=> b.age > Cooldown)
    <3> DEFINE cooled == b.age > Cooldown
    <3>1. cooled \in BOOLEAN /\ up[t] \in BOOLEAN
      BY <1>1 DEF Typed
    <3> HIDE DEF cooled
    <3>2. [tunnel |-> t, ok |-> up[t], current |-> TRUE, cooled |-> cooled, since |-> TRUE] \in Calls
      BY <3>1 DEF Calls
    <3>3. QED
      BY <3>2 DEF cooled
  <2>4. new.cooled <=> n.state = "half-open"
    BY <1>3, <1>4, <2>2, <2>3, OptionsPositive, BreakerAssumption DEF Breakers
  <2> HIDE DEF b, n, new
  <2>5. /\ call' \in [Recorders -> Calls] /\ call'[r] = new
        /\ \A q \in Recorders \ {r} : call'[q] = Outdate(t, b)[q]
    BY <1>6, <2>1, <2>3
  <2>6. \A q \in Recorders : call'[q].tunnel = t => Counts(call'[q], n)
    <3> TAKE q \in Recorders
    <3> HAVE call'[q].tunnel = t
    <3>1. CASE q = r
      BY <2>2, <2>3, <2>4, <2>5, <3>1 DEF Counts
    <3>2. CASE q # r
      <4>1. Counts(call[q], get(t))
        BY <1>1, <1>6, <2>5, <3>2 DEF CallInv
      <4>2. QED
        BY <1>3, <1>6, <2>2, <2>5, <3>2, <4>1 DEF Counts
    <3>3. QED
      BY <3>1, <3>2
  <2>7. \A q, p \in Recorders :
          q # p /\ call'[q].tunnel = t /\ call'[p].tunnel = t => ~(call'[q].cooled /\ call'[p].cooled)
    <3>1. \A q \in Recorders \ {r} : call[q].tunnel = t => Counts(call[q], get(t))
      BY <1>1 DEF CallInv
    <3>2. \A q \in Recorders \ {r} : call'[q].tunnel = t => ~call'[q].cooled
      BY <1>3, <1>6, <2>2, <2>5, <3>1 DEF Counts
    <3>3. QED
      BY <3>2
  <2>8. \A q \in Recorders : call'[q].tunnel # t => call'[q] = call[q]
    BY <1>6, <2>3, <2>5
  <2>9. up' \in [Tunnels -> BOOLEAN] /\ streak' \in [Tunnels -> 0 .. failThreshold]
    BY <1>1, <1>2 DEF Typed
  <2>10. QED
    BY <1>2, <1>4, <2>1, <2>2, <2>5, <2>6, <2>7, <2>8, <2>9, Replace
<1>9. QED
  BY <1>7, <1>8

(* The breaker after an outcome that counts. *)
Outcome(b, ok) == IF ok THEN onSuccess(b) ELSE onFailure(b)

LEMMA CountedOutcome ==
  ASSUME NEW b \in Breakers, b.state \in {"closed", "half-open"},
         b.state = "closed" => b.age = 0, NEW ok \in BOOLEAN, NEW n, n = Outcome(b, ok)
  PROVE  /\ n \in Breakers /\ n.state \in {"closed", "open"}
         /\ n.age = 0
         /\ b.state = "half-open" => (n.state = "closed" <=> ok)
         /\ b.state = "closed" /\ n.state = "closed" =>
              n.failures = (IF ok THEN 0 ELSE b.failures + 1) /\ n.failures < failThreshold
         /\ b.state = "closed" /\ n.state = "open" => ~ok /\ b.failures + 1 = failThreshold
<1> USE DEF Outcome
<1>1. CASE b.state = "half-open"
  BY <1>1, Fresh DEF onSuccess, onFailure
<1>2. CASE b.state = "closed" /\ ok
  BY <1>2, OptionsPositive DEF onSuccess, Breakers
<1>3. CASE b.state = "closed" /\ ~ok
  <2> DEFINE f == [b EXCEPT !.failures = @ + 1]
  <2>1. f.failures = b.failures + 1 /\ f.state = "closed" /\ f.age = 0
    BY <1>3 DEF Breakers
  <2>2. onFailure(b) = IF ReadyToTrip(f) THEN Moved("open") ELSE f
    BY <1>3 DEF onFailure
  <2>3. CASE ReadyToTrip(f)
    <3>1. b.failures + 1 = failThreshold
      BY <2>1, <2>3, OptionsPositive DEF ReadyToTrip, Breakers
    <3>2. QED
      BY <1>3, <2>2, <2>3, <3>1, Fresh
  <2>4. CASE ~ReadyToTrip(f)
    <3>1. f.failures < failThreshold
      BY <2>1, <2>4, OptionsPositive DEF ReadyToTrip, Breakers
    <3>2. f \in Breakers
      BY <2>1, <3>1, OptionsPositive DEF Breakers
    <3>3. QED
      BY <1>3, <2>1, <2>2, <2>4, <3>1, <3>2
  <2>5. QED
    BY <2>3, <2>4
<1>4. QED
  BY <1>1, <1>2, <1>3

(* The outcome of a call is recorded. *)
LEMMA AfterStep ==
  ASSUME BInv, NEW r \in Recorders, After(r)
  PROVE  BInv'
<1> DEFINE c == call[r]
           t == c.tunnel
           g == get(t)
           b == currentState(g)
           n == IF ~c.current THEN b ELSE IF c.ok THEN onSuccess(b) ELSE onFailure(b)
<1>1. Typed /\ AgeInv /\ CallInv /\ OneProbe
  BY DEF BInv
<1>2. /\ c # Idle /\ Keep(t, n) /\ call' = [Outdate(t, n) EXCEPT ![r] = Idle]
      /\ streak' = [streak EXCEPT ![t] =
                      IF Closing(t, n) \/ c.ok THEN 0
                      ELSE IF c.since /\ @ < failThreshold THEN @ + 1 ELSE @]
      /\ up' = up
  BY DEF After
<1>3. c \in Calls /\ t \in Tunnels /\ Counts(c, g)
  BY <1>1, <1>2 DEF Typed, CallInv
<1>4. /\ g \in Breakers /\ g.state \in {"closed", "half-open", "open"}
      /\ b \in Breakers /\ b.state \in {"closed", "half-open", "open"}
      /\ \/ b = g
         \/ g.state = "open" /\ b.state = "half-open" /\ b.age > cooldown
      /\ g.state = "half-open" => g.age > cooldown
      /\ g.state = "closed" => g.age = 0 /\ streak[t] <= g.failures
  BY <1>1, <1>3, GetTyped, LookedAt DEF AgeInv
<1>5. c.ok \in BOOLEAN /\ c.current \in BOOLEAN /\ c.since \in BOOLEAN
  BY <1>3 DEF Calls
<1>6. c.current => b = g /\ g.state \in {"closed", "half-open"}
  BY <1>3, <1>4 DEF Counts
<1>7. (~c.current => n = b) /\ (c.current => n = Outcome(b, c.ok))
  BY <1>5 DEF Outcome
<1> HIDE DEF n, b, g, t, c
<1>8. /\ n \in Breakers /\ n.state \in {"closed", "half-open", "open"}
      /\ n.state = "half-open" => n.age > cooldown /\ ~c.current
      /\ n.state = "closed" => n.age = 0
      /\ c.current /\ g.state = "closed" /\ n.state = "closed" =>
           n.failures = IF c.ok THEN 0 ELSE g.failures + 1
  <2>1. CASE c.current
    <3>1. /\ b = g /\ g.state \in {"closed", "half-open"} /\ n = Outcome(g, c.ok)
          /\ g.state = "closed" => g.age = 0
      BY <1>4, <1>6, <1>7, <2>1
    <3>2. QED
      BY <1>4, <1>5, <2>1, <3>1, CountedOutcome
  <2>2. CASE ~c.current
    BY <1>4, <1>7, <2>2
  <2>3. QED
    BY <2>1, <2>2
<1>9. Closing(t, n) <=> n.state = "closed" /\ g.state # "closed"
  BY DEF Closing, g
<1>10. /\ streak' \in [Tunnels -> 0 .. failThreshold]
       /\ \A u \in Tunnels \ {t} : streak'[u] = streak[u]
       /\ n.state = "closed" => streak'[t] <= n.failures
  <2>1. streak \in [Tunnels -> 0 .. failThreshold] /\ streak[t] \in 0 .. failThreshold
    BY <1>1, <1>3 DEF Typed
  <2>2. n.failures \in Nat
    BY <1>8, OptionsPositive DEF Breakers
  <2>3. /\ streak' \in [Tunnels -> 0 .. failThreshold]
        /\ \A u \in Tunnels \ {t} : streak'[u] = streak[u]
        /\ streak'[t] = IF Closing(t, n) \/ c.ok THEN 0
                        ELSE IF c.since /\ streak[t] < failThreshold THEN streak[t] + 1 ELSE streak[t]
    BY <1>2, <1>3, <2>1, OptionsPositive
  <2>4. ASSUME n.state = "closed", ~Closing(t, n), ~c.ok
        PROVE  streak'[t] <= n.failures
    <3>1. g.state = "closed" /\ streak[t] <= g.failures
      BY <1>4, <1>9, <2>4
    <3>2. CASE c.current
      BY <1>8, <2>1, <2>3, <2>4, <3>1, <3>2, <1>4, OptionsPositive DEF Breakers
    <3>3. CASE ~c.current
      <4>1. ~c.since /\ n = g
        BY <1>3, <1>4, <1>7, <3>1, <3>3 DEF Counts
      <4>2. QED
        BY <2>3, <2>4, <3>1, <4>1
    <3>4. QED
      BY <3>2, <3>3
  <2>5. QED
    BY <2>2, <2>3, <2>4
<1>11. /\ Outdate(t, n) \in [Recorders -> Calls]
       /\ \A q \in Recorders :
            LET o == Outdate(t, n)[q]
            IN  /\ o.tunnel = call[q].tunnel /\ o.cooled = call[q].cooled
                /\ call[q].tunnel # t => o = call[q]
                /\ call[q].tunnel = t => /\ o.current <=> call[q].current /\ n.state = get(t).state
                                         /\ o.since <=> call[q].since /\ ~Closing(t, n)
  BY <1>1, <1>3, Outdated
<1>12. Idle \in Calls /\ Idle.tunnel # t
  BY <1>3, BreakerAssumption DEF Idle, Calls
<1>13. /\ call' \in [Recorders -> Calls] /\ call'[r] = Idle
       /\ \A q \in Recorders \ {r} : call'[q] = Outdate(t, n)[q]
  BY <1>2, <1>11, <1>12
<1>14. \A q \in Recorders : call'[q].tunnel # t => call'[q] = Idle \/ call'[q] = call[q]
  BY <1>11, <1>13
<1>15. \A q \in Recorders : call'[q].tunnel = t =>
         /\ q # r /\ call[q].tunnel = t /\ Counts(call[q], g) /\ call'[q].cooled = call[q].cooled
         /\ call'[q].current <=> call[q].current /\ n.state = g.state
         /\ call'[q].since <=> call[q].since /\ ~(n.state = "closed" /\ g.state # "closed")
  <2> TAKE q \in Recorders
  <2> HAVE call'[q].tunnel = t
  <2>1. q # r
    BY <1>12, <1>13
  <2>2. call[q].tunnel = t
    BY <1>11, <1>13, <2>1
  <2>3. Counts(call[q], g)
    BY <1>1, <1>3, <2>2 DEF CallInv, g
  <2>4. QED
    BY <1>9, <1>11, <1>13, <2>1, <2>2, <2>3 DEF g
<1>16. g.state = "half-open" /\ c.current =>
         \A q \in Recorders \ {r} : call[q].tunnel = t => ~call[q].cooled
  BY <1>1, <1>3 DEF Counts, OneProbe, c, t
<1>17. \A q \in Recorders : call'[q].tunnel = t => Counts(call'[q], n)
  <2> TAKE q \in Recorders
  <2> HAVE call'[q].tunnel = t
  <2>1. CASE ~c.current
    BY <1>4, <1>7, <1>15, <2>1 DEF Counts
  <2>2. CASE c.current /\ g.state = "closed"
    BY <1>8, <1>15, <2>2 DEF Counts
  <2>3. CASE c.current /\ g.state = "half-open"
    BY <1>7, <1>8, <1>15, <1>16, <2>3 DEF Counts
  <2>4. QED
    BY <1>5, <1>6, <2>1, <2>2, <2>3
<1>18. \A q, p \in Recorders :
         q # p /\ call'[q].tunnel = t /\ call'[p].tunnel = t => ~(call'[q].cooled /\ call'[p].cooled)
  BY <1>1, <1>15 DEF OneProbe
<1>19. up' \in [Tunnels -> BOOLEAN]
  BY <1>1, <1>2 DEF Typed
<1>20. QED
  BY <1>2, <1>3, <1>8, <1>10, <1>13, <1>14, <1>17, <1>18, <1>19, Replace

(* Time only ages open breakers. *)
LEMMA TickStep ==
  ASSUME BInv, Tick
  PROVE  BInv' /\ \A t \in Tunnels : get(t)'.state = get(t).state
<1>1. Typed /\ AgeInv /\ CallInv /\ OneProbe /\ UNCHANGED <<up, call, streak>>
  BY DEF BInv, Tick
<1>2. ASSUME NEW t \in Tunnels
      PROVE  \/ breakers'[t] = breakers[t]
             \/ /\ breakers[t].state = "open" /\ breakers'[t].state = "open"
                /\ breakers'[t] \in Breakers
  <2>1. CASE breakers[t].state = "open" /\ breakers[t].age <= cooldown
    <3>1. breakers'[t] = [breakers[t] EXCEPT !.age = @ + 1]
      BY <2>1 DEF Tick
    <3>2. QED
      BY <1>1, <2>1, <3>1, OptionsPositive DEF Typed, Breakers
  <2>2. CASE ~(breakers[t].state = "open" /\ breakers[t].age <= cooldown)
    BY <2>2 DEF Tick
  <2>3. QED
    BY <2>1, <2>2
<1>3. breakers' \in [Tunnels -> Breakers]
  <2>1. \A t \in Tunnels : breakers'[t] \in Breakers
    BY <1>1, <1>2 DEF Typed
  <2>2. QED
    BY <2>1 DEF Tick
<1>4. \A t \in Tunnels :
        \/ breakers'[t] = breakers[t] /\ get(t)' = get(t)
        \/ /\ breakers[t].state = "open" /\ breakers'[t].state = "open"
           /\ get(t).state = "open" /\ get(t)'.state = "open"
  BY <1>2, Fresh DEF get
<1>5. Typed'
  BY <1>1, <1>3 DEF Typed
<1>6. AgeInv'
  BY <1>1, <1>4 DEF AgeInv
<1>7. CallInv'
  BY <1>1, <1>4 DEF CallInv, Counts
<1>8. OneProbe'
  BY <1>1 DEF OneProbe
<1>9. QED
  BY <1>4, <1>5, <1>6, <1>7, <1>8 DEF BInv

(* Steps of the scans, and of the tunnels' health. *)
LEMMA ElsewhereStep ==
  ASSUME BInv, UNCHANGED <<breakers, call, streak>>, up' \in [Tunnels -> BOOLEAN]
  PROVE  BInv'
BY DEF BInv, Typed, AgeInv, CallInv, OneProbe, get

(* A list of tiers, its length and its elements. *)
LEMMA TiersTyped ==
  ASSUME NEW c \in Scans
  PROVE  /\ c.tiers \in Seq([tunnel : Tunnels, tier : Nat]) /\ Len(c.tiers) \in Nat
         /\ \A k \in 1 .. Len(c.tiers) : c.tiers[k] \in [tunnel : Tunnels, tier : Nat]
<1>1. c.tiers \in TierLists \cup {<<>>}
  BY DEF Scans
<1>2. <<>> \in Seq([tunnel : Tunnels, tier : Nat])
  OBVIOUS
<1>3. c.tiers \in Seq([tunnel : Tunnels, tier : Nat])
  BY <1>1, <1>2, BreakerAssumption
<1>4. Len(c.tiers) \in Nat
  BY <1>3, LenProperties
<1>5. QED
  BY <1>3, <1>4, ElementOfSeq

(* The tier a scan is at. *)
LEMMA TierAt ==
  ASSUME NEW s \in Selectors, ScanInv(s), Scanning(s)
  PROVE  \E j \in 1 .. Len(scan[s].tiers) :
           /\ Tier(s) = scan[s].tiers[j]
           /\ scan[s].tiers[j] \in [tunnel : Tunnels, tier : Nat]
           /\ scan[s].index % 2 = 1 => scan[s].index = 2 * j - 1
           /\ scan[s].index % 2 = 0 => scan[s].index = 2 * j
<1> DEFINE c == scan[s]
           j == (c.index + 1) \div 2
<1>1. c \in Scans /\ c.index \in Nat
  BY DEF ScanInv, ScanTyped, Scans
<1>2. Len(c.tiers) \in Nat /\ c.index \in 1 .. 2 * Len(c.tiers)
  BY <1>1, TiersTyped DEF Scanning
<1> HIDE DEF c, j
<1>3. /\ j \in 1 .. Len(c.tiers)
      /\ c.index % 2 = 1 => c.index = 2 * j - 1
      /\ c.index % 2 = 0 => c.index = 2 * j
  <2>1. \A i \in Nat : LET h == (i + 1) \div 2
                       IN  h \in Nat /\ (i % 2 = 1 => i = 2 * h - 1) /\ (i % 2 = 0 => i = 2 * h)
                           /\ (i % 2 = 0 \/ i % 2 = 1)
    BY SMT
  <2>2. j \in Nat /\ (c.index = 2 * j - 1 \/ c.index = 2 * j)
        /\ (c.index % 2 = 1 => c.index = 2 * j - 1) /\ (c.index % 2 = 0 => c.index = 2 * j)
    BY <1>1, <2>1 DEF j
  <2>3. QED
    BY <1>2, <2>2
<1>4. c.tiers[j] \in [tunnel : Tunnels, tier : Nat]
  BY <1>1, <1>3, TiersTyped
<1>5. Tier(s) = c.tiers[j]
  BY DEF Tier, c, j
<1>6. QED
  BY <1>3, <1>4, <1>5 DEF c

(* Every step keeps the breakers' invariant. *)
LEMMA BInvStep == BInv /\ SelectInv /\ [BreakerNext]_bVars => BInv'
<1> SUFFICES ASSUME BInv, SelectInv, [BreakerNext]_bVars PROVE BInv'
  OBVIOUS
<1>1. CASE Tick
  BY <1>1, TickStep
<1>2. CASE \E t \in Tunnels : HealthChanges(t)
  BY <1>2, ElsewhereStep DEF HealthChanges, BInv, Typed
<1>3. CASE \E r \in Recorders : After(r)
  BY <1>3, AfterStep
<1>4. CASE \E r \in Recorders, t \in Tunnels : Record(r, t)
  BY <1>4, BeforeStep DEF Record
<1>5. CASE \E s \in Selectors : Select(s) \/ ReadHealth(s) \/ Take(s)
  BY <1>5, ElsewhereStep DEF Select, ReadHealth, Take, BInv, Typed
<1>6. CASE \E s \in Selectors : ReadBreaker(s)
  <2>1. PICK s \in Selectors : ReadBreaker(s)
    BY <1>6
  <2>2. Tier(s).tunnel \in Tunnels
    BY <2>1, TierAt DEF SelectInv, ReadBreaker
  <2>3. QED
    BY <2>1, <2>2, LookStep DEF ReadBreaker
<1>7. CASE UNCHANGED bVars
  BY <1>7, ElsewhereStep DEF bVars, BInv, Typed
<1>8. QED
  BY <1>1, <1>2, <1>3, <1>4, <1>5, <1>6, <1>7 DEF BreakerNext, Step

(* A breaker that closes does so at the end of its one fresh probe. *)
LEMMA ClosesStep ==
  ASSUME BInv, SelectInv, [BreakerNext]_bVars, NEW t \in Tunnels
  PROVE  ClosesByProbe(t)
<1> SUFFICES ASSUME get(t).state # "closed", get(t)'.state = "closed"
             PROVE  \E r \in Recorders :
                      /\ call[r].tunnel = t /\ call[r].ok /\ call[r].cooled /\ call'[r] = Idle
                      /\ \A q \in Recorders \ {r} : call[q].tunnel = t => ~call[q].cooled
  BY DEF ClosesByProbe, Live
<1>1. Typed /\ AgeInv /\ CallInv /\ OneProbe
  BY DEF BInv
<1>2. ASSUME NEW u \in Tunnels, NEW n \in Breakers, n.state # "unseen", Keep(u, n)
      PROVE  u = t /\ n.state = "closed"
  BY <1>1, <1>2, GetAfter
<1>3. \A u \in Tunnels : LET b == currentState(get(u))
                         IN  /\ b \in Breakers /\ b.state \in {"closed", "half-open", "open"}
                             /\ u = t => b.state # "closed"
  BY <1>1, GetTyped, LookedAt
<1>4. breakers' # breakers
  BY DEF get
<1>5. CASE Tick
  BY <1>5, TickStep
<1>6. CASE \E r \in Recorders, u \in Tunnels : Record(r, u)
  <2>1. PICK r \in Recorders, u \in Tunnels : Before(r, u)
    BY <1>6 DEF Record
  <2> DEFINE b == currentState(get(u))
             n == IF Admits(b) THEN onRequest(b) ELSE b
  <2>2. n \in Breakers /\ n.state = b.state
    BY <1>3 DEF onRequest, Admits, Breakers, MaxRequests
  <2>3. Keep(u, n)
    BY <2>1 DEF Before
  <2>4. QED
    BY <1>2, <1>3, <2>2, <2>3
<1>7. CASE \E s \in Selectors : ReadBreaker(s)
  <2>1. PICK s \in Selectors : ReadBreaker(s)
    BY <1>7
  <2>2. Tier(s).tunnel \in Tunnels
    BY <2>1, TierAt DEF SelectInv, ReadBreaker
  <2>3. QED
    BY <1>2, <1>3, <2>1, <2>2 DEF ReadBreaker
<1>8. CASE \E r \in Recorders : After(r)
  <2>1. PICK r \in Recorders : After(r)
    BY <1>8
  <2> DEFINE c == call[r]
             u == c.tunnel
             b == currentState(get(u))
             n == IF ~c.current THEN b ELSE IF c.ok THEN onSuccess(b) ELSE onFailure(b)
  <2>2. c # Idle /\ Keep(u, n) /\ call' = [Outdate(u, n) EXCEPT ![r] = Idle]
    BY <2>1 DEF After
  <2>3. c \in Calls /\ u \in Tunnels /\ Counts(c, get(u))
    BY <1>1, <2>2 DEF Typed, CallInv
  <2>4. /\ get(u) \in Breakers /\ get(u).state \in {"closed", "half-open", "open"}
        /\ get(u).state = "closed" => get(u).age = 0
        /\ b = get(u) \/ get(u).state = "open"
    BY <1>1, <2>3, GetTyped, LookedAt
  <2>5. c.ok \in BOOLEAN /\ c.current \in BOOLEAN
    BY <2>3 DEF Calls
  <2>6. c.current => b = get(u) /\ get(u).state \in {"closed", "half-open"}
    BY <2>3, <2>4 DEF Counts
  <2>7. /\ n \in Breakers /\ n.state # "unseen"
        /\ c.current /\ get(u).state = "half-open" /\ n.state = "closed" => c.ok
    <3>1. CASE c.current
      <4>1. n = Outcome(get(u), c.ok) /\ get(u).state \in {"closed", "half-open"}
        BY <2>5, <2>6, <3>1 DEF Outcome
      <4> HIDE DEF n, b, u, c
      <4>2. QED
        BY <2>4, <2>5, <4>1, CountedOutcome
    <3>2. CASE ~c.current
      BY <1>3, <2>3, <3>2
    <3>3. QED
      BY <3>1, <3>2
  <2>8. u = t /\ n.state = "closed"
    BY <1>2, <2>2, <2>3, <2>7
  <2>9. c.current /\ get(u).state = "half-open"
    BY <1>3, <2>5, <2>6, <2>8
  <2>10. c.ok /\ c.cooled
    BY <2>3, <2>7, <2>8, <2>9 DEF Counts
  <2>11. call'[r] = Idle
    BY <2>2 DEF Outdate
  <2>12. \A q \in Recorders \ {r} : call[q].tunnel = t => ~call[q].cooled
    BY <1>1, <2>8, <2>10 DEF OneProbe
  <2>13. QED
    BY <2>8, <2>10, <2>11, <2>12
<1>9. QED
  BY <1>4, <1>5, <1>6, <1>7, <1>8
     DEF BreakerNext, Step, bVars, HealthChanges, Select, ReadHealth, Take

------------------------------------------------------------------------------
(* What a scan that goes on remembers only grows, and what it may count on *)
(* only shrinks.                                                           *)
LEMMA WatchKeeps ==
  ASSUME Watch, NEW s \in Selectors
  PROVE  /\ scan'[s].index = 0 => kept'[s] = {}
         /\ scan'[s].index # 0 => /\ kept'[s] \subseteq Live' \cap Up'
                                  /\ Live' \subseteq met'[s][1] /\ Up' \subseteq met'[s][2]
         /\ scan[s].index # 0 /\ scan'[s].index # 0 =>
              /\ kept'[s] \subseteq kept[s]
              /\ met[s][1] \subseteq met'[s][1] /\ met[s][2] \subseteq met'[s][2]
<1>1. kept'[s] = IF scan'[s].index = 0 THEN {}
                 ELSE (IF scan[s].index = 0 THEN Tunnels ELSE kept[s]) \cap (Live' \cap Up')
  BY DEF Watch
<1>2. met'[s] = IF scan'[s].index = 0 THEN <<{}, {}>>
                ELSE <<met[s][1] \cup Live', met[s][2] \cup Up'>>
  BY DEF Watch
<1>3. scan'[s].index = 0 => kept'[s] = {}
  BY <1>1
<1>4. scan'[s].index # 0 => kept'[s] \subseteq Live' \cap Up'
  BY <1>1
<1>5. scan[s].index # 0 /\ scan'[s].index # 0 => kept'[s] \subseteq kept[s]
  BY <1>1
<1>6. scan'[s].index # 0 => met'[s][1] = met[s][1] \cup Live' /\ met'[s][2] = met[s][2] \cup Up'
  BY <1>2
<1>7. QED
  BY <1>3, <1>4, <1>5, <1>6

(* A call that has not begun. *)
LEMMA NotBegun ==
  /\ Reading \in Scans /\ Reading.index = 0 /\ ~Reading.found /\ Reading.chosen = NoTunnel
  /\ Reading.tiers = <<>> /\ Len(<<>>) = 0
BY DEF Reading, Scans

(* It needs no justification. *)
LEMMA NotBegunScan ==
  ASSUME NEW k, NEW m
  PROVE  ScanTyped(Reading) /\ Sourced(Reading, m) /\ Covers(Reading, k) /\ HalfRead(Reading, k, m)
<1>1. ScanTyped(Reading)
  BY NotBegun DEF ScanTyped
<1>2. Sourced(Reading, m)
  BY NotBegun DEF Sourced
<1>3. Covers(Reading, k) /\ HalfRead(Reading, k, m)
  BY NotBegun DEF Covers, HalfRead
<1>4. QED
  BY <1>1, <1>2, <1>3

(* Steps of others leave s's answer justified. *)
LEMMA SameScan ==
  ASSUME NEW s \in Selectors, ScanInv(s), scan'[s] = scan[s], Watch
  PROVE  ScanInv(s)'
<1>1. CASE scan[s].index = 0
  <2>1. scan'[s] = Reading
    BY <1>1 DEF ScanInv, ScanTyped
  <2>2. QED
    BY <2>1, NotBegunScan DEF ScanInv
<1>2. CASE scan[s].index # 0
  <2>1. /\ kept'[s] \subseteq kept[s]
        /\ met[s][1] \subseteq met'[s][1] /\ met[s][2] \subseteq met'[s][2]
    BY <1>2, WatchKeeps
  <2>2. Sourced(scan[s], met'[s])
    BY <2>1 DEF ScanInv, Sourced
  <2>3. Covers(scan[s], kept'[s])
    BY <2>1 DEF ScanInv, Covers
  <2>4. HalfRead(scan[s], kept'[s], met'[s])
    BY <2>1 DEF ScanInv, HalfRead
  <2>5. QED
    BY <2>2, <2>3, <2>4 DEF ScanInv
<1>3. QED
  BY <1>1, <1>2

(* A call begins, or ends. *)
LEMMA NewScan ==
  ASSUME NEW s \in Selectors, Select(s) \/ Take(s), s \in DOMAIN scan
  PROVE  ScanInv(s)'
<1>1. CASE Take(s)
  <2>1. scan'[s] = Reading
    BY <1>1 DEF Take
  <2>2. QED
    BY <2>1, NotBegunScan DEF ScanInv
<1>2. CASE Select(s)
  <2>1. PICK tiers \in TierLists : scan'[s] = [Reading EXCEPT !.index = 1, !.tiers = tiers]
    BY <1>2 DEF Select
  <2> DEFINE n == scan'[s]
  <2>2. n = [index |-> 1, tiers |-> tiers, closed |-> FALSE, found |-> FALSE,
             best |-> 0, chosen |-> NoTunnel]
    BY <2>1 DEF Reading
  <2>3. n \in Scans /\ n.index = 1 /\ n.tiers = tiers /\ ~n.found /\ n.chosen = NoTunnel
    BY <2>2 DEF Scans
  <2>4. Len(tiers) \in Nat
    BY <2>3, TiersTyped
  <2>5. \A j \in 1 .. Len(tiers) : ~(2 * j < 1) /\ 1 # 2 * j
    BY <2>4
  <2> HIDE DEF n
  <2>6. ScanTyped(n) /\ Sourced(n, met'[s])
    BY <2>3, <2>4 DEF ScanTyped, Sourced
  <2>7. Covers(n, kept'[s]) /\ HalfRead(n, kept'[s], met'[s])
    BY <2>3, <2>5 DEF Covers, HalfRead
  <2>8. QED
    BY <2>6, <2>7 DEF ScanInv, n
<1>3. QED
  BY <1>1, <1>2

(* The breaker of the next tier is read. *)
LEMMA ReadBreakerScan ==
  ASSUME BInv, NEW s \in Selectors, ScanInv(s), s \in DOMAIN scan, ReadBreaker(s), Watch
  PROVE  ScanInv(s)'
<1> DEFINE c == scan[s]
           n == scan'[s]
<1>1. PICK j \in 1 .. Len(c.tiers) : /\ Tier(s) = c.tiers[j]
                                     /\ c.tiers[j] \in [tunnel : Tunnels, tier : Nat]
                                     /\ c.index = 2 * j - 1
  BY TierAt DEF ReadBreaker
<1>2. PICK t \in Tunnels : t = Tier(s).tunnel /\ t = c.tiers[j].tunnel
  BY <1>1
<1> DEFINE b == currentState(get(t))
<1>3. Keep(t, b) /\ n = [c EXCEPT !.index = @ + 1, !.closed = Closed(b)]
  BY <1>2 DEF ReadBreaker
<1>4. b \in Breakers /\ b.state # "unseen"
  BY GetTyped, LookedAt DEF BInv
<1>5. c \in Scans /\ Sourced(c, met[s]) /\ Covers(c, kept[s])
  BY DEF ScanInv, ScanTyped
<1> HIDE DEF c, b, n
<1>6. /\ n \in Scans /\ n.index = c.index + 1 /\ n.closed = Closed(b)
      /\ n.tiers = c.tiers /\ n.found = c.found /\ n.best = c.best /\ n.chosen = c.chosen
  <2>1. ASSUME NEW x \in BOOLEAN, n = [c EXCEPT !.index = @ + 1, !.closed = x]
        PROVE  /\ n \in Scans /\ n.index = c.index + 1 /\ n.closed = x
               /\ n.tiers = c.tiers /\ n.found = c.found /\ n.best = c.best /\ n.chosen = c.chosen
    <3>1. c = [index |-> c.index, tiers |-> c.tiers, closed |-> c.closed, found |-> c.found,
               best |-> c.best, chosen |-> c.chosen]
      BY <1>5 DEF Scans
    <3>2. n = [index |-> c.index + 1, tiers |-> c.tiers, closed |-> x, found |-> c.found,
               best |-> c.best, chosen |-> c.chosen]
      BY <2>1, <3>1
    <3>3. QED
      BY <1>5, <3>2 DEF Scans
  <2>2. Closed(b) \in BOOLEAN
    BY DEF Closed
  <2>3. QED
    BY <1>3, <2>1, <2>2
<1>7. Len(c.tiers) \in Nat
  BY <1>5, TiersTyped
<1>8. Closed(b) <=> t \in Live'
  <2>1. get(t)' = b
    BY <1>3, <1>4, GetAfter DEF BInv
  <2>2. QED
    BY <2>1 DEF Closed, Live
<1>9. /\ kept'[s] \subseteq kept[s] /\ kept'[s] \subseteq Live' \cap Up'
      /\ met[s][1] \subseteq met'[s][1] /\ met[s][2] \subseteq met'[s][2] /\ Live' \subseteq met'[s][1]
  BY <1>1, <1>6, <1>7, WatchKeeps DEF c, n
<1>10. n.index = 2 * j /\ n.index # 0 /\ n.index <= 2 * Len(n.tiers) + 1
  BY <1>1, <1>6, <1>7
<1>11. \A k \in 1 .. Len(c.tiers) : (n.index = 2 * k => k = j) /\ (2 * k < n.index => 2 * k < c.index)
  BY <1>1, <1>7, <1>10
<1>12. ScanTyped(n)
  BY <1>6, <1>10 DEF ScanTyped
<1>13. Sourced(n, met'[s])
  BY <1>5, <1>6, <1>9 DEF Sourced
<1>14. Covers(n, kept'[s])
  BY <1>5, <1>6, <1>9, <1>11 DEF Covers
<1>15. HalfRead(n, kept'[s], met'[s])
  BY <1>2, <1>6, <1>8, <1>9, <1>11 DEF HalfRead
<1>16. QED
  BY <1>12, <1>13, <1>14, <1>15 DEF ScanInv, n

(* The health of the tier is read, and the answer perhaps improved. *)
LEMMA ReadHealthScan ==
  ASSUME NEW s \in Selectors, ScanInv(s), s \in DOMAIN scan, ReadHealth(s), Watch
  PROVE  ScanInv(s)'
<1> DEFINE c == scan[s]
           n == scan'[s]
<1>1. PICK j \in 1 .. Len(c.tiers) : /\ Tier(s) = c.tiers[j]
                                     /\ c.tiers[j] \in [tunnel : Tunnels, tier : Nat]
                                     /\ c.index = 2 * j
  BY TierAt DEF ReadHealth
<1>2. PICK t \in Tunnels, tier \in Nat : c.tiers[j] = [tunnel |-> t, tier |-> tier]
  BY <1>1
<1>3. c \in Scans /\ Sourced(c, met[s]) /\ Covers(c, kept[s]) /\ HalfRead(c, kept[s], met[s])
  BY DEF ScanInv, ScanTyped
<1> DEFINE passed == [c EXCEPT !.index = @ + 1]
           better == c.closed /\ up[t] /\ (~c.found \/ tier < c.best)
<1>4. /\ passed \in Scans /\ passed.index = c.index + 1 /\ passed.tiers = c.tiers
      /\ passed.closed = c.closed /\ passed.found = c.found
      /\ passed.best = c.best /\ passed.chosen = c.chosen
  BY <1>3 DEF Scans
<1>5. /\ better => n = [passed EXCEPT !.found = TRUE, !.best = tier, !.chosen = t]
      /\ ~better => n = passed
  <2>1. Tier(s).tunnel = t /\ Tier(s).tier = tier
    BY <1>1, <1>2
  <2>2. Better(passed, tier) <=> (~c.found \/ tier < c.best)
    BY <1>4 DEF Better
  <2>3. n = IF passed.closed /\ up[t] /\ Better(passed, tier)
            THEN [passed EXCEPT !.found = TRUE, !.best = tier, !.chosen = t]
            ELSE passed
    BY <2>1 DEF ReadHealth
  <2>4. QED
    BY <1>4, <2>2, <2>3
<1>6. up' = up /\ (t \in Up' <=> up[t])
  BY DEF ReadHealth, Up
<1> HIDE DEF c, n, passed, better
<1>7. /\ n \in Scans /\ n.index = c.index + 1 /\ n.tiers = c.tiers
      /\ better => n.found /\ n.best = tier /\ n.chosen = t
      /\ ~better => n.found = c.found /\ n.best = c.best /\ n.chosen = c.chosen
  <2>1. CASE better
    <3>1. n = [passed EXCEPT !.found = TRUE, !.best = tier, !.chosen = t]
      BY <1>5, <2>1
    <3>2. /\ n \in Scans /\ n.index = passed.index /\ n.tiers = passed.tiers
          /\ n.found /\ n.best = tier /\ n.chosen = t
      BY <1>4, <3>1 DEF Scans
    <3>3. QED
      BY <1>4, <2>1, <3>2
  <2>2. CASE ~better
    BY <1>4, <1>5, <2>2
  <2>3. QED
    BY <2>1, <2>2
<1>8. Len(c.tiers) \in Nat /\ \A k \in 1 .. Len(c.tiers) : c.tiers[k].tier \in Nat
  <2>1. Len(c.tiers) \in Nat /\ \A k \in 1 .. Len(c.tiers) : c.tiers[k] \in [tunnel : Tunnels, tier : Nat]
    BY <1>3, TiersTyped
  <2>2. QED
    BY <2>1
<1>9. n.index = 2 * j + 1 /\ n.index # 0 /\ n.index <= 2 * Len(n.tiers) + 1 /\ c.index # 0
  BY <1>1, <1>7, <1>8
<1>10. \A k \in 1 .. Len(c.tiers) : /\ 2 * k < n.index => k = j \/ 2 * k < c.index
                                    /\ n.index # 2 * k
  BY <1>1, <1>8, <1>9
<1>11. /\ kept'[s] \subseteq kept[s] /\ kept'[s] \subseteq Up'
       /\ met[s][1] \subseteq met'[s][1] /\ met[s][2] \subseteq met'[s][2] /\ Up' \subseteq met'[s][2]
  BY <1>9, WatchKeeps DEF c, n
<1>12. (c.closed => t \in met[s][1]) /\ (t \in kept[s] => c.closed)
  <2>1. c.tiers[j].tunnel = t /\ c.index = 2 * j
    BY <1>1, <1>2
  <2>2. QED
    BY <1>3, <2>1 DEF HalfRead
<1>13. t \in kept'[s] => c.closed /\ up[t]
  BY <1>6, <1>11, <1>12
<1>14. \A k \in 1 .. Len(c.tiers) :
         2 * k < c.index /\ c.tiers[k].tunnel \in kept'[s] => c.found /\ c.best <= c.tiers[k].tier
  BY <1>3, <1>11 DEF Covers
<1>15. ScanTyped(n) /\ HalfRead(n, kept'[s], met'[s])
  BY <1>7, <1>9, <1>10 DEF ScanTyped, HalfRead
<1>16. Sourced(n, met'[s])
  <2>1. CASE better
    <3>1. t \in met'[s][1] \cap met'[s][2]
      BY <1>6, <1>11, <1>12, <2>1 DEF better
    <3>2. QED
      BY <1>1, <1>2, <1>7, <2>1, <3>1 DEF Sourced
  <2>2. CASE ~better
    BY <1>3, <1>7, <1>11, <2>2 DEF Sourced
  <2>3. QED
    BY <2>1, <2>2
<1>17. Covers(n, kept'[s])
  <2> SUFFICES ASSUME NEW k \in 1 .. Len(c.tiers), 2 * k < n.index, c.tiers[k].tunnel \in kept'[s]
               PROVE  n.found /\ n.best <= c.tiers[k].tier
    BY <1>7 DEF Covers
  <2>1. c.best \in Nat /\ c.tiers[k].tier \in Nat
    BY <1>3, <1>8 DEF Scans
  <2>2. CASE k = j
    <3>1. c.tiers[k].tier = tier /\ c.closed /\ up[t]
      BY <1>2, <1>13, <2>2
    <3>2. CASE better
      BY <1>7, <2>1, <3>1, <3>2
    <3>3. CASE ~better
      <4>1. c.found /\ c.best <= tier
        BY <2>1, <3>1, <3>3 DEF better
      <4>2. QED
        BY <1>7, <3>1, <3>3, <4>1
    <3>4. QED
      BY <3>2, <3>3
  <2>3. CASE k # j
    <3>1. c.found /\ c.best <= c.tiers[k].tier
      BY <1>10, <1>14, <2>3
    <3>2. CASE better
      BY <1>7, <2>1, <3>1, <3>2 DEF better
    <3>3. CASE ~better
      BY <1>7, <3>1, <3>3
    <3>4. QED
      BY <3>2, <3>3
  <2>4. QED
    BY <2>2, <2>3
<1>18. QED
  BY <1>15, <1>16, <1>17 DEF ScanInv, n

(* Every step keeps the scans' invariant. *)
LEMMA SelectInvStep == BInv /\ SelectInv /\ [BreakerNext]_bVars => SelectInv'
<1> SUFFICES ASSUME BInv, SelectInv, [BreakerNext]_bVars PROVE SelectInv'
  OBVIOUS
<1>1. CASE UNCHANGED bVars
  <2>1. Live' = Live /\ Up' = Up /\ UNCHANGED <<scan, kept, met>>
    BY <1>1 DEF Live, Up, get, bVars
  <2>2. \A s \in Selectors : ScanInv(s)'
    BY <2>1 DEF SelectInv, ScanInv
  <2>3. QED
    BY <2>1, <2>2 DEF SelectInv
<1>2. CASE BreakerNext
  <2>1. Watch /\ DOMAIN kept' = Selectors /\ DOMAIN met' = Selectors
    BY <1>2 DEF BreakerNext, Watch
  <2>2. DOMAIN scan' = Selectors
    BY <1>2 DEF BreakerNext, Step, SelectInv, Tick, HealthChanges, After, Record, Before,
                Select, ReadBreaker, ReadHealth, Take
  <2>3. ASSUME NEW s \in Selectors
        PROVE  kept'[s] \subseteq Live' \cap Up'
    BY <2>1, <2>3, WatchKeeps
  <2>4. ASSUME NEW s \in Selectors
        PROVE  ScanInv(s)'
    <3>1. ScanInv(s) /\ s \in DOMAIN scan
      BY <2>4 DEF SelectInv
    <3>2. CASE Select(s) \/ Take(s)
      BY <3>1, <3>2, NewScan
    <3>3. CASE ReadBreaker(s)
      BY <2>1, <3>1, <3>3, ReadBreakerScan
    <3>4. CASE ReadHealth(s)
      BY <2>1, <3>1, <3>4, ReadHealthScan
    <3>5. CASE scan'[s] = scan[s]
      BY <2>1, <3>1, <3>5, SameScan
    <3>6. ASSUME NEW q \in Selectors, q # s, Select(q) \/ ReadBreaker(q) \/ ReadHealth(q) \/ Take(q)
          PROVE  scan'[s] = scan[s]
      BY <3>6 DEF SelectInv, Select, ReadBreaker, ReadHealth, Take
    <3>7. ASSUME Tick \/ (\E t \in Tunnels : HealthChanges(t))
                 \/ \E r \in Recorders : After(r) \/ \E t \in Tunnels : Record(r, t)
          PROVE  scan'[s] = scan[s]
      BY <3>7 DEF Tick, HealthChanges, After, Record, Before
    <3>8. QED
      BY <1>2, <3>2, <3>3, <3>4, <3>5, <3>6, <3>7 DEF BreakerNext, Step
  <2>5. QED
    BY <2>1, <2>2, <2>3, <2>4 DEF SelectInv
<1>3. QED
  BY <1>1, <1>2

(* The initial states satisfy both. *)
LEMMA BreakerIInvInit == BreakerInit => BInv /\ SelectInv
<1> SUFFICES ASSUME BreakerInit PROVE BInv /\ SelectInv
  OBVIOUS
<1>1. Idle \in Calls /\ Idle.tunnel = NoTunnel /\ ~Idle.cooled
  BY DEF Idle, Calls
<1>2. Typed
  BY <1>1, Fresh, OptionsPositive DEF BreakerInit, Typed
<1>3. AgeInv
  <2>1. \A t \in Tunnels : breakers[t] = Unseen /\ get(t) = NewBreaker /\ streak[t] = 0
    BY DEF BreakerInit, get
  <2>2. QED
    <3>1. Unseen.state = "unseen" /\ Unseen.age = 0 /\ NewBreaker.failures = 0
      BY Fresh
    <3>2. SUFFICES ASSUME NEW t \in Tunnels
                   PROVE  /\ breakers[t].state = "unseen" => breakers[t] = Unseen
                          /\ breakers[t].state = "half-open" => breakers[t].age > cooldown
                          /\ get(t).state = "closed" => breakers[t].age = 0 /\ streak[t] <= get(t).failures
      BY DEF AgeInv
    <3>3. breakers[t] = Unseen /\ get(t) = NewBreaker /\ streak[t] = 0
      BY <2>1
    <3>4. QED
      BY <3>1, <3>3
<1>4. CallInv /\ OneProbe
  BY <1>1, BreakerAssumption DEF BreakerInit, CallInv, OneProbe
<1>5. \A s \in Selectors : ScanInv(s)
  BY NotBegunScan DEF BreakerInit, ScanInv
<1>6. QED
  BY <1>2, <1>3, <1>4, <1>5 DEF BInv, SelectInv, BreakerInit

(* The breakers and the scans keep their invariants, whatever calls and    *)
(* scans overlap (Registry, SelectTunnel).                                 *)
THEOREM BreakerInductive == BreakerSpec => [](BInv /\ SelectInv)
<1>1. BInv /\ SelectInv /\ [BreakerNext]_bVars => BInv' /\ SelectInv'
  BY BInvStep, SelectInvStep
<1>2. QED
  BY <1>1, BreakerIInvInit, PTL DEF BreakerSpec

(* The state keeps its types: a breaker's failures stay below the          *)
(* threshold and a half-open one never has two probes (gobreaker's         *)
(* MaxRequests).                                                           *)
THEOREM BreakerTypeCorrect == BreakerSpec => []BreakerTypeOK
<1>1. BInv /\ SelectInv => BreakerTypeOK
  <2> SUFFICES ASSUME BInv, SelectInv PROVE BreakerTypeOK
    OBVIOUS
  <2>1. \A s \in Selectors : /\ scan[s].tiers \in TierLists \cup {<<>>}
                             /\ scan[s].index \in 0 .. 2 * Len(scan[s].tiers) + 1
                             /\ scan[s].chosen \in Tunnels \cup {NoTunnel}
    <3> TAKE s \in Selectors
    <3>1. scan[s] \in Scans /\ scan[s].index <= 2 * Len(scan[s].tiers) + 1
      BY DEF SelectInv, ScanInv, ScanTyped
    <3>2. Len(scan[s].tiers) \in Nat
      BY <3>1, TiersTyped
    <3>3. QED
      BY <3>1, <3>2 DEF Scans
  <2>2. QED
    BY <2>1 DEF BreakerTypeOK, BInv, Typed, Calls
<1>2. QED
  BY <1>1, BreakerInductive, PTL

(* FailThreshold failures in a row, recorded by anyone since the breaker   *)
(* closed, leave it not closed (ReadyToTrip).                              *)
THEOREM BreakersTrip == BreakerSpec => []TripsWhenDue
<1>1. BInv => TripsWhenDue
  <2> SUFFICES ASSUME BInv, NEW t \in Tunnels, streak[t] = failThreshold, t \in Live
               PROVE  FALSE
    BY DEF TripsWhenDue
  <2>1. get(t).state = "closed" /\ streak[t] <= get(t).failures /\ get(t) \in Breakers
    BY GetTyped DEF BInv, AgeInv, Live
  <2>2. QED
    BY <2>1, OptionsPositive DEF Breakers
<1>2. QED
  BY <1>1, BreakerInductive, PTL

(* A breaker closes again only at the end of the one probe that was let    *)
(* through after its cooldown (Execute's generations).                     *)
THEOREM BreakersCloseByProbe == BreakerSpec => ClosesByFreshProbe
<1>1. BInv /\ SelectInv /\ [BreakerNext]_bVars => [\A t \in Tunnels : ClosesByProbe(t)]_bVars
  BY ClosesStep
<1>2. QED
  BY <1>1, BreakerInductive, PTL DEF BreakerSpec, ClosesByFreshProbe

(* SelectTunnel's answer was closed and up at some moment of its scan, and *)
(* no tunnel that was both all along is of a lower tier.                   *)
THEOREM SelectionsJustified == BreakerSpec => []SelectionJustified
<1>1. SelectInv => SelectionJustified
  <2> SUFFICES ASSUME SelectInv, NEW s \in Selectors, Returned(s)
               PROVE  LET c == scan[s]
                          Tiers(t) == {c.tiers[i].tier : i \in {j \in 1 .. Len(c.tiers) : c.tiers[j].tunnel = t}}
                      IN  /\ c.chosen # NoTunnel =>
                               c.chosen \in met[s][1] \cap met[s][2] /\ c.best \in Tiers(c.chosen)
                          /\ \A t \in kept[s] : \A n \in Tiers(t) : c.found /\ c.best <= n
    BY DEF SelectionJustified
  <2> DEFINE c == scan[s]
  <2>1. c \in Scans /\ Sourced(c, met[s]) /\ Covers(c, kept[s])
    BY DEF SelectInv, ScanInv, ScanTyped
  <2>2. Len(c.tiers) \in Nat
    BY <2>1, TiersTyped
  <2>3. \A j \in 1 .. Len(c.tiers) : 2 * j < c.index
    BY <2>2 DEF Returned
  <2> HIDE DEF c
  <2>4. c.chosen # NoTunnel =>
          /\ c.chosen \in met[s][1] \cap met[s][2]
          /\ \E j \in 1 .. Len(c.tiers) : c.tiers[j].tunnel = c.chosen /\ c.tiers[j].tier = c.best
    BY <2>1 DEF Sourced
  <2>5. \A j \in 1 .. Len(c.tiers) : c.tiers[j].tunnel \in kept[s] => c.found /\ c.best <= c.tiers[j].tier
    BY <2>1, <2>3 DEF Covers
  <2>6. QED
    BY <2>4, <2>5 DEF c
<1>2. QED
  BY <1>1, BreakerInductive, PTL

------------------------------------------------------------------------------
(* A registry of breakers is one of circuits. *)

(* Outdated or not, a call keeps its tunnel, its outcome and its standing. *)
LEMMA OutdatedKeeps ==
  ASSUME Typed, NEW t \in Tunnels, NEW n, NEW r \in Recorders
  PROVE  /\ Outdate(t, n)[r].tunnel = call[r].tunnel /\ Outdate(t, n)[r].ok = call[r].ok
         /\ Outdate(t, n)[r].cooled = call[r].cooled
<1>1. call[r] \in Calls
  BY DEF Typed
<1>2. CASE call[r].tunnel # t
  BY <1>2 DEF Outdate
<1>3. CASE call[r].tunnel = t
  <2> DEFINE same == call[r].current /\ n.state = get(t).state
             kept1 == call[r].since /\ ~Closing(t, n)
  <2>1. Outdate(t, n)[r] = [call[r] EXCEPT !.current = same, !.since = kept1]
    BY <1>3 DEF Outdate
  <2> HIDE DEF same, kept1
  <2>2. QED
    BY <1>1, <2>1 DEF Calls
<1>4. QED
  BY <1>2, <1>3

(* A circuit, field by field. *)
LEMMA CircuitIs ==
  ASSUME NEW t
  PROVE  /\ CircuitOf(t).mode = get(t).state
         /\ CircuitOf(t).strikes = IF get(t).state = "closed" THEN get(t).failures ELSE 0
         /\ CircuitOf(t).rested = (get(t).state = "open" /\ get(t).age > cooldown)
         /\ CircuitOf(t).trial = {<<r, call[r].ok>> : r \in OnTrial(t)}
BY DEF CircuitOf

(* Only a half-open breaker has a trial, and no call that does not count   *)
(* is on it (gobreaker's generations).                                     *)
LEMMA TrialMeans ==
  ASSUME BInv, NEW t \in Tunnels
  PROVE  /\ get(t).state # "half-open" => OnTrial(t) = {}
         /\ get(t).state = "half-open" /\ get(t).probes = 0 => OnTrial(t) = {}
         /\ \A r \in OnTrial(t) : OnTrial(t) = {r}
<1>1. \A r \in Recorders : call[r].tunnel = t => Counts(call[r], get(t))
  BY DEF BInv, CallInv
<1>2. get(t).state \in {"closed", "half-open", "open"}
  BY GetTyped DEF BInv
<1>3. QED
  BY <1>1, <1>2 DEF OnTrial, Counts, BInv, OneProbe

(* The circuit of a breaker nobody is on trial for. *)
LEMMA Untried ==
  ASSUME NEW t, OnTrial(t) = {}
  PROVE  /\ get(t).state = "half-open" => CircuitOf(t) = Circuit!InMode("half-open")
         /\ get(t).state = "open" =>
              CircuitOf(t) = Circuit!State("open", 0, get(t).age > cooldown, {})
         /\ get(t).state = "closed" =>
              CircuitOf(t) = Circuit!State("closed", get(t).failures, FALSE, {})
<1>1. {<<r, call[r].ok>> : r \in OnTrial(t)} = {}
  OBVIOUS
<1> DEFINE old == get(t).age > cooldown
           rested == get(t).state = "open" /\ old
<1>2. CircuitOf(t) = [mode    |-> get(t).state,
                      strikes |-> IF get(t).state = "closed" THEN get(t).failures ELSE 0,
                      rested  |-> rested, trial |-> {}]
  BY <1>1 DEF CircuitOf
<1>3. (get(t).state # "open" => rested = FALSE) /\ (get(t).state = "open" => rested = old)
  OBVIOUS
<1> HIDE DEF rested
<1>4. QED
  BY <1>2, <1>3 DEF Circuit!InMode, Circuit!State

(* A circuit depends on its breaker and its trial alone. *)
LEMMA CircuitStays ==
  ASSUME NEW t, get(t)' = get(t), OnTrial(t)' = OnTrial(t),
         \A r \in OnTrial(t) : call'[r].ok = call[r].ok
  PROVE  CircuitOf(t)' = CircuitOf(t)
<1>1. {<<r, call'[r].ok>> : r \in OnTrial(t)} = {<<r, call[r].ok>> : r \in OnTrial(t)}
  OBVIOUS
<1>2. QED
  BY <1>1 DEF CircuitOf

(* The circuit of a breaker that becomes n: an open one has rested when    *)
(* its cooldown is over;                                                   *)
LEMMA OpenCircuit ==
  ASSUME NEW t, NEW n, get(t)' = n, n.state = "open", OnTrial(t)' = {}
  PROVE  CircuitOf(t)' = Circuit!State("open", 0, n.age > cooldown, {})
<1>1. {<<q, call'[q].ok>> : q \in OnTrial(t)'} = {}
  OBVIOUS
<1>2. (n.state = "open" /\ n.age > cooldown) = (n.age > cooldown)
  OBVIOUS
<1>3. QED
  BY <1>1, <1>2 DEF CircuitOf, Circuit!State, cooldown, DefaultCooldown

(* the others have their failures and their trial.                         *)
LEMMA CircuitBecomes ==
  ASSUME NEW t, NEW n, get(t)' = n, NEW trial, {<<q, call'[q].ok>> : q \in OnTrial(t)'} = trial
  PROVE  /\ n.state = "half-open" => CircuitOf(t)' = Circuit!State("half-open", 0, FALSE, trial)
         /\ n.state = "closed" => CircuitOf(t)' = Circuit!State("closed", n.failures, FALSE, trial)
<1> DEFINE rested == n.state = "open" /\ n.age > cooldown
<1>1. CircuitOf(t)' = [mode   |-> n.state, strikes |-> IF n.state = "closed" THEN n.failures ELSE 0,
                       rested |-> rested, trial |-> trial]
  BY DEF CircuitOf, cooldown, DefaultCooldown
<1>2. n.state # "open" => rested = FALSE
  OBVIOUS
<1> HIDE DEF rested
<1>3. QED
  BY <1>1, <1>2 DEF Circuit!State

(* A step on t's breaker moves t's circuit alone. *)
LEMMA OneCircuit ==
  ASSUME NEW t \in Tunnels, NEW d, CircuitOf(t)' = d,
         \A u \in Tunnels \ {t} : CircuitOf(u)' = CircuitOf(u)
  PROVE  Circuit!Becomes(t, d)
BY DEF Circuits, Circuit!Becomes

(* Looking at a breaker half-opens it if it has rested, and does nothing   *)
(* else to its circuit (currentState; Registry.Closed).                    *)
LEMMA LookMoves ==
  ASSUME BInv, NEW t \in Tunnels, NEW b, b = currentState(get(t)), get(t)' = b,
         OnTrial(t)' = OnTrial(t), \A r \in OnTrial(t) : call'[r].ok = call[r].ok,
         \A u \in Tunnels \ {t} : CircuitOf(u)' = CircuitOf(u)
  PROVE  Circuits' = Circuits \/ Circuit!HalfOpen(t)
<1>1. /\ get(t) \in Breakers /\ get(t).state \in {"closed", "half-open", "open"}
      /\ \/ b = get(t)
         \/ get(t).state = "open" /\ b.state = "half-open" /\ get(t).age > cooldown
  BY GetTyped, LookedAt DEF BInv
<1>2. CASE b = get(t)
  <2>1. CircuitOf(t)' = CircuitOf(t)
    BY <1>2, CircuitStays
  <2>2. QED
    BY <2>1 DEF Circuits
<1>3. CASE get(t).state = "open" /\ b.state = "half-open" /\ get(t).age > cooldown
  <2>1. OnTrial(t) = {} /\ OnTrial(t)' = {}
    BY <1>3, TrialMeans
  <2>2. Circuits[t].mode = "open" /\ Circuits[t].rested
    BY <1>3, CircuitIs DEF Circuits
  <2>3. {<<r, call'[r].ok>> : r \in OnTrial(t)'} = {}
    BY <2>1
  <2>4. CircuitOf(t)' = Circuit!InMode("half-open")
    BY <1>3, <2>3, CircuitBecomes DEF Circuit!InMode
  <2>5. QED
    BY <2>2, <2>4, OneCircuit DEF Circuit!HalfOpen, Circuit!Rested
<1>4. QED
  BY <1>1, <1>2, <1>3

(* Calls on other tunnels keep their trials. *)
LEMMA OthersStay ==
  ASSUME Typed, NEW t \in Tunnels, NEW n \in Breakers, n.state # "unseen", Keep(t, n),
         \A r \in Recorders :
           \/ call'[r].tunnel = call[r].tunnel /\ call'[r].cooled = call[r].cooled /\ call'[r].ok = call[r].ok
           \/ call'[r].tunnel \in {t, NoTunnel} /\ call[r].tunnel \in {t, NoTunnel}
  PROVE  get(t)' = n /\ \A u \in Tunnels \ {t} : CircuitOf(u)' = CircuitOf(u)
<1>1. get(t)' = n /\ \A u \in Tunnels \ {t} : get(u)' = get(u)
  BY GetAfter
<1>2. ASSUME NEW u \in Tunnels \ {t}
      PROVE  OnTrial(u)' = OnTrial(u) /\ \A r \in OnTrial(u) : call'[r].ok = call[r].ok
  <2>1. u # t /\ u # NoTunnel
    BY BreakerAssumption
  <2>2. QED
    BY <2>1 DEF OnTrial
<1>3. QED
  BY <1>1, <1>2, CircuitStays

(* Record begins: the breaker may half-open, and then lets one call        *)
(* through; a closed one is not moved (Execute's beforeRequest).           *)
LEMMA BeforeMoves ==
  ASSUME BInv, NEW r \in Recorders, NEW t \in Tunnels, Before(r, t)
  PROVE  Circuits' = Circuits \/ Circuit!HalfOpen(t) \/ Circuit!Try(t, r, up[t])
<1> DEFINE b == currentState(get(t))
           n == IF Admits(b) THEN onRequest(b) ELSE b
           new == [tunnel |-> t, ok |-> up[t], current |-> TRUE,
                   cooled |-> b.age > Cooldown, since |-> TRUE]
<1>1. Typed /\ AgeInv /\ call \in [Recorders -> Calls]
  BY DEF BInv, Typed
<1>2. /\ call[r] = Idle /\ Keep(t, n)
      /\ call' = [Outdate(t, b) EXCEPT ![r] = IF Admits(b) THEN new ELSE Idle]
  BY DEF Before
<1>3. /\ b \in Breakers /\ b.state \in {"closed", "half-open", "open"}
      /\ \/ b = get(t)
         \/ get(t).state = "open" /\ b.state = "half-open" /\ b.age > cooldown /\ b.probes = 0
      /\ b.state = "half-open" => b.age > cooldown
      /\ b.state = "closed" => b.age = 0
  BY <1>1, GetTyped, LookedAt
<1>4. n \in Breakers /\ n.state = b.state /\ n.failures = b.failures /\ (b.state = "closed" => n = b)
  BY <1>3 DEF Admits, onRequest, Breakers, MaxRequests
<1>5. Idle.tunnel = NoTunnel /\ NoTunnel # t
  BY BreakerAssumption DEF Idle
<1>6. new.tunnel = t /\ new.ok = up[t] /\ new.cooled = (b.age > Cooldown)
  OBVIOUS
<1>7. (b.age > Cooldown) <=> b.state = "half-open" \/ (b.state = "open" /\ b.age > Cooldown)
  BY <1>3, OptionsPositive, BreakerAssumption DEF Breakers
<1> HIDE DEF b, n, new
<1>8. /\ call'[r] = IF Admits(b) THEN new ELSE Idle
      /\ \A q \in Recorders \ {r} : /\ call'[q].tunnel = call[q].tunnel
                                    /\ call'[q].cooled = call[q].cooled /\ call'[q].ok = call[q].ok
  <2>1. Outdate(t, b) \in [Recorders -> Calls]
    BY <1>1, Outdated
  <2>2. \A q \in Recorders : /\ Outdate(t, b)[q].tunnel = call[q].tunnel
                            /\ Outdate(t, b)[q].cooled = call[q].cooled /\ Outdate(t, b)[q].ok = call[q].ok
    BY <1>1, OutdatedKeeps
  <2>3. QED
    BY <1>2, <2>1, <2>2
<1>9. get(t)' = n /\ \A u \in Tunnels \ {t} : CircuitOf(u)' = CircuitOf(u)
  BY <1>1, <1>2, <1>3, <1>4, <1>5, <1>6, <1>8, OthersStay
<1>10. CASE ~Admits(b) \/ b.state = "closed"
  <2>1. n = b
    BY <1>4, <1>10 DEF n
  <2>2. r \notin OnTrial(t) /\ r \notin OnTrial(t)'
    BY <1>2, <1>5, <1>6, <1>7, <1>8, <1>10 DEF OnTrial
  <2>3. OnTrial(t)' = OnTrial(t) /\ \A q \in OnTrial(t) : call'[q].ok = call[q].ok
    BY <1>8, <2>2 DEF OnTrial
  <2>4. b = currentState(get(t))
    BY DEF b
  <2>5. QED
    BY <1>9, <2>1, <2>3, <2>4, LookMoves
<1>11. CASE Admits(b) /\ b.state # "closed"
  <2>1. b.state = "half-open" /\ b.probes = 0
    BY <1>3, <1>11 DEF Admits, Breakers, MaxRequests
  <2>2. OnTrial(t) = {}
    BY <1>3, <2>1, TrialMeans
  <2>3. OnTrial(t)' = {r} /\ call'[r].ok = up[t]
    BY <1>6, <1>7, <1>8, <1>11, <2>1, <2>2 DEF OnTrial
  <2>4. {<<q, call'[q].ok>> : q \in OnTrial(t)'} = {<<r, up[t]>>}
    BY <2>3
  <2>5. CircuitOf(t)' = Circuit!State("half-open", 0, FALSE, {<<r, up[t]>>})
    BY <1>4, <1>9, <2>1, <2>4, CircuitBecomes
  <2>6. Circuit!Rested(t) \/ Circuits[t] = Circuit!InMode("half-open")
    <3>1. CASE b = get(t)
      BY <2>1, <2>2, <3>1, Untried DEF Circuits
    <3>2. CASE get(t).state = "open" /\ b # get(t)
      <4>1. get(t).age > cooldown
        BY <3>2 DEF b, currentState
      <4>2. QED
        BY <3>2, <4>1, CircuitIs DEF Circuits, Circuit!Rested
    <3>3. QED
      BY <1>3, <3>1, <3>2
  <2>7. QED
    BY <1>9, <2>5, <2>6, OneCircuit DEF Circuit!Try
<1>12. QED
  BY <1>10, <1>11

(* Record ends: an outcome of an earlier generation at most half-opens a   *)
(* breaker that has rested; one that counts is a strike, a clearance, the  *)
(* failure that trips, or the verdict of the trial (afterRequest).         *)
LEMMA AfterMoves ==
  ASSUME BInv, NEW r \in Recorders, After(r)
  PROVE  \/ Circuits' = Circuits
         \/ \E t \in Tunnels :
              \/ Circuit!HalfOpen(t) \/ Circuit!Strike(t) \/ Circuit!Clear(t) \/ Circuit!Trip(t)
              \/ \E ok \in BOOLEAN : Circuit!Verdict(t, r, ok)
<1>1. Typed /\ AgeInv /\ CallInv /\ call \in [Recorders -> Calls]
  BY DEF BInv, Typed
<1> DEFINE c == call[r]
<1>0. PICK t \in Tunnels : t = c.tunnel
  BY <1>1 DEF After, CallInv
<1> DEFINE g == get(t)
           b == currentState(g)
           n == IF ~c.current THEN b ELSE IF c.ok THEN onSuccess(b) ELSE onFailure(b)
<1>2. c # Idle /\ Keep(t, n) /\ call' = [Outdate(t, n) EXCEPT ![r] = Idle]
  BY <1>0 DEF After
<1>3. c \in Calls /\ t \in Tunnels /\ Counts(c, g)
  BY <1>0, <1>1 DEF CallInv
<1>4. /\ g \in Breakers /\ g.state \in {"closed", "half-open", "open"}
      /\ g.state = "closed" => g.age = 0
      /\ b \in Breakers /\ b.state \in {"closed", "half-open", "open"}
      /\ b = g \/ g.state = "open"
  BY <1>1, <1>3, GetTyped, LookedAt
<1>5. c.ok \in BOOLEAN /\ c.current \in BOOLEAN
  BY <1>3 DEF Calls
<1>6. c.current => b = g /\ g.state \in {"closed", "half-open"}
  BY <1>3, <1>4 DEF Counts
<1>7. (~c.current => n = b) /\ (c.current => n = Outcome(g, c.ok))
  BY <1>5, <1>6 DEF Outcome
<1>8. Idle.tunnel = NoTunnel /\ NoTunnel # t
  BY <1>3, BreakerAssumption DEF Idle
<1>9. g = get(t) /\ b = currentState(get(t)) /\ c = call[r] /\ t = call[r].tunnel
  BY <1>0
<1> HIDE DEF n, b, g, c
<1>10. c.current => /\ n \in Breakers /\ n.state \in {"closed", "open"}
                    /\ n.age = 0
                    /\ g.state = "half-open" => (n.state = "closed" <=> c.ok)
                    /\ g.state = "closed" /\ n.state = "closed" =>
                         n.failures = (IF c.ok THEN 0 ELSE g.failures + 1) /\ n.failures < failThreshold
                    /\ g.state = "closed" /\ n.state = "open" => ~c.ok /\ g.failures + 1 = failThreshold
  BY <1>4, <1>5, <1>6, <1>7, CountedOutcome
<1>11. n \in Breakers /\ n.state # "unseen"
  BY <1>4, <1>5, <1>7, <1>10
<1>12. /\ call'[r] = Idle
       /\ \A q \in Recorders \ {r} : /\ call'[q].tunnel = call[q].tunnel
                                     /\ call'[q].cooled = call[q].cooled /\ call'[q].ok = call[q].ok
  <2>1. Outdate(t, n) \in [Recorders -> Calls]
    BY <1>1, Outdated
  <2>2. \A q \in Recorders : /\ Outdate(t, n)[q].tunnel = call[q].tunnel
                            /\ Outdate(t, n)[q].cooled = call[q].cooled /\ Outdate(t, n)[q].ok = call[q].ok
    BY <1>1, OutdatedKeeps
  <2>3. QED
    BY <1>2, <2>1, <2>2
<1>13. get(t)' = n /\ \A u \in Tunnels \ {t} : CircuitOf(u)' = CircuitOf(u)
  BY <1>1, <1>2, <1>3, <1>8, <1>9, <1>11, <1>12, OthersStay
<1>14. OnTrial(t)' = OnTrial(t) \ {r}
  BY <1>8, <1>12 DEF OnTrial
<1>15. CASE ~c.current
  <2>1. r \notin OnTrial(t)
    BY <1>3, <1>4, <1>9, <1>15 DEF OnTrial, Counts
  <2>2. OnTrial(t)' = OnTrial(t) /\ \A q \in OnTrial(t) : call'[q].ok = call[q].ok
    BY <1>12, <1>14, <2>1 DEF OnTrial
  <2>3. QED
    BY <1>3, <1>7, <1>9, <1>13, <1>15, <2>2, LookMoves
<1>16. CASE c.current /\ g.state = "closed"
  <2>1. OnTrial(t) = {} /\ OnTrial(t)' = {}
    BY <1>3, <1>9, <1>14, <1>16, TrialMeans
  <2>2. {<<q, call'[q].ok>> : q \in OnTrial(t)'} = {}
    BY <2>1
  <2>3. Circuits[t].mode = "closed" /\ Circuits[t].strikes = g.failures
    BY <1>3, <1>9, <1>16, CircuitIs DEF Circuits
  <2>4. g.failures \in Nat
    BY <1>4, OptionsPositive DEF Breakers
  <2>5. CASE n.state = "open"
    <3>1. CircuitOf(t)' = Circuit!InMode("open")
      <4>1. n.age = 0
        BY <1>10, <1>16
      <4>2. QED
        <5>1. CircuitOf(t)' = Circuit!State("open", 0, n.age > cooldown, {})
          BY <1>13, <2>1, <2>5, OpenCircuit
        <5>2. (n.age > cooldown) = FALSE
          BY <4>1, OptionsPositive
        <5>3. QED
          BY <5>1, <5>2 DEF Circuit!InMode
    <3>2. Circuit!Trip(t)
      BY <1>3, <1>10, <1>13, <1>16, <2>3, <2>5, <3>1, OneCircuit DEF Circuit!Trip
    <3>3. QED
      BY <1>3, <3>2
  <2>6. CASE n.state = "closed" /\ c.ok
    <3>1. CircuitOf(t)' = Circuit!InMode("closed")
      <4>1. n.failures = 0
        BY <1>10, <1>16, <2>6
      <4>2. CircuitOf(t)' = Circuit!State("closed", n.failures, FALSE, {})
        BY <1>13, <2>2, <2>6, CircuitBecomes
      <4>3. QED
        BY <4>1, <4>2 DEF Circuit!InMode
    <3>2. Circuit!Clear(t)
      BY <1>3, <1>13, <2>3, <3>1, OneCircuit DEF Circuit!Clear
    <3>3. QED
      BY <1>3, <3>2
  <2>7. CASE n.state = "closed" /\ ~c.ok
    <3>1. CircuitOf(t)' = Circuit!State("closed", Circuits[t].strikes + 1, FALSE, {})
      <4>1. n.failures = Circuits[t].strikes + 1
        BY <1>10, <1>16, <2>3, <2>7
      <4>2. CircuitOf(t)' = Circuit!State("closed", n.failures, FALSE, {})
        BY <1>13, <2>2, <2>7, CircuitBecomes
      <4>3. QED
        BY <4>1, <4>2
    <3>2. Circuit!Strike(t)
      BY <1>3, <1>10, <1>13, <1>16, <2>3, <2>7, <3>1, OneCircuit DEF Circuit!Strike
    <3>3. QED
      BY <1>3, <3>2
  <2>8. QED
    BY <1>5, <1>10, <1>16, <2>5, <2>6, <2>7
<1>17. CASE c.current /\ g.state = "half-open"
  <2>1. r \in OnTrial(t)
    BY <1>3, <1>9, <1>17 DEF OnTrial, Counts
  <2>2. OnTrial(t) = {r} /\ OnTrial(t)' = {}
    BY <1>3, <1>14, <2>1, TrialMeans
  <2>3. /\ {<<q, call[q].ok>> : q \in OnTrial(t)} = {<<r, c.ok>>}
        /\ {<<q, call'[q].ok>> : q \in OnTrial(t)'} = {}
    BY <1>9, <2>2
  <2>4. Circuits[t].mode = "half-open" /\ Circuits[t].trial = {<<r, c.ok>>}
    BY <1>3, <1>9, <1>17, <2>3, CircuitIs DEF Circuits
  <2>5. n = Moved(IF c.ok THEN "closed" ELSE "open")
    BY <1>5, <1>7, <1>17 DEF Outcome, onSuccess, onFailure
  <2>6. CircuitOf(t)' = Circuit!InMode(IF c.ok THEN "closed" ELSE "open")
    <3>1. CASE c.ok
      <4>1. n.state = "closed" /\ n.failures = 0
        BY <2>5, <3>1, Fresh
      <4>2. CircuitOf(t)' = Circuit!State("closed", n.failures, FALSE, {})
        BY <1>13, <2>3, <4>1, CircuitBecomes
      <4>3. QED
        BY <3>1, <4>1, <4>2 DEF Circuit!InMode
    <3>2. CASE ~c.ok
      <4>1. n.state = "open" /\ n.age = 0
        BY <2>5, <3>2, Fresh
      <4>2. CircuitOf(t)' = Circuit!State("open", 0, n.age > cooldown, {})
        BY <1>13, <2>2, <4>1, OpenCircuit
      <4>3. (n.age > cooldown) = FALSE
        BY <4>1, OptionsPositive
      <4>4. QED
        BY <3>2, <4>2, <4>3 DEF Circuit!InMode
    <3>3. QED
      BY <3>1, <3>2
  <2>7. Circuit!Verdict(t, r, c.ok)
    BY <1>3, <1>13, <2>4, <2>6, OneCircuit DEF Circuit!Verdict
  <2>8. QED
    BY <1>3, <1>5, <2>7
<1>18. QED
  BY <1>5, <1>6, <1>15, <1>16, <1>17

(* Time passes: the breakers whose cooldown ends with the tick have        *)
(* rested, and nothing else changes.                                       *)
LEMMA TickMoves ==
  ASSUME BInv, Tick
  PROVE  Circuit!Rest
<1> DEFINE S == {t \in Tunnels : breakers[t].state = "open" /\ breakers[t].age = cooldown}
<1>1. Typed /\ AgeInv /\ call' = call
  BY DEF BInv, Tick
<1>2. ASSUME NEW t \in Tunnels, breakers[t].state = "open", breakers[t].age <= cooldown
      PROVE  /\ get(t).state = "open" /\ Circuits[t].mode = "open" /\ breakers[t].age \in Nat
             /\ CircuitOf(t) = Circuit!State("open", 0, breakers[t].age > cooldown, {})
             /\ CircuitOf(t)' = Circuit!State("open", 0, breakers[t].age + 1 > cooldown, {})
  <2>1. breakers[t] \in Breakers /\ breakers[t].age \in Nat
    BY <1>1, OptionsPositive DEF Typed, Breakers
  <2>2. get(t) = breakers[t]
    BY <1>2, Fresh DEF get
  <2>3. breakers'[t] = [breakers[t] EXCEPT !.age = @ + 1]
    BY <1>2 DEF Tick
  <2>4. /\ breakers'[t].state = "open" /\ breakers'[t].age = breakers[t].age + 1
        /\ get(t)' = breakers'[t]
    BY <1>2, <2>1, <2>3, Fresh DEF get, Breakers
  <2>5. OnTrial(t) = {} /\ OnTrial(t)' = {}
    BY <1>1, <1>2, <2>2, TrialMeans DEF OnTrial
  <2>6. CircuitOf(t)' = Circuit!State("open", 0, breakers'[t].age > cooldown, {})
    BY <2>4, <2>5, OpenCircuit
  <2>7. CircuitOf(t) = Circuit!State("open", 0, breakers[t].age > cooldown, {})
    BY <1>2, <2>2, <2>5, Untried
  <2>8. QED
    BY <1>2, <2>1, <2>2, <2>4, <2>6, <2>7, CircuitIs DEF Circuits
<1>3. ASSUME NEW t \in S
      PROVE  CircuitOf(t)' = Circuit!State("open", 0, TRUE, {}) /\ Circuits[t].mode = "open"
  <2>1. t \in Tunnels /\ breakers[t].state = "open" /\ breakers[t].age <= cooldown
    BY <1>3, OptionsPositive
  <2>2. (breakers[t].age + 1 > cooldown) = TRUE
    BY <1>3, OptionsPositive
  <2>3. QED
    BY <1>2, <2>1, <2>2
<1>4. ASSUME NEW t \in Tunnels \ S
      PROVE  CircuitOf(t)' = CircuitOf(t)
  <2>1. CASE breakers[t].state = "open" /\ breakers[t].age <= cooldown
    <3>1. breakers[t].age \in Nat
      BY <1>2, <2>1
    <3>2. (breakers[t].age + 1 > cooldown) = FALSE /\ (breakers[t].age > cooldown) = FALSE
      BY <1>4, <2>1, <3>1, OptionsPositive
    <3>3. QED
      BY <1>2, <2>1, <3>2
  <2>2. CASE ~(breakers[t].state = "open" /\ breakers[t].age <= cooldown)
    <3>1. breakers'[t] = breakers[t]
      BY <2>2 DEF Tick
    <3>2. QED
      BY <1>1, <3>1, CircuitStays DEF get, OnTrial
  <2>3. QED
    BY <2>1, <2>2
<1>5. Circuits' = [t \in Tunnels |-> IF t \in S THEN Circuit!State("open", 0, TRUE, {}) ELSE Circuits[t]]
  BY <1>3, <1>4 DEF Circuits
<1>6. S \in SUBSET {t \in Tunnels : Circuits[t].mode = "open"}
  BY <1>3
<1>7. QED
  BY <1>5, <1>6 DEF Circuit!Rest

(* Every step of the package is one of a circuit, or none. *)
LEMMA CircuitStep ==
  BInv /\ SelectInv /\ [BreakerNext]_bVars => [Circuit!CircuitNext]_Circuits
<1> SUFFICES ASSUME BInv, SelectInv, [BreakerNext]_bVars
             PROVE  Circuit!CircuitNext \/ Circuits' = Circuits
  OBVIOUS
<1>1. CASE Tick
  BY <1>1, TickMoves DEF Circuit!CircuitNext
<1>2. CASE \E r \in Recorders, t \in Tunnels : Record(r, t)
  <2>1. PICK r \in Recorders, t \in Tunnels : Before(r, t)
    BY <1>2 DEF Record
  <2>2. up[t] \in BOOLEAN
    BY DEF BInv, Typed
  <2>3. QED
    BY <2>1, <2>2, BeforeMoves DEF Circuit!CircuitNext
<1>3. CASE \E r \in Recorders : After(r)
  BY <1>3, AfterMoves DEF Circuit!CircuitNext
<1>4. CASE \E s \in Selectors : ReadBreaker(s)
  <2>1. PICK s \in Selectors : ReadBreaker(s)
    BY <1>4
  <2>2. Tier(s).tunnel \in Tunnels
    BY <2>1, TierAt DEF SelectInv, ReadBreaker
  <2>3. PICK t \in Tunnels : t = Tier(s).tunnel
    BY <2>2
  <2>4. Keep(t, currentState(get(t))) /\ call' = Outdate(t, currentState(get(t)))
    BY <2>1, <2>3 DEF ReadBreaker
  <2> DEFINE b == currentState(get(t))
  <2>5. b \in Breakers /\ b.state # "unseen" /\ Typed
    BY GetTyped, LookedAt DEF BInv
  <2>6. Keep(t, b) /\ call' = Outdate(t, b) /\ b = currentState(get(t))
    BY <2>4
  <2> HIDE DEF b
  <2>7. \A r \in Recorders : /\ call'[r].tunnel = call[r].tunnel
                            /\ call'[r].cooled = call[r].cooled /\ call'[r].ok = call[r].ok
    BY <2>5, <2>6, OutdatedKeeps
  <2>8. get(t)' = b /\ \A u \in Tunnels \ {t} : CircuitOf(u)' = CircuitOf(u)
    BY <2>5, <2>6, <2>7, OthersStay
  <2>9. OnTrial(t)' = OnTrial(t) /\ \A r \in OnTrial(t) : call'[r].ok = call[r].ok
    BY <2>7 DEF OnTrial
  <2>10. QED
    BY <2>6, <2>8, <2>9, LookMoves DEF Circuit!CircuitNext
<1>5. CASE UNCHANGED <<breakers, call>>
  BY <1>5, CircuitStays DEF Circuits, get, OnTrial
<1>6. QED
  BY <1>1, <1>2, <1>3, <1>4, <1>5
     DEF BreakerNext, Step, bVars, HealthChanges, Select, ReadHealth, Take

(* The registry implements one CircuitBreaker per tunnel: it trips exactly *)
(* at the threshold, admits one probe after the cooldown, and that probe's *)
(* outcome alone decides, whatever late outcomes are recorded meanwhile.   *)
THEOREM RegistryImplementsCircuit == BreakerSpec => ImplementsCircuit
<1>1. BreakerInit => Circuit!CircuitInit
  <2> SUFFICES ASSUME BreakerInit, NEW t \in Tunnels PROVE CircuitOf(t) = Circuit!InMode("closed")
    BY DEF Circuit!CircuitInit, Circuits
  <2>1. get(t) = NewBreaker
    BY DEF BreakerInit, get
  <2>2. OnTrial(t) = {}
    BY DEF BreakerInit, OnTrial, Idle
  <2>3. QED
    BY <2>1, <2>2, Fresh, Untried DEF Circuit!InMode
<1>2. QED
  BY <1>1, CircuitStep, BreakerInductive, PTL DEF BreakerSpec, ImplementsCircuit, Circuit!CircuitSpec

==============================================================================
