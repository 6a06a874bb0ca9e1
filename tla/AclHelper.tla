------------------------------ MODULE AclHelper ------------------------------
(***************************************************************************)
(* The Squid external ACL helper (cmd/acl-helper, internal/aclhelper): a   *)
(* set of helper processes, each answering one request line at a time with *)
(* two separate Redis lookups, GetRoute and then GetStatus.  Anything that *)
(* goes wrong on the way is ERR.  A request without a usable host (a blank *)
(* or malformed line) carries NoHost.                                      *)
(***************************************************************************)
EXTENDS StatusBus

CONSTANTS
  Helpers,     \* helper processes Squid keeps
  NoHost,      \* no destination could be read from the line
  ReqTimeout   \* ACL_REQUEST_TIMEOUT

ASSUME HelperAssumption ==
  /\ NoHost \notin Targets
  /\ ReqTimeout \in Nat

VARIABLES
  hpc,       \* hpc[h]: where helper h is
  host,      \* host[h]: destination of the request in hand
  rdeadline, \* rdeadline[h]: when the request's context expires
  tag,       \* tag[h]: rt.Tunnel, the tunnel the decision is about
  snap,      \* snap[h]: the status an OK rests on
  readAt,    \* readAt[h]: when GetStatus read it
  ok         \* ok[h]: the answer to write is OK

helperVars == <<hpc, host, rdeadline, tag, snap, readAt, ok>>

HelperSteps == {"off", "idle", "route", "status", "reply"}

HelperTypeOK ==
  /\ hpc \in [Helpers -> HelperSteps]
  /\ host \in [Helpers -> Targets \cup {NoHost}]
  /\ rdeadline \in [Helpers -> Nat]
  /\ tag \in [Helpers -> Routes]
  /\ snap \in [Helpers -> Key]
  /\ readAt \in [Helpers -> Nat]
  /\ ok \in [Helpers -> BOOLEAN]

HelperInit ==
  /\ hpc = [h \in Helpers |-> "off"]
  /\ host = [h \in Helpers |-> NoHost]
  /\ rdeadline = [h \in Helpers |-> 0]
  /\ tag = [h \in Helpers |-> NoRoute]
  /\ snap = [h \in Helpers |-> NoKey]
  /\ readAt = [h \in Helpers |-> 0]
  /\ ok = [h \in Helpers |-> FALSE]

(* The request's locals when there is no request in hand. *)
Forget(h) ==
  /\ host' = [host EXCEPT ![h] = NoHost]
  /\ rdeadline' = [rdeadline EXCEPT ![h] = 0]
  /\ tag' = [tag EXCEPT ![h] = NoRoute]
  /\ snap' = [snap EXCEPT ![h] = NoKey]
  /\ readAt' = [readAt EXCEPT ![h] = 0]
  /\ ok' = [ok EXCEPT ![h] = FALSE]

(* Decide returns false: ERR, without a tag. *)
Refuse(h) ==
  /\ hpc' = [hpc EXCEPT ![h] = "reply"]
  /\ Forget(h)

------------------------------------------------------------------------------
(* Squid spawns a helper; redis.Open must get an answer to its PING. *)
Spawn(h) ==
  /\ hpc[h] = "off"
  /\ redisUp
  /\ hpc' = [hpc EXCEPT ![h] = "idle"]
  /\ UNCHANGED <<host, rdeadline, tag, snap, readAt, ok, busVars>>

(* End of input, a signal noticed before the next line, a reply that       *)
(* cannot be written, a crash.                                             *)
Exit(h) ==
  /\ hpc[h] # "off"
  /\ hpc' = [hpc EXCEPT ![h] = "off"]
  /\ Forget(h)
  /\ UNCHANGED busVars

Request(h) ==
  /\ hpc[h] = "idle"
  /\ \E d \in Targets : host' = [host EXCEPT ![h] = d]
  /\ hpc' = [hpc EXCEPT ![h] = "route"]
  /\ rdeadline' = [rdeadline EXCEPT ![h] = now + ReqTimeout]
  /\ UNCHANGED <<tag, snap, readAt, ok, busVars>>

(* A line without a destination is refused without a lookup. *)
BlankRequest(h) ==
  /\ hpc[h] = "idle"
  /\ Refuse(h)
  /\ UNCHANGED busVars

GetRoute(h) ==
  /\ hpc[h] = "route"
  /\ redisUp
  /\ now <= rdeadline[h]
  /\ route[host[h]] \notin {NoRoute, NoTunnel}
  /\ tag' = [tag EXCEPT ![h] = route[host[h]]]
  /\ hpc' = [hpc EXCEPT ![h] = "status"]
  /\ UNCHANGED <<host, rdeadline, snap, readAt, ok, busVars>>

NoUsableRoute(h) ==
  /\ hpc[h] = "route"
  /\ redisUp
  /\ route[host[h]] \in {NoRoute, NoTunnel}
  /\ Refuse(h)
  /\ UNCHANGED busVars

(* Mutant: a status key that exists is enough. *)
DecideUp_AnyState(h) ==
  /\ hpc[h] = "status"
  /\ redisUp
  /\ now <= rdeadline[h]
  /\ Found(tag[h])
  /\ snap' = [snap EXCEPT ![h] = status[tag[h]]]
  /\ readAt' = [readAt EXCEPT ![h] = now]
  /\ ok' = [ok EXCEPT ![h] = TRUE]
  /\ hpc' = [hpc EXCEPT ![h] = "reply"]
  /\ UNCHANGED <<host, rdeadline, tag, busVars>>

(* GetStatus reads up. *)
DecideUp(h) ==
  /\ hpc[h] = "status"
  /\ redisUp
  /\ now <= rdeadline[h]
  /\ GetStatus(tag[h]) = "up"
  /\ snap' = [snap EXCEPT ![h] = status[tag[h]]]
  /\ readAt' = [readAt EXCEPT ![h] = now]
  /\ ok' = [ok EXCEPT ![h] = TRUE]
  /\ hpc' = [hpc EXCEPT ![h] = "reply"]
  /\ UNCHANGED <<host, rdeadline, tag, busVars>>

DecideNotUp(h) ==
  /\ hpc[h] = "status"
  /\ redisUp
  /\ GetStatus(tag[h]) # "up"
  /\ Refuse(h)
  /\ UNCHANGED busVars

(* Either lookup returns an error: transport, or the context has expired. *)
LookupFails(h) ==
  /\ hpc[h] \in {"route", "status"}
  /\ Refuse(h)
  /\ UNCHANGED busVars

Reply(h) ==
  /\ hpc[h] = "reply"
  /\ hpc' = [hpc EXCEPT ![h] = "idle"]
  /\ Forget(h)
  /\ UNCHANGED busVars

HelperStep(h) ==
  \/ Spawn(h) \/ Exit(h)
  \/ Request(h) \/ BlankRequest(h)
  \/ GetRoute(h) \/ NoUsableRoute(h)
  \/ DecideUp(h) \/ DecideNotUp(h)
  \/ LookupFails(h)
  \/ Reply(h)

HelperNext == \E h \in Helpers : HelperStep(h)

==============================================================================
