----------------------------- MODULE PassHistory -----------------------------
(***************************************************************************)
(* The compiler beside the API, with a record of the tables as they were   *)
(* when the pass started.  Every commit adds one row to the audit table,   *)
(* so db.audit - before.audit mutations were committed since.              *)
(***************************************************************************)
EXTENDS RouteCompiler

VARIABLE before   \* the committed tables when the pass started

historyVars == <<vars, before>>

HInit == Init /\ before = db

HNext ==
  /\ Next
  /\ before' = IF cpc' = "profiles" /\ cpc # "profiles" THEN db ELSE before

HSpec == HInit /\ [][HNext]_historyVars

ReadAll == cpc \in {"squid", "dante", "pac", "open", "seed"}

Resolved(a) == IF a \in DOMAIN routes THEN routes[a] ELSE NoTunnel

StillThere(a) == \A t \in DOMAIN targets : targets[t].alias = a => t \in DOMAIN db.targets

(* A pass that at most one mutation overlaps gives every alias the tunnel  *)
(* (or none) that the tables gave it before or after that mutation,        *)
(* although CompileAll reads them in several queries without a             *)
(* transaction; targets deleted meanwhile are the exception.               *)
OneEditIsHarmless ==
  ReadAll /\ db.audit <= before.audit + 1 =>
    \A a \in Aliases : StillThere(a) => Resolved(a) \in {Routed(before, a), Routed(db, a)}

StillListed(a) ==
  \A t \in DOMAIN before.targets : before.targets[t].alias = a => t \in DOMAIN db.targets

DanteRoute(a) == IF a \in DOMAIN dante THEN dante[a] ELSE NoTunnel

(* What a finished pass leaves behind is right as a whole: with at most    *)
(* one mutation since its start, Dante sends every alias to the tunnel (or *)
(* none) that the tables gave it before or after that mutation, unless its *)
(* target was deleted, and a key that was seeded and not lost with Redis   *)
(* sends Squid's requests through the same tunnel as Dante's.              *)
ArtifactsFollowTables ==
  cpc = "done" /\ db.audit <= before.audit + 1 =>
    /\ \A a \in Aliases : StillListed(a) => DanteRoute(a) \in {Routed(before, a), Routed(db, a)}
    /\ \A a \in seeded : route[a] \in {dante[a], NoTunnel}

(* "deleting a profile orphans the target (it stops routing)" and "When    *)
(* false the target is excluded from generated routing config"             *)
(* (sql/schema.sql:106,108): after a pass that nothing overlapped, an      *)
(* alias the tables give no tunnel has no route key.                       *)
UnroutedHasNoKey ==
  cpc = "done" /\ db = before =>
    \A a \in Aliases : Routed(db, a) = NoTunnel => route[a] = NoTunnel

==============================================================================
