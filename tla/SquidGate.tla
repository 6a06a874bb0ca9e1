------------------------------ MODULE SquidGate ------------------------------
(***************************************************************************)
(* Squid running the rendered include (squidTmpl of                        *)
(* internal/routing/routing.go): each request is put to the ACL helper     *)
(* (ttl=0: no answer is reused), refused unless it says OK, and otherwise  *)
(* forwarded to a cache_peer, never directly.  The helper's OK carries the *)
(* tunnel as a tag; each peer's cache_peer_access looks only at whether    *)
(* the answer was OK.  Squid tries parents in the order of the include.    *)
(***************************************************************************)
EXTENDS Naturals, FiniteSetsExt

CONSTANTS
  Names,    \* profile names, ordered as numbers
  Aliases,  \* public aliases
  NoTunnel, \* no route, or ERR
  Refused   \* the branded 503

VARIABLES
  peers,  \* cache_peers of the running configuration
  route,  \* route[a]: the tunnel named by route:<a>
  up,     \* the tunnels whose status reads up
  sent    \* the last request: its tag and the peer it went to

vars == <<peers, route, up, sent>>

Init ==
  /\ peers = {}
  /\ route = [a \in Aliases |-> NoTunnel]
  /\ up = {}
  /\ sent = Refused

(* Decide: OK with the tunnel's tag, or ERR. *)
Decide(a) == IF route[a] \in up THEN route[a] ELSE NoTunnel

(* cache_peer_access <peer> allow tun_up, deny all. *)
PeerAllowed(peer, tag) == tag # NoTunnel

FirstUpParent(candidates) == Min(candidates)

Reconfigure ==
  /\ peers' \in SUBSET Names
  /\ UNCHANGED <<route, up, sent>>

SetRoute ==
  /\ \E a \in Aliases, n \in Names : route' = [route EXCEPT ![a] = n]
  /\ UNCHANGED <<peers, up, sent>>

StatusChange ==
  /\ up' \in SUBSET Names
  /\ UNCHANGED <<peers, route, sent>>

(* http_access deny !tun_up, then peer selection under never_direct. *)
Request(a) ==
  /\ LET tag == Decide(a)
         candidates == {n \in peers : PeerAllowed(n, tag)}
     IN  sent' = IF candidates = {} THEN Refused
                 ELSE [tag |-> tag, peer |-> FirstUpParent(candidates)]
  /\ UNCHANGED <<peers, route, up>>

Next == Reconfigure \/ SetRoute \/ StatusChange \/ \E a \in Aliases : Request(a)

Spec == Init /\ [][Next]_vars

(* "OK tag=<tunnel> (route this request to that tunnel's cache_peer)"      *)
(* (cmd/acl-helper/main.go:4-5): a request that is let through leaves by   *)
(* the peer of the tunnel its answer named.                                *)
LeavesByItsTunnel == sent # Refused => sent.peer = sent.tag

==============================================================================
