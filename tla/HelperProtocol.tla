---------------------------- MODULE HelperProtocol ---------------------------
(***************************************************************************)
(* What Squid may count on of an ACL helper, without lines, fields, pipes, *)
(* framings or signals: a request is open in its slot until it has an      *)
(* answer, which is its own and the only one, and which is OK only if the  *)
(* request names a host; a helper that goes away takes its open requests   *)
(* with it.  AclLoop implements this specification.                        *)
(***************************************************************************)
CONSTANTS
  Slots,    \* where a request may be open
  Hosts,    \* hosts a request may name
  NoHost,   \* a request that names none
  Free      \* no request is open

VARIABLES
  asked,    \* asked[s]: the host of the request open in s, or NoHost, or Free
  answer    \* answer[s]: "OK" or "ERR", "none" while there is none

protocolVars == <<asked, answer>>

ProtocolInit ==
  /\ asked = [s \in Slots |-> Free]
  /\ answer = [s \in Slots |-> "none"]

Ask(s) ==
  /\ asked[s] = Free
  /\ \E h \in Hosts \cup {NoHost} : asked' = [asked EXCEPT ![s] = h]
  /\ UNCHANGED answer

Answer(s) ==
  /\ asked[s] # Free
  /\ answer[s] = "none"
  /\ \E verdict \in IF asked[s] = NoHost THEN {"ERR"} ELSE {"OK", "ERR"} :
       answer' = [answer EXCEPT ![s] = verdict]
  /\ UNCHANGED asked

(* Squid takes the answer. *)
Take(s) ==
  /\ answer[s] # "none"
  /\ asked' = [asked EXCEPT ![s] = Free]
  /\ answer' = [answer EXCEPT ![s] = "none"]

(* The helper is gone and what it wrote has been read. *)
Abandon ==
  /\ \A s \in Slots : answer[s] = "none"
  /\ asked' = [s \in Slots |-> Free]
  /\ UNCHANGED answer

ProtocolNext ==
  \/ \E s \in Slots : Ask(s) \/ Answer(s) \/ Take(s)
  \/ Abandon

ProtocolSpec == ProtocolInit /\ [][ProtocolNext]_protocolVars

==============================================================================
