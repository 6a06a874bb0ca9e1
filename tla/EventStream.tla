---------------------------- MODULE EventStream ----------------------------
(***************************************************************************)
(* What GET /events promises its clients: each has a stream of its own,    *)
(* fed with the published events in their order.  A stream that was not    *)
(* cut gets every event published while it is open, and shows what it got  *)
(* one by one, with nothing left out, repeated or overtaken.               *)
(***************************************************************************)
EXTENDS Naturals, Sequences

CONSTANTS
  Clients,  \* the requests
  Numbers   \* the numbers events are published under, growing

VARIABLES
  published,  \* the numbers of the events published
  phase,      \* phase[c]: "new", "open", "last" (one write to go) or "over"
  cut,        \* the clients whose stream may miss events
  accepted,   \* accepted[c]: the events that entered c's stream
  shown       \* shown[c]: those written to c

streamVars == <<published, phase, cut, accepted, shown>>

StreamInit ==
  /\ published = {}
  /\ phase = [c \in Clients |-> "new"]
  /\ cut = {}
  /\ accepted = [c \in Clients |-> <<>>]
  /\ shown = [c \in Clients |-> <<>>]

(* n enters the streams, k[c] times that of c: twice where the publisher   *)
(* was not told and repeated it.                                           *)
Publish ==
  \E n \in Numbers, k \in [Clients -> 0 .. 2] :
    /\ \A m \in published : m < n
    /\ published' = published \cup {n}
    /\ accepted' = [c \in Clients |-> accepted[c] \o [i \in 1 .. k[c] |-> n]]
    /\ cut \subseteq cut'
    /\ \A c \in Clients : phase[c] = "open" /\ k[c] = 0 => c \in cut'
    /\ UNCHANGED <<phase, shown>>

(* The connection behind a stream breaks, or its buffer overflows. *)
Cut ==
  /\ cut \subseteq cut'
  /\ UNCHANGED <<published, phase, accepted, shown>>

Move(c, from, to) ==
  /\ phase[c] = from
  /\ phase' = [phase EXCEPT ![c] = to]

Open(c) == Move(c, "new", "open") /\ UNCHANGED <<published, cut, accepted, shown>>

Refuse(c) == Move(c, "new", "over") /\ UNCHANGED <<published, cut, accepted, shown>>

(* A stream ends at once, or with the event that is being written. *)
Close(c) ==
  /\ Move(c, "open", "over") \/ Move(c, "open", "last") \/ Move(c, "last", "over")
  /\ UNCHANGED <<published, cut, accepted, shown>>

(* The oldest event not shown yet is shown. *)
Show(c) ==
  /\ Len(shown[c]) < Len(accepted[c])
  /\ shown' = [shown EXCEPT ![c] = Append(@, accepted[c][Len(@) + 1])]
  /\ \/ phase[c] = "open" /\ UNCHANGED phase
     \/ Move(c, "last", "over")
  /\ UNCHANGED <<published, cut, accepted>>

StreamNext ==
  \/ Publish \/ Cut
  \/ \E c \in Clients : Open(c) \/ Refuse(c) \/ Close(c) \/ Show(c)

StreamSpec == StreamInit /\ [][StreamNext]_streamVars

==============================================================================
