------------------------------- MODULE MCFeed --------------------------------
(* The event feed and one stream. *)
EXTENDS EventFeed

IsEvent(n) == n # Junk

SomeMessages == UNION {[1 .. n -> 0 .. 2] : n \in 0 .. 4}

(* EventsOf is what filtering gives. *)
ASSUME FilterAgrees ==
  \A q, w \in SomeMessages : EventsOf(w, q) <=> w = SelectSeq(q, IsEvent)

==============================================================================
