------------------------------ MODULE EventFeed ------------------------------
(***************************************************************************)
(* The live event feed: healthd publishes a profile's state changes on     *)
(* vpn:events (runProfile, PublishEvent), and every GET /events request    *)
(* has a subscription, a goroutine forwarding from it (SubscribeEvents)    *)
(* and a handler writing Server-Sent Events (handlers.go, events).         *)
(*                                                                         *)
(* A payload is the number of its publication; Junk is one that does not   *)
(* decode.  go-redis keeps ChanSize messages per subscription, drops those *)
(* that find it full for a minute, and resubscribes by itself when the     *)
(* connection breaks.                                                      *)
(***************************************************************************)
EXTENDS Naturals, Sequences, FiniteSets, Functions

CONSTANTS
  Profiles,   \* profiles healthd polls
  Clients,    \* GET /events requests, each made once
  ChanSize,   \* messages a subscription's channel holds
  MaxEvents   \* bound on the publications

ASSUME FeedAssumption == ChanSize \in Nat \ {0} /\ MaxEvents \in Nat

Junk == 0

VARIABLES
  verdict,   \* verdict[p]: what DecideHealth would say of p now
  reported,  \* reported[p]: lastReported in runProfile
  count,     \* publications so far
  sent,      \* the numbers of the events Redis accepted
  ctx,       \* ctx[c]: the request's context is done
  hpc,       \* hpc[c]: where the handler is
  fpc,       \* fpc[c]: where the forwarding goroutine is
  linked,    \* linked[c]: Redis has c's subscription
  inbox,     \* inbox[c]: the subscription's channel
  held,      \* held[c]: e, in the forwarder's hands
  frame,     \* frame[c]: ev, in the handler's hands
  busOpen,   \* the API's Redis client is open
  since,     \* since[c]: publications before the response headers went out
  broken,    \* broken[c]: c's subscription has missed messages
  wire,      \* wire[c]: the events that entered c's channel
  seen       \* seen[c]: the events written to c

pubVars == <<verdict, reported, count, sent>>
endVars == <<ctx, hpc, fpc, linked>>
msgVars == <<inbox, held, frame, wire, seen>>
feedVars == <<pubVars, endVars, msgVars, busOpen, since, broken>>

States == {"up", "down"}

FeedTypeOK ==
  /\ verdict \in [Profiles -> States]
  /\ reported \in [Profiles -> States \cup {"unknown"}]
  /\ count \in 0 .. MaxEvents
  /\ sent \subseteq 1 .. count
  /\ ctx \in [Clients -> BOOLEAN]
  /\ hpc \in [Clients -> {"none", "subscribe", "select", "write", "done"}]
  /\ fpc \in [Clients -> {"none", "select", "send", "done"}]
  /\ linked \in [Clients -> BOOLEAN]
  /\ \A c \in Clients : /\ Len(inbox[c]) <= ChanSize
                        /\ Range(inbox[c]) \subseteq 0 .. count
                        /\ Range(wire[c]) \cup Range(seen[c]) \subseteq sent
  /\ held \in [Clients -> 0 .. count]
  /\ frame \in [Clients -> 0 .. count]
  /\ busOpen \in BOOLEAN
  /\ since \in [Clients -> 0 .. count]
  /\ broken \in [Clients -> BOOLEAN]

FeedInit ==
  /\ verdict \in [Profiles -> States]
  /\ reported = [p \in Profiles |-> "unknown"]
  /\ count = 0 /\ sent = {}
  /\ ctx = [c \in Clients |-> FALSE]
  /\ hpc = [c \in Clients |-> "none"]
  /\ fpc = [c \in Clients |-> "none"]
  /\ linked = [c \in Clients |-> FALSE]
  /\ inbox = [c \in Clients |-> <<>>]
  /\ held = [c \in Clients |-> Junk]
  /\ frame = [c \in Clients |-> Junk]
  /\ busOpen = TRUE
  /\ since = [c \in Clients |-> 0]
  /\ broken = [c \in Clients |-> FALSE]
  /\ wire = [c \in Clients |-> <<>>]
  /\ seen = [c \in Clients |-> <<>>]

------------------------------------------------------------------------------
(* Redis: a payload published k times (a retried PUBLISH is repeated)      *)
(* enters the channel of every subscription it has, as far as it fits.     *)

Copies(n, k) == [i \in 1 .. k |-> n]

(* Mutant: a channel without a limit. *)
Accepted_All(c, k) == IF linked[c] THEN k ELSE 0

Accepted(c, k) ==
  IF linked[c] /\ Len(inbox[c]) + k <= ChanSize THEN k
  ELSE IF linked[c] THEN ChanSize - Len(inbox[c]) ELSE 0

Publish(n, k) ==
  /\ count < MaxEvents
  /\ count' = count + 1
  /\ inbox' = [c \in Clients |-> inbox[c] \o Copies(n, Accepted(c, k))]
  /\ wire' = [c \in Clients |-> IF n = Junk THEN wire[c]
                                ELSE wire[c] \o Copies(n, Accepted(c, k))]
  /\ broken' = [c \in Clients |-> broken[c] \/ (linked[c] /\ Accepted(c, k) < k)]
  /\ UNCHANGED <<endVars, held, frame, seen, busOpen, since>>

(* Another client of Redis publishes something that is not an event. *)
PublishJunk ==
  /\ Publish(Junk, 1)
  /\ UNCHANGED <<verdict, reported, sent>>

(* The connection of c's subscription breaks; go-redis resubscribes. *)
LinkBreaks(c) ==
  /\ linked[c]
  /\ fpc[c] # "none"
  /\ linked' = [linked EXCEPT ![c] = FALSE]
  /\ broken' = [broken EXCEPT ![c] = TRUE]
  /\ UNCHANGED <<pubVars, ctx, hpc, fpc, msgVars, busOpen, since>>

Resubscribe(c) ==
  /\ fpc[c] \in {"select", "send"}
  /\ ~linked[c]
  /\ busOpen
  /\ linked' = [linked EXCEPT ![c] = TRUE]
  /\ UNCHANGED <<pubVars, ctx, hpc, fpc, msgVars, busOpen, since, broken>>

------------------------------------------------------------------------------
(* healthd *)

VerdictChanges(p) ==
  /\ verdict' = [verdict EXCEPT ![p] = IF @ = "up" THEN "down" ELSE "up"]
  /\ UNCHANGED <<reported, count, sent, endVars, msgVars, busOpen, since, broken>>

(* One tick of runProfile that finds the state changed: PublishEvent       *)
(* succeeds (twice, if its first answer was lost) ...                      *)
Report(p) ==
  /\ verdict[p] # reported[p]
  /\ \E k \in 1 .. 2 : Publish(count + 1, k)
  /\ sent' = sent \cup {count + 1}
  /\ reported' = [reported EXCEPT ![p] = verdict[p]]
  /\ UNCHANGED verdict

(* ... or fails, and the state counts as reported all the same. *)
ReportFails(p) ==
  /\ verdict[p] # reported[p]
  /\ count < MaxEvents
  /\ reported' = [reported EXCEPT ![p] = verdict[p]]
  /\ UNCHANGED <<verdict, count, sent, endVars, msgVars, busOpen, since, broken>>

HealthdRestarts ==
  /\ reported' = [p \in Profiles |-> "unknown"]
  /\ UNCHANGED <<verdict, count, sent, endVars, msgVars, busOpen, since, broken>>

------------------------------------------------------------------------------
(* SubscribeEvents and the events handler.  The handler's return cancels   *)
(* the request's context, as the client's disconnection does.              *)

Return(c) ==
  /\ hpc' = [hpc EXCEPT ![c] = "done"]
  /\ ctx' = [ctx EXCEPT ![c] = TRUE]
  /\ frame' = [frame EXCEPT ![c] = Junk]

(* GET /events: SUBSCRIBE is sent. *)
Connect(c) ==
  /\ hpc[c] = "none"
  /\ hpc' = [hpc EXCEPT ![c] = "subscribe"]
  /\ UNCHANGED <<pubVars, ctx, fpc, linked, msgVars, busOpen, since, broken>>

(* Redis takes the subscription and confirms it. *)
Subscribed(c) ==
  /\ hpc[c] = "subscribe"
  /\ ~linked[c]
  /\ linked' = [linked EXCEPT ![c] = TRUE]
  /\ UNCHANGED <<pubVars, ctx, hpc, fpc, msgVars, busOpen, since, broken>>

(* Mutant: the confirmation is not waited for. *)
StartStream_NoReceive(c) ==
  /\ hpc[c] = "subscribe"
  /\ fpc' = [fpc EXCEPT ![c] = "select"]
  /\ hpc' = [hpc EXCEPT ![c] = "select"]
  /\ since' = [since EXCEPT ![c] = count]
  /\ UNCHANGED <<pubVars, ctx, linked, msgVars, busOpen, broken>>

(* sub.Receive returns; the goroutine starts and the headers are flushed. *)
StartStream(c) ==
  /\ hpc[c] = "subscribe"
  /\ linked[c]
  /\ fpc' = [fpc EXCEPT ![c] = "select"]
  /\ hpc' = [hpc EXCEPT ![c] = "select"]
  /\ since' = [since EXCEPT ![c] = count]
  /\ UNCHANGED <<pubVars, ctx, linked, msgVars, busOpen, broken>>

(* sub.Receive fails: sub.Close and 502. *)
SubscribeFails(c) ==
  /\ hpc[c] = "subscribe"
  /\ Return(c)
  /\ linked' = [linked EXCEPT ![c] = FALSE]
  /\ inbox' = [inbox EXCEPT ![c] = <<>>]
  /\ UNCHANGED <<pubVars, fpc, held, wire, seen, busOpen, since, broken>>

Disconnect(c) ==
  /\ hpc[c] \notin {"none", "done"}
  /\ ~ctx[c]
  /\ ctx' = [ctx EXCEPT ![c] = TRUE]
  /\ UNCHANGED <<pubVars, hpc, fpc, linked, msgVars, busOpen, since, broken>>

(* Mutant: a message is dropped when the handler is not ready for it. *)
Receive_Drops(c) ==
  /\ fpc[c] = "select"
  /\ inbox[c] # <<>>
  /\ inbox' = [inbox EXCEPT ![c] = Tail(@)]
  /\ IF Head(inbox[c]) = Junk \/ hpc[c] # "select"
     THEN UNCHANGED <<held, fpc>>
     ELSE /\ held' = [held EXCEPT ![c] = Head(inbox[c])]
          /\ fpc' = [fpc EXCEPT ![c] = "send"]
  /\ UNCHANGED <<pubVars, ctx, hpc, linked, frame, wire, seen, busOpen, since, broken>>

(* A message is taken from the channel; what does not decode is skipped. *)
Receive(c) ==
  /\ fpc[c] = "select"
  /\ inbox[c] # <<>>
  /\ inbox' = [inbox EXCEPT ![c] = Tail(@)]
  /\ IF Head(inbox[c]) = Junk
     THEN UNCHANGED <<held, fpc>>
     ELSE /\ held' = [held EXCEPT ![c] = Head(inbox[c])]
          /\ fpc' = [fpc EXCEPT ![c] = "send"]
  /\ UNCHANGED <<pubVars, ctx, hpc, linked, frame, wire, seen, busOpen, since, broken>>

(* out is not buffered: the send happens when the handler receives. *)
Send(c) ==
  /\ fpc[c] = "send"
  /\ hpc[c] = "select"
  /\ fpc' = [fpc EXCEPT ![c] = "select"]
  /\ hpc' = [hpc EXCEPT ![c] = "write"]
  /\ held' = [held EXCEPT ![c] = Junk]
  /\ frame' = [frame EXCEPT ![c] = held[c]]
  /\ UNCHANGED <<pubVars, ctx, linked, inbox, wire, seen, busOpen, since, broken>>

(* The goroutine returns: close(out) and sub.Close. *)
StopForwarder(c) ==
  /\ fpc' = [fpc EXCEPT ![c] = "done"]
  /\ linked' = [linked EXCEPT ![c] = FALSE]
  /\ inbox' = [inbox EXCEPT ![c] = <<>>]
  /\ held' = [held EXCEPT ![c] = Junk]
  /\ UNCHANGED <<pubVars, ctx, hpc, frame, wire, seen, busOpen, since, broken>>

(* Mutant: the send does not watch the context. *)
Cancelled_NotInSend(c) ==
  /\ fpc[c] = "select"
  /\ ctx[c]
  /\ StopForwarder(c)

(* ctx.Done, in either select of the goroutine. *)
Cancelled(c) ==
  /\ fpc[c] \in {"select", "send"}
  /\ ctx[c]
  /\ StopForwarder(c)

(* The process closes its Redis client (run, in cmd/api), streams or not. *)
BusCloses ==
  /\ busOpen
  /\ busOpen' = FALSE
  /\ UNCHANGED <<pubVars, endVars, msgVars, since, broken>>

(* The subscription's channel is closed with the Redis client. *)
ChannelClosed(c) ==
  /\ fpc[c] = "select"
  /\ ~busOpen
  /\ StopForwarder(c)

WriteFrame(c) ==
  /\ hpc[c] = "write"
  /\ seen' = [seen EXCEPT ![c] = Append(@, frame[c])]
  /\ frame' = [frame EXCEPT ![c] = Junk]
  /\ hpc' = [hpc EXCEPT ![c] = "select"]
  /\ UNCHANGED <<pubVars, ctx, fpc, linked, inbox, held, wire, busOpen, since, broken>>

(* Mutant: the error of a write is ignored, and the loop goes on. *)
WriteFails_GoesOn(c) ==
  /\ hpc[c] = "write"
  /\ frame' = [frame EXCEPT ![c] = Junk]
  /\ hpc' = [hpc EXCEPT ![c] = "select"]
  /\ UNCHANGED <<pubVars, ctx, fpc, linked, inbox, held, wire, seen, busOpen, since, broken>>

(* The frame cannot be written. *)
WriteFails(c) ==
  /\ hpc[c] = "write"
  /\ Return(c)
  /\ UNCHANGED <<pubVars, fpc, linked, inbox, held, wire, seen, busOpen, since, broken>>

(* The context is done, or out is closed. *)
StreamEnds(c) ==
  /\ hpc[c] = "select"
  /\ ctx[c] \/ fpc[c] = "done"
  /\ Return(c)
  /\ UNCHANGED <<pubVars, fpc, linked, inbox, held, wire, seen, busOpen, since, broken>>

------------------------------------------------------------------------------
PublisherNext ==
  \/ PublishJunk
  \/ HealthdRestarts
  \/ \E p \in Profiles : VerdictChanges(p) \/ Report(p) \/ ReportFails(p)

StreamStep(c) ==
  \/ LinkBreaks(c) \/ Resubscribe(c)
  \/ Subscribed(c) \/ StartStream(c) \/ SubscribeFails(c) \/ Disconnect(c)
  \/ Receive(c) \/ Send(c) \/ Cancelled(c) \/ ChannelClosed(c)
  \/ WriteFrame(c) \/ WriteFails(c) \/ StreamEnds(c)

FeedNext ==
  \/ PublisherNext \/ BusCloses
  \/ \E c \in Clients : Connect(c) \/ StreamStep(c)

FeedSpec == FeedInit /\ [][FeedNext]_feedVars

(* healthd keeps polling, the goroutines of a request keep running, and a  *)
(* blocked write ends when the client reads or its connection fails.  No   *)
(* one owes it to the feed to change a verdict, to connect or to           *)
(* disconnect.                                                             *)
Fairness ==
  /\ \A p \in Profiles : WF_feedVars(Report(p) \/ ReportFails(p))
  /\ \A c \in Clients :
       /\ WF_feedVars(StartStream(c) \/ SubscribeFails(c))
       /\ WF_feedVars(Receive(c)) /\ WF_feedVars(Send(c))
       /\ WF_feedVars(Cancelled(c)) /\ WF_feedVars(ChannelClosed(c))
       /\ WF_feedVars(WriteFrame(c) \/ WriteFails(c))
       /\ WF_feedVars(StreamEnds(c))

FairFeed == FeedSpec /\ Fairness

------------------------------------------------------------------------------
Streaming(c) == hpc[c] \in {"select", "write"} /\ fpc[c] \in {"select", "send"}

(* How many of the first j messages of q are events. *)
Rank(q, j) == Cardinality({i \in 1 .. j : q[i] # Junk})

(* w lists the events among the messages of q, in their order. *)
EventsOf(w, q) ==
  /\ Len(w) = Rank(q, Len(q))
  /\ \A j \in 1 .. Len(q) : q[j] # Junk => w[Rank(q, j)] = q[j]

(* Where c's messages are, from the oldest to the newest: written, in the  *)
(* handler's hands, in the forwarder's, in the channel.                    *)
Pipeline(c) == seen[c] \o <<frame[c], held[c]>> \o inbox[c]

(* The forwarder and the handler of an open stream neither lose, repeat    *)
(* nor reorder what entered the subscription's channel, whatever the       *)
(* client's pace: an event is written, in the handler's hands, in the      *)
(* forwarder's, or still in the channel.                                   *)
NothingLostInside == \A c \in Clients : Streaming(c) => EventsOf(wire[c], Pipeline(c))

(* "Wait for the subscription to be established so a publish that races    *)
(* the subscribe is not silently lost" (client.go:183-184): a client whose *)
(* connection to Redis never broke and whose channel never overflowed gets *)
(* every event accepted after it saw the response's headers.               *)
NothingMissedAfterHeaders ==
  \A c \in Clients :
    Streaming(c) /\ ~broken[c] =>
      \A n \in sent : n > since[c] => n \in Range(wire[c])

(* What a client can tell of its request: whether its stream is open, and  *)
(* whether a last event is being written although its source is gone.      *)
PhaseOf(c) ==
  CASE hpc[c] \in {"none", "subscribe"} -> "new"
    [] Streaming(c) -> "open"
    [] hpc[c] = "write" /\ ~Streaming(c) -> "last"
    [] OTHER -> "over"

Phases == [c \in Clients |-> PhaseOf(c)]

Broken == {c \in Clients : broken[c]}

Stream == INSTANCE EventStream WITH
            Numbers <- 1 .. MaxEvents, published <- sent, phase <- Phases,
            cut <- Broken, accepted <- wire, shown <- seen

(* Redis, go-redis' channel, the forwarding goroutine and the handler are, *)
(* together, the stream that EventStream describes: a client is shown the  *)
(* events in the order of their publication, from the headers on and       *)
(* without a gap as long as its subscription was not cut, and at most one  *)
(* more once its source is gone.                                           *)
ImplementsStream == Stream!StreamSpec

(* When a request's context ends, through the client or through a failed   *)
(* write, its handler and its goroutine end too, and Redis loses the       *)
(* subscription: no stream is left behind.                                 *)
StreamReleased ==
  \A c \in Clients :
    ctx[c] ~> hpc[c] = "done" /\ fpc[c] \in {"none", "done"} /\ ~linked[c]

(* An event that entered the channel is written, unless the stream ends. *)
EventShown ==
  \A c \in Clients : \A n \in 1 .. MaxEvents :
    n \in Range(wire[c]) ~> (n \in Range(seen[c]) \/ hpc[c] = "done")

==============================================================================
