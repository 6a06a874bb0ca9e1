--------------------------- MODULE ApiServerProofs ---------------------------
(***************************************************************************)
(* The event feed delivers in order what entered it, for any number of     *)
(* clients, profiles and publications; the API server runs it as specified *)
(* and never serves before TLS stands, and it stops cleanly.               *)
(***************************************************************************)
EXTENDS ApiServer, EventFeedLemmas

(* The feed's types, its sequences included. *)
FeedTyped ==
  /\ verdict \in [Profiles -> States]
  /\ reported \in [Profiles -> States \cup {"unknown"}]
  /\ count \in 0 .. MaxEvents
  /\ sent \subseteq 1 .. count
  /\ ctx \in [Clients -> BOOLEAN]
  /\ hpc \in [Clients -> {"none", "subscribe", "select", "write", "done"}]
  /\ fpc \in [Clients -> {"none", "select", "send", "done"}]
  /\ linked \in [Clients -> BOOLEAN]
  /\ inbox \in [Clients -> Seq(sent \cup {Junk})]
  /\ \A c \in Clients : Len(inbox[c]) <= ChanSize
  /\ held \in [Clients -> sent \cup {Junk}]
  /\ frame \in [Clients -> sent \cup {Junk}]
  /\ busOpen \in BOOLEAN
  /\ since \in [Clients -> 0 .. count]
  /\ broken \in [Clients -> BOOLEAN]
  /\ wire \in [Clients -> Seq(sent)]
  /\ seen \in [Clients -> Seq(sent)]

(* Before its headers a stream has no goroutine, and nothing was taken     *)
(* from its channel.                                                       *)
Opening(c) == hpc[c] \in {"none", "subscribe"}

(* Who has an event in hand. *)
Hands ==
  \A c \in Clients :
    /\ Opening(c) => fpc[c] = "none" /\ held[c] = Junk /\ frame[c] = Junk
    /\ hpc[c] = "select" => frame[c] = Junk
    /\ hpc[c] = "write" => frame[c] # Junk
    /\ fpc[c] = "select" => held[c] = Junk
    /\ fpc[c] = "send" => held[c] # Junk

(* Nothing is lost inside, from before the headers on. *)
InOrder == \A c \in Clients : Opening(c) \/ Streaming(c) => EventsOf(wire[c], Pipeline(c))

(* A stream that never broke is linked and has every event since it began. *)
Complete ==
  \A c \in Clients : Streaming(c) /\ ~broken[c] =>
    linked[c] /\ \A n \in sent : n > since[c] => n \in Range(wire[c])

FeedIInv == FeedTyped /\ Hands /\ InOrder /\ Complete

(* The types of Start's variables. *)
Flags == tls \in BOOLEAN /\ signalled \in BOOLEAN

StartTyped ==
  /\ spc \in StartSteps /\ mtls \in Sockets /\ metrics \in Sockets
  /\ errCh \in {"", "bind", "accept", "ErrServerClosed"}
  /\ shut \subseteq {"mtls", "metrics"}
  /\ err \in {"", "tls", "bind", "accept", "deadline", "ErrServerClosed"}

(* What stands at each of Start's steps. *)
Progress ==
  /\ ~tls => mtls = "off" /\ metrics = "off" /\ Busy = {}
  /\ spc = "tls" => ~tls
  /\ spc \in {"metrics", "listen", "select", "drain"} => tls
  /\ spc \in {"tls", "metrics", "listen", "select"} => shut = {}
  /\ spc = "drain" => signalled
  /\ spc \notin {"defer", "returned", "closed"} => err = ""

(* Why Start returns an error. *)
Reasons ==
  err # "" => \/ err = "tls" /\ ~tls
              \/ err \in {"bind", "accept"} /\ "mtls" \notin shut
              \/ err = "deadline" /\ signalled /\ \E c \in Clients : hpc[c] # "none"

StartInv == Flags /\ StartTyped /\ Progress /\ Reasons

------------------------------------------------------------------------------
(* The feed's steps keep the types.                                        *)

(* What a channel accepts fits it. *)
LEMMA AcceptedFits ==
  ASSUME FeedTyped, NEW c \in Clients, NEW k \in Nat
  PROVE  /\ Accepted(c, k) \in Nat
         /\ Accepted(c, k) <= k
         /\ Len(inbox[c]) + Accepted(c, k) <= ChanSize
         /\ ~linked[c] => Accepted(c, k) = 0
<1>1. Len(inbox[c]) \in Nat /\ Len(inbox[c]) <= ChanSize /\ ChanSize \in Nat
  BY FeedAssumption DEF FeedTyped
<1>2. CASE linked[c] /\ Len(inbox[c]) + k <= ChanSize
  BY <1>1, <1>2 DEF Accepted
<1>3. CASE linked[c] /\ ~(Len(inbox[c]) + k <= ChanSize)
  BY <1>1, <1>3 DEF Accepted
<1>4. CASE ~linked[c]
  BY <1>1, <1>4 DEF Accepted
<1> QED
  BY <1>2, <1>3, <1>4

(* The sequences of a longer feed are typed by what was sent before. *)
LEMMA SentGrows ==
  ASSUME NEW A, NEW B, A \subseteq B,
         NEW f \in [Clients -> Seq(A)]
  PROVE  f \in [Clients -> Seq(B)]
<1>1. \A c \in Clients : f[c] \in Seq(B)
  BY SeqMonotonic
<1> QED
  BY <1>1

(* A publication keeps the types. *)
LEMMA PublishTyped ==
  ASSUME FeedTyped, NEW n, NEW k \in Nat, Publish(n, k),
         sent \subseteq sent', sent' \subseteq 1 .. count',
         n = Junk \/ n \in sent',
         verdict' \in [Profiles -> States],
         reported' \in [Profiles -> States \cup {"unknown"}]
  PROVE  FeedTyped'
<1> DEFINE A == sent
           B == sent'
           a(c) == Accepted(c, k)
<1>1. A \subseteq B /\ A \cup {Junk} \subseteq B \cup {Junk}
  OBVIOUS
<1>2. /\ inbox \in [Clients -> Seq(A \cup {Junk})]
      /\ wire \in [Clients -> Seq(A)] /\ seen \in [Clients -> Seq(A)]
  BY DEF FeedTyped
<1> HIDE DEF A, B
<1>3. /\ inbox \in [Clients -> Seq(B \cup {Junk})]
      /\ wire \in [Clients -> Seq(B)] /\ seen \in [Clients -> Seq(B)]
  BY <1>1, <1>2, SentGrows
<1>4. \A c \in Clients : a(c) \in Nat /\ Len(inbox[c]) + a(c) <= ChanSize
  BY AcceptedFits
<1>5. ASSUME NEW c \in Clients
      PROVE  /\ inbox[c] \o Copies(n, a(c)) \in Seq(B \cup {Junk})
             /\ Len(inbox[c] \o Copies(n, a(c))) <= ChanSize
             /\ n # Junk => wire[c] \o Copies(n, a(c)) \in Seq(B)
  <2>1. n \in B \cup {Junk} /\ (n # Junk => n \in B)
    BY DEF B
  <2>2. Copies(n, a(c)) \in Seq(B \cup {Junk}) /\ Len(Copies(n, a(c))) = a(c)
    BY <1>4, <2>1, CopiesSeq
  <2>3. n # Junk => Copies(n, a(c)) \in Seq(B)
    BY <1>4, <2>1, CopiesSeq
  <2>4. inbox[c] \in Seq(B \cup {Junk}) /\ wire[c] \in Seq(B)
    BY <1>3
  <2>5. /\ inbox[c] \o Copies(n, a(c)) \in Seq(B \cup {Junk})
        /\ Len(inbox[c] \o Copies(n, a(c))) = Len(inbox[c]) + Len(Copies(n, a(c)))
    BY <2>2, <2>4, ConcatProperties
  <2>6. n # Junk => wire[c] \o Copies(n, a(c)) \in Seq(B)
    BY <2>3, <2>4, ConcatProperties
  <2> QED
    BY <1>4, <2>2, <2>5, <2>6
<1>6. /\ inbox' \in [Clients -> Seq(B \cup {Junk})]
      /\ wire' \in [Clients -> Seq(B)]
      /\ \A c \in Clients : Len(inbox'[c]) <= ChanSize
  BY <1>3, <1>5 DEF Publish
<1>7. count' \in 0 .. MaxEvents /\ count' = count + 1
  BY FeedAssumption DEF Publish, FeedTyped
<1>8. broken' \in [Clients -> BOOLEAN]
  BY DEF Publish, FeedTyped
<1>9. since' \in [Clients -> 0 .. count']
  BY <1>7 DEF Publish, FeedTyped
<1>10. /\ held' \in [Clients -> B \cup {Junk}] /\ frame' \in [Clients -> B \cup {Junk}]
       /\ seen' \in [Clients -> Seq(B)]
  BY <1>1, <1>3 DEF Publish, FeedTyped, A
<1>11. UNCHANGED <<ctx, hpc, fpc, linked, busOpen>>
  BY DEF Publish, endVars
<1> QED
  BY <1>6, <1>7, <1>8, <1>9, <1>10, <1>11 DEF FeedTyped, B

(* Every step keeps the types. *)
LEMMA TypedStep ==
  ASSUME FeedTyped, Hands, FeedNext
  PROVE  FeedTyped'
<1> USE DEF pubVars, endVars, msgVars
<1>1. CASE PublishJunk
  <2>1. 1 \in Nat /\ Publish(Junk, 1) /\ UNCHANGED <<verdict, reported, sent>>
    BY <1>1 DEF PublishJunk
  <2>2. count' = count + 1 /\ count \in Nat
    BY <2>1 DEF Publish, FeedTyped
  <2>3. sent' \subseteq 1 .. count'
    BY <2>1, <2>2 DEF FeedTyped
  <2> QED
    BY <2>1, <2>3, PublishTyped DEF FeedTyped
<1>2. CASE HealthdRestarts
  BY <1>2 DEF HealthdRestarts, FeedTyped
<1>3. ASSUME NEW p \in Profiles, VerdictChanges(p)
      PROVE  FeedTyped'
  BY <1>3 DEF VerdictChanges, FeedTyped, States
<1>4. ASSUME NEW p \in Profiles, Report(p)
      PROVE  FeedTyped'
  <2>1. PICK k \in 1 .. 2 : Publish(count + 1, k)
    BY <1>4 DEF Report
  <2>2. k \in Nat /\ count' = count + 1 /\ count \in Nat
    BY <2>1 DEF Publish, FeedTyped
  <2>3. sent \subseteq sent' /\ sent' \subseteq 1 .. count' /\ count + 1 \in sent'
    BY <1>4, <2>2 DEF Report, FeedTyped
  <2>4. verdict' \in [Profiles -> States] /\ reported' \in [Profiles -> States \cup {"unknown"}]
    BY <1>4 DEF Report, FeedTyped
  <2> QED
    BY <2>1, <2>2, <2>3, <2>4, PublishTyped
<1>5. ASSUME NEW p \in Profiles, ReportFails(p)
      PROVE  FeedTyped'
  BY <1>5 DEF ReportFails, FeedTyped
<1>6. CASE BusCloses
  BY <1>6 DEF BusCloses, FeedTyped
<1>7. ASSUME NEW c \in Clients, Connect(c) \/ LinkBreaks(c) \/ Resubscribe(c) \/ Subscribed(c)
      PROVE  FeedTyped'
  BY <1>7 DEF Connect, LinkBreaks, Resubscribe, Subscribed, FeedTyped
<1>8. ASSUME NEW c \in Clients, StartStream(c) \/ Disconnect(c)
      PROVE  FeedTyped'
  <2>1. CASE StartStream(c)
    <3>1. count \in 0 .. count
      BY DEF FeedTyped
    <3> QED
      BY <2>1, <3>1 DEF StartStream, FeedTyped
  <2>2. CASE Disconnect(c)
    BY <2>2 DEF Disconnect, FeedTyped
  <2> QED
    BY <1>8, <2>1, <2>2
<1>9. ASSUME NEW c \in Clients, SubscribeFails(c)
      PROVE  FeedTyped'
  <2>1. <<>> \in Seq(sent \cup {Junk}) /\ Len(<<>>) <= ChanSize
    BY FeedAssumption
  <2> QED
    BY <1>9, <2>1 DEF SubscribeFails, Return, FeedTyped
<1>10. ASSUME NEW c \in Clients, Receive(c)
       PROVE  FeedTyped'
  <2>1. inbox[c] \in Seq(sent \cup {Junk}) /\ inbox[c] # <<>>
    BY <1>10 DEF Receive, FeedTyped
  <2>2. /\ Head(inbox[c]) \in sent \cup {Junk} /\ Tail(inbox[c]) \in Seq(sent \cup {Junk})
        /\ Len(Tail(inbox[c])) <= ChanSize
    BY <2>1, HeadAndTail, FeedAssumption DEF FeedTyped
  <2> QED
    BY <1>10, <2>2 DEF Receive, FeedTyped
<1>11. ASSUME NEW c \in Clients, Send(c)
       PROVE  FeedTyped'
  BY <1>11 DEF Send, FeedTyped
<1>12. ASSUME NEW c \in Clients, StopForwarder(c)
       PROVE  FeedTyped'
  <2>1. <<>> \in Seq(sent \cup {Junk}) /\ Len(<<>>) <= ChanSize
    BY FeedAssumption
  <2> QED
    BY <1>12, <2>1 DEF StopForwarder, FeedTyped
<1>13. ASSUME NEW c \in Clients, WriteFrame(c)
       PROVE  FeedTyped'
  <2>1. frame[c] \in sent /\ seen[c] \in Seq(sent)
    BY <1>13 DEF WriteFrame, FeedTyped, Hands
  <2>2. Append(seen[c], frame[c]) \in Seq(sent)
    BY <2>1, AppendProperties
  <2> QED
    BY <1>13, <2>2 DEF WriteFrame, FeedTyped
<1>14. ASSUME NEW c \in Clients, WriteFails(c) \/ StreamEnds(c)
       PROVE  FeedTyped'
  BY <1>14 DEF WriteFails, StreamEnds, Return, FeedTyped
<1> QED
  BY <1>1, <1>2, <1>3, <1>4, <1>5, <1>6, <1>7, <1>8, <1>9, <1>10, <1>11, <1>12, <1>13, <1>14
  DEF FeedNext, PublisherNext, StreamStep, Cancelled, ChannelClosed

------------------------------------------------------------------------------
(* The feed's steps keep the invariant.                                    *)

(* Publications, healthd and the process leave a stream's ends alone. *)
LEMMA PublishersAway ==
  ASSUME PublisherNext \/ BusCloses
  PROVE  UNCHANGED <<ctx, hpc, fpc, linked, held, frame, seen, since>>
BY DEF PublisherNext, BusCloses, PublishJunk, HealthdRestarts, VerdictChanges, Report,
       ReportFails, Publish, endVars, msgVars

(* Every step keeps who has an event in hand. *)
LEMMA HandsStep ==
  ASSUME FeedTyped, Hands, FeedNext
  PROVE  Hands'
<1> SUFFICES ASSUME NEW d \in Clients
             PROVE  /\ Opening(d)' => fpc'[d] = "none" /\ held'[d] = Junk /\ frame'[d] = Junk
                    /\ hpc'[d] = "select" => frame'[d] = Junk
                    /\ hpc'[d] = "write" => frame'[d] # Junk
                    /\ fpc'[d] = "select" => held'[d] = Junk
                    /\ fpc'[d] = "send" => held'[d] # Junk
  BY DEF Hands
<1> USE DEF pubVars, endVars, msgVars, Opening
<1>0. /\ Opening(d) => fpc[d] = "none" /\ held[d] = Junk /\ frame[d] = Junk
      /\ hpc[d] = "select" => frame[d] = Junk
      /\ hpc[d] = "write" => frame[d] # Junk
      /\ fpc[d] = "select" => held[d] = Junk
      /\ fpc[d] = "send" => held[d] # Junk
  BY DEF Hands
<1>1. /\ hpc \in [Clients -> {"none", "subscribe", "select", "write", "done"}]
      /\ fpc \in [Clients -> {"none", "select", "send", "done"}]
      /\ held \in [Clients -> sent \cup {Junk}] /\ frame \in [Clients -> sent \cup {Junk}]
  BY DEF FeedTyped
<1>2. ASSUME NEW c \in Clients, \/ Connect(c) \/ LinkBreaks(c) \/ Resubscribe(c)
                                \/ Subscribed(c) \/ StartStream(c) \/ Disconnect(c)
      PROVE  /\ UNCHANGED <<held, frame>>
             /\ fpc'[d] = "none" => fpc[d] = "none"
             /\ fpc'[d] = "select" => held[d] = Junk
             /\ fpc'[d] = "send" => fpc[d] = "send"
             /\ Opening(d)' => Opening(d) /\ fpc'[d] = fpc[d]
             /\ hpc'[d] = "select" => frame[d] = Junk
             /\ hpc'[d] = "write" => hpc[d] = "write"
  BY <1>0, <1>1, <1>2 DEF Connect, LinkBreaks, Resubscribe, Subscribed, StartStream, Disconnect
<1>3. ASSUME NEW c \in Clients, SubscribeFails(c) \/ WriteFails(c) \/ StreamEnds(c)
      PROVE  /\ UNCHANGED <<held, fpc>>
             /\ hpc'[d] = "done" \/ (hpc'[d] = hpc[d] /\ frame'[d] = frame[d])
  BY <1>1, <1>3 DEF SubscribeFails, WriteFails, StreamEnds, Return
<1>4. ASSUME NEW c \in Clients, Receive(c)
      PROVE  /\ UNCHANGED <<frame, hpc>>
             /\ \/ fpc'[d] = fpc[d] /\ held'[d] = held[d]
                \/ fpc[d] = "select" /\ fpc'[d] = "send" /\ held'[d] # Junk
  BY <1>1, <1>4 DEF Receive
<1>5. ASSUME NEW c \in Clients, Send(c)
      PROVE  \/ UNCHANGED <<hpc[d], fpc[d], held[d], frame[d]>>
             \/ /\ fpc[d] = "send" /\ fpc'[d] = "select" /\ hpc'[d] = "write"
                /\ held'[d] = Junk /\ frame'[d] = held[d]
  BY <1>1, <1>5 DEF Send
<1>6. ASSUME NEW c \in Clients, Cancelled(c) \/ ChannelClosed(c)
      PROVE  /\ UNCHANGED <<frame, hpc>>
             /\ \/ fpc'[d] = fpc[d] /\ held'[d] = held[d]
                \/ fpc[d] # "none" /\ fpc'[d] = "done"
  BY <1>1, <1>6 DEF Cancelled, ChannelClosed, StopForwarder
<1>7. ASSUME NEW c \in Clients, WriteFrame(c)
      PROVE  /\ UNCHANGED <<held, fpc>>
             /\ \/ hpc'[d] = hpc[d] /\ frame'[d] = frame[d]
                \/ hpc'[d] = "select" /\ frame'[d] = Junk
  BY <1>1, <1>7 DEF WriteFrame
<1>8. CASE PublisherNext \/ BusCloses
  BY <1>0, <1>8, PublishersAway
<1>9. ASSUME NEW c \in Clients, Connect(c) \/ StreamStep(c)
      PROVE  /\ Opening(d)' => fpc'[d] = "none" /\ held'[d] = Junk /\ frame'[d] = Junk
             /\ hpc'[d] = "select" => frame'[d] = Junk
             /\ hpc'[d] = "write" => frame'[d] # Junk
             /\ fpc'[d] = "select" => held'[d] = Junk
             /\ fpc'[d] = "send" => held'[d] # Junk
  BY <1>0, <1>9, <1>2, <1>3, <1>4, <1>5, <1>6, <1>7 DEF StreamStep
<1> QED
  BY <1>8, <1>9 DEF FeedNext

(* One stream's messages are in order. *)
Ordered(c) ==
  Opening(c) \/ Streaming(c) =>
    EventsOf(wire[c], Pipe(seen[c], frame[c], held[c], inbox[c]))

(* The same, of all of them. *)
LEMMA InOrderMeans ==
  InOrder <=> \A c \in Clients : Ordered(c)
BY DEF InOrder, Ordered, Pipeline, Pipe

(* A stream no one touches stays in order. *)
LEMMA LeftAlone ==
  ASSUME NEW d \in Clients, Ordered(d),
         UNCHANGED <<wire[d], seen[d], frame[d], held[d], inbox[d]>>,
         (Opening(d) \/ Streaming(d))' => Opening(d) \/ Streaming(d)
  PROVE  Ordered(d)'
BY DEF Ordered

(* What a client's pipeline is made of. *)
LEMMA PipeTyped ==
  ASSUME FeedTyped, NEW c \in Clients
  PROVE  /\ Junk \in sent \cup {Junk}
         /\ seen[c] \in Seq(sent \cup {Junk}) /\ wire[c] \in Seq(sent \cup {Junk})
         /\ frame[c] \in sent \cup {Junk} /\ held[c] \in sent \cup {Junk}
         /\ inbox[c] \in Seq(sent \cup {Junk})
<1>1. seen[c] \in Seq(sent) /\ wire[c] \in Seq(sent) /\ sent \subseteq sent \cup {Junk}
  BY DEF FeedTyped
<1>2. seen[c] \in Seq(sent \cup {Junk}) /\ wire[c] \in Seq(sent \cup {Junk})
  BY <1>1, SeqMonotonic
<1> QED
  BY <1>2 DEF FeedTyped

(* A publication keeps every stream in order. *)
LEMMA PublishOrdered ==
  ASSUME FeedTyped, FeedTyped', NEW n, NEW k \in Nat, Publish(n, k),
         n = Junk \/ n \in sent', sent \subseteq sent',
         NEW d \in Clients, Ordered(d)
  PROVE  Ordered(d)'
<1> DEFINE T == sent' \cup {Junk}
           s == seen[d]
           f == frame[d]
           h == held[d]
           b == inbox[d]
           w == wire[d]
           a == Accepted(d, k)
<1>1. /\ Junk \in T /\ n \in T /\ s \in Seq(T) /\ f \in T /\ h \in T /\ b \in Seq(T)
      /\ w \in Seq(T)
  <2>1. sent \cup {Junk} \subseteq T
    OBVIOUS
  <2>2. /\ s \in Seq(sent \cup {Junk}) /\ b \in Seq(sent \cup {Junk})
        /\ w \in Seq(sent \cup {Junk})
        /\ f \in sent \cup {Junk} /\ h \in sent \cup {Junk}
    BY PipeTyped
  <2> QED
    BY <2>1, <2>2, SeqMonotonic
<1>2. a \in Nat
  BY AcceptedFits
<1>3. /\ UNCHANGED <<hpc, fpc, seen, frame, held>>
      /\ inbox'[d] = b \o Copies(n, a)
      /\ wire'[d] = IF n = Junk THEN w ELSE w \o Copies(n, a)
  BY DEF Publish, endVars
<1>4. Ordered(d) <=> (Opening(d) \/ Streaming(d) => EventsOf(w, Pipe(s, f, h, b)))
  BY DEF Ordered
<1>5. Ordered(d)' <=> (Opening(d) \/ Streaming(d) =>
                         EventsOf(wire'[d], Pipe(s, f, h, inbox'[d])))
  BY <1>3 DEF Ordered, Opening, Streaming
<1> HIDE DEF T, s, f, h, b, w, a
<1>6. SUFFICES ASSUME EventsOf(w, Pipe(s, f, h, b))
               PROVE  EventsOf(wire'[d], Pipe(s, f, h, inbox'[d]))
  BY <1>4, <1>5
<1>7. Pipe(s, f, h, b) \in Seq(T)
  BY <1>1, PipeShape DEF Shaped
<1>8. Pipe(s, f, h, b \o Copies(n, a)) = Pipe(s, f, h, b) \o Copies(n, a)
  <2> DEFINE t == s \o <<f, h>>
             z == Copies(n, a)
  <2>1. z \in Seq(T)
    BY <1>1, <1>2, CopiesSeq
  <2>2. t \in Seq(T)
    <3>1. <<f, h>> \in Seq(T)
      BY <1>1
    <3> QED
      BY <1>1, <3>1, ConcatProperties
  <2> HIDE DEF t, z
  <2>3. (t \o b) \o z = t \o (b \o z)
    BY <1>1, <2>1, <2>2, ConcatAssociative
  <2> QED
    BY <2>3 DEF Pipe, t, z
<1>9. CASE n = Junk
  BY <1>1, <1>2, <1>3, <1>6, <1>7, <1>8, <1>9, JunkEnters
<1>10. CASE n # Junk
  <2>1. EventsOf(w \o Copies(n, a), Pipe(s, f, h, b) \o Copies(n, a))
    BY <1>1, <1>2, <1>6, <1>7, <1>10, EventsEnter
  <2> QED
    BY <1>3, <1>8, <1>10, <2>1
<1> QED
  BY <1>9, <1>10

(* SubscribeEvents keeps it in order when it takes a message. *)
LEMMA ReceiveOrdered ==
  ASSUME FeedTyped, Hands, NEW c \in Clients, Receive(c), Ordered(c)
  PROVE  Ordered(c)'
<1> DEFINE T == sent \cup {Junk}
           s == seen[c]
           f == frame[c]
           h == held[c]
           b == inbox[c]
           w == wire[c]
<1>1. /\ Junk \in T /\ s \in Seq(T) /\ f \in T /\ h \in T /\ b \in Seq(T)
  BY PipeTyped
<1>2. ~Opening(c)' /\ ~Opening(c)
  BY DEF Receive, Hands, Opening, FeedTyped
<1>3. /\ UNCHANGED <<hpc[c], seen[c], frame[c], wire[c]>>
      /\ inbox'[c] = Tail(b)
      /\ held'[c] = IF Head(b) = Junk THEN h ELSE Head(b)
  BY DEF Receive, FeedTyped
<1>4. fpc[c] = "select" /\ h = Junk /\ b # <<>>
  BY DEF Receive, Hands
<1>5. Ordered(c) <=> (Streaming(c) => EventsOf(w, Pipe(s, f, h, b)))
  BY <1>2 DEF Ordered
<1>6. Ordered(c)' <=> (Streaming(c)' => EventsOf(w, Pipe(s, f, held'[c], inbox'[c])))
  BY <1>2, <1>3 DEF Ordered
<1>7. Streaming(c)' => Streaming(c)
  BY <1>3, <1>4 DEF Streaming
<1> HIDE DEF T, s, f, h, b, w
<1>8. SUFFICES ASSUME EventsOf(w, Pipe(s, f, h, b))
               PROVE  EventsOf(w, Pipe(s, f, held'[c], inbox'[c]))
  BY <1>5, <1>6, <1>7
<1>9. CASE Head(b) = Junk
  BY <1>1, <1>3, <1>4, <1>8, <1>9, SkipJunk
<1>10. CASE Head(b) # Junk
  BY <1>1, <1>3, <1>4, <1>8, <1>10, TakeEvent
<1> QED
  BY <1>9, <1>10

(* The handler does when it takes an event ... *)
LEMMA SendOrdered ==
  ASSUME FeedTyped, Hands, NEW c \in Clients, Send(c), Ordered(c)
  PROVE  Ordered(c)'
<1> DEFINE T == sent \cup {Junk}
           s == seen[c]
           h == held[c]
           b == inbox[c]
           w == wire[c]
<1>1. Junk \in T /\ s \in Seq(T) /\ h \in T /\ b \in Seq(T)
  BY PipeTyped
<1>2. Streaming(c) /\ frame[c] = Junk
  BY DEF Send, Hands, Streaming
<1>3. /\ UNCHANGED <<seen[c], inbox[c], wire[c]>>
      /\ frame'[c] = h /\ held'[c] = Junk
  BY DEF Send, FeedTyped
<1>4. EventsOf(w, Pipe(s, Junk, h, b))
  BY <1>2 DEF Ordered
<1>5. Ordered(c)' <=> ((Opening(c) \/ Streaming(c))' => EventsOf(w, Pipe(s, h, Junk, b)))
  BY <1>3 DEF Ordered
<1> HIDE DEF T, s, h, b, w
<1> QED
  BY <1>1, <1>4, <1>5, HandOver

(* ... and when it writes it. *)
LEMMA WriteOrdered ==
  ASSUME FeedTyped, Hands, NEW c \in Clients, WriteFrame(c), Ordered(c)
  PROVE  Ordered(c)'
<1> DEFINE T == sent \cup {Junk}
           s == seen[c]
           f == frame[c]
           h == held[c]
           b == inbox[c]
           w == wire[c]
<1>1. Junk \in T /\ s \in Seq(T) /\ f \in T /\ h \in T /\ b \in Seq(T)
  BY PipeTyped
<1>2. (Opening(c) \/ Streaming(c))' => Streaming(c)
  BY DEF WriteFrame, Streaming, Opening, FeedTyped
<1>3. /\ UNCHANGED <<held[c], inbox[c], wire[c]>>
      /\ frame'[c] = Junk /\ seen'[c] = Append(s, f)
  BY DEF WriteFrame, FeedTyped
<1>4. Streaming(c) => EventsOf(w, Pipe(s, f, h, b))
  BY DEF Ordered
<1>5. Ordered(c)' <=> ((Opening(c) \/ Streaming(c))' =>
                         EventsOf(w, Pipe(Append(s, f), Junk, h, b)))
  BY <1>3 DEF Ordered
<1> HIDE DEF T, s, f, h, b, w
<1> QED
  BY <1>1, <1>2, <1>4, <1>5, WriteOut

(* Every step keeps every stream in order. *)
LEMMA InOrderStep ==
  ASSUME FeedTyped, FeedTyped', Hands, Hands', InOrder, FeedNext
  PROVE  InOrder'
<1> SUFFICES ASSUME NEW d \in Clients
             PROVE  Ordered(d)'
  BY InOrderMeans DEF InOrder, Ordered, Pipeline, Pipe
<1>1. Ordered(d)
  BY InOrderMeans
<1> USE DEF pubVars, endVars, msgVars
<1>2. /\ hpc \in [Clients -> {"none", "subscribe", "select", "write", "done"}]
      /\ fpc \in [Clients -> {"none", "select", "send", "done"}]
      /\ Opening(d) => fpc[d] = "none"
  BY DEF FeedTyped, Hands
<1>3. CASE PublishJunk
  <2>1. Publish(Junk, 1) /\ sent' = sent /\ 1 \in Nat
    BY <1>3 DEF PublishJunk
  <2> QED
    BY <1>1, <2>1, PublishOrdered
<1>4. ASSUME NEW p \in Profiles, Report(p)
      PROVE  Ordered(d)'
  <2>1. PICK k \in 1 .. 2 : Publish(count + 1, k)
    BY <1>4 DEF Report
  <2>2. count + 1 \in sent' /\ sent \subseteq sent' /\ k \in Nat
    BY <1>4 DEF Report
  <2> QED
    BY <1>1, <2>1, <2>2, PublishOrdered
<1>5. CASE \/ HealthdRestarts \/ BusCloses
           \/ \E p \in Profiles : VerdictChanges(p) \/ ReportFails(p)
  <2>1. UNCHANGED <<hpc, fpc, wire, seen, frame, held, inbox>>
    BY <1>5 DEF HealthdRestarts, BusCloses, VerdictChanges, ReportFails
  <2> QED
    BY <1>1, <2>1, LeftAlone DEF Opening, Streaming
<1>6. ASSUME NEW c \in Clients, \/ Connect(c) \/ LinkBreaks(c) \/ Resubscribe(c)
                                \/ Subscribed(c) \/ StartStream(c) \/ Disconnect(c)
      PROVE  Ordered(d)'
  <2>1. UNCHANGED <<wire, seen, frame, held, inbox>>
    BY <1>6 DEF Connect, LinkBreaks, Resubscribe, Subscribed, StartStream, Disconnect
  <2>2. (Opening(d) \/ Streaming(d))' => Opening(d) \/ Streaming(d)
    BY <1>2, <1>6 DEF Connect, LinkBreaks, Resubscribe, Subscribed, StartStream, Disconnect,
                      Opening, Streaming
  <2> QED
    BY <1>1, <2>1, <2>2, LeftAlone
<1>7. ASSUME NEW c \in Clients, c # d, StreamStep(c)
      PROVE  Ordered(d)'
  <2>1. UNCHANGED <<hpc[d], fpc[d], wire[d], seen[d], frame[d], held[d], inbox[d]>>
    <3>1. /\ wire \in [Clients -> Seq(sent)] /\ seen \in [Clients -> Seq(sent)]
          /\ inbox \in [Clients -> Seq(sent \cup {Junk})]
          /\ held \in [Clients -> sent \cup {Junk}] /\ frame \in [Clients -> sent \cup {Junk}]
      BY DEF FeedTyped
    <3>2. CASE \/ LinkBreaks(c) \/ Resubscribe(c) \/ Subscribed(c) \/ StartStream(c)
               \/ Disconnect(c)
      BY <1>2, <1>7, <3>2 DEF LinkBreaks, Resubscribe, Subscribed, StartStream, Disconnect
    <3>3. CASE SubscribeFails(c) \/ WriteFails(c) \/ StreamEnds(c)
      BY <1>2, <1>7, <3>1, <3>3 DEF SubscribeFails, WriteFails, StreamEnds, Return
    <3>4. CASE Cancelled(c) \/ ChannelClosed(c)
      BY <1>2, <1>7, <3>1, <3>4 DEF Cancelled, ChannelClosed, StopForwarder
    <3>5. CASE Receive(c)
      BY <1>2, <1>7, <3>1, <3>5 DEF Receive
    <3>6. CASE Send(c) \/ WriteFrame(c)
      BY <1>2, <1>7, <3>1, <3>6 DEF Send, WriteFrame
    <3> QED
      BY <1>7, <3>2, <3>3, <3>4, <3>5, <3>6 DEF StreamStep
  <2> QED
    BY <1>1, <2>1, LeftAlone DEF Opening, Streaming
<1>8. CASE Receive(d)
  BY <1>1, <1>8, ReceiveOrdered
<1>9. CASE Send(d)
  BY <1>1, <1>9, SendOrdered
<1>10. CASE WriteFrame(d)
  BY <1>1, <1>10, WriteOrdered
<1>11. CASE SubscribeFails(d) \/ WriteFails(d) \/ StreamEnds(d)
  <2>1. hpc'[d] = "done"
    BY <1>2, <1>11 DEF SubscribeFails, WriteFails, StreamEnds, Return
  <2> QED
    BY <2>1 DEF Ordered, Opening, Streaming
<1>12. CASE Cancelled(d) \/ ChannelClosed(d)
  <2>1. fpc'[d] = "done" /\ hpc'[d] = hpc[d] /\ fpc[d] # "none"
    BY <1>2, <1>12 DEF Cancelled, ChannelClosed, StopForwarder
  <2> QED
    BY <1>2, <2>1 DEF Ordered, Opening, Streaming
<1> QED
  BY <1>3, <1>4, <1>5, <1>6, <1>7, <1>8, <1>9, <1>10, <1>11, <1>12
  DEF FeedNext, PublisherNext, StreamStep

(* Every step keeps an unbroken stream complete. *)
LEMMA CompleteStep ==
  ASSUME FeedTyped, FeedTyped', Hands, Complete, FeedNext
  PROVE  Complete'
<1> SUFFICES ASSUME NEW d \in Clients, Streaming(d)', ~broken'[d]
             PROVE  linked'[d] /\ \A n \in sent' : n > since'[d] => n \in Range(wire'[d])
  BY DEF Complete
<1> USE DEF pubVars, endVars, msgVars
<1>1. Streaming(d) /\ ~broken[d] =>
        linked[d] /\ \A n \in sent : n > since[d] => n \in Range(wire[d])
  BY DEF Complete
<1>2. /\ hpc \in [Clients -> {"none", "subscribe", "select", "write", "done"}]
      /\ fpc \in [Clients -> {"none", "select", "send", "done"}]
      /\ linked \in [Clients -> BOOLEAN] /\ broken \in [Clients -> BOOLEAN]
      /\ since \in [Clients -> 0 .. count]
      /\ Opening(d) => fpc[d] = "none"
  BY DEF FeedTyped, Hands
<1>3. ASSUME NEW c \in Clients, StartStream(c), c = d
      PROVE  linked'[d] /\ \A n \in sent' : n > since'[d] => n \in Range(wire'[d])
  <2>1. linked'[d] /\ since'[d] = count /\ sent' = sent
    BY <1>2, <1>3 DEF StartStream
  <2>2. sent \subseteq 1 .. count /\ count \in Nat
    BY DEF FeedTyped
  <2> QED
    BY <2>1, <2>2
<1>4. ASSUME NEW n, NEW k \in Nat \ {0}, Publish(n, k), n # Junk => sent' = sent \cup {n},
             n = Junk => sent' = sent
      PROVE  linked'[d] /\ \A m \in sent' : m > since'[d] => m \in Range(wire'[d])
  <2>1. UNCHANGED <<hpc, fpc, linked, since>> /\ Streaming(d)
    BY <1>4 DEF Publish, Streaming
  <2>2. ~broken[d] /\ ~(linked[d] /\ Accepted(d, k) < k)
    BY <1>2, <1>4 DEF Publish
  <2>3. linked[d] /\ \A m \in sent : m > since[d] => m \in Range(wire[d])
    BY <1>1, <2>1, <2>2
  <2>4. Accepted(d, k) = k
    BY <2>2, <2>3, AcceptedFits
  <2>5. CASE n = Junk
    <3>1. wire'[d] = wire[d]
      BY <1>4, <2>5 DEF Publish
    <3> QED
      BY <1>4, <2>1, <2>3, <2>5, <3>1
  <2>6. CASE n # Junk
    <3>1. wire'[d] = wire[d] \o Copies(n, k)
      BY <1>4, <2>4, <2>6 DEF Publish
    <3>2. n \in sent' /\ sent \subseteq sent' /\ wire[d] \in Seq(sent)
      BY <1>4, <2>6 DEF FeedTyped
    <3>3. wire[d] \in Seq(sent')
      BY <3>2, SeqMonotonic
    <3>4. /\ Copies(n, k) \in Seq(sent') /\ Len(Copies(n, k)) = k
          /\ \A i \in 1 .. k : Copies(n, k)[i] = n
      BY <3>2, CopiesSeq
    <3>5. n \in Range(Copies(n, k))
      <4>1. 1 \in DOMAIN Copies(n, k) /\ Copies(n, k)[1] = n
        BY <3>4
      <4> QED
        BY <4>1 DEF Range
    <3>6. Range(wire'[d]) = Range(wire[d]) \cup Range(Copies(n, k))
      BY <3>1, <3>3, <3>4, RangeConcatenation
    <3> QED
      BY <1>4, <2>1, <2>3, <2>6, <3>5, <3>6
  <2> QED
    BY <2>5, <2>6
<1>5. CASE PublishJunk
  BY <1>4, <1>5 DEF PublishJunk
<1>6. ASSUME NEW p \in Profiles, Report(p)
      PROVE  linked'[d] /\ \A n \in sent' : n > since'[d] => n \in Range(wire'[d])
  <2>1. PICK k \in 1 .. 2 : Publish(count + 1, k)
    BY <1>6 DEF Report
  <2>2. k \in Nat \ {0} /\ sent' = sent \cup {count + 1}
    BY <1>6 DEF Report
  <2>3. count + 1 # Junk
    BY DEF FeedTyped, Junk
  <2> QED
    BY <1>4, <2>1, <2>2, <2>3
<1>7. CASE \/ HealthdRestarts \/ BusCloses
           \/ \E p \in Profiles : VerdictChanges(p) \/ ReportFails(p)
  <2>1. UNCHANGED <<hpc, fpc, wire, linked, since, sent, broken>>
    BY <1>7 DEF HealthdRestarts, BusCloses, VerdictChanges, ReportFails
  <2> QED
    BY <1>1, <2>1 DEF Streaming
<1>8. ASSUME NEW c \in Clients, Connect(c) \/ StreamStep(c), ~(StartStream(c) /\ c = d)
      PROVE  linked'[d] /\ \A n \in sent' : n > since'[d] => n \in Range(wire'[d])
  <2>1. UNCHANGED <<sent, wire>> /\ since'[d] = since[d]
    BY <1>2, <1>8 DEF Connect, StreamStep, LinkBreaks, Resubscribe, Subscribed, StartStream,
         Disconnect, SubscribeFails, Return, Receive, Send, Cancelled, ChannelClosed,
         StopForwarder, WriteFrame, WriteFails, StreamEnds
  <2>2. Streaming(d)
    <3>1. CASE Connect(c) \/ SubscribeFails(c) \/ WriteFails(c) \/ StreamEnds(c) \/ WriteFrame(c)
      BY <1>2, <3>1 DEF Connect, SubscribeFails, WriteFails, StreamEnds, WriteFrame, Return, Streaming
    <3>2. CASE Receive(c) \/ Send(c) \/ Cancelled(c) \/ ChannelClosed(c)
      BY <1>2, <3>2 DEF Receive, Send, Cancelled, ChannelClosed, StopForwarder, Streaming
    <3>3. CASE LinkBreaks(c) \/ Resubscribe(c) \/ Subscribed(c) \/ Disconnect(c)
      BY <3>3 DEF LinkBreaks, Resubscribe, Subscribed, Disconnect, Streaming
    <3>4. CASE StartStream(c)
      BY <1>2, <1>8, <3>4 DEF StartStream, Streaming
    <3> QED
      BY <1>8, <3>1, <3>2, <3>3, <3>4 DEF StreamStep
  <2>3. ~broken[d] /\ (linked[d] => linked'[d])
    <3>1. CASE LinkBreaks(c)
      BY <1>2, <3>1 DEF LinkBreaks
    <3>2. CASE SubscribeFails(c) \/ Cancelled(c) \/ ChannelClosed(c)
      BY <1>2, <3>2 DEF SubscribeFails, Return, Cancelled, ChannelClosed, StopForwarder, Streaming
    <3>3. CASE Resubscribe(c) \/ Subscribed(c)
      BY <1>2, <3>3 DEF Resubscribe, Subscribed
    <3>4. CASE \/ Connect(c) \/ StartStream(c) \/ Disconnect(c) \/ Receive(c) \/ Send(c)
               \/ WriteFrame(c) \/ WriteFails(c) \/ StreamEnds(c)
      BY <3>4 DEF Connect, StartStream, Disconnect, Receive, Send, WriteFrame, WriteFails, StreamEnds
    <3> QED
      BY <1>8, <3>1, <3>2, <3>3, <3>4 DEF StreamStep
  <2> QED
    BY <1>1, <2>1, <2>2, <2>3
<1> QED
  BY <1>3, <1>5, <1>6, <1>7, <1>8 DEF FeedNext, PublisherNext

(* The feed starts in the invariant. *)
LEMMA FeedIInvInit == FeedInit => FeedIInv
<1> SUFFICES ASSUME FeedInit
             PROVE  FeedIInv
  OBVIOUS
<1>1. FeedTyped
  <2>1. \A S : <<>> \in Seq(S) /\ Len(<<>>) = 0
    OBVIOUS
  <2> QED
    BY <2>1, FeedAssumption DEF FeedInit, FeedTyped
<1>2. Hands /\ Complete
  BY DEF FeedInit, Hands, Complete, Streaming
<1>3. InOrder
  <2> SUFFICES ASSUME NEW c \in Clients
               PROVE  EventsOf(<<>>, Pipe(<<>>, Junk, Junk, <<>>))
    BY InOrderMeans DEF FeedInit, Ordered
  <2> DEFINE e == <<>>
             r == Pipe(e, Junk, Junk, e)
  <2>1. e \in Seq({Junk}) /\ Len(e) = 0
    OBVIOUS
  <2>2. Shaped({Junk}, r, e, Junk, Junk, e)
    BY <2>1, PipeShape
  <2>3. Len(r) = 2 /\ r[1] = Junk /\ r[2] = Junk
    BY <2>1, <2>2 DEF Shaped
  <2> HIDE DEF e, r
  <2>4. \A j \in 1 .. Len(r) : r[j] = Junk
    BY <2>3
  <2>5. Rank(r, Len(r)) = 0
    <3>1. {i \in 1 .. Len(r) : r[i] # Junk} = {}
      BY <2>4
    <3> QED
      BY <3>1, FS_EmptySet DEF Rank
  <2>6. EventsOf(e, r)
    BY <2>1, <2>4, <2>5 DEF EventsOf
  <2> QED
    BY <2>6 DEF e, r
<1> QED
  BY <1>1, <1>2, <1>3 DEF FeedIInv

(* Every step keeps it. *)
LEMMA FeedIInvStep == FeedIInv /\ [FeedNext]_feedVars => FeedIInv'
<1> SUFFICES ASSUME FeedIInv, [FeedNext]_feedVars
             PROVE  FeedIInv'
  OBVIOUS
<1>1. CASE FeedNext
  <2>1. FeedTyped' /\ Hands'
    BY <1>1, TypedStep, HandsStep DEF FeedIInv
  <2> QED
    BY <1>1, <2>1, InOrderStep, CompleteStep DEF FeedIInv
<1>2. CASE UNCHANGED feedVars
  BY <1>2 DEF feedVars, pubVars, endVars, msgVars, FeedIInv, FeedTyped, Hands, InOrder,
       Complete, Opening, Streaming, Pipeline
<1> QED
  BY <1>1, <1>2

(* What the invariant says of the properties. *)
LEMMA FeedIInvMeans ==
  FeedIInv => FeedTypeOK /\ NothingLostInside /\ NothingMissedAfterHeaders
<1> SUFFICES ASSUME FeedIInv
             PROVE  FeedTypeOK /\ NothingLostInside /\ NothingMissedAfterHeaders
  OBVIOUS
<1>1. FeedTypeOK
  <2>1. sent \cup {Junk} \subseteq 0 .. count
    BY DEF FeedIInv, FeedTyped, Junk
  <2>2. ASSUME NEW c \in Clients
        PROVE  /\ Len(inbox[c]) <= ChanSize
               /\ Range(inbox[c]) \subseteq 0 .. count
               /\ Range(wire[c]) \cup Range(seen[c]) \subseteq sent
    <3>1. /\ inbox[c] \in Seq(sent \cup {Junk}) /\ Len(inbox[c]) <= ChanSize
          /\ wire[c] \in Seq(sent) /\ seen[c] \in Seq(sent)
      BY DEF FeedIInv, FeedTyped
    <3>2. /\ Range(inbox[c]) \in SUBSET (sent \cup {Junk})
          /\ Range(wire[c]) \in SUBSET sent /\ Range(seen[c]) \in SUBSET sent
      BY <3>1, RangeOfSeq
    <3> QED
      BY <2>1, <3>1, <3>2
  <2>3. held \in [Clients -> 0 .. count] /\ frame \in [Clients -> 0 .. count]
    BY <2>1 DEF FeedIInv, FeedTyped
  <2> QED
    BY <2>2, <2>3 DEF FeedIInv, FeedTyped, FeedTypeOK
<1>2. NothingLostInside
  BY DEF FeedIInv, InOrder, NothingLostInside
<1>3. NothingMissedAfterHeaders
  BY DEF FeedIInv, Complete, NothingMissedAfterHeaders
<1> QED
  BY <1>1, <1>2, <1>3

(* The feed's inductive invariant (client.go, SubscribeEvents; handlers.go, *)
(* events): who holds which event, and in which order.                     *)
THEOREM FeedInductive == FeedSpec => []FeedIInv
<1> QED
  BY FeedIInvInit, FeedIInvStep, PTL DEF FeedSpec

(* The feed's variables have their types, and no subscription's channel is *)
(* overrun, whatever the number of clients, profiles and publications.     *)
THEOREM FeedTypeCorrect == FeedSpec => []FeedTypeOK
<1> QED
  BY FeedInductive, FeedIInvMeans, PTL

(* SubscribeEvents and the events handler neither lose, repeat nor reorder *)
(* what entered a subscription's channel.                                  *)
THEOREM FeedKeepsOrder == FeedSpec => []NothingLostInside
<1> QED
  BY FeedInductive, FeedIInvMeans, PTL

(* No event is lost to a publish that races the subscribe: sub.Receive is  *)
(* awaited before the headers go out (client.go:183-184).                  *)
THEOREM FeedMissesNothing == FeedSpec => []NothingMissedAfterHeaders
<1> QED
  BY FeedInductive, FeedIInvMeans, PTL

------------------------------------------------------------------------------
(* The feed implements the stream its clients are promised.                *)

(* What the handler is writing is the first event it has not written, also *)
(* when the forwarder is gone.                                             *)
FrameNext ==
  \A c \in Clients :
    hpc[c] = "write" =>
      Len(seen[c]) < Len(wire[c]) /\ wire[c][Len(seen[c]) + 1] = frame[c]

(* A stream that only grows at its end keeps what is being written. *)
LEMMA FrameStays ==
  ASSUME FeedTyped, FrameNext, NEW d \in Clients,
         hpc'[d] = "write" => hpc[d] = "write",
         seen'[d] = seen[d], frame'[d] = frame[d] \/ hpc'[d] # "write",
         \/ wire'[d] = wire[d]
         \/ \E n \in sent', a \in Nat : wire'[d] = wire[d] \o Copies(n, a)
  PROVE  hpc'[d] = "write" =>
           Len(seen'[d]) < Len(wire'[d]) /\ wire'[d][Len(seen'[d]) + 1] = frame'[d]
<1> SUFFICES ASSUME hpc'[d] = "write"
             PROVE  Len(seen[d]) < Len(wire'[d]) /\ wire'[d][Len(seen[d]) + 1] = frame[d]
  OBVIOUS
<1>1. Len(seen[d]) < Len(wire[d]) /\ wire[d][Len(seen[d]) + 1] = frame[d]
  BY DEF FrameNext
<1>2. ASSUME NEW n \in sent', NEW a \in Nat, wire'[d] = wire[d] \o Copies(n, a)
      PROVE  Len(seen[d]) < Len(wire'[d]) /\ wire'[d][Len(seen[d]) + 1] = frame[d]
  <2> DEFINE T == sent \cup sent'
             w == wire[d]
             v == wire'[d]
             l == Len(seen[d])
  <2>1. w \in Seq(T) /\ seen[d] \in Seq(T) /\ n \in T
    BY SeqMonotonic DEF FeedTyped
  <2> HIDE DEF T
  <2>2. Len(v) = Len(w) + a /\ \A i \in 1 .. Len(w) : v[i] = w[i]
    <3>1. v = w \o Copies(n, a)
      BY <1>2
    <3> HIDE DEF v, w
    <3> QED
      BY <2>1, <3>1, CopiesExtend
  <2>3. l \in Nat /\ Len(w) \in Nat
    BY <2>1
  <2>4. l < Len(w) /\ w[l + 1] = frame[d]
    BY <1>1
  <2> HIDE DEF w, v, l
  <2>5. l < Len(v) /\ v[l + 1] = frame[d]
    BY <2>2, <2>3, <2>4
  <2> QED
    BY <2>5 DEF v, l
<1> QED
  BY <1>1, <1>2

(* The handler takes what is next. *)
LEMMA SendTakesNext ==
  ASSUME FeedIInv, NEW c \in Clients, Send(c)
  PROVE  /\ Len(seen'[c]) < Len(wire'[c])
         /\ wire'[c][Len(seen'[c]) + 1] = frame'[c]
<1> DEFINE T == sent \cup {Junk}
           s == seen[c]
           h == held[c]
           b == inbox[c]
           w == wire[c]
<1>1. frame[c] = Junk /\ h # Junk /\ Streaming(c)
  BY DEF FeedIInv, Hands, Send, Streaming
<1>2. Junk \in T /\ s \in Seq(T) /\ h \in T /\ b \in Seq(T)
  BY PipeTyped DEF FeedIInv
<1>3. EventsOf(w, Pipe(s, Junk, h, b))
  BY <1>1, InOrderMeans DEF FeedIInv, Ordered
<1>4. \A i \in 1 .. Len(s) : s[i] # Junk
  <2>1. s \in Seq(sent) /\ Junk \notin sent
    BY DEF FeedIInv, FeedTyped, Junk
  <2> QED
    BY <2>1
<1>5. frame'[c] = h /\ seen' = seen /\ wire' = wire
  BY DEF Send, FeedIInv, FeedTyped
<1> HIDE DEF T, s, h, b, w
<1>6. Len(s) < Len(w) /\ w[Len(s) + 1] = h
  BY <1>1, <1>2, <1>3, <1>4, OfferedIsNext
<1> QED
  BY <1>5, <1>6 DEF s, w

(* A publication extends the streams with copies of one event. *)
LEMMA PublishExtends ==
  ASSUME FeedTyped, NEW k \in Nat, NEW d \in Clients,
         Publish(count + 1, k), sent' = sent \cup {count + 1}
  PROVE  \E n \in sent', a \in Nat : wire'[d] = wire[d] \o Copies(n, a)
<1>1. count + 1 \in sent' /\ Accepted(d, k) \in Nat
  BY AcceptedFits
<1>2. count + 1 # Junk
  BY DEF FeedTyped, Junk
<1>3. wire'[d] = wire[d] \o Copies(count + 1, Accepted(d, k))
  BY <1>2 DEF Publish
<1> QED
  BY <1>1, <1>3

(* Every step keeps the frame the next event. *)
LEMMA FrameNextStep == FeedIInv /\ FrameNext /\ [FeedNext]_feedVars => FrameNext'
<1> SUFFICES ASSUME FeedIInv, FrameNext, [FeedNext]_feedVars, NEW d \in Clients
             PROVE  hpc'[d] = "write" =>
                      /\ Len(seen'[d]) < Len(wire'[d])
                      /\ wire'[d][Len(seen'[d]) + 1] = frame'[d]
  BY DEF FrameNext
<1> USE DEF pubVars, endVars, msgVars
<1>0. FeedTyped
  BY DEF FeedIInv
<1>1. CASE UNCHANGED <<hpc, seen, frame, wire>>
  BY <1>0, <1>1, FrameStays
<1>2. CASE PublishJunk
  <2>1. UNCHANGED <<hpc, seen, frame>> /\ wire'[d] = wire[d]
    BY <1>2 DEF PublishJunk, Publish
  <2> QED
    BY <1>0, <2>1, FrameStays
<1>3. ASSUME NEW p \in Profiles, Report(p)
      PROVE  hpc'[d] = "write" =>
               /\ Len(seen'[d]) < Len(wire'[d])
               /\ wire'[d][Len(seen'[d]) + 1] = frame'[d]
  <2>1. PICK k \in Nat : Publish(count + 1, k) /\ sent' = sent \cup {count + 1}
    BY <1>3 DEF Report
  <2>2. UNCHANGED <<hpc, seen, frame>>
    BY <2>1 DEF Publish
  <2>3. \E n \in sent', a \in Nat : wire'[d] = wire[d] \o Copies(n, a)
    BY <1>0, <2>1, PublishExtends
  <2> QED
    BY <1>0, <2>2, <2>3, FrameStays
<1>4. ASSUME NEW c \in Clients, Send(c)
      PROVE  hpc'[d] = "write" =>
               /\ Len(seen'[d]) < Len(wire'[d])
               /\ wire'[d][Len(seen'[d]) + 1] = frame'[d]
  <2>1. CASE c = d
    BY <1>4, <2>1, SendTakesNext
  <2>2. CASE c # d
    <3>1. hpc'[d] = hpc[d] /\ frame'[d] = frame[d] /\ UNCHANGED <<seen, wire>>
      BY <1>0, <1>4, <2>2 DEF Send, FeedTyped
    <3> QED
      BY <1>0, <3>1, FrameStays
  <2> QED
    BY <2>1, <2>2
<1>5. ASSUME NEW c \in Clients,
             \/ Connect(c) \/ StartStream(c) \/ SubscribeFails(c) \/ WriteFrame(c)
             \/ WriteFails(c) \/ StreamEnds(c)
      PROVE  hpc'[d] = "write" =>
               /\ Len(seen'[d]) < Len(wire'[d])
               /\ wire'[d][Len(seen'[d]) + 1] = frame'[d]
  <2>1. UNCHANGED wire /\ hpc'[c] # "write"
    BY <1>0, <1>5 DEF Connect, StartStream, SubscribeFails, WriteFrame, WriteFails,
       StreamEnds, Return, FeedTyped
  <2>2. CASE c # d
    <3>1. hpc'[d] = hpc[d] /\ frame'[d] = frame[d] /\ seen'[d] = seen[d]
      BY <1>0, <1>5, <2>2 DEF Connect, StartStream, SubscribeFails, WriteFrame, WriteFails,
         StreamEnds, Return, FeedTyped
    <3> QED
      BY <1>0, <2>1, <3>1, FrameStays
  <2> QED
    BY <2>1, <2>2
<1>6. ASSUME NEW c \in Clients,
             \/ LinkBreaks(c) \/ Resubscribe(c) \/ Subscribed(c) \/ Disconnect(c)
             \/ Receive(c) \/ Cancelled(c) \/ ChannelClosed(c)
      PROVE  UNCHANGED <<hpc, seen, frame, wire>>
  BY <1>6 DEF LinkBreaks, Resubscribe, Subscribed, Disconnect, Receive, Cancelled,
     ChannelClosed, StopForwarder
<1>7. \/ HealthdRestarts \/ BusCloses \/ (\E p \in Profiles : VerdictChanges(p) \/ ReportFails(p))
      \/ UNCHANGED feedVars
      => UNCHANGED <<hpc, seen, frame, wire>>
  BY DEF HealthdRestarts, BusCloses, VerdictChanges, ReportFails, feedVars
<1> QED
  BY <1>1, <1>2, <1>3, <1>4, <1>5, <1>6, <1>7 DEF FeedNext, PublisherNext, StreamStep

(* The phases of a stream, by where its goroutines are. *)
LEMMA PhaseIs ==
  ASSUME FeedTyped, NEW c \in Clients
  PROVE  /\ Phases[c] = PhaseOf(c)
         /\ Opening(c) => PhaseOf(c) = "new"
         /\ Streaming(c) => PhaseOf(c) = "open"
         /\ hpc[c] = "write" /\ ~Streaming(c) => PhaseOf(c) = "last"
         /\ hpc[c] = "select" /\ ~Streaming(c) => PhaseOf(c) = "over"
         /\ hpc[c] = "done" => PhaseOf(c) = "over"
         /\ PhaseOf(c) = "open" => Streaming(c)
BY DEF Phases, PhaseOf, Streaming, Opening, FeedTyped

(* Only the client whose goroutines move changes its phase. *)
LEMMA PhaseMoves ==
  ASSUME NEW c \in Clients,
         \A d \in Clients : d # c => hpc'[d] = hpc[d] /\ fpc'[d] = fpc[d]
  PROVE  Phases' = [Phases EXCEPT ![c] = PhaseOf(c)']
<1>1. \A d \in Clients : d # c => PhaseOf(d)' = PhaseOf(d)
  BY DEF PhaseOf, Streaming
<1> QED
  BY <1>1 DEF Phases

(* No one does where they stay. *)
LEMMA PhasesStay ==
  ASSUME UNCHANGED <<hpc, fpc>>
  PROVE  Phases' = Phases
BY DEF Phases, PhaseOf, Streaming

(* healthd's publication is the stream's: all open streams that are not    *)
(* cut by it get the event.                                                *)
LEMMA ReportIsPublish ==
  ASSUME FeedIInv, NEW p \in Profiles, Report(p)
  PROVE  Stream!Publish
<1>0. FeedTyped
  BY DEF FeedIInv
<1>1. PICK k \in 1 .. 2 : Publish(count + 1, k)
  BY DEF Report
<1> DEFINE n == count + 1
           a == [c \in Clients |-> Accepted(c, k)]
<1>2. n \in 1 .. MaxEvents /\ (\A m \in sent : m < n) /\ n # Junk
  BY <1>0, <1>1, FeedAssumption DEF Publish, FeedTyped, Junk
<1>3. ASSUME NEW c \in Clients
      PROVE  Accepted(c, k) \in 0 .. 2
  <2>1. k \in Nat /\ k <= 2
    OBVIOUS
  <2>2. Accepted(c, k) \in Nat /\ Accepted(c, k) <= k
    BY <1>0, <2>1, AcceptedFits
  <2> QED
    BY <2>1, <2>2
<1>4. sent' = sent \cup {n}
  BY DEF Report
<1>5. wire' = [c \in Clients |-> wire[c] \o [i \in 1 .. a[c] |-> n]]
  BY <1>1, <1>2 DEF Publish, Copies
<1>6. Broken \subseteq Broken'
  BY <1>1 DEF Publish, Broken
<1>7. ASSUME NEW c \in Clients, Phases[c] = "open", a[c] = 0
      PROVE  c \in Broken'
  <2>1. Streaming(c)
    BY <1>0, <1>7, PhaseIs
  <2>2. broken[c] \/ linked[c]
    BY <2>1 DEF FeedIInv, Complete
  <2>3. Accepted(c, k) < k
    BY <1>7
  <2> QED
    BY <1>1, <2>2, <2>3 DEF Publish, Broken
<1>8. Phases' = Phases /\ seen' = seen
  BY <1>1, PhasesStay DEF Publish, endVars
<1>9. a \in [Clients -> 0 .. 2]
  BY <1>3
<1> HIDE DEF n, a
<1> QED
  BY <1>2, <1>4, <1>5, <1>6, <1>7, <1>8, <1>9 DEF Stream!Publish

(* A payload that is no event, and a connection that breaks, only cut. *)
LEMMA JunkIsCut ==
  ASSUME FeedTyped, PublishJunk \/ \E c \in Clients : LinkBreaks(c)
  PROVE  Stream!Cut
<1> USE DEF pubVars, endVars, msgVars
<1>1. UNCHANGED <<hpc, fpc, sent, seen>>
  BY DEF PublishJunk, Publish, LinkBreaks
<1>2. wire' = wire
  BY DEF PublishJunk, Publish, LinkBreaks, FeedTyped
<1>3. Broken \subseteq Broken'
  BY DEF PublishJunk, Publish, LinkBreaks, Broken, FeedTyped
<1> QED
  BY <1>1, <1>2, <1>3, PhasesStay DEF Stream!Cut

(* The steps of a request that no client notices. *)
LEMMA UnnoticedStep ==
  ASSUME FeedTyped, Hands, NEW c \in Clients,
         \/ Resubscribe(c) \/ Connect(c) \/ Subscribed(c) \/ Disconnect(c)
         \/ Receive(c) \/ Send(c)
  PROVE  UNCHANGED <<sent, Phases, Broken, wire, seen>>
<1> USE DEF pubVars, endVars, msgVars
<1>1. UNCHANGED <<sent, broken, wire, seen>>
  BY DEF Resubscribe, Connect, Subscribed, Disconnect, Receive, Send
<1>2. CASE UNCHANGED <<hpc, fpc>>
  BY <1>1, <1>2, PhasesStay DEF Broken
<1>3. CASE Connect(c) \/ Receive(c) \/ Send(c)
  <2>1. \A d \in Clients : d # c => hpc'[d] = hpc[d] /\ fpc'[d] = fpc[d]
    BY <1>3 DEF Connect, Receive, Send, FeedTyped
  <2>2. PhaseOf(c)' = PhaseOf(c)
    BY <1>3 DEF Connect, Receive, Send, FeedTyped, PhaseOf, Streaming
  <2>3. Phases' = Phases
    BY <2>1, <2>2, PhaseMoves DEF Phases
  <2> QED
    BY <1>1, <2>3 DEF Broken
<1> QED
  BY <1>2, <1>3 DEF Resubscribe, Subscribed, Disconnect

(* The steps that open, refuse, end or feed a stream are its own. *)
LEMMA EndsOfStream ==
  ASSUME FeedTyped, FeedTyped', Hands, NEW c \in Clients,
         \/ StartStream(c) \/ SubscribeFails(c) \/ Cancelled(c) \/ ChannelClosed(c)
         \/ WriteFails(c) \/ StreamEnds(c)
  PROVE  \/ Stream!Open(c) \/ Stream!Refuse(c) \/ Stream!Close(c)
         \/ UNCHANGED <<sent, Phases, Broken, wire, seen>>
<1> USE DEF pubVars, endVars, msgVars
<1>1. UNCHANGED <<sent, broken, wire, seen>>
  BY DEF StartStream, SubscribeFails, Cancelled, ChannelClosed, StopForwarder, WriteFails,
     StreamEnds, Return
<1>2. UNCHANGED Broken
  BY <1>1 DEF Broken
<1>3. \A d \in Clients : d # c => hpc'[d] = hpc[d] /\ fpc'[d] = fpc[d]
  <2>1. CASE StartStream(c)
    BY <2>1 DEF StartStream, FeedTyped
  <2>2. CASE Cancelled(c) \/ ChannelClosed(c)
    BY <2>2 DEF Cancelled, ChannelClosed, StopForwarder, FeedTyped
  <2>3. CASE SubscribeFails(c) \/ WriteFails(c) \/ StreamEnds(c)
    BY <2>3 DEF SubscribeFails, WriteFails, StreamEnds, Return, FeedTyped
  <2> QED
    BY <2>1, <2>2, <2>3
<1>4. Phases' = [Phases EXCEPT ![c] = PhaseOf(c)']
  BY <1>3, PhaseMoves
<1>5. Phases[c] = PhaseOf(c)
  BY PhaseIs
<1>6. CASE PhaseOf(c)' = PhaseOf(c)
  <2>1. Phases' = Phases
    BY <1>4, <1>5, <1>6 DEF Phases
  <2> QED
    BY <1>1, <1>2, <2>1
<1>7. CASE StartStream(c)
  <2>1. PhaseOf(c) = "new" /\ PhaseOf(c)' = "open"
    BY <1>7 DEF StartStream, PhaseOf, Streaming, FeedTyped
  <2> QED
    BY <1>1, <1>2, <1>4, <1>5, <2>1 DEF Stream!Open, Stream!Move
<1>8. CASE SubscribeFails(c)
  <2>1. PhaseOf(c) = "new" /\ PhaseOf(c)' = "over"
    BY <1>8 DEF SubscribeFails, Return, PhaseOf, Streaming, FeedTyped
  <2> QED
    BY <1>1, <1>2, <1>4, <1>5, <2>1 DEF Stream!Refuse, Stream!Move
<1>9. CASE Cancelled(c) \/ ChannelClosed(c)
  <2>1. \/ PhaseOf(c)' = PhaseOf(c)
        \/ PhaseOf(c) = "open" /\ PhaseOf(c)' \in {"last", "over"}
    BY <1>9 DEF Cancelled, ChannelClosed, StopForwarder, PhaseOf, Streaming, FeedTyped
  <2> QED
    BY <1>1, <1>2, <1>4, <1>5, <1>6, <2>1 DEF Stream!Close, Stream!Move
<1>10. CASE WriteFails(c) \/ StreamEnds(c)
  <2>1. \/ PhaseOf(c)' = PhaseOf(c)
        \/ PhaseOf(c) \in {"open", "last"} /\ PhaseOf(c)' = "over"
    BY <1>10 DEF WriteFails, StreamEnds, Return, PhaseOf, Streaming, FeedTyped
  <2> QED
    BY <1>1, <1>2, <1>4, <1>5, <1>6, <2>1 DEF Stream!Close, Stream!Move
<1> QED
  BY <1>7, <1>8, <1>9, <1>10

(* A frame written is the next event shown. *)
LEMMA WriteIsShow ==
  ASSUME FeedTyped, FrameNext, NEW c \in Clients, WriteFrame(c)
  PROVE  Stream!Show(c)
<1> USE DEF pubVars, endVars, msgVars
<1>1. UNCHANGED <<sent, broken, wire, fpc>> /\ hpc[c] = "write"
  BY DEF WriteFrame
<1>2. Len(seen[c]) < Len(wire[c]) /\ wire[c][Len(seen[c]) + 1] = frame[c]
  BY <1>1 DEF FrameNext
<1>3. seen' = [seen EXCEPT ![c] = Append(@, wire[c][Len(@) + 1])]
  BY <1>2 DEF WriteFrame
<1>4. Phases' = [Phases EXCEPT ![c] = PhaseOf(c)']
  <2>1. \A d \in Clients : d # c => hpc'[d] = hpc[d] /\ fpc'[d] = fpc[d]
    BY DEF WriteFrame, FeedTyped
  <2> QED
    BY <2>1, PhaseMoves
<1>5. \/ PhaseOf(c) = "open" /\ PhaseOf(c)' = "open"
      \/ PhaseOf(c) = "last" /\ PhaseOf(c)' = "over"
  BY DEF WriteFrame, PhaseOf, Streaming, FeedTyped
<1>6. Phases[c] = PhaseOf(c)
  BY PhaseIs
<1>7. \/ Phases[c] = "open" /\ Phases' = Phases
      \/ Phases[c] = "last" /\ Phases' = [Phases EXCEPT ![c] = "over"]
  BY <1>4, <1>5, <1>6 DEF Phases
<1>8. UNCHANGED Broken
  BY <1>1 DEF Broken
<1> QED
  BY <1>1, <1>2, <1>3, <1>7, <1>8 DEF Stream!Show, Stream!Move

(* Every step of the feed is one of the stream, or none of it. *)
LEMMA StreamStepOf ==
  FeedIInv /\ FeedIInv' /\ FrameNext /\ [FeedNext]_feedVars
    => [Stream!StreamNext]_(Stream!streamVars)
<1> SUFFICES ASSUME FeedIInv, FeedIInv', FrameNext, [FeedNext]_feedVars
             PROVE  Stream!StreamNext \/ UNCHANGED <<sent, Phases, Broken, wire, seen>>
  BY DEF Stream!streamVars
<1> USE DEF pubVars, endVars, msgVars
<1>0. FeedTyped /\ FeedTyped' /\ Hands
  BY DEF FeedIInv
<1>1. ASSUME NEW p \in Profiles, Report(p)
      PROVE  Stream!StreamNext
  BY <1>1, ReportIsPublish DEF Stream!StreamNext
<1>2. CASE PublishJunk \/ \E c \in Clients : LinkBreaks(c)
  BY <1>0, <1>2, JunkIsCut DEF Stream!StreamNext
<1>3. \/ HealthdRestarts \/ BusCloses \/ (\E p \in Profiles : VerdictChanges(p) \/ ReportFails(p))
      \/ UNCHANGED feedVars
      => UNCHANGED <<sent, Phases, Broken, wire, seen>>
  <2>1. \/ HealthdRestarts \/ BusCloses
        \/ (\E p \in Profiles : VerdictChanges(p) \/ ReportFails(p))
        \/ UNCHANGED feedVars
        => UNCHANGED <<sent, hpc, fpc, broken, wire, seen>>
    BY DEF HealthdRestarts, BusCloses, VerdictChanges, ReportFails, feedVars
  <2> QED
    BY <2>1, PhasesStay DEF Broken
<1>4. ASSUME NEW c \in Clients, WriteFrame(c)
      PROVE  Stream!StreamNext
  BY <1>0, <1>4, WriteIsShow DEF Stream!StreamNext
<1>5. ASSUME NEW c \in Clients,
             \/ StartStream(c) \/ SubscribeFails(c) \/ Cancelled(c) \/ ChannelClosed(c)
             \/ WriteFails(c) \/ StreamEnds(c)
      PROVE  Stream!StreamNext \/ UNCHANGED <<sent, Phases, Broken, wire, seen>>
  BY <1>0, <1>5, EndsOfStream DEF Stream!StreamNext
<1>6. ASSUME NEW c \in Clients,
             \/ Resubscribe(c) \/ Connect(c) \/ Subscribed(c) \/ Disconnect(c)
             \/ Receive(c) \/ Send(c)
      PROVE  UNCHANGED <<sent, Phases, Broken, wire, seen>>
  BY <1>0, <1>6, UnnoticedStep
<1> QED
  BY <1>1, <1>2, <1>3, <1>4, <1>5, <1>6 DEF FeedNext, PublisherNext, StreamStep

(* GET /events gives every client the stream it is promised: publication,  *)
(* subscription, the forwarding goroutine and the handler (client.go,      *)
(* SubscribeEvents; handlers.go, events) implement EventStream, whatever   *)
(* the number of clients, the size of the channel and the clients' pace.   *)
THEOREM FeedImplementsStream == FeedSpec => ImplementsStream
<1>1. FeedInit => Stream!StreamInit
  <2> SUFFICES ASSUME FeedInit
               PROVE  Stream!StreamInit
    OBVIOUS
  <2>1. Phases = [c \in Clients |-> "new"]
    <3>1. ASSUME NEW c \in Clients
          PROVE  PhaseOf(c) = "new"
      BY FeedIInvInit, PhaseIs DEF FeedInit, FeedIInv, Opening
    <3> QED
      BY <3>1 DEF Phases
  <2>2. Broken = {}
    BY DEF FeedInit, Broken
  <2> QED
    BY <2>1, <2>2 DEF FeedInit, Stream!StreamInit
<1>2. FeedInit => FrameNext
  BY DEF FeedInit, FrameNext
<1>3. FeedSpec => []FrameNext
  BY <1>2, FrameNextStep, FeedInductive, PTL DEF FeedSpec
<1> QED
  BY <1>1, <1>3, StreamStepOf, FeedInductive, PTL
  DEF FeedSpec, ImplementsStream, Stream!StreamSpec

------------------------------------------------------------------------------
(* The API server runs the feed.                                           *)

(* What of the server leaves the feed alone. *)
LifeStep ==
  \/ buildTLSConfig \/ startMetricsListener \/ Listen
  \/ Drain \/ Drained \/ DrainTimesOut \/ ServeReturns \/ Deferred
  \/ ServerStep \/ AcceptFails \/ MetricsAcceptFails \/ Signal

(* Every step of the server is one of its life, the end of its Redis       *)
(* client, or a step of the feed.                                          *)
LEMMA ApiStepKinds ==
  ASSUME ApiNext
  PROVE  \/ LifeStep /\ UNCHANGED feedVars
         \/ CloseBus
         \/ (\E c \in Clients : mtls = "serving" /\ Connect(c)) /\ UNCHANGED startVars
         \/ (PublisherNext \/ \E c \in Clients : StreamStep(c)) /\ UNCHANGED startVars
<1>1. LifeStep => UNCHANGED feedVars
  BY DEF LifeStep, buildTLSConfig, startMetricsListener, Listen, Drain, Drained,
         DrainTimesOut, ServeReturns, Deferred, ServerStep, BindMTLS, ServeMTLS, ServeMetrics,
         AcceptFails, MetricsAcceptFails, Signal
<1> QED
  BY <1>1 DEF ApiNext, StartStep, LifeStep

(* The server's steps are the feed's, or none of it. *)
LEMMA ApiStepIsFeedStep ==
  [ApiNext]_apiVars => [FeedNext]_feedVars
<1>1. ASSUME ApiNext
      PROVE  FeedNext \/ UNCHANGED feedVars
  BY <1>1, ApiStepKinds DEF FeedNext, CloseBus
<1> QED
  BY <1>1 DEF apiVars

(* Start and the serving goroutines run the event feed as EventFeed        *)
(* describes it: draining, deadlines and closed listeners add no behaviour *)
(* to a stream, and the only step they take in it is bus.Close.            *)
THEOREM ApiRunsFeed == ApiSpec => FeedSpec
<1>1. ApiInit => FeedInit
  BY DEF ApiInit
<1> QED
  BY <1>1, ApiStepIsFeedStep, PTL DEF ApiSpec, FeedSpec

(* A request that has begun stays begun, and only Connect begins one. *)
LEMMA RequestsAge ==
  ASSUME FeedTyped, PublisherNext \/ BusCloses \/ \E c \in Clients : StreamStep(c)
  PROVE  /\ Busy' \subseteq Busy
         /\ \A c \in Clients : hpc'[c] = "none" <=> hpc[c] = "none"
<1>0. hpc \in [Clients -> {"none", "subscribe", "select", "write", "done"}]
  BY DEF FeedTyped
<1>1. CASE PublisherNext \/ BusCloses
  BY <1>1, PublishersAway DEF Busy
<1>2. ASSUME NEW c \in Clients, StreamStep(c)
      PROVE  \/ hpc' = hpc
             \/ /\ hpc[c] \in {"subscribe", "select", "write"}
                /\ \E v \in {"select", "write", "done"} : hpc' = [hpc EXCEPT ![c] = v]
  BY <1>2 DEF StreamStep, LinkBreaks, Resubscribe, Subscribed, StartStream, Disconnect,
       SubscribeFails, Return, Receive, Send, Cancelled, ChannelClosed, StopForwarder,
       WriteFrame, WriteFails, StreamEnds, pubVars, endVars, msgVars
<1>3. ASSUME NEW c \in Clients, StreamStep(c)
      PROVE  /\ Busy' \subseteq Busy
             /\ \A d \in Clients : hpc'[d] = "none" <=> hpc[d] = "none"
  BY <1>0, <1>2, <1>3 DEF Busy
<1> QED
  BY <1>1, <1>3

(* A busy request has begun. *)
LEMMA BusyBegan == Busy # {} => \E c \in Clients : hpc[c] # "none"
BY DEF Busy

(* Start's steps and the serving goroutines keep Start's invariant. *)
LEMMA LifeKeeps ==
  ASSUME StartInv, LifeStep, UNCHANGED feedVars
  PROVE  StartInv'
<1>0. Busy' = Busy /\ hpc' = hpc
  BY DEF feedVars, endVars, Busy
<1>15. Flags'
  <2>1. /\ tls' = tls \/ tls' = TRUE
        /\ signalled' = signalled \/ signalled' = TRUE
    BY DEF LifeStep, buildTLSConfig, startMetricsListener, Listen, Drain, Drained,
           DrainTimesOut, ServeReturns, Deferred, ServerStep, BindMTLS, ServeMTLS, ServeMetrics,
           AcceptFails, MetricsAcceptFails, Signal
  <2> QED
    BY <2>1 DEF StartInv, Flags
<1> USE DEF StartInv, StartSteps, Sockets
<1>1. CASE buildTLSConfig
  <2>1. StartTyped'
    BY <1>1 DEF StartTyped, buildTLSConfig, Leave
  <2>2. Progress'
    BY <1>0, <1>1 DEF StartTyped, Progress, buildTLSConfig, Leave
  <2>3. Reasons'
    BY <1>0, <1>1 DEF StartTyped, Progress, Reasons, buildTLSConfig, Leave
  <2> QED
    BY <1>15, <2>1, <2>2, <2>3
<1>2. CASE startMetricsListener
  <2>1. StartTyped'
    BY <1>2 DEF StartTyped, startMetricsListener, Leave
  <2>2. Progress'
    BY <1>0, <1>2 DEF StartTyped, Progress, startMetricsListener, Leave
  <2>3. Reasons'
    BY <1>0, <1>2 DEF StartTyped, Progress, Reasons, startMetricsListener, Leave
  <2> QED
    BY <1>15, <2>1, <2>2, <2>3
<1>3. CASE Listen
  <2>1. StartTyped'
    BY <1>3 DEF StartTyped, Listen
  <2>2. Progress'
    BY <1>0, <1>3 DEF StartTyped, Progress, Listen
  <2>3. Reasons'
    BY <1>0, <1>3 DEF StartTyped, Progress, Reasons, Listen
  <2> QED
    BY <1>15, <2>1, <2>2, <2>3
<1>4. CASE Drain
  <2>1. StartTyped'
    BY <1>4 DEF StartTyped, Drain, Stopped
  <2>2. Progress'
    BY <1>0, <1>4 DEF StartTyped, Progress, Drain, Stopped
  <2>3. Reasons'
    BY <1>0, <1>4 DEF StartTyped, Progress, Reasons, Drain, Stopped
  <2> QED
    BY <1>15, <2>1, <2>2, <2>3
<1>5. CASE Drained
  <2>1. StartTyped'
    BY <1>5 DEF StartTyped, Drained, Leave
  <2>2. Progress'
    BY <1>0, <1>5 DEF StartTyped, Progress, Drained, Leave
  <2>3. Reasons'
    BY <1>0, <1>5 DEF StartTyped, Progress, Reasons, Drained, Leave
  <2> QED
    BY <1>15, <2>1, <2>2, <2>3
<1>6. CASE DrainTimesOut
  <2>1. StartTyped'
    BY <1>6 DEF StartTyped, DrainTimesOut, Leave
  <2>2. Progress'
    BY <1>0, <1>6 DEF StartTyped, Progress, DrainTimesOut, Leave
  <2>3. Reasons'
    BY <1>0, <1>6, BusyBegan DEF StartTyped, Progress, Reasons, DrainTimesOut, Leave
  <2> QED
    BY <1>15, <2>1, <2>2, <2>3
<1>7. CASE ServeReturns
  <2>1. StartTyped'
    BY <1>7 DEF StartTyped, ServeReturns, Leave
  <2>2. Progress'
    BY <1>0, <1>7 DEF StartTyped, Progress, ServeReturns, Leave
  <2>3. Reasons'
    BY <1>0, <1>7 DEF StartTyped, Progress, Reasons, ServeReturns, Leave
  <2> QED
    BY <1>15, <2>1, <2>2, <2>3
<1>8. CASE Deferred
  <2>1. StartTyped'
    BY <1>8 DEF StartTyped, Deferred, Stopped
  <2>2. Progress'
    BY <1>0, <1>8 DEF StartTyped, Progress, Deferred, Stopped
  <2>3. Reasons'
    <3>1. err' = err /\ tls' = tls /\ signalled' = signalled
      BY <1>8 DEF Deferred
    <3>2. "mtls" \notin shut => "mtls" \notin shut'
      BY <1>8 DEF Deferred
    <3> QED
      BY <1>0, <3>1, <3>2 DEF Reasons
  <2> QED
    BY <1>15, <2>1, <2>2, <2>3
<1>9. CASE BindMTLS
  <2>1. StartTyped'
    BY <1>9 DEF StartTyped, BindMTLS
  <2>2. Progress'
    BY <1>0, <1>9 DEF StartTyped, Progress, BindMTLS
  <2>3. Reasons'
    BY <1>0, <1>9 DEF StartTyped, Progress, Reasons, BindMTLS
  <2> QED
    BY <1>15, <2>1, <2>2, <2>3
<1>10. CASE ServeMTLS
  <2>1. StartTyped'
    BY <1>10 DEF StartTyped, ServeMTLS
  <2>2. Progress'
    BY <1>0, <1>10 DEF StartTyped, Progress, ServeMTLS
  <2>3. Reasons'
    BY <1>0, <1>10 DEF StartTyped, Progress, Reasons, ServeMTLS
  <2> QED
    BY <1>15, <2>1, <2>2, <2>3
<1>11. CASE ServeMetrics
  <2>1. StartTyped'
    BY <1>11 DEF StartTyped, ServeMetrics
  <2>2. Progress'
    BY <1>0, <1>11 DEF StartTyped, Progress, ServeMetrics
  <2>3. Reasons'
    BY <1>0, <1>11 DEF StartTyped, Progress, Reasons, ServeMetrics
  <2> QED
    BY <1>15, <2>1, <2>2, <2>3
<1>12. CASE AcceptFails
  <2>1. StartTyped'
    BY <1>12 DEF StartTyped, AcceptFails
  <2>2. Progress'
    BY <1>0, <1>12 DEF StartTyped, Progress, AcceptFails
  <2>3. Reasons'
    BY <1>0, <1>12 DEF StartTyped, Progress, Reasons, AcceptFails
  <2> QED
    BY <1>15, <2>1, <2>2, <2>3
<1>13. CASE MetricsAcceptFails
  <2>1. StartTyped'
    BY <1>13 DEF StartTyped, MetricsAcceptFails
  <2>2. Progress'
    BY <1>0, <1>13 DEF StartTyped, Progress, MetricsAcceptFails
  <2>3. Reasons'
    BY <1>0, <1>13 DEF StartTyped, Progress, Reasons, MetricsAcceptFails
  <2> QED
    BY <1>15, <2>1, <2>2, <2>3
<1>14. CASE Signal
  <2>1. StartTyped'
    BY <1>14 DEF StartTyped, Signal
  <2>2. Progress'
    BY <1>0, <1>14 DEF StartTyped, Progress, Signal
  <2>3. Reasons'
    BY <1>0, <1>14 DEF StartTyped, Progress, Reasons, Signal
  <2> QED
    BY <1>15, <2>1, <2>2, <2>3
<1> QED
  BY <1>1, <1>2, <1>3, <1>4, <1>5, <1>6, <1>7, <1>8, <1>9, <1>10, <1>11, <1>12, <1>13, <1>14
  DEF LifeStep, ServerStep

(* Every step of the server does. *)
LEMMA StartInvStep ==
  FeedIInv /\ StartInv /\ [ApiNext]_apiVars => StartInv'
<1> SUFFICES ASSUME FeedIInv, StartInv, [ApiNext]_apiVars
             PROVE  StartInv'
  OBVIOUS
<1>1. CASE LifeStep /\ UNCHANGED feedVars
  BY <1>1, LifeKeeps
<1>2. ASSUME UNCHANGED <<tls, mtls, metrics, errCh, shut, signalled, err>>,
             \/ spc' = spc
             \/ spc = "returned" /\ spc' = "closed",
             ~tls => Busy' = {},
             \A c \in Clients : hpc[c] # "none" => hpc'[c] # "none"
      PROVE  StartInv'
  BY <1>2 DEF StartInv, Flags, StartTyped, Progress, Reasons, StartSteps
<1>3. CASE CloseBus
  <2>1. BusCloses /\ FeedTyped
    BY <1>3 DEF CloseBus, FeedIInv
  <2> QED
    BY <1>2, <1>3, <2>1, RequestsAge DEF CloseBus, StartInv, Progress
<1>4. ASSUME NEW c \in Clients, mtls = "serving", Connect(c), UNCHANGED startVars
      PROVE  StartInv'
  <2>1. tls
    BY <1>4 DEF StartInv, StartTyped, Progress
  <2>2. \A d \in Clients : hpc[d] # "none" => hpc'[d] # "none"
    BY <1>4 DEF Connect, FeedIInv, FeedTyped
  <2> QED
    BY <1>2, <1>4, <2>1, <2>2 DEF startVars
<1>5. CASE (PublisherNext \/ \E c \in Clients : StreamStep(c)) /\ UNCHANGED startVars
  BY <1>2, <1>5, RequestsAge DEF startVars, StartInv, Progress, FeedIInv
<1>6. CASE UNCHANGED apiVars
  BY <1>6 DEF apiVars, startVars, feedVars, endVars, StartInv, Flags, StartTyped, Progress, Reasons, Busy
<1> QED
  BY <1>1, <1>3, <1>4, <1>5, <1>6, ApiStepKinds

(* Start's invariant holds throughout. *)
THEOREM StartInductive == ApiSpec => [](FeedIInv /\ StartInv)
<1>1. ApiInit => FeedIInv /\ StartInv
  <2>1. ApiInit => FeedIInv
    BY FeedIInvInit DEF ApiInit
  <2>2. ApiInit => Flags /\ StartTyped
    BY DEF ApiInit, Flags, StartTyped, StartSteps, Sockets
  <2>3. ApiInit => Busy = {}
    BY DEF ApiInit, FeedInit, Busy
  <2>4. ApiInit => Progress /\ Reasons
    BY <2>3 DEF ApiInit, Progress, Reasons
  <2> QED
    BY <2>1, <2>2, <2>4 DEF StartInv
<1>2. FeedIInv /\ StartInv /\ [ApiNext]_apiVars => FeedIInv' /\ StartInv'
  BY FeedIInvStep, StartInvStep, ApiStepIsFeedStep
<1> QED
  BY <1>1, <1>2, PTL DEF ApiSpec

(* The server's variables, and the feed's with them, have their types. *)
THEOREM ApiTypeCorrect == ApiSpec => []ApiTypeOK
<1>1. FeedIInv /\ StartInv => ApiTypeOK
  BY FeedIInvMeans DEF StartInv, Flags, StartTyped, ApiTypeOK
<1> QED
  BY <1>1, StartInductive, PTL

(* "no plaintext fallback (fail-closed)" (server.go, Start): whatever      *)
(* fails and whenever the signal comes, no socket is open and no request   *)
(* is served before the TLS configuration stands.                          *)
THEOREM TLSFirst == ApiSpec => []NothingBeforeTLS
<1>1. FeedIInv /\ StartInv => NothingBeforeTLS
  BY DEF StartInv, Progress, NothingBeforeTLS, Open
<1> QED
  BY <1>1, StartInductive, PTL

(* Start returns an error only where it could not start or go on serving,  *)
(* or where a client outlasted the drain.                                  *)
THEOREM CleanStop == ApiSpec => []QuietStopIsClean
<1>1. FeedIInv /\ StartInv => QuietStopIsClean
  BY DEF StartInv, Reasons, QuietStopIsClean
<1> QED
  BY <1>1, StartInductive, PTL

==============================================================================
