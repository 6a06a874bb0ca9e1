---------------------------- MODULE AclLoopProofs ----------------------------
(***************************************************************************)
(* The helper's line protocol answers each request with its own verdict,   *)
(* for every set of host fields and channels, in both framings, through    *)
(* signals, read and write errors and restarts of the helper.              *)
(***************************************************************************)
EXTENDS AclLoop, SequenceTheorems, TLAPS

(* The slot a line's reply will be matched to. *)
SlotOf(line) == IF Len(line) = 2 THEN line[1] ELSE NoChannel

InHand == lpc \in {"decide", "write"}

(* A line in the pipe is one Squid wrote for a request it has open. *)
LinesInv ==
  \A i \in 1..Len(lines) :
    \E s \in Slots : waiting[s] # Free /\ lines[i] = Line(s, waiting[s])

(* The parsed line is the open request of its slot; no host, no access. *)
HandInv ==
  InHand => /\ req.channel \in Slots
            /\ waiting[req.channel] # Free
            /\ req.host = Decoded(waiting[req.channel])
            /\ lpc = "write" /\ req.host = NoHost => ~verdict

(* A request is in one place: one line, the loop's hands, or one reply. *)
OnePlace ==
  /\ \A i, j \in 1..Len(lines) : i # j => SlotOf(lines[i]) # SlotOf(lines[j])
  /\ \A i \in 1..Len(lines) : InHand => SlotOf(lines[i]) # req.channel
  /\ \A i \in 1..Len(replies) : InHand => replies[i].slot # req.channel
  /\ \A i \in 1..Len(lines), j \in 1..Len(replies) : SlotOf(lines[i]) # replies[j].slot

(* What a signal leaves to be done. *)
LateInv ==
  /\ late <= 1
  /\ ~cancelled => late = 0
  /\ late = 1 => lpc \in {"top", "off"}

AclIInv ==
  /\ AclTypeOK
  /\ LinesInv /\ HandInv /\ OnePlace /\ LateInv /\ ReplyFitsRequest

------------------------------------------------------------------------------
(* Reading back what Squid writes gives the slot and the decoded host, in  *)
(* both framings, for all-digit hosts too (ParseLine).                     *)
LEMMA LineParses ==
  ASSUME NEW F \in Framings, NEW s \in F, NEW f \in HostFields
  PROVE  /\ Line(s, f) \in Seq(HostFields)
         /\ SlotOf(Line(s, f)) = s
         /\ ParseLine(Line(s, f)) = Request(s, Decoded(f))
<1>1. CASE s = NoChannel
  <2>1. Line(s, f) = <<f>> /\ Len(<<f>>) = 1 /\ <<f>>[1] = f /\ <<f>> # <<>>
    BY <1>1 DEF Line
  <2>2. QED
    BY <1>1, <2>1 DEF SlotOf, ParseLine
<1>2. CASE s # NoChannel
  <2>1. s \in Numerals
    BY <1>2, LoopAssumption DEF Framings
  <2>2. /\ Line(s, f) = <<s, f>> /\ Len(<<s, f>>) = 2
        /\ <<s, f>>[1] = s /\ <<s, f>>[2] = f /\ <<s, f>> # <<>>
    BY <1>2 DEF Line
  <2>3. QED
    BY <2>1, <2>2 DEF SlotOf, ParseLine, isChannelID, HostFields
<1>3. QED
  BY <1>1, <1>2

(* The initial states satisfy the invariant. *)
LEMMA AclIInvInit == AclInit => AclIInv
<1> SUFFICES ASSUME AclInit PROVE AclIInv
  OBVIOUS
<1>1. PICK F \in Framings : waiting = [s \in F |-> Free]
  BY DEF AclInit
<1>2. AclTypeOK
  <2>1. Slots = F /\ waiting \in [F -> HostFields \cup {Free}]
    BY <1>1 DEF Slots
  <2>2. lines \in Seq(Seq(HostFields))
    BY DEF AclInit
  <2>3. replies \in Seq([slot: Slots \cup {NoChannel}, host: HostFields \cup {NoHost}, ok: BOOLEAN])
    BY DEF AclInit
  <2>4. req \in [channel: Slots \cup {NoChannel}, host: HostFields \cup {NoHost}]
    BY DEF AclInit, NoRequest, Request
  <2>5. QED
    BY <2>1, <2>2, <2>3, <2>4 DEF AclInit, AclTypeOK, LoopSteps
<1>3. QED
  BY <1>2 DEF AclInit, AclIInv, LinesInv, HandInv, OnePlace, LateInv, ReplyFitsRequest, InHand

(* Steps that move no line and no reply, and keep the request in hand. *)
LEMMA QuietStep ==
  ASSUME AclIInv, AclTypeOK', LateInv',
         UNCHANGED <<waiting, lines, replies>>,
         InHand' => InHand /\ UNCHANGED req /\ (lpc' = "write" /\ req.host = NoHost => ~verdict')
  PROVE  AclIInv'
<1>1. LinesInv' /\ ReplyFitsRequest'
  BY DEF AclIInv, LinesInv, ReplyFitsRequest, Slots
<1>2. HandInv'
  BY DEF AclIInv, HandInv, Slots
<1>3. OnePlace'
  BY DEF AclIInv, OnePlace
<1>4. QED
  BY <1>1, <1>2, <1>3 DEF AclIInv

(* Squid writes a request for a slot that had none. *)
LEMMA AskStep ==
  ASSUME AclIInv, NEW s \in Slots, NEW f \in HostFields, Ask(s, f)
  PROVE  AclIInv'
<1> USE DEF AclIInv
<1>1. /\ Slots' = Slots /\ Slots \in Framings
      /\ waiting' = [waiting EXCEPT ![s] = f] /\ waiting[s] = Free
      /\ waiting' \in [Slots -> HostFields \cup {Free}] /\ waiting'[s] = f
      /\ \A q \in Slots : waiting[q] # Free => waiting'[q] = waiting[q]
  BY DEF Ask, Slots, AclTypeOK
<1>2. f # Free
  BY LoopAssumption DEF HostFields
<1>3. Line(s, f) \in Seq(HostFields) /\ SlotOf(Line(s, f)) = s
  BY <1>1, LineParses
<1>4. /\ lines' \in Seq(Seq(HostFields))
      /\ Len(lines') = Len(lines) + 1 /\ Len(lines) \in Nat
      /\ \A i \in 1..Len(lines) : lines'[i] = lines[i]
      /\ lines'[Len(lines) + 1] = Line(s, f)
  BY <1>3, AppendProperties DEF Ask, AclTypeOK
<1>5. AclTypeOK' /\ LateInv'
  BY <1>1, <1>4 DEF AclTypeOK, LateInv, Ask, loopVars, LoopSteps
<1>6. \A i \in 1..Len(lines) : SlotOf(lines[i]) \in Slots /\ waiting[SlotOf(lines[i])] # Free
  BY <1>1, LineParses DEF LinesInv, AclTypeOK
<1>7. LinesInv'
  <2> SUFFICES ASSUME NEW i \in 1..Len(lines')
               PROVE  \E q \in Slots : waiting'[q] # Free /\ lines'[i] = Line(q, waiting'[q])
    BY <1>1 DEF LinesInv
  <2>1. CASE i = Len(lines) + 1
    BY <1>1, <1>2, <1>4, <2>1
  <2>2. CASE i \in 1..Len(lines)
    BY <1>1, <1>4, <2>2 DEF LinesInv
  <2>3. QED
    BY <1>4, <2>1, <2>2
<1>8. HandInv' /\ ReplyFitsRequest'
  BY <1>1 DEF HandInv, ReplyFitsRequest, InHand, Ask, loopVars
<1>9. OnePlace'
  <2>1. UNCHANGED <<lpc, req, replies>>
    BY DEF Ask, loopVars
  <2>2. InHand => req.channel # s
    BY <1>1 DEF HandInv
  <2>3. \A i \in 1..Len(replies) : replies[i].slot # s
    BY <1>1 DEF ReplyFitsRequest
  <2>4. \A i \in 1..Len(lines) : SlotOf(lines[i]) # s
    BY <1>1, <1>6
  <2>5. \A i \in 1..Len(lines') :
          \/ i \in 1..Len(lines) /\ SlotOf(lines'[i]) = SlotOf(lines[i])
          \/ i = Len(lines) + 1 /\ SlotOf(lines'[i]) = s
    BY <1>3, <1>4
  <2>6. QED
    BY <2>1, <2>2, <2>3, <2>4, <2>5 DEF OnePlace, InHand
<1>10. QED
  BY <1>5, <1>7, <1>8, <1>9

(* Squid takes a reply: the slot is free again, and nothing else is in it. *)
LEMMA ReceiveStep ==
  ASSUME AclIInv, Receive
  PROVE  AclIInv'
<1> USE DEF AclIInv
<1> DEFINE R == [slot: Slots \cup {NoChannel}, host: HostFields \cup {NoHost}, ok: BOOLEAN]
           q == Head(replies).slot
<1>1. /\ Slots' = Slots /\ Slots \in Framings
      /\ waiting' \in [Slots -> HostFields \cup {Free}]
      /\ \A s \in Slots \ {q} : waiting'[s] = waiting[s]
  BY DEF Receive, Slots, AclTypeOK
<1>2. replies \in Seq(R) /\ replies # <<>> /\ replies' = Tail(replies)
  BY DEF AclTypeOK, Receive
<1>3. /\ replies' \in Seq(R) /\ Len(replies') = Len(replies) - 1 /\ Len(replies) \in Nat \ {0}
      /\ \A i \in 1..Len(replies') : replies'[i] = replies[i + 1]
      /\ Head(replies) = replies[1]
  BY <1>2, HeadTailProperties, EmptySeq
<1>4. UNCHANGED <<lines, lpc, req, verdict>>
  BY DEF Receive, loopVars
<1>5. AclTypeOK' /\ LateInv'
  BY <1>1, <1>3 DEF AclTypeOK, LateInv, Receive, loopVars, LoopSteps
<1>6. LinesInv'
  <2> SUFFICES ASSUME NEW i \in 1..Len(lines)
               PROVE  \E s \in Slots : waiting'[s] # Free /\ lines[i] = Line(s, waiting'[s])
    BY <1>1, <1>4 DEF LinesInv
  <2>1. PICK s \in Slots : waiting[s] # Free /\ lines[i] = Line(s, waiting[s])
    BY DEF LinesInv
  <2>2. s # q
    <3>1. SlotOf(lines[i]) = s
      BY <1>1, <2>1, LineParses DEF AclTypeOK
    <3>2. QED
      BY <1>3, <3>1 DEF OnePlace
  <2>3. QED
    BY <1>1, <2>1, <2>2
<1>7. HandInv'
  BY <1>1, <1>3, <1>4 DEF HandInv, InHand, OnePlace
<1>8. \A i \in 1..Len(replies') : i + 1 \in 1..Len(replies) /\ i + 1 # 1
  BY <1>3
<1>9. OnePlace'
  <2>1. \A i \in 1..Len(lines), j \in 1..Len(replies') : SlotOf(lines[i]) # replies'[j].slot
    BY <1>3, <1>8 DEF OnePlace
  <2>2. \A i \in 1..Len(replies') : InHand => replies'[i].slot # req.channel
    BY <1>3, <1>8 DEF OnePlace
  <2>3. QED
    BY <1>4, <2>1, <2>2 DEF OnePlace, InHand
<1>10. ReplyFitsRequest'
  <2>1. \A i, j \in 1..Len(replies') : i # j => replies'[i].slot # replies'[j].slot
    BY <1>3, <1>8 DEF ReplyFitsRequest
  <2>2. \A i \in 1..Len(replies') : replies'[i].slot # q
    BY <1>3, <1>8 DEF ReplyFitsRequest
  <2>3. QED
    BY <1>1, <1>3, <1>8, <2>1, <2>2 DEF ReplyFitsRequest
<1>11. QED
  BY <1>5, <1>6, <1>7, <1>9, <1>10

(* The loop takes the first line in hand. *)
LEMMA ReadLineStep ==
  ASSUME AclIInv, ReadLine
  PROVE  AclIInv'
<1> USE DEF AclIInv
<1>1. /\ Slots' = Slots /\ Slots \in Framings
      /\ UNCHANGED <<waiting, replies, verdict>> /\ lpc' = "decide"
  BY DEF ReadLine, squidVars, Slots, AclTypeOK
<1>2. lines \in Seq(Seq(HostFields)) /\ lines # <<>> /\ lines' = Tail(lines)
  BY DEF AclTypeOK, ReadLine
<1>3. /\ lines' \in Seq(Seq(HostFields))
      /\ Len(lines') = Len(lines) - 1 /\ Len(lines) \in Nat \ {0}
      /\ \A i \in 1..Len(lines') : lines'[i] = lines[i + 1]
      /\ Head(lines) = lines[1]
  BY <1>2, HeadTailProperties, EmptySeq
<1>4. PICK s \in Slots : waiting[s] # Free /\ lines[1] = Line(s, waiting[s])
  BY <1>3 DEF LinesInv
<1>5. waiting[s] \in HostFields
  BY <1>4 DEF AclTypeOK
<1>6. SlotOf(lines[1]) = s /\ req' = Request(s, Decoded(waiting[s]))
  BY <1>1, <1>3, <1>4, <1>5, LineParses DEF ReadLine
<1>7. req'.channel = s /\ req'.host = Decoded(waiting[s])
  BY <1>6 DEF Request
<1>8. AclTypeOK'
  <2>1. req' \in [channel: Slots \cup {NoChannel}, host: HostFields \cup {NoHost}]
    BY <1>4, <1>5, <1>6 DEF Request, Decoded
  <2>2. atEnd' \in BOOLEAN
    BY DEF ReadLine
  <2>3. QED
    BY <1>1, <1>3, <2>1, <2>2 DEF AclTypeOK, ReadLine, squidVars, LoopSteps
<1>9. LateInv'
  BY DEF LateInv, ReadLine
<1>10. \A i \in 1..Len(lines') : i + 1 \in 1..Len(lines) /\ i + 1 # 1
  BY <1>3
<1>11. LinesInv'
  <2> SUFFICES ASSUME NEW i \in 1..Len(lines')
               PROVE  \E q \in Slots : waiting[q] # Free /\ lines'[i] = Line(q, waiting[q])
    BY <1>1 DEF LinesInv
  <2>1. i + 1 \in 1..Len(lines) /\ lines'[i] = lines[i + 1]
    BY <1>3, <1>10
  <2>2. QED
    BY <2>1 DEF LinesInv
<1>12. HandInv'
  BY <1>1, <1>4, <1>7 DEF HandInv
<1>13. OnePlace'
  <2>1. \A i \in 1..Len(lines') : SlotOf(lines'[i]) = SlotOf(lines[i + 1])
    BY <1>3
  <2>2. \A i \in 1..Len(lines') : SlotOf(lines'[i]) # s
    BY <1>3, <1>6, <1>10, <2>1 DEF OnePlace
  <2>3. \A i \in 1..Len(replies) : replies[i].slot # s
    BY <1>3, <1>6 DEF OnePlace
  <2>4. \A i, j \in 1..Len(lines') : i # j => SlotOf(lines'[i]) # SlotOf(lines'[j])
    <3> SUFFICES ASSUME NEW i \in 1..Len(lines'), NEW j \in 1..Len(lines'), i # j
                 PROVE  SlotOf(lines'[i]) # SlotOf(lines'[j])
      OBVIOUS
    <3>1. i + 1 \in 1..Len(lines) /\ j + 1 \in 1..Len(lines) /\ i + 1 # j + 1
      BY <1>3
    <3>2. QED
      BY <2>1, <3>1 DEF OnePlace
  <2>5. QED
    BY <1>1, <1>7, <1>10, <2>1, <2>2, <2>3, <2>4 DEF OnePlace
<1>14. ReplyFitsRequest'
  BY <1>1 DEF ReplyFitsRequest
<1>15. QED
  BY <1>8, <1>9, <1>11, <1>12, <1>13, <1>14

(* The request in hand becomes a reply. *)
LEMMA WriteReplyStep ==
  ASSUME AclIInv, WriteReply
  PROVE  AclIInv'
<1> USE DEF AclIInv
<1> DEFINE R == [slot: Slots \cup {NoChannel}, host: HostFields \cup {NoHost}, ok: BOOLEAN]
           r == FormatReply(req, verdict)
<1>1. /\ Slots' = Slots /\ UNCHANGED <<waiting, lines>>
      /\ lpc = "write" /\ InHand /\ ~InHand' /\ lpc' \in {"top", "off"}
  BY DEF WriteReply, squidVars, Slots, InHand
<1>2. r \in R /\ r.slot = req.channel /\ r.host = req.host /\ r.ok = verdict
  BY DEF AclTypeOK, FormatReply
<1>3. /\ replies' \in Seq(R) /\ Len(replies') = Len(replies) + 1 /\ Len(replies) \in Nat
      /\ \A i \in 1..Len(replies) : replies'[i] = replies[i]
      /\ replies'[Len(replies) + 1] = r
  BY <1>2, AppendProperties DEF AclTypeOK, WriteReply
<1>4. AclTypeOK'
  <2>1. req' \in [channel: Slots \cup {NoChannel}, host: HostFields \cup {NoHost}]
    BY DEF WriteReply, DropLine, NoRequest, Request
  <2>2. late' \in Nat
    BY DEF WriteReply, AclTypeOK
  <2>3. QED
    BY <1>1, <1>3, <2>1, <2>2 DEF AclTypeOK, WriteReply, squidVars, LoopSteps, DropLine
<1>5. LateInv'
  BY <1>1 DEF LateInv, WriteReply, AclTypeOK
<1>6. LinesInv' /\ HandInv'
  BY <1>1 DEF LinesInv, HandInv
<1>7. \A i \in 1..Len(replies') : i \in 1..Len(replies) \/ i = Len(replies) + 1
  BY <1>3
<1>8. OnePlace'
  BY <1>1, <1>2, <1>3, <1>7 DEF OnePlace
<1>9. ReplyFitsRequest'
  <2>1. /\ r.slot \in Slots /\ waiting[r.slot] # Free /\ r.host = Decoded(waiting[r.slot])
        /\ r.host = NoHost => ~r.ok
        /\ \A i \in 1..Len(replies) : replies[i].slot # r.slot
    BY <1>1, <1>2 DEF HandInv, OnePlace
  <2>2. \A i, j \in 1..Len(replies') : i # j => replies'[i].slot # replies'[j].slot
    BY <1>3, <1>7, <2>1 DEF ReplyFitsRequest
  <2>3. QED
    BY <1>1, <1>3, <1>7, <2>1, <2>2 DEF ReplyFitsRequest
<1>10. QED
  BY <1>4, <1>5, <1>6, <1>8, <1>9

(* A new helper starts with nothing open. *)
LEMMA RespawnStep ==
  ASSUME AclIInv, Respawn
  PROVE  AclIInv'
<1>1. Slots' = Slots /\ waiting' \in [Slots -> HostFields \cup {Free}]
  BY DEF Respawn, Slots
<1>2. lines' \in Seq(Seq(HostFields)) /\ Len(lines') = 0 /\ Len(replies') = 0
  BY DEF Respawn
<1>3. AclTypeOK'
  BY <1>1, <1>2 DEF AclIInv, AclTypeOK, Respawn, LoopSteps
<1>4. QED
  BY <1>2, <1>3 DEF AclIInv, Respawn, LinesInv, HandInv, OnePlace, LateInv,
                    ReplyFitsRequest, InHand

(* The loop ends, with or without a request in hand. *)
LEMMA ReturnStep ==
  ASSUME AclIInv, Return
  PROVE  AclIInv'
<1>1. Slots' = Slots /\ UNCHANGED <<waiting, lines, replies>> /\ ~InHand'
  BY DEF Return, squidVars, Slots, InHand
<1>2. req' \in [channel: Slots \cup {NoChannel}, host: HostFields \cup {NoHost}]
  BY DEF Return, DropLine, NoRequest, Request
<1>3. AclTypeOK'
  BY <1>1, <1>2 DEF AclIInv, AclTypeOK, Return, DropLine, squidVars, LoopSteps
<1>4. LateInv'
  BY DEF AclIInv, LateInv, Return
<1>5. QED
  BY <1>1, <1>3, <1>4, QuietStep

(* Every step keeps the invariant. *)
LEMMA AclIInvStep == AclIInv /\ [AclNext]_aclVars => AclIInv'
<1> SUFFICES ASSUME AclIInv, [AclNext]_aclVars PROVE AclIInv'
  OBVIOUS
<1>1. CASE \E s \in Slots, f \in HostFields : Ask(s, f)
  BY <1>1, AskStep
<1>2. CASE Receive
  BY <1>2, ReceiveStep
<1>3. CASE Respawn
  BY <1>3, RespawnStep
<1>4. CASE CloseInput \/ Signal \/ UNCHANGED aclVars
  <2>1. UNCHANGED <<waiting, lines, replies, lpc, req, verdict, atEnd, late>>
    BY <1>4 DEF CloseInput, Signal, aclVars, squidVars, loopVars
  <2>2. Slots' = Slots
    BY <2>1 DEF Slots
  <2>3. AclTypeOK'
    BY <1>4, <2>1, <2>2 DEF AclIInv, AclTypeOK, LoopSteps, CloseInput, Signal, aclVars, squidVars, loopVars
  <2>4. LateInv'
    BY <1>4, <2>1 DEF AclIInv, LateInv, CloseInput, Signal, aclVars
  <2>5. InHand' => InHand /\ UNCHANGED req /\ (lpc' = "write" /\ req.host = NoHost => ~verdict')
    BY <2>1 DEF AclIInv, HandInv, InHand
  <2>6. QED
    BY <2>1, <2>3, <2>4, <2>5, QuietStep
<1>5. CASE LoopTop
  <2>1. CASE Return
    BY <2>1, ReturnStep
  <2>2. CASE ~Return
    <3>1. /\ lpc = "top" /\ ~cancelled /\ lpc' = "read"
          /\ UNCHANGED <<squidVars, lines, replies, req, verdict, atEnd, late, cancelled>>
      BY <1>5, <2>2 DEF LoopTop
    <3>2. Slots' = Slots /\ UNCHANGED <<waiting, closed>> /\ ~InHand'
      BY <3>1 DEF Slots, squidVars, InHand
    <3>3. AclTypeOK' /\ LateInv'
      BY <3>1, <3>2 DEF AclIInv, AclTypeOK, LateInv, LoopSteps
    <3>4. QED
      BY <3>1, <3>2, <3>3, QuietStep
  <2>3. QED
    BY <2>1, <2>2
<1>6. CASE ReadLine
  BY <1>6, ReadLineStep
<1>7. CASE ReadEOF \/ ReadFails \/ WriteFails
  BY <1>7, ReturnStep DEF ReadEOF, ReadFails, WriteFails
<1>8. CASE Decide \/ decideWithTimeout
  <2>1. PICK ok \in BOOLEAN : Decided(ok) /\ (ok => req.host # NoHost)
    BY <1>8 DEF Decide, decideWithTimeout
  <2>2. Slots' = Slots /\ UNCHANGED <<waiting, lines, replies, req>> /\ InHand
    BY <2>1 DEF Decided, Slots, squidVars, InHand
  <2>3. AclTypeOK' /\ LateInv'
    BY <2>1, <2>2 DEF AclIInv, AclTypeOK, LateInv, LoopSteps, Decided, squidVars
  <2>4. lpc' = "write" /\ req.host = NoHost => ~verdict'
    BY <2>1 DEF Decided
  <2>5. QED
    BY <2>2, <2>3, <2>4, QuietStep
<1>9. CASE WriteReply
  BY <1>9, WriteReplyStep
<1>10. QED
  BY <1>1, <1>2, <1>3, <1>4, <1>5, <1>6, <1>7, <1>8, <1>9 DEF AclNext, SquidStep, LoopStep

(* The protocol invariant: a request is a line of its own slot, the        *)
(* request in hand, or one reply, from Squid's write to its read.          *)
THEOREM AclInductive == AclSpec => []AclIInv
<1>1. QED
  BY AclIInvInit, AclIInvStep, PTL DEF AclSpec

(* The variables of the loop keep their types: req's channel is always one *)
(* Squid can match, although ParseLine takes it from the line.             *)
THEOREM AclTypeCorrect == AclSpec => []AclTypeOK
<1>1. AclIInv => AclTypeOK
  BY DEF AclIInv
<1>2. QED
  BY <1>1, AclInductive, PTL

(* Every reply is the verdict on the host of the open request its channel  *)
(* names, at most one per request, for any number of channels (ParseLine,  *)
(* FormatReply, loop).                                                     *)
THEOREM RepliesFit == AclSpec => []ReplyFitsRequest
<1>1. AclIInv => ReplyFitsRequest
  BY DEF AclIInv
<1>2. QED
  BY <1>1, AclInductive, PTL

(* A signal lets at most one more reply out, wherever it finds the loop    *)
(* (the check of ctx at the top of loop).                                  *)
THEOREM StopsAfterOneReply == AclSpec => []OneReplyAfterSignal
<1>1. AclIInv => OneReplyAfterSignal
  BY DEF AclIInv, LateInv, OneReplyAfterSignal
<1>2. QED
  BY <1>1, AclInductive, PTL

------------------------------------------------------------------------------
(* The refinement. *)

(* A slot holds an open request, with the host it names, or none. *)
LEMMA AskedIs ==
  ASSUME AclTypeOK, NEW s \in AllSlots
  PROVE  /\ s \in Slots /\ waiting[s] # Free =>
              Asked[s] = Decoded(waiting[s]) /\ Asked[s] # Free
         /\ ~(s \in Slots /\ waiting[s] # Free) => Asked[s] = Free
<1>1. ASSUME s \in Slots, waiting[s] # Free
      PROVE  Decoded(waiting[s]) # Free
  BY <1>1, LoopAssumption DEF AclTypeOK, Decoded, HostFields
<1>2. QED
  BY <1>1 DEF Asked

(* What the replies in the pipe say of a slot, given that none is answered *)
(* twice.                                                                  *)
LEMMA AnswersAre ==
  ASSUME ReplyFitsRequest, NEW s \in AllSlots
  PROVE  /\ (\A i \in 1..Len(replies) : replies[i].slot # s) => Answers[s] = "none"
         /\ \A i \in 1..Len(replies) : replies[i].slot = s =>
              Answers[s] = IF replies[i].ok THEN "OK" ELSE "ERR"
<1>1. ASSUME \A i \in 1..Len(replies) : replies[i].slot # s
      PROVE  Answers[s] = "none"
  BY <1>1 DEF Answers, RepliesTo
<1>2. ASSUME NEW i \in 1..Len(replies), replies[i].slot = s
      PROVE  Answers[s] = IF replies[i].ok THEN "OK" ELSE "ERR"
  <2>1. RepliesTo(s) = {i}
    BY <1>2 DEF RepliesTo, ReplyFitsRequest
  <2>2. QED
    BY <2>1 DEF Answers
<1>3. QED
  BY <1>1, <1>2

(* The steps that move no reply and open no request cannot be seen. *)
LEMMA HiddenStep ==
  ASSUME UNCHANGED <<waiting, replies>>
  PROVE  UNCHANGED Protocol!protocolVars
BY DEF Protocol!protocolVars, Asked, Answers, RepliesTo, Slots

(* Squid's write opens the request, with the host its field stands for. *)
LEMMA AskIsAsk ==
  ASSUME AclIInv, NEW s \in Slots, NEW f \in HostFields, Ask(s, f)
  PROVE  \E q \in AllSlots : Protocol!Ask(q)
<1>1. s \in AllSlots /\ AclTypeOK
  BY DEF AclIInv, AclTypeOK, Framings, AllSlots
<1>2. f # Free /\ Decoded(f) \in Names \cup Numerals \cup {NoHost}
  BY LoopAssumption DEF HostFields, Decoded
<1>3. Slots' = Slots /\ waiting' = [waiting EXCEPT ![s] = f] /\ waiting[s] = Free
  BY DEF Ask, Slots
<1>4. Asked[s] = Free
  BY <1>1, <1>3 DEF Asked
<1>5. Asked' = [Asked EXCEPT ![s] = Decoded(f)]
  BY <1>1, <1>2, <1>3 DEF Asked, AclTypeOK
<1>6. Answers' = Answers
  BY DEF Ask, Answers, RepliesTo
<1>7. QED
  BY <1>1, <1>2, <1>4, <1>5, <1>6 DEF Protocol!Ask

(* A reply written is the answer to the request in hand, which had none. *)
LEMMA WriteReplyIsAnswer ==
  ASSUME AclIInv, AclIInv', WriteReply
  PROVE  \E q \in AllSlots : Protocol!Answer(q)
<1> DEFINE v == IF verdict THEN "OK" ELSE "ERR"
<1>0. PICK s : s = req.channel
  OBVIOUS
<1>1. /\ s \in Slots /\ waiting[s] # Free /\ req.host = Decoded(waiting[s])
      /\ req.host = NoHost => ~verdict
      /\ \A i \in 1..Len(replies) : replies[i].slot # s
  BY <1>0 DEF AclIInv, HandInv, OnePlace, InHand, WriteReply
<1>2. s \in AllSlots
  BY <1>1 DEF AclIInv, AclTypeOK, Framings, AllSlots
<1>3. Asked' = Asked
  BY DEF WriteReply, squidVars, Asked, Slots
<1>4. Asked[s] = req.host /\ Asked[s] # Free
  BY <1>1, <1>2, AskedIs DEF AclIInv
<1>5. /\ Len(replies') = Len(replies) + 1 /\ Len(replies) \in Nat
      /\ \A i \in 1..Len(replies) : replies'[i] = replies[i]
      /\ replies'[Len(replies) + 1] = FormatReply(req, verdict)
  BY DEF AclIInv, AclTypeOK, WriteReply
<1>6. \A q \in AllSlots \ {s} : RepliesTo(q)' = RepliesTo(q)
  BY <1>0, <1>5 DEF RepliesTo, FormatReply
<1>7. RepliesTo(s) = {}
  BY <1>1 DEF RepliesTo
<1>8. \A q \in AllSlots \ {s} : \A i \in RepliesTo(q) : replies'[i] = replies[i]
  BY <1>5 DEF RepliesTo
<1>9. RepliesTo(s)' = {Len(replies) + 1}
  BY <1>0, <1>1, <1>5 DEF RepliesTo, FormatReply
<1>10. Answers' = [Answers EXCEPT ![s] = v]
  <2>1. \A q \in AllSlots \ {s} : Answers'[q] = Answers[q]
    BY <1>6, <1>8 DEF Answers
  <2>2. Answers'[s] = v
    BY <1>2, <1>5, <1>9 DEF Answers, FormatReply
  <2>3. QED
    BY <1>2, <2>1, <2>2 DEF Answers
<1>11. Answers[s] = "none"
  BY <1>2, <1>7 DEF Answers
<1>12. v \in IF Asked[s] = NoHost THEN {"ERR"} ELSE {"OK", "ERR"}
  BY <1>1, <1>4
<1>13. QED
  BY <1>2, <1>3, <1>4, <1>10, <1>11, <1>12 DEF Protocol!Answer

(* Squid's read takes the oldest reply, and its request is closed. *)
LEMMA ReceiveIsTake ==
  ASSUME AclIInv, AclIInv', Receive
  PROVE  \E q \in AllSlots : Protocol!Take(q)
<1> DEFINE R == [slot: Slots \cup {NoChannel}, host: HostFields \cup {NoHost}, ok: BOOLEAN]
<1>1. PICK s : s = Head(replies).slot
  OBVIOUS
<1>2. replies \in Seq(R) /\ replies # <<>> /\ replies' = Tail(replies)
  BY DEF AclIInv, AclTypeOK, Receive
<1>3. /\ Len(replies') = Len(replies) - 1 /\ Len(replies) \in Nat \ {0}
      /\ \A i \in 1..Len(replies') : replies'[i] = replies[i + 1]
      /\ replies[1].slot = s
  BY <1>1, <1>2, HeadTailProperties, EmptySeq
<1>4. s \in Slots /\ s \in AllSlots
  BY <1>3 DEF AclIInv, ReplyFitsRequest, AclTypeOK, Framings, AllSlots
<1>5. Asked' = [Asked EXCEPT ![s] = Free]
  <2>1. Slots' = Slots /\ waiting' = [q \in Slots |-> IF q = s THEN Free ELSE waiting[q]]
    BY <1>1 DEF Receive, Slots
  <2>2. QED
    BY <1>4, <2>1 DEF Asked
<1>6. \A i \in 2..Len(replies) : i - 1 \in 1..Len(replies') /\ replies'[i - 1] = replies[i]
  BY <1>3
<1>7. \A i \in 1..Len(replies') : replies'[i].slot # s
  BY <1>3 DEF AclIInv, ReplyFitsRequest
<1>8. \A q \in AllSlots \ {s} : Answers'[q] = Answers[q]
  <2> SUFFICES ASSUME NEW q \in AllSlots \ {s} PROVE Answers'[q] = Answers[q]
    OBVIOUS
  <2>1. CASE \A i \in 1..Len(replies) : replies[i].slot # q
    <3>1. \A i \in 1..Len(replies') : replies'[i].slot # q
      BY <1>3, <2>1
    <3>2. QED
      BY <2>1, <3>1 DEF Answers, RepliesTo
  <2>2. ASSUME NEW i \in 1..Len(replies), replies[i].slot = q
        PROVE  Answers'[q] = Answers[q]
    <3>1. i \in 2..Len(replies)
      BY <1>3, <2>2
    <3>2. i - 1 \in 1..Len(replies') /\ replies'[i - 1] = replies[i]
      BY <1>6, <3>1
    <3>3. RepliesTo(q) = {i} /\ RepliesTo(q)' = {i - 1}
      BY <2>2, <3>2 DEF RepliesTo, AclIInv, ReplyFitsRequest
    <3>4. QED
      BY <3>2, <3>3 DEF Answers
  <2>3. QED
    BY <2>1, <2>2
<1>9. Answers' = [Answers EXCEPT ![s] = "none"]
  <2>1. Answers'[s] = "none"
    BY <1>4, <1>7 DEF Answers, RepliesTo
  <2>2. QED
    BY <1>4, <1>8, <2>1 DEF Answers
<1>10. Answers[s] # "none"
  BY <1>3, <1>4, AnswersAre DEF AclIInv
<1>11. QED
  BY <1>4, <1>5, <1>9, <1>10 DEF Protocol!Take

(* A new helper: nothing is open and nothing was left unread. *)
LEMMA RespawnIsAbandon ==
  ASSUME AclIInv, Respawn
  PROVE  Protocol!Abandon
<1>1. Asked' = [s \in AllSlots |-> Free]
  BY DEF Respawn, Asked, Slots
<1>2. Len(replies) = 0 /\ Answers' = Answers
  BY DEF Respawn, Answers, RepliesTo
<1>3. \A s \in AllSlots : Answers[s] = "none"
  BY <1>2 DEF Answers, RepliesTo
<1>4. QED
  BY <1>1, <1>2, <1>3 DEF Protocol!Abandon

(* Each step of the loop and of Squid is one of the protocol's, or hidden. *)
LEMMA ProtocolStep ==
  AclIInv /\ AclIInv' /\ [AclNext]_aclVars => [Protocol!ProtocolNext]_Protocol!protocolVars
<1> SUFFICES ASSUME AclIInv, AclIInv', [AclNext]_aclVars
             PROVE  Protocol!ProtocolNext \/ UNCHANGED Protocol!protocolVars
  OBVIOUS
<1>1. CASE \E s \in Slots, f \in HostFields : Ask(s, f)
  BY <1>1, AskIsAsk DEF Protocol!ProtocolNext
<1>2. CASE Receive
  BY <1>2, ReceiveIsTake DEF Protocol!ProtocolNext
<1>3. CASE Respawn
  BY <1>3, RespawnIsAbandon DEF Protocol!ProtocolNext
<1>4. CASE WriteReply
  BY <1>4, WriteReplyIsAnswer DEF Protocol!ProtocolNext
<1>5. CASE CloseInput \/ Signal \/ UNCHANGED aclVars
  BY <1>5, HiddenStep DEF CloseInput, Signal, aclVars, squidVars
<1>6. CASE LoopTop \/ ReadLine \/ ReadEOF \/ ReadFails \/ WriteFails
  BY <1>6, HiddenStep DEF LoopTop, ReadLine, ReadEOF, ReadFails, WriteFails, Return, squidVars
<1>7. CASE Decide \/ decideWithTimeout
  BY <1>7, HiddenStep DEF Decide, decideWithTimeout, Decided, squidVars
<1>8. QED
  BY <1>1, <1>2, <1>3, <1>4, <1>5, <1>6, <1>7 DEF AclNext, SquidStep, LoopStep

(* The loop is a helper as Squid expects one, for every set of channels    *)
(* and host fields: it answers each request once, with its own verdict,    *)
(* and OK only when the request names a host (loop, ParseLine,             *)
(* FormatReply, decideWithTimeout).                                        *)
THEOREM LoopImplementsProtocol == AclSpec => ImplementsProtocol
<1>1. AclInit => Protocol!ProtocolInit
  <2> SUFFICES ASSUME AclInit PROVE Protocol!ProtocolInit
    OBVIOUS
  <2>1. \A s \in Slots : waiting[s] = Free
    BY DEF AclInit, Slots
  <2>2. Len(replies) = 0
    BY DEF AclInit
  <2>3. QED
    BY <2>1, <2>2 DEF Protocol!ProtocolInit, Asked, Answers, RepliesTo
<1>2. QED
  BY <1>1, ProtocolStep, AclInductive, PTL DEF AclSpec, ImplementsProtocol, Protocol!ProtocolSpec

==============================================================================
