------------------------------- MODULE AclLoop -------------------------------
(***************************************************************************)
(* The helper's line protocol with Squid (cmd/acl-helper/main.go, loop;    *)
(* internal/aclhelper/protocol.go).  Squid writes request lines to one     *)
(* pipe and reads replies from another; with concurrency it keeps several  *)
(* requests open and tells the replies apart by the channel id each one    *)
(* echoes, without it there is one request at a time and no channel id.    *)
(* The helper reads, decides and answers one line at a time.  The decision *)
(* itself is AclHelper's; here it is any verdict.  A line is the sequence  *)
(* of its fields.                                                          *)
(***************************************************************************)
EXTENDS Naturals, Sequences

CONSTANTS
  Names,       \* host fields that are not all digits
  Numerals,    \* all-digit fields: channel ids, and hosts that look like one
  BadNames,    \* host fields whose percent-encoding is malformed or blank
  Channels,    \* channel ids Squid uses when its helper is concurrent
  NoChannel,   \* Request.Channel = ""
  NoHost,      \* Request.Host = ""
  Free         \* a slot of Squid's without a request

ASSUME LoopAssumption ==
  /\ Channels \subseteq Numerals
  /\ Numerals \cap (Names \cup BadNames) = {}
  /\ {NoChannel, NoHost, Free} \cap (Names \cup Numerals \cup BadNames) = {}
  /\ NoHost # Free

VARIABLES
  waiting,    \* waiting[s]: host field of the request Squid has open in slot s
  lines,      \* lines in the helper's stdin
  closed,     \* Squid has closed it
  replies,    \* replies in the helper's stdout
  lpc,        \* where the loop is
  req,        \* the parsed line
  verdict,    \* Decide's answer
  atEnd,      \* ReadString returned the line together with an error
  cancelled,  \* ctx is done: a signal was delivered
  late        \* replies written since

squidVars == <<waiting, closed>>
loopVars == <<lpc, req, verdict, atEnd, late>>
aclVars == <<squidVars, lines, replies, loopVars, cancelled>>

HostFields == Names \cup Numerals \cup BadNames

(* The slots replies are matched to: one per channel, or the one request   *)
(* of a helper that is not concurrent.                                     *)
Framings == {Channels, {NoChannel}}

Slots == DOMAIN waiting

Request(channel, host) == [channel |-> channel, host |-> host]

(* PathUnescape and TrimSpace: nothing usable is left of a bad field. *)
Decoded(field) == IF field \in BadNames THEN NoHost ELSE field

isChannelID(field) == field \in Numerals

(* Mutant: a host that cannot be decoded loses its channel id too. *)
ParseLine_Forgets(line) ==
  LET framed == Len(line) >= 2 /\ isChannelID(line[1])
      host == Decoded(line[IF framed THEN 2 ELSE 1])
  IN  Request(IF framed /\ host # NoHost THEN line[1] ELSE NoChannel, host)

ParseLine(line) ==
  IF line = <<>>
  THEN Request(NoChannel, NoHost)
  ELSE LET framed == Len(line) >= 2 /\ isChannelID(line[1])
       IN  Request(IF framed THEN line[1] ELSE NoChannel,
                   Decoded(line[IF framed THEN 2 ELSE 1]))

(* FormatReply: the channel id it echoes and the verdict; host is the one  *)
(* that was decided on, which the line does not show.                      *)
FormatReply(r, ok) == [slot |-> r.channel, host |-> r.host, ok |-> ok]

NoRequest == Request(NoChannel, NoHost)

LoopSteps == {"off", "top", "read", "decide", "write"}

AclTypeOK ==
  /\ Slots \in Framings
  /\ waiting \in [Slots -> HostFields \cup {Free}]
  /\ lines \in Seq(Seq(HostFields))
  /\ closed \in BOOLEAN
  /\ replies \in Seq([slot: Slots \cup {NoChannel}, host: HostFields \cup {NoHost}, ok: BOOLEAN])
  /\ lpc \in LoopSteps
  /\ req \in [channel: Slots \cup {NoChannel}, host: HostFields \cup {NoHost}]
  /\ verdict \in BOOLEAN
  /\ atEnd \in BOOLEAN
  /\ cancelled \in BOOLEAN
  /\ late \in Nat

AclInit ==
  /\ waiting \in {[s \in F |-> Free] : F \in Framings}
  /\ lines = <<>> /\ replies = <<>>
  /\ closed = FALSE /\ cancelled = FALSE
  /\ lpc = "top" /\ late = 0
  /\ req = NoRequest /\ verdict = FALSE /\ atEnd = FALSE

------------------------------------------------------------------------------
(* Squid. *)

Line(s, field) == IF s = NoChannel THEN <<field>> ELSE <<s, field>>

Ask(s, field) ==
  /\ waiting[s] = Free
  /\ ~closed
  /\ waiting' = [waiting EXCEPT ![s] = field]
  /\ lines' = Append(lines, Line(s, field))
  /\ UNCHANGED <<closed, replies, loopVars, cancelled>>

(* A reply that names no open request is dropped. *)
Receive ==
  /\ replies # <<>>
  /\ waiting' = [s \in Slots |-> IF s = Head(replies).slot THEN Free ELSE waiting[s]]
  /\ replies' = Tail(replies)
  /\ UNCHANGED <<closed, lines, loopVars, cancelled>>

(* Reconfigure or stop: the requests already written are still answered. *)
CloseInput ==
  /\ ~closed
  /\ closed' = TRUE
  /\ UNCHANGED <<waiting, lines, replies, loopVars, cancelled>>

(* The helper is gone: its open requests fail and a new one is started     *)
(* (run: redis.Open must succeed before the loop begins).                  *)
Respawn ==
  /\ lpc = "off" /\ replies = <<>>
  /\ waiting' = [s \in Slots |-> Free]
  /\ lines' = <<>>
  /\ closed' = FALSE /\ cancelled' = FALSE
  /\ lpc' = "top" /\ late' = 0
  /\ UNCHANGED <<replies, req, verdict, atEnd>>

SquidStep == (\E s \in Slots, f \in HostFields : Ask(s, f)) \/ Receive \/ CloseInput \/ Respawn

------------------------------------------------------------------------------
(* The loop. *)

Signal ==
  /\ ~cancelled /\ lpc # "off"
  /\ cancelled' = TRUE
  /\ UNCHANGED <<squidVars, lines, replies, loopVars>>

(* The line and what was made of it go out of scope. *)
DropLine ==
  /\ req' = NoRequest
  /\ verdict' = FALSE
  /\ atEnd' = FALSE

Return ==
  /\ lpc' = "off"
  /\ DropLine
  /\ UNCHANGED <<squidVars, lines, replies, late, cancelled>>

(* Mutant: ctx is not looked at. *)
LoopTop_NoCheck ==
  /\ lpc = "top"
  /\ lpc' = "read"
  /\ UNCHANGED <<squidVars, lines, replies, req, verdict, atEnd, late, cancelled>>

LoopTop ==
  /\ lpc = "top"
  /\ \/ cancelled /\ Return
     \/ /\ ~cancelled
        /\ lpc' = "read"
        /\ UNCHANGED <<squidVars, lines, replies, req, verdict, atEnd, late, cancelled>>

(* Mutant: the line is looked at and not consumed. *)
ReadLine_Peeks ==
  /\ lpc = "read"
  /\ lines # <<>>
  /\ req' = ParseLine(Head(lines))
  /\ atEnd' \in (IF closed /\ Len(lines) = 1 THEN BOOLEAN ELSE {FALSE})
  /\ lpc' = "decide"
  /\ UNCHANGED <<squidVars, lines, replies, verdict, late, cancelled>>

(* ReadString returns a line, the last one perhaps together with io.EOF    *)
(* when its newline is missing.  A signal does not wake a blocked read.    *)
ReadLine ==
  /\ lpc = "read"
  /\ lines # <<>>
  /\ req' = ParseLine(Head(lines))
  /\ lines' = Tail(lines)
  /\ atEnd' \in (IF closed /\ Len(lines) = 1 THEN BOOLEAN ELSE {FALSE})
  /\ lpc' = "decide"
  /\ UNCHANGED <<squidVars, replies, verdict, late, cancelled>>

ReadEOF ==
  /\ lpc = "read"
  /\ lines = <<>> /\ closed
  /\ Return

ReadFails ==
  /\ lpc = "read"
  /\ Return

Decided(ok) ==
  /\ lpc = "decide"
  /\ verdict' = ok
  /\ lpc' = "write"
  /\ UNCHANGED <<squidVars, lines, replies, req, atEnd, late, cancelled>>

(* Redis answers, within the request's context. *)
Decide ==
  /\ req.host # NoHost
  /\ ~cancelled
  /\ \E ok \in BOOLEAN : Decided(ok)

(* Mutant: the lookups have no deadline of their own. *)
decideWithTimeout_Unbounded ==
  /\ req.host = NoHost \/ cancelled
  /\ Decided(FALSE)

(* No host, or the request's context is over: its own timeout, or the      *)
(* signal its parent carries.                                              *)
decideWithTimeout == Decided(FALSE)

WriteReply ==
  /\ lpc = "write"
  /\ replies' = Append(replies, FormatReply(req, verdict))
  /\ late' = IF cancelled THEN late + 1 ELSE late
  /\ lpc' = IF atEnd THEN "off" ELSE "top"
  /\ DropLine
  /\ UNCHANGED <<squidVars, lines, cancelled>>

WriteFails ==
  /\ lpc = "write"
  /\ Return

LoopStep ==
  \/ LoopTop \/ ReadLine \/ ReadEOF
  \/ decideWithTimeout
  \/ WriteReply

AclNext ==
  \/ SquidStep \/ Signal
  \/ LoopStep \/ Decide
  \/ ReadFails \/ WriteFails

AclSpec == AclInit /\ [][AclNext]_aclVars

(* The process keeps running, a request's timer expires, and Squid reads   *)
(* what is written to it and replaces a dead helper.  Nobody has to ask,   *)
(* to close the pipe, or to answer a lookup.                               *)
AclFairness == WF_aclVars(LoopStep) /\ WF_aclVars(Receive) /\ WF_aclVars(Respawn)

FairAcl == AclSpec /\ AclFairness

------------------------------------------------------------------------------
(* Each reply carries the verdict on the host of the request Squid matches *)
(* it to, and no request is answered twice: whatever the framing and the   *)
(* host, numeric and undecodable ones included (ParseLine, FormatReply).   *)
ReplyFitsRequest ==
  /\ \A i \in 1..Len(replies) :
       LET r == replies[i]
       IN  /\ r.slot \in Slots
           /\ waiting[r.slot] # Free /\ r.host = Decoded(waiting[r.slot])
           /\ r.host = NoHost => ~r.ok
  /\ \A i, j \in 1..Len(replies) : i # j => replies[i].slot # replies[j].slot

(* After a signal the loop answers at most one more line, the one in hand  *)
(* or the one that ends the read it is blocked in (loop's check of ctx).   *)
OneReplyAfterSignal == late <= 1

(* What is left of the loop when only the requests and their answers       *)
(* count: the open requests, with the host each one names, and the replies *)
(* written and not yet read.                                               *)
AllSlots == Channels \cup {NoChannel}

Asked ==
  [s \in AllSlots |-> IF s \in Slots /\ waiting[s] # Free THEN Decoded(waiting[s]) ELSE Free]

RepliesTo(s) == {i \in 1..Len(replies) : replies[i].slot = s}

Answers ==
  [s \in AllSlots |-> CASE RepliesTo(s) = {} -> "none"
                        [] \E i \in RepliesTo(s) : replies[i].ok -> "OK"
                        [] OTHER -> "ERR"]

Protocol == INSTANCE HelperProtocol WITH
  Slots <- AllSlots, Hosts <- Names \cup Numerals, asked <- Asked, answer <- Answers

(* The loop, with its framings, blocked reads, read and write errors,      *)
(* signals and respawns, is a helper as Squid expects one: one answer to   *)
(* each request, its own, and OK only for a request that names a host      *)
(* (loop, ParseLine, FormatReply).                                         *)
ImplementsProtocol == Protocol!ProtocolSpec

Open(s) == s \in Slots /\ waiting[s] # Free

(* Every request is answered or fails with its helper, although Redis may  *)
(* hang for ever (decideWithTimeout).                                      *)
RequestsEnd == \A s \in AllSlots : Open(s) ~> ~Open(s)

==============================================================================
