----------------------------- MODULE Connection ------------------------------
(***************************************************************************)
(* One peer connection from handshake to end (peer_connection/mod.rs): the *)
(* handshake and bitfield exchange, then three tasks joined together - a   *)
(* reader and a writer on the two halves of the socket, and the request    *)
(* loop between them - talking over bounded channels (channels.rs).        *)
(*                                                                         *)
(* The remote peer does what it likes: it speaks, falls silent, stops      *)
(* delivering blocks, stops reading its socket, hangs up.  What the        *)
(* request loop says and claims is RequestManager's subject; here handling *)
(* anything may queue up to Burst messages, and `holding` says whether it  *)
(* has blocks outstanding.  Giving pieces back is one step: the mailbox it *)
(* goes through is Swarm's subject.                                        *)
(***************************************************************************)
EXTENDS WireCodec

CONSTANTS
  ChannelSize,     (* CHANNEL_SIZE of peer_connection/channels.rs           *)
  WireSize,        (* frames the two sockets' buffers hold                  *)
  Burst,           (* most messages one turn of the request loop sends      *)
  StopsReading,    (* the peer may stop reading its socket                  *)
  InfoHash,        (* the torrent's                                         *)
  Scripts          (* what a peer may send first: frames, each with its     *)
                   (* units on the wire and the items it means              *)

ASSUME SizesAssumption ==
  ChannelSize \in Nat \ {0} /\ WireSize \in Nat \ {0} /\ Burst \in Nat
ASSUME ReadingAssumption == StopsReading \in BOOLEAN

(* A handshake comes first, whole frames after it, labelled with what each *)
(* means by itself.                                                        *)
ASSUME ScriptsAssumption ==
  \A script \in Scripts :
    /\ script \in Seq([units : Seq(Nat), means : Seq(Items)])
    /\ \A i \in 1 .. Len(script) : LET units == script[i].units IN
         IF i = 1
         THEN IsGreeting(units) /\ script[i].means = MeaningOfGreeting(units)
         ELSE IsFrame(units) /\ script[i].means = Meaning(units)

VARIABLES
  stage,           (* where PeerConnection::run is                          *)
  greeting,        (* our handshake: sent first, in reply, or already sent  *)
  codec,           (* the decoder's state                                   *)
  src,             (* units read and not yet decoded                        *)
  unsent,          (* units of the peer's script that have not arrived      *)
  readable,        (* Framed's is_readable: decode before reading on        *)
  expected,        (* (ghost) items the peer's script still means           *)
  open,            (* the peer has not hung up                              *)
  speaks,          (* it still sends anything                               *)
  delivers,        (* it still sends blocks                                 *)
  reads,           (* it still reads its socket                             *)
  reader, carried, (* the reader task, and the item it is forwarding        *)
  incoming,        (* items decoded and not yet handled                     *)
  writer,          (* the writer task                                       *)
  outgoing,        (* messages queued for it                                *)
  wire_out,        (* frames written that the peer has not read             *)
  manager,         (* the request loop                                      *)
  to_send,         (* messages its current turn still has to queue          *)
  peer_choking,    (* the peer chokes us                                    *)
  holding,         (* blocks are asked for: active_blocks is not empty      *)
  deadline         (* request_deadline: none, set, or passed                *)

peerVars   == <<open, speaks, delivers, reads>>
inVars     == <<reader, carried, incoming>>
outVars    == <<writer, outgoing, wire_out>>
loopVars   == <<manager, to_send, peer_choking, holding, deadline>>
wireVars   == <<greeting, codec, src, unsent, readable, expected>>
vars == <<stage, wireVars, peerVars, inVars, outVars, loopVars>>

Kinds == {"chat", "choke", "unchoke", "block", "bitfield"}

-----------------------------------------------------------------------------
(* The parts from each one on, joined.                                     *)
JoinedFrom(parts) ==
  LET from[i \in 1 .. Len(parts) + 1] ==
        IF i > Len(parts) THEN <<>> ELSE parts[i] \o from[i + 1]
  IN from

(* What the peer's frames put on the wire, and what they mean.             *)
UnitsFrom(script) == JoinedFrom([i \in 1 .. Len(script) |-> script[i].units])
MeansFrom(script) == JoinedFrom([i \in 1 .. Len(script) |-> script[i].means])

Init ==
  /\ stage = "handshake"
  /\ greeting \in {"first", "reply"}
  /\ codec = NewCodec /\ src = <<>> /\ readable = FALSE
  /\ \E script \in Scripts :
       unsent = UnitsFrom(script)[1] /\ expected = MeansFrom(script)[1]
  /\ open = TRUE /\ speaks = TRUE /\ delivers = TRUE /\ reads = TRUE
  /\ reader = "reading" /\ carried = "chat" /\ incoming = <<>>
  /\ writer = "receiving" /\ outgoing = 0 /\ wire_out = 0
  /\ manager = "loop" /\ to_send = 0
  /\ peer_choking = TRUE
  /\ holding = FALSE
  /\ deadline = "none"

-----------------------------------------------------------------------------
(* Framed: decode what there is until it asks for more, then read.         *)

(* Any part of what the peer has sent arrives.                             *)
Arrive(n) ==
  /\ stage # "over" /\ reader # "ended"
  /\ open /\ speaks
  /\ n \in 1 .. Len(unsent)
  /\ src' = src \o SubSeq(unsent, 1, n)
  /\ unsent' = SubSeq(unsent, n + 1, Len(unsent))
  /\ readable' = TRUE
  /\ UNCHANGED <<stage, greeting, codec, expected, peerVars, inVars, outVars, loopVars>>

Decoded == Decode(codec, src)

Poll(result) ==
  /\ readable
  /\ Decoded.result = result
  /\ codec' = Decoded.codec
  /\ src' = Decoded.src
  /\ readable' = (result = "item")
  /\ expected' = IF result = "item" /\ expected # <<>> THEN Tail(expected) ELSE expected
  /\ UNCHANGED unsent

(* Everything of the script has been taken in.                             *)
Caught == ~readable /\ src = <<>> /\ unsent = <<>>

-----------------------------------------------------------------------------
(* Before the tasks: handshake, our bitfield, theirs.                      *)

Enter(next) ==
  /\ stage' = next
  /\ UNCHANGED <<peerVars, inVars, outVars, loopVars>>

(* Whoever dialled speaks first.                                           *)
SendHandshake ==
  /\ stage = "handshake"
  /\ greeting = "first"
  /\ greeting' = "sent"
  /\ Enter(IF open THEN "handshake" ELSE "over")
  /\ UNCHANGED <<codec, src, unsent, readable, expected>>

Listening ==
  \/ stage = "bitfield"
  \/ stage = "handshake" /\ greeting # "first"

(* Whoever was called answers once the info_hash is the right one.         *)
ReceivePartial ==
  /\ stage = "handshake" /\ Listening
  /\ Poll("item") /\ Decoded.item.type = "HandshakePartial"
  /\ IF Decoded.item.fields = <<InfoHash>>
     THEN greeting' = "sent" /\ Enter("handshake")
     ELSE UNCHANGED greeting /\ Enter("over")

ReceiveHandshake ==
  /\ stage = "handshake" /\ Listening
  /\ Poll("item") /\ Decoded.item.type = "Handshake"
  /\ Enter("asking")
  /\ UNCHANGED greeting

(* The piece manager answers GetBitfield and our bitfield is written.      *)
SendBitfield ==
  /\ stage = "asking"
  /\ Enter(IF open THEN "bitfield" ELSE "over")
  /\ UNCHANGED wireVars

(* Anything but a bitfield in its place ends the connection.               *)
ReceiveBitfield ==
  /\ stage = "bitfield"
  /\ Poll("item")
  /\ Enter(IF Decoded.item.type = "Bitfield" THEN "running" ELSE "over")
  /\ UNCHANGED greeting

ReceiveNothing ==
  /\ Listening
  /\ Poll("wait")
  /\ Enter(stage)
  /\ UNCHANGED greeting

(* Not the protocol, or a frame too short for what it says it is.          *)
ReceiveError ==
  /\ Listening
  /\ Poll("error")
  /\ Enter("over")
  /\ UNCHANGED greeting

(* Mutant: only the handshake is timed.                                    *)
EarlyEnd_handshake_only ==
  /\ stage = "handshake" /\ Listening
  /\ Enter("over")
  /\ UNCHANGED wireVars

(* The 30 seconds pass, or the peer has hung up.                           *)
EarlyEnd ==
  /\ Listening
  /\ Enter("over")
  /\ UNCHANGED wireVars

Early ==
  \/ SendHandshake
  \/ ReceivePartial
  \/ ReceiveHandshake
  \/ SendBitfield
  \/ ReceiveBitfield
  \/ ReceiveNothing
  \/ ReceiveError
  \/ EarlyEnd

-----------------------------------------------------------------------------
(* The remote peer.                                                        *)

PeerChanges ==
  /\ stage # "over"
  /\ open
  /\ \/ speaks /\ speaks' = FALSE /\ delivers' = FALSE /\ UNCHANGED <<open, reads>>
     \/ delivers /\ delivers' = FALSE /\ UNCHANGED <<open, speaks, reads>>
     \/ StopsReading /\ reads /\ reads' = FALSE /\ UNCHANGED <<open, speaks, delivers>>
     \/ open' = FALSE /\ speaks' = FALSE /\ delivers' = FALSE /\ reads' = FALSE
  /\ UNCHANGED <<stage, wireVars, inVars, outVars, loopVars>>

PeerReads ==
  /\ open /\ reads
  /\ wire_out > 0
  /\ wire_out' = wire_out - 1
  /\ UNCHANGED <<stage, wireVars, peerVars, inVars, writer, outgoing, loopVars>>

-----------------------------------------------------------------------------
(* The reader.                                                             *)

Running == stage = "running"

KindOf(item) ==
  CASE item.type = "Choke" -> "choke"
    [] item.type = "Unchoke" -> "unchoke"
    [] item.type = "Piece" -> "block"
    [] item.type = "Bitfield" -> "bitfield"
    [] OTHER -> "chat"

(* What came in with the bitfield is in the same buffer.                   *)
ReaderPoll ==
  /\ Running
  /\ reader = "reading"
  /\ \/ /\ Poll("item")
        /\ reader' = "sending" /\ carried' = KindOf(Decoded.item)
     \/ Poll("wait") /\ UNCHANGED <<reader, carried>>
     \/ Poll("error") /\ reader' = "ended" /\ UNCHANGED carried
  /\ UNCHANGED <<stage, greeting, peerVars, incoming, outVars, loopVars>>

(* Behind its script the peer sends any frame.                             *)
ReaderNext(kind) ==
  /\ Running
  /\ reader = "reading" /\ Caught
  /\ open /\ speaks
  /\ kind = "block" => delivers
  /\ reader' = "sending"
  /\ carried' = kind
  /\ UNCHANGED <<stage, wireVars, peerVars, incoming, outVars, loopVars>>

(* Mutant: a full channel nobody reads any more is waited on.              *)
ReaderForward_waits ==
  /\ Running
  /\ reader = "sending"
  /\ Len(incoming) < ChannelSize
  /\ incoming' = Append(incoming, carried)
  /\ reader' = "reading"
  /\ UNCHANGED <<stage, wireVars, peerVars, carried, outVars, loopVars>>

(* The send fails once the request loop has dropped its end.               *)
ReaderForward ==
  /\ Running
  /\ reader = "sending"
  /\ IF manager = "ended"
     THEN reader' = "ended" /\ UNCHANGED incoming
     ELSE /\ Len(incoming) < ChannelSize
          /\ incoming' = Append(incoming, carried)
          /\ reader' = "reading"
  /\ UNCHANGED <<stage, wireVars, peerVars, carried, outVars, loopVars>>

ReaderEnds ==
  /\ Running
  /\ reader = "reading"
  /\ ~open /\ ~readable
  /\ reader' = "ended"
  /\ UNCHANGED <<stage, wireVars, peerVars, carried, incoming, outVars, loopVars>>

(* What the peer sends behind its script does not decode.                  *)
DecodeFails ==
  /\ Running
  /\ reader = "reading" /\ Caught
  /\ open /\ speaks
  /\ reader' = "ended"
  /\ UNCHANGED <<stage, wireVars, peerVars, carried, incoming, outVars, loopVars>>

-----------------------------------------------------------------------------
(* The writer.                                                             *)

WriterTakes ==
  /\ Running
  /\ writer = "receiving"
  /\ outgoing > 0
  /\ outgoing' = outgoing - 1
  /\ writer' = "writing"
  /\ UNCHANGED <<stage, wireVars, peerVars, inVars, wire_out, loopVars>>

WriterWrites ==
  /\ Running
  /\ writer = "writing"
  /\ open
  /\ wire_out < WireSize
  /\ wire_out' = wire_out + 1
  /\ writer' = "receiving"
  /\ UNCHANGED <<stage, wireVars, peerVars, inVars, outgoing, loopVars>>

(* The write fails, or the queue is empty and its sender gone.             *)
WriterEnds ==
  /\ Running
  /\ \/ writer = "writing" /\ ~open
     \/ writer = "receiving" /\ outgoing = 0 /\ manager = "ended"
  /\ writer' = "ended"
  /\ UNCHANGED <<stage, wireVars, peerVars, inVars, outgoing, wire_out, loopVars>>

-----------------------------------------------------------------------------
(* The request loop.                                                       *)

(* The turn goes on to queue n messages.                                   *)
Sends(n) ==
  /\ to_send' = n
  /\ manager' = IF n = 0 THEN "loop" ELSE "sending"

(* Mutant: the deadline is armed by blocks only.                           *)
Rearm_blocks_only(kind, outstanding) ==
  IF ~outstanding THEN "none" ELSE IF kind = "block" THEN "set" ELSE deadline

(* After every item: no deadline without blocks outstanding, and only a    *)
(* block renews it.                                                        *)
Rearm(kind, outstanding) ==
  IF ~outstanding THEN "none"
  ELSE IF kind = "block" \/ deadline = "none" THEN "set" ELSE deadline

(* A choke gives everything back; an unchoke, a block and a Have (chat)    *)
(* may claim more, and only a block can be the last one asked for.         *)
Handle(n, more) ==
  /\ Running
  /\ manager = "loop"
  /\ incoming # <<>>
  /\ Head(incoming) # "bitfield"
  /\ LET kind == Head(incoming) IN
       /\ peer_choking' = CASE kind = "choke" -> TRUE
                            [] kind = "unchoke" -> FALSE
                            [] OTHER -> peer_choking
       /\ holding' = CASE kind = "choke" -> FALSE
                       [] kind = "block" /\ ~peer_choking -> more
                       [] kind # "choke" /\ kind # "block" /\ ~peer_choking' -> holding \/ more
                       [] OTHER -> holding
       /\ deadline' = Rearm(kind, holding')
  /\ incoming' = Tail(incoming)
  /\ Sends(n)
  /\ UNCHANGED <<stage, wireVars, peerVars, reader, carried, outVars>>

(* The availability tick claims what has become free.                      *)
Tick(n) ==
  /\ Running
  /\ manager = "loop"
  /\ ~peer_choking
  /\ holding' = TRUE
  /\ Sends(n)
  /\ UNCHANGED <<stage, wireVars, peerVars, inVars, outVars, peer_choking, deadline>>

(* A Have for a completed piece, or a keep-alive.                          *)
Speak(n) ==
  /\ Running
  /\ manager = "loop"
  /\ n > 0
  /\ Sends(n)
  /\ UNCHANGED <<stage, wireVars, peerVars, inVars, outVars, peer_choking, holding,
                 deadline>>

(* Mutant: the channel is one longer.                                      *)
OutgoingHasRoom_one_more == outgoing <= ChannelSize

OutgoingHasRoom == outgoing < ChannelSize

(* send_message waits for room in the outgoing channel.                    *)
SendMessage ==
  /\ Running
  /\ manager = "sending"
  /\ writer # "ended"
  /\ OutgoingHasRoom
  /\ outgoing' = outgoing + 1
  /\ Sends(to_send - 1)
  /\ UNCHANGED <<stage, wireVars, peerVars, inVars, writer, wire_out, peer_choking,
                 holding, deadline>>

DeadlinePasses ==
  /\ Running
  /\ deadline = "set"
  /\ deadline' = "passed"
  /\ UNCHANGED <<stage, wireVars, peerVars, inVars, outVars, manager, to_send,
                 peer_choking, holding>>

RequestTimeout ==
  /\ Running
  /\ manager = "loop"
  /\ deadline = "passed"
  /\ holding' = FALSE
  /\ deadline' = "none"
  /\ UNCHANGED <<stage, wireVars, peerVars, inVars, outVars, manager, to_send,
                 peer_choking>>

(* run returned, whatever for: start gives every piece back, and the ends  *)
(* of both channels are dropped with it.                                   *)
LoopReturns ==
  /\ manager' = "ended"
  /\ holding' = FALSE
  /\ deadline' = "none"
  /\ to_send' = 0
  /\ incoming' = <<>>
  /\ UNCHANGED <<stage, wireVars, peerVars, reader, carried, outVars, peer_choking>>

(* Mutant: a peer with blocks outstanding is never idle.                   *)
MayIdle_unless_holding == ~holding

(* 150 seconds have passed since the last item the loop received: select!  *)
(* may take the timer although one has come in meanwhile.                  *)
MayIdle == TRUE

IdleTimeout ==
  /\ Running
  /\ manager = "loop"
  /\ MayIdle
  /\ LoopReturns

InputEnds ==
  /\ Running
  /\ manager = "loop"
  /\ incoming = <<>> /\ reader = "ended"
  /\ LoopReturns

(* A second bitfield: the peer does not follow the framing rules.          *)
UnexpectedMessage ==
  /\ Running
  /\ manager = "loop"
  /\ incoming # <<>> /\ Head(incoming) = "bitfield"
  /\ LoopReturns

SendFails ==
  /\ Running
  /\ manager = "sending"
  /\ writer = "ended"
  /\ LoopReturns

(* join_all: the connection is over when all three tasks are.              *)
JoinAll ==
  /\ Running
  /\ reader = "ended" /\ writer = "ended" /\ manager = "ended"
  /\ Enter("over")
  /\ UNCHANGED wireVars

Reader == ReaderPoll \/ (\E kind \in Kinds : ReaderNext(kind)) \/ ReaderForward \/ ReaderEnds
          \/ DecodeFails
Writer == WriterTakes \/ WriterWrites \/ WriterEnds
Turn   == \/ \E n \in 0 .. Burst, more \in BOOLEAN : Handle(n, more)
          \/ \E n \in 0 .. Burst : Tick(n) \/ Speak(n)
Loop   == \/ Turn \/ SendMessage \/ RequestTimeout
          \/ IdleTimeout \/ InputEnds \/ UnexpectedMessage \/ SendFails

Next ==
  \/ Early
  \/ PeerChanges
  \/ PeerReads
  \/ \E n \in 1 .. Len(unsent) : Arrive(n)
  \/ Reader
  \/ Writer
  \/ Loop
  \/ DeadlinePasses
  \/ JoinAll

Spec == Init /\ [][Next]_vars

PeerActs ==
  speaks /\ \/ \E n \in 1 .. Len(unsent) : Arrive(n)
            \/ \E kind \in Kinds : ReaderNext(kind)
            \/ PeerChanges /\ ~speaks'

(* The runtime polls whatever is ready, select! takes every arm that stays *)
(* or keeps becoming ready, and time passes.  A silent peer's idle timer   *)
(* runs out.  Of the peer: while it reads it goes on reading, and one that *)
(* would never send again is one that has stopped speaking.                *)
FairSpec ==
  /\ Spec
  /\ WF_vars(SendHandshake)
  /\ WF_vars(SendBitfield)
  /\ WF_vars(EarlyEnd)
  /\ WF_vars(PeerReads)
  /\ WF_vars(PeerActs)
  /\ WF_vars(ReaderPoll)
  /\ WF_vars(ReaderForward)
  /\ WF_vars(ReaderEnds)
  /\ WF_vars(Writer)
  /\ SF_vars(\E n \in 0 .. Burst, more \in BOOLEAN : Handle(n, more))
  /\ WF_vars(SendMessage)
  /\ WF_vars(DeadlinePasses)
  /\ SF_vars(RequestTimeout)
  /\ SF_vars(~speaks /\ reader # "sending" /\ incoming = <<>> /\ IdleTimeout)
  /\ SF_vars(InputEnds)
  /\ SF_vars(UnexpectedMessage)
  /\ WF_vars(SendFails)
  /\ WF_vars(JoinAll)

-----------------------------------------------------------------------------
(* Properties.                                                             *)

TypeOK ==
  /\ greeting \in {"first", "reply", "sent"}
  /\ codec \in [normal : BOOLEAN, pstrlen : {NoLength} \cup Nat, info_hash_sent : BOOLEAN]
  /\ src \in Seq(Nat) /\ unsent \in Seq(Nat)
  /\ readable \in BOOLEAN
  /\ stage \in {"handshake", "asking", "bitfield", "running", "over"}
  /\ open \in BOOLEAN /\ speaks \in BOOLEAN /\ delivers \in BOOLEAN /\ reads \in BOOLEAN
  /\ reader \in {"reading", "sending", "ended"}
  /\ carried \in Kinds
  /\ incoming \in Seq(Kinds) /\ Len(incoming) <= ChannelSize
  /\ writer \in {"receiving", "writing", "ended"}
  /\ outgoing \in 0 .. ChannelSize
  /\ wire_out \in 0 .. WireSize
  /\ manager \in {"loop", "sending", "ended"}
  /\ to_send \in 0 .. Burst
  /\ peer_choking \in BOOLEAN
  /\ holding \in BOOLEAN
  /\ deadline \in {"none", "set", "passed"}

(* Before a decoder in its handshake, which has read `s` and will read `t`: *)
(* a whole script, of which the info_hash may have been told already.      *)
Greets(script, c, s, t, items) ==
  LET all == MeansFrom(script)[1] IN
  /\ s \o t = UnitsFrom(script)[1]
  /\ items = IF c.info_hash_sent THEN Tail(all) ELSE all
  /\ c.pstrlen # NoLength => s # <<>> /\ c.pstrlen = s[1]
  /\ c.info_hash_sent =>
       /\ s # <<>> /\ Len(s) >= s[1] + 3
       /\ SubSeq(s, 2, s[1] + 1) = Protocol

(* Before one past its handshake: a script from its k-th frame on.         *)
Remains(script, k, stream, items) ==
  /\ k \in 2 .. Len(script) + 1
  /\ stream = UnitsFrom(script)[k]
  /\ items = MeansFrom(script)[k]

(* The buffer is in step with the script ...                               *)
InStep(c, s, t, items) ==
  \E script \in Scripts :
    IF c.normal
    THEN \E k \in 2 .. Len(script) + 1 : Remains(script, k, s \o t, items)
    ELSE Greets(script, c, s, t, items)

(* ... and is read into only when nothing in it can be decoded.            *)
NothingLeft(c, s) ==
  IF c.normal THEN ~WholeFrame(s, 0) ELSE DecodeHandshake(c, s).result = "wait"

(* Once the connection is over or its reader has failed, nothing is        *)
(* decoded any more.                                                       *)
Aligned ==
  \/ stage = "over"
  \/ reader = "ended" /\ ~readable
  \/ InStep(codec, src, unsent, expected) /\ (~readable => NothingLeft(codec, src))

(* The inductive invariant.                                                *)
ConnectionInv ==
  /\ TypeOK
  /\ manager = "sending" => to_send # 0
  /\ stage \in {"handshake", "asking", "bitfield"} => reader = "reading"
  /\ Aligned

(* Whatever pieces the stream arrived in, the decoder yields what the peer *)
(* encoded, in its order, and an error exactly where a frame is too short  *)
(* for its kind or the protocol is another.  Codec state, leftover units   *)
(* and the remembered pstrlen all have to be right for it.                 *)
NothingMisread ==
  stage # "over" /\ readable =>
    CASE Decoded.result = "wait"  -> TRUE
      [] Decoded.result = "item"  -> expected # <<>> /\ Decoded.item = Head(expected)
      [] Decoded.result = "error" -> expected # <<>> /\ Head(expected) = Malformed

(* "A keep-alive arriving ahead of real traffic must not swallow it"       *)
(* (codec/mod.rs), nor may a frame of an unknown kind: once everything has *)
(* arrived and the decoder waits for more, it has yielded everything.      *)
NothingHidden ==
  stage # "over" /\ reader # "ended" /\ unsent = <<>> /\ ~readable => expected = <<>>

(* A peer that hangs up takes the whole connection down, however full the  *)
(* channels are and whichever task was waiting on which.                   *)
HangupEndsConnection == ~open ~> stage = "over"

(* The handshake and the bitfield exchange never last for ever.            *)
EarlyStagesEnd == stage # "running" ~> stage \in {"running", "over"}

(* "A peer that chats but never delivers stops holding our blocks          *)
(* hostage" (REQUEST_TIMEOUT): blocks asked of one that sends no more      *)
(* Piece messages, wanted or not, are given back, as long as it reads what *)
(* we send.                                                                *)
HoldsAreGivenBack == ~delivers /\ holding ~> ~holding \/ ~reads

(* A peer that has gone silent but still reads loses its request loop.     *)
SilenceEndsRequests ==
  ~speaks /\ Running ~> manager = "ended" \/ ~Running \/ ~reads

(* "150s idle timeout" (README.md): a silent peer is dropped.              *)
SilentPeerIsDropped == ~speaks /\ Running ~> stage = "over"
=============================================================================
