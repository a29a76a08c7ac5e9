------------------------------ MODULE WireCodec ------------------------------
(***************************************************************************)
(* What wire_protocol/codec does to a stream of bytes that arrives in      *)
(* pieces of any size: Decoder::decode, called again on what is left until *)
(* it asks for more, and Encoder::encode, which wrote the stream.          *)
(*                                                                         *)
(* A unit stands for one field, which the decoder waits for as a whole: a  *)
(* length prefix, an id, a word, a block, a hash.  A prefix counts the     *)
(* units behind it.                                                        *)
(***************************************************************************)
EXTENDS Integers, Sequences

(* pstr, and what pstrlen says of it.                                      *)
Protocol == <<19>>
ProtocolLength == Len(Protocol)
NoLength == -1

MessageTypes == <<"Choke", "Unchoke", "Interested", "NotInterested", "Have",
                  "Bitfield", "Request", "Piece", "Cancel", "Port">>

IdOf(type) == (CHOOSE i \in DOMAIN MessageTypes : MessageTypes[i] = type) - 1

(* Fields a message must have; a bitfield and a block are of any length.   *)
Needed(type) ==
  CASE type \in {"Have", "Port"} -> 1
    [] type = "Piece" -> 2
    [] type \in {"Request", "Cancel"} -> 3
    [] OTHER -> 0

Message(type, fields) == [type |-> type, fields |-> fields]
ItemTypes == {MessageTypes[i] : i \in DOMAIN MessageTypes}
               \cup {"KeepAlive", "HandshakePartial", "Handshake", "Malformed"}
Items == [type : ItemTypes, fields : Seq(Nat)]
KeepAlive == Message("KeepAlive", <<>>)
HandshakePartial(hash) == Message("HandshakePartial", <<hash>>)
Handshake(pstr, hash, id) == Message("Handshake", pstr \o <<0, hash, id>>)

-----------------------------------------------------------------------------
(* Encoder::encode, which refuses HandshakePartial: it is never sent.      *)

Encode(item) ==
  CASE item.type = "Handshake" -> <<Len(item.fields) - 3>> \o item.fields
    [] item.type = "KeepAlive" -> <<0>>
    [] OTHER -> <<Len(item.fields) + 1, IdOf(item.type)>> \o item.fields

-----------------------------------------------------------------------------
(* Decoder::decode: an item, an error, or a wait for more.                 *)

NewCodec == [normal |-> FALSE, pstrlen |-> NoLength, info_hash_sent |-> FALSE]
NormalCodec == [normal |-> TRUE, pstrlen |-> NoLength, info_hash_sent |-> FALSE]

Waits(codec, src)  == [result |-> "wait", codec |-> codec, src |-> src, item |-> KeepAlive]
Errors(codec, src) == [result |-> "error", codec |-> codec, src |-> src, item |-> KeepAlive]
Yields(codec, src, item) ==
  [result |-> "item", codec |-> codec, src |-> src, item |-> item]

Behind(src, n) == SubSeq(src, n + 1, Len(src))

(* Mutant: what the hash was read from is taken off the buffer.            *)
Partial_advances(codec, src, n) ==
  Yields([codec EXCEPT !.info_hash_sent = TRUE], Behind(src, n), HandshakePartial(src[n]))

(* The info_hash is told as soon as it is there, and read again later.     *)
Partial(codec, src, n) ==
  Yields([codec EXCEPT !.info_hash_sent = TRUE], src, HandshakePartial(src[n]))

DecodeHandshake(codec, src) ==
  LET len  == IF codec.pstrlen # NoLength THEN codec.pstrlen ELSE src[1]
      seen == [codec EXCEPT !.pstrlen = len]
      pstr == SubSeq(src, 2, len + 1)
      hash == len + 3
  IN IF src = <<>> THEN Waits(codec, src)
     ELSE IF Len(src) < len + 1 THEN Waits(seen, src)
     ELSE IF pstr # Protocol THEN Errors(seen, src)
     ELSE IF Len(src) < hash THEN Waits(seen, src)
     ELSE IF ~seen.info_hash_sent THEN Partial(seen, src, hash)
     ELSE IF Len(src) < hash + 1 THEN Waits(seen, src)
     ELSE Yields(NormalCodec, Behind(src, hash + 1),
                 Handshake(pstr, src[hash], src[hash + 1]))

(* A frame begins behind the first i units and is there to its end.        *)
WholeFrame(src, i) == i < Len(src) /\ i + 1 + src[i + 1] <= Len(src)

EndOfFrame(src, i) == i + 1 + src[i + 1]

(* Behind an unknown id the loop goes on, without a return.                *)
UnknownFrame(src, i) == src[i + 1] > 0 /\ src[i + 2] >= Len(MessageTypes)

PastUnknown(src) ==
  LET past[i \in 0 .. Len(src)] ==
        IF WholeFrame(src, i) /\ UnknownFrame(src, i)
        THEN past[EndOfFrame(src, i)] ELSE i
  IN past[0]

(* Mutant: a frame of an unknown kind is skipped with `return Ok(None)`.   *)
DecodeMessages_returns_none(codec, src) ==
  IF ~WholeFrame(src, 0) THEN Waits(codec, src)
  ELSE IF UnknownFrame(src, 0) THEN Waits(codec, Behind(src, EndOfFrame(src, 0)))
  ELSE IF src[1] = 0 THEN Yields(codec, Behind(src, 1), KeepAlive)
  ELSE LET type == MessageTypes[src[2] + 1]
           rest == SubSeq(src, 3, EndOfFrame(src, 0))
       IN IF Len(rest) < Needed(type) THEN Errors(codec, src)
          ELSE Yields(codec, Behind(src, EndOfFrame(src, 0)), Message(type, rest))

(* Fields past those a message has are dropped, but for a block's bytes.   *)
Fields(type, rest) ==
  IF type \in {"Bitfield", "Piece"} THEN rest ELSE SubSeq(rest, 1, Needed(type))

DecodeMessages(codec, src) ==
  LET at   == PastUnknown(src)
      type == MessageTypes[src[at + 2] + 1]
      rest == SubSeq(src, at + 3, EndOfFrame(src, at))
  IN IF ~WholeFrame(src, at) THEN Waits(codec, Behind(src, at))
     ELSE IF src[at + 1] = 0 THEN Yields(codec, Behind(src, at + 1), KeepAlive)
     ELSE IF Len(rest) < Needed(type) THEN Errors(codec, Behind(src, at))
     ELSE Yields(codec, Behind(src, EndOfFrame(src, at)),
                 Message(type, Fields(type, rest)))

Decode(codec, src) ==
  IF codec.normal THEN DecodeMessages(codec, src) ELSE DecodeHandshake(codec, src)

-----------------------------------------------------------------------------
(* What a whole frame means by itself: the items it is to be read as.      *)

(* Stands for a frame that does not decode.                                *)
Malformed == Message("Malformed", <<>>)

IsFrame(units) == units # <<>> /\ Len(units) = units[1] + 1

(* A handshake: pstr behind its length, reserved bits, info_hash, peer id. *)
IsGreeting(units) == units # <<>> /\ Len(units) = units[1] + 4

MeaningOfGreeting(units) ==
  LET len  == units[1]
      pstr == SubSeq(units, 2, len + 1)
  IN IF pstr # Protocol THEN <<Malformed>>
     ELSE <<HandshakePartial(units[len + 3]),
            Handshake(pstr, units[len + 3], units[len + 4])>>

(* An unknown kind means nothing; a message lacking a field is malformed.  *)
MeaningOfMessage(type, fields) ==
  IF Len(fields) < Needed(type) THEN <<Malformed>>
  ELSE <<Message(type, Fields(type, fields))>>

Meaning(units) ==
  CASE Len(units) = 1 -> <<KeepAlive>>
    [] Len(units) > 1 /\ units[2] >= Len(MessageTypes) -> <<>>
    [] OTHER -> MeaningOfMessage(MessageTypes[units[2] + 1], SubSeq(units, 3, Len(units)))
=============================================================================
