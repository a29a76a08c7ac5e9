---------------------------- MODULE MCConnection -----------------------------
(* Connection over channels of one or two messages, with a peer whose      *)
(* first frames are of every kind, well formed or not.                     *)
EXTENDS Connection, TLC

Hash == 5
OtherHash == 6
Id == 7

Frame(item) == [units |-> Encode(item), means |-> <<item>>]
Broken(units) == [units |-> units, means |-> <<Malformed>>]
Skipped(units) == [units |-> units, means |-> <<>>]

Greeting(hash) ==
  [units |-> Encode(Handshake(Protocol, hash, Id)),
   means |-> <<HandshakePartial(hash), Handshake(Protocol, hash, Id)>>]

Bits == Frame(Message("Bitfield", <<3>>))
Unknown == Skipped(<<3, 20, 8, 9>>)

(* One message of every kind, with what it carries at its shortest.        *)
Messages ==
  {KeepAlive, Message("Piece", <<0, 1>>)}
    \cup {Message(MessageTypes[i], [k \in 1 .. Needed(MessageTypes[i]) |-> k]) :
            i \in DOMAIN MessageTypes}

TooShort == {<<1, IdOf(type)>> : type \in {"Have", "Port"}}
              \cup {<<2, IdOf("Piece"), 1>>}
              \cup {<<3, IdOf(type), 1, 2>> : type \in {"Request", "Cancel"}}

(* A frame longer than its message: what is left over is dropped.          *)
TooLong == [units |-> <<3, IdOf("Have"), 1, 2>>, means |-> <<Message("Have", <<1>>)>>]

WithoutHandshake ==
  {<<Broken(Encode(Handshake(<<18>>, Hash, Id)))>>,
   <<Broken(Encode(Handshake(<<>>, Hash, Id)))>>,
   <<Broken(Encode(Handshake(<<19, 19>>, Hash, Id)))>>,
   <<Greeting(OtherHash)>>}

WithoutBitfield ==
  {<<Greeting(Hash), Frame(m)>> : m \in Messages}
    \cup {<<Greeting(Hash), Broken(units)>> : units \in TooShort}
    \cup {<<Greeting(Hash)>>, <<Greeting(Hash), TooLong>>, <<Greeting(Hash), Unknown>>}

WithBitfield ==
  {<<Greeting(Hash), Bits>>,
   <<Greeting(Hash), Unknown, Bits>>,
   <<Greeting(Hash), Bits, Unknown, Frame(KeepAlive), Frame(Message("Unchoke", <<>>))>>,
   <<Greeting(Hash), Unknown, Bits, Broken(<<1, IdOf("Have")>>)>>}

MCScripts == WithoutHandshake \cup WithoutBitfield \cup WithBitfield
=============================================================================
