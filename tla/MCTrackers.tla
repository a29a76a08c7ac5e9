----------------------------- MODULE MCTrackers ------------------------------
(* Loading over small torrent files, and Trackers over the three announce  *)
(* URLs of one of them and a handful of ticks.                             *)
EXTENDS Loading, BencodeWriter, TLC

URL(bytes) == bytes[1]

Date == <<<<"c">>, Number(9)>>

Name == <<<<"m">>, Str(<<"e">>)>>
Length == <<<<"n">>, Number(12)>>
Unnamed == <<<<"p">>, Number(-3)>>
Parts == <<<<"f">>, List(<<Dict(<<<<<<"n">>, Number(0)>>, <<<<"p">>, List(<<>>)>>>>)>>)>>
Lookalike == <<<<"x">>, Str(<<"1", ":", "i", "d", "e">>)>>
Nested == <<<<"y">>, List(<<Dict(<<<<<<"i">>, Str(<<>>)>>>>), Number(-1)>>)>>

Info(entries) == <<<<"i">>, Dict(entries)>>
Primary(url) == <<<<"a">>, Str(<<url>>)>>
Tiers(tiers) ==
  <<<<"l">>, List([i \in DOMAIN tiers |->
                     List([j \in DOMAIN tiers[i] |-> Str(<<tiers[i][j]>>)])])>>

(* A file its author wrote, naming the trackers in that order.             *)
File(entries, named) ==
  [bytes |-> Encode(Dict(entries)),
   named |-> [i \in DOMAIN named |-> <<named[i]>>],
   info |-> Encode(Get(Dict(entries), <<"i">>)),
   dated |-> Has(Dict(entries), <<"c">>)]

Infos == {<<Name, Length>>, <<Length, Unnamed, Name>>, <<Parts, Name>>,
          <<Name, Nested, Length>>}

Written ==
  {File(<<Date, Info(info)>>, <<>>) : info \in Infos}
    \cup {File(<<Lookalike, Nested, Info(<<Length, Unnamed, Name>>), Date>>, <<>>),
          File(<<Info(<<Name>>), Date, Primary("u"), Lookalike>>, <<"u">>),
          File(<<Primary("u"), Date, Tiers(<<<<"v", "u">>, <<>>, <<"w", "v">>>>), Nested,
                 Info(<<Unnamed, Name>>)>>, <<"u", "v", "u", "w", "v">>)}

Undated ==
  {File(<<Info(info)>>, <<>>) : info \in Infos}
    \cup {File(<<Primary("u"), Lookalike, Info(<<Name, Date>>)>>, <<"u">>)}

(* What has become of a file: cut short, run on, or a byte another.        *)
Damaged(bytes) == [bytes |-> bytes, named |-> <<>>, info |-> <<>>, dated |-> TRUE]
Whole == Encode(Dict(<<Date, Info(<<Name, Length>>), Lookalike>>))

Broken ==
  {Damaged(SubSeq(Whole, 1, n)) : n \in 1 .. Len(Whole) - 1}
    \cup {Damaged(Whole \o <<"e">>), Damaged(Encode(Dict(<<Date, Lookalike>>))),
          Damaged(Encode(Dict(<<Date, Info(<<Length>>)>>))),
          Damaged(Encode(Dict(<<Date, Info(<<Name, <<<<"n">>, Number(-12)>>>>)>>))),
          Damaged(Encode(Dict(<<Date, Info(<<Name>>), Info(<<Name>>)>>))),
          Damaged(Encode(Dict(<<Date, Info(<<Name>>), Date>>))),
          Damaged(Encode(Dict(<<Info(<<Name>>), <<<<"c">>, Str(<<"9">>)>>>>))),
          Damaged(Encode(Dict(<<Date, Info(<<Name>>), <<<<"a">>, List(<<>>)>>>>)))}

(* The writer of these files makes what Makes says is made of each value.  *)
PartsOf(value) ==
  CASE value.kind = "list" -> ToSet(value.val)
    [] value.kind = "dict" -> {entry[2] : entry \in ToSet(value.val)}
    [] OTHER -> {}

Samples ==
  {Name[2], Length[2], Unnamed[2], Parts[2], Lookalike[2], Nested[2], Number(0), Number(10),
   Number(-207), Str(<<>>), List(<<>>), Dict(<<>>), Dict(<<Name, Length, Parts>>),
   Dict(<<Nested, Date, Info(<<Name, Unnamed>>), Primary("u"), Tiers(<<<<"v", "u">>, <<>>>>)>>)}

ASSUME EncodeMakes ==
  \A value \in Samples :
    Makes(Encode(value), value, {[bytes |-> Encode(p), value |-> p] : p \in PartsOf(value)})

MCFiles == Written \cup Undated \cup Broken
=============================================================================
