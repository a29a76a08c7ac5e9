---------------------------- MODULE BencodeWriter ----------------------------
(***************************************************************************)
(* The writing half of crates/bencode-dhaar (ser.rs): a value to its       *)
(* bytes.  It is kept apart from the reading half because it recurses over *)
(* values, where that recurses over places in the input.                   *)
(***************************************************************************)
EXTENDS TorrentFile

(* A list's elements and a map's entries go in the order they come in.     *)
RECURSIVE Encode(_)
Encode(value) ==
  CASE value.kind = "int"  -> <<"i">> \o Decimal(value.val) \o <<"e">>
    [] value.kind = "str"  -> EncodeBytes(value.val)
    [] value.kind = "list" ->
         <<"l">> \o FlattenSeq([i \in DOMAIN value.val |-> Encode(value.val[i])]) \o <<"e">>
    [] value.kind = "dict" ->
         <<"d">> \o FlattenSeq([i \in DOMAIN value.val |->
                      EncodeBytes(value.val[i][1]) \o Encode(value.val[i][2])]) \o <<"e">>
=============================================================================
