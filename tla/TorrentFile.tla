----------------------------- MODULE TorrentFile -----------------------------
(***************************************************************************)
(* A .torrent file from bytes to what a download takes from it: the        *)
(* bencode codec (crates/bencode-dhaar) and the reading of Torrent         *)
(* (torrent_parser/metadata.rs): its trackers, and the bytes its info_hash *)
(* is taken over.                                                          *)
(*                                                                         *)
(* A byte is a string of one character, a member of Bytes.  A field's name *)
(* is shortened to a byte, and `name` stands for every field Info must     *)
(* have.  UTF-8 is left out, as are a number too wide for the field it is  *)
(* read into and the optional fields that are neither looked at nor hashed *)
(* apart (comment, created by, encoding, md5sum, private).  Parsing that   *)
(* returns an error and parsing that slices past the end of the input,     *)
(* which panics, are both a failure here: neither yields a Torrent.        *)
(***************************************************************************)
EXTENDS Integers, SequencesExt

CONSTANT Bytes      (* what a file is made of                              *)

Digits == <<"0", "1", "2", "3", "4", "5", "6", "7", "8", "9">>

ASSUME BytesAssumption == ToSet(Digits) \cup {"i", "l", "d", "e", ":", "-"} \subseteq Bytes

IsDigit(byte) == byte \in ToSet(Digits)
DigitOf(byte) == (CHOOSE i \in DOMAIN Digits : Digits[i] = byte) - 1
NumberOf(digits) ==
  LET number[i \in 0 .. Len(digits)] ==
        IF i = 0 THEN 0 ELSE 10 * number[i - 1] + DigitOf(digits[i])
  IN number[Len(digits)]

Number(n)     == [kind |-> "int", val |-> n]
Str(bytes)    == [kind |-> "str", val |-> bytes]
List(values)  == [kind |-> "list", val |-> values]
Dict(entries) == [kind |-> "dict", val |-> entries]

-----------------------------------------------------------------------------
(* ser.rs: a number is written in decimal, a string behind its length.    *)

Decimal(n) ==
  LET size == IF n < 0 THEN -n ELSE n
      digits[k \in 0 .. size] ==
        (IF k < 10 THEN <<>> ELSE digits[k \div 10]) \o <<Digits[(k % 10) + 1]>>
  IN IF n < 0 THEN <<"-">> \o digits[size] ELSE digits[size]

EncodeBytes(bytes) == Decimal(Len(bytes)) \o <<":">> \o bytes

(* What is written of a value, given what was written of its parts: a      *)
(* list's elements and a map's entries go in the order they come in.       *)
Makes(bytes, value, made) ==
  LET val    == value.val
      values == {part.value : part \in made}
  IN /\ value = [kind |-> value.kind, val |-> val]
     /\ \/ /\ value.kind = "int" /\ val \in Int
           /\ bytes = <<"i">> \o Decimal(val) \o <<"e">>
        \/ /\ value.kind = "str" /\ val \in Seq(Bytes)
           /\ bytes = EncodeBytes(val)
        \/ /\ value.kind = "list" /\ val \in Seq(values)
           /\ \E parts \in [DOMAIN val -> made] :
                /\ \A i \in DOMAIN val : parts[i].value = val[i]
                /\ bytes = <<"l">> \o FlattenSeq([i \in DOMAIN val |-> parts[i].bytes]) \o <<"e">>
        \/ /\ value.kind = "dict" /\ val \in Seq(Seq(Bytes) \X values)
           /\ \E parts \in [DOMAIN val -> made] :
                /\ \A i \in DOMAIN val : parts[i].value = val[i][2]
                /\ bytes = <<"d">> \o FlattenSeq([i \in DOMAIN val |->
                              EncodeBytes(val[i][1]) \o parts[i].bytes]) \o <<"e">>

-----------------------------------------------------------------------------
(* de.rs: what is read from position `at` on, and where it ends.           *)

Fails == [ok |-> FALSE, at |-> 0, val |-> <<>>]
Reads(at, val) == [ok |-> TRUE, at |-> at, val |-> val]

(* The next place one of `bytes` is at, or just past the input.            *)
Until(input, at, bytes) ==
  CHOOSE j \in at .. Len(input) + 1 :
    /\ j > Len(input) \/ input[j] \in bytes
    /\ \A k \in at .. j - 1 : input[k] \notin bytes

AllDigits(digits) == \A i \in DOMAIN digits : IsDigit(digits[i])

(* parse_bytes.  Where the colon is missing the input has come to its end, *)
(* and so fails whatever the string is part of.                            *)
ReadBytes(input, at) ==
  LET colon  == Until(input, at, {":"})
      length == SubSeq(input, at, colon - 1)
      end    == colon + NumberOf(length)
  IN IF length = <<>> \/ ~AllDigits(length) \/ end > Len(input)
     THEN Fails ELSE Reads(end + 1, SubSeq(input, colon + 1, end))

(* parse_integer: a sign, digits, and an end.                              *)
ReadInteger(input, at) ==
  LET end    == Until(input, at, {"e"})
      signed == at < Len(input) /\ input[at + 1] = "-"
      digits == SubSeq(input, IF signed THEN at + 2 ELSE at + 1, end - 1)
  IN IF end > Len(input) \/ digits = <<>> \/ ~AllDigits(digits) THEN Fails
     ELSE Reads(end + 1, Number(IF signed THEN -NumberOf(digits) ELSE NumberOf(digits)))

(* Mutant: a sign is not skipped.                                          *)
SkipInteger_unsigned(input, at) ==
  LET end == Until(input, at, {"e"}) IN
  IF end > Len(input) \/ ~AllDigits(SubSeq(input, at + 1, end - 1)) THEN Fails
  ELSE Reads(end + 1, Number(0))

(* skip_value is laxer: digits and signs in any order, or none.            *)
SkipInteger(input, at) ==
  LET end == Until(input, at, {"e"}) IN
  IF end > Len(input)
     \/ \E k \in at + 1 .. end - 1 : ~IsDigit(input[k]) /\ input[k] # "-"
  THEN Fails ELSE Reads(end + 1, Number(0))

As(kind, r) == IF r.ok THEN Reads(r.at, [kind |-> kind, val |-> r.val]) ELSE Fails

(* One value.  The walk that skips differs from the one that decodes in    *)
(* its integers.  rest[p] is how a list or a dictionary goes on at p.      *)
ValueAt(input, how, rest, at) ==
  IF at > Len(input) THEN Fails
  ELSE CASE input[at] = "i" ->
              IF how = "skip" THEN SkipInteger(input, at) ELSE ReadInteger(input, at)
         [] input[at] = "l" -> As("list", rest[at + 1]["list"])
         [] input[at] = "d" -> As("dict", rest[at + 1]["dict"])
         [] IsDigit(input[at]) -> As("str", ReadBytes(input, at))
         [] OTHER -> Fails

(* A list or a dictionary is at its end, or at an element of it.           *)
RestAt(input, how, rest, of, at) ==
  LET key   == ReadBytes(input, at)
      value == ValueAt(input, how, rest, IF of = "dict" THEN key.at ELSE at)
      after == rest[value.at][of]
      entry == IF of = "dict" THEN <<key.val, value.val>> ELSE value.val
  IN IF at > Len(input) THEN Fails
     ELSE IF input[at] = "e" THEN Reads(at + 1, <<>>)
     ELSE IF of = "dict" /\ ~key.ok THEN Fails
     ELSE IF ~value.ok THEN Fails
     ELSE IF ~after.ok THEN Fails
     ELSE Reads(after.at, <<entry>> \o after.val)

Walk(input, how) ==
  LET rest[at \in 1 .. Len(input) + 1] ==
        [of \in {"list", "dict"} |-> RestAt(input, how, rest, of, at)]
  IN rest

Decode(input, at) == ValueAt(input, "decode", Walk(input, "decode"), at)
Skip(input, at)   == ValueAt(input, "skip", Walk(input, "skip"), at)

-----------------------------------------------------------------------------
(* metadata.rs.                                                            *)

Field(dict, name) == {i \in DOMAIN dict.val : dict.val[i][1] = name}
Has(dict, name) == Field(dict, name) # {}
Get(dict, name) == dict.val[CHOOSE i \in Field(dict, name) : TRUE][2]

(* A field may be missing, but not be there twice.                         *)
Once(dict, names) == \A name \in names : \A i, j \in Field(dict, name) : i = j

IsStr(value) == value.kind = "str"
IsUnsigned(value) == value.kind = "int" /\ value.val >= 0
IsTier(value) == value.kind = "list" /\ \A i \in DOMAIN value.val : IsStr(value.val[i])
IsTiers(value) == value.kind = "list" /\ \A i \in DOMAIN value.val : IsTier(value.val[i])

IsFile(value) ==
  /\ value.kind = "dict" /\ Once(value, {<<"n">>})
  /\ Has(value, <<"n">>) /\ IsUnsigned(Get(value, <<"n">>))

IsFiles(value) == value.kind = "list" /\ \A i \in DOMAIN value.val : IsFile(value.val[i])

IsInfo(value) ==
  /\ value.kind = "dict" /\ Once(value, {<<"m">>, <<"n">>, <<"f">>})
  /\ Has(value, <<"m">>) /\ IsStr(Get(value, <<"m">>))
  /\ Has(value, <<"n">>) => IsUnsigned(Get(value, <<"n">>))
  /\ Has(value, <<"f">>) => IsFiles(Get(value, <<"f">>))

IsDate(value) == value.kind = "int"

(* Fields Torrent does not name are read over.  creation_date is an        *)
(* Option, but one with a deserializer of its own and no default, which    *)
(* serde does not let be missing.                                          *)
IsTorrent(value) ==
  /\ value.kind = "dict" /\ Once(value, {<<"i">>, <<"a">>, <<"l">>, <<"c">>})
  /\ Has(value, <<"i">>) /\ IsInfo(Get(value, <<"i">>))
  /\ Has(value, <<"c">>) /\ IsDate(Get(value, <<"c">>))
  /\ Has(value, <<"a">>) => IsStr(Get(value, <<"a">>))
  /\ Has(value, <<"l">>) => IsTiers(Get(value, <<"l">>))

(* from_bytes: nothing may be left behind the value.                       *)
ParsesAsTorrent(input) ==
  LET r == Decode(input, 1) IN r.ok /\ r.at = Len(input) + 1 /\ IsTorrent(r.val)

Torrent(input) == Decode(input, 1).val

(* Where the walk over a file's entries finds the value of `info`.         *)
InfoBehind(input) ==
  LET behind[at \in 1 .. Len(input) + 1] ==
        LET key   == ReadBytes(input, at)
            value == Decode(input, key.at)
        IN IF ~key.ok THEN 0
           ELSE IF key.val = <<"i">> THEN key.at
           ELSE IF value.ok THEN behind[value.at] ELSE 0
  IN behind[2]

RawInfo(input) == Skip(input, InfoBehind(input))

(* Raw<Info>: the bytes between the value's start and its end.             *)
info_bytes(input) == SubSeq(input, InfoBehind(input), RawInfo(input).at - 1)

(* Mutant: the tiers come before the primary.                              *)
Mentioned_tiers_first(torrent) ==
  (IF Has(torrent, <<"l">>)
   THEN FlattenSeq([i \in DOMAIN Get(torrent, <<"l">>).val |->
                      [j \in DOMAIN Get(torrent, <<"l">>).val[i].val |->
                         Get(torrent, <<"l">>).val[i].val[j].val]])
   ELSE <<>>) \o
  (IF Has(torrent, <<"a">>) THEN <<Get(torrent, <<"a">>).val>> ELSE <<>>)

(* announce, then announce-list's tiers in order.                          *)
Mentioned(torrent) ==
  LET tiers == IF Has(torrent, <<"l">>) THEN Get(torrent, <<"l">>).val ELSE <<>>
      urls  == FlattenSeq([i \in DOMAIN tiers |->
                             [j \in DOMAIN tiers[i].val |-> tiers[i].val[j].val]])
  IN (IF Has(torrent, <<"a">>) THEN <<Get(torrent, <<"a">>).val>> ELSE <<>>) \o urls

(* Each URL is kept where it is first seen.                                *)
announce_urls(torrent) ==
  LET urls == Mentioned(torrent)
      kept[i \in 0 .. Len(urls)] ==
        LET seen == kept[i - 1] IN
        IF i = 0 THEN <<>>
        ELSE IF urls[i] \in ToSet(seen) THEN seen ELSE Append(seen, urls[i])
  IN kept[Len(urls)]
=============================================================================
