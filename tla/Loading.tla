------------------------------- MODULE Loading -------------------------------
(***************************************************************************)
(* Download::from_torrent_file, up to the trackers it announces to: the    *)
(* file is parsed, its info_hash taken over the bytes of `info`, and the   *)
(* announce loop of Trackers started over its announce URLs.               *)
(***************************************************************************)
EXTENDS Trackers, TorrentFile

CONSTANTS
  Files,      (* torrent files: their bytes, the trackers their author      *)
              (* named, in order, the encoding of their info, and whether   *)
              (* it was dated; one that was damaged since has the info <<>> *)
  UrlOf(_)    (* the tracker a URL is of                                    *)

(* What the author of a torrent named: its announce URL, then its tiers.   *)
NamedIn(torrent, named) ==
  LET tiers   == IF Has(torrent, <<"l">>) THEN Get(torrent, <<"l">>).val ELSE <<>>
      primary == IF Has(torrent, <<"a">>) THEN <<Get(torrent, <<"a">>).val>> ELSE <<>>
  IN named = primary \o FlattenSeq([i \in DOMAIN tiers |->
                           [j \in DOMAIN tiers[i].val |-> tiers[i].val[j].val]])

(* A damaged file is no torrent any more, and one without a creation date  *)
(* never was one to us.  Any other is one, its info is the bytes that its  *)
(* value of `info` is read from, and its URLs are those of trackers.       *)
ASSUME FilesAssumption ==
  \A file \in Files :
    /\ DOMAIN file = {"bytes", "named", "info", "dated"}
    /\ file.bytes \in Seq(Bytes) /\ file.named \in Seq(Seq(Bytes))
    /\ file.info = <<>> \/ ~file.dated => ~ParsesAsTorrent(file.bytes)
    /\ file.info # <<>> /\ file.dated =>
         /\ ParsesAsTorrent(file.bytes)
         /\ LET at == InfoBehind(file.bytes)
            IN file.info = SubSeq(file.bytes, at, Decode(file.bytes, at).at - 1)
         /\ NamedIn(Torrent(file.bytes), file.named)
         /\ \A i \in DOMAIN file.named : UrlOf(file.named[i]) \in Trackers

VARIABLES
  stage,      (* of Download: reading, loaded, failed, or spawned           *)
  file,       (* the file; forgotten with what follows once spawned         *)
  hashed,     (* what info_hash is the digest of                            *)
  urls        (* announce_urls                                              *)

loadVars == <<stage, file, hashed, urls>>
allVars  == <<vars, loadVars>>

NoFile == [bytes |-> <<>>, named |-> <<>>, info |-> <<>>, dated |-> FALSE]

LoadInit ==
  /\ Init /\ DOMAIN due = {}
  /\ stage = "reading"
  /\ file \in Files
  /\ hashed = <<>> /\ urls = <<>>

(* Torrent::parse_from_file_path, which unwraps every error, and what      *)
(* Download::from_torrent_file takes from it.                              *)
Load ==
  /\ stage = "reading"
  /\ IF ParsesAsTorrent(file.bytes) /\ RawInfo(file.bytes).ok
     THEN /\ stage' = "loaded"
          /\ hashed' = info_bytes(file.bytes)
          /\ urls' = announce_urls(Torrent(file.bytes))
     ELSE stage' = "failed" /\ UNCHANGED <<hashed, urls>>
  /\ UNCHANGED <<file, vars>>

(* TrackerManager::start: every tracker is due at once.                    *)
SpawnTrackers ==
  /\ stage = "loaded"
  /\ stage' = "spawned"
  /\ due' = [t \in {UrlOf(urls[i]) : i \in DOMAIN urls} |-> 0]
  /\ file' = NoFile /\ hashed' = <<>> /\ urls' = <<>>
  /\ UNCHANGED <<next, step, waited, query, flags, counters, told>>

LoadNext ==
  \/ Load
  \/ SpawnTrackers
  \/ stage = "spawned" /\ Next /\ UNCHANGED loadVars

LoadSpec == LoadInit /\ [][LoadNext]_allVars /\ AnnouncingIsFair

-----------------------------------------------------------------------------
(* info_hash is taken over exactly the bytes the author's info was encoded *)
(* to: fields in any order, fields Info has no name for and lookalikes     *)
(* beside it notwithstanding ("re-serializing the struct is not byte-      *)
(* identical", raw.rs).  A whole file that carries a creation date loads:  *)
(* the second reading of `info`, whose failure would be unwrapped, never   *)
(* fails where the first succeeded.  One that carries none is rejected,    *)
(* valid though it is, and so is a damaged one.                            *)
HashCoversInfo ==
  /\ stage = "loaded" => hashed # <<>> /\ hashed = file.info /\ file.dated
  /\ stage = "failed" => file.info = <<>> \/ ~file.dated

(* announce_urls names every tracker of the file once, in the order the    *)
(* file first mentions them, the primary before its tiers.                 *)
TrackersInOrder ==
  stage = "loaded" =>
    /\ ToSet(urls) = ToSet(file.named)
    /\ \A i, j \in DOMAIN urls : i < j =>
         \E k \in DOMAIN file.named :
           /\ file.named[k] = urls[i]
           /\ \A l \in 1 .. k : file.named[l] # urls[j]
=============================================================================
