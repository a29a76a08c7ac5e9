----------------------------- MODULE DiskStore ------------------------------
(***************************************************************************)
(* The store file (src/src/store/mod.rs) through sessions, process kills   *)
(* and power loss.  One file, <name>.dhaar, laid out as                    *)
(* [payload][bitfield][info_hash][flags]; torrents of the same name and    *)
(* size share it.  Nothing is synced after the file is laid out: what the  *)
(* process sees is the page cache, `file`; what survives a power loss is   *)
(* `disk`, region by region as the kernel happens to have flushed them.    *)
(*                                                                         *)
(* The content of a piece is the torrent whose verified bytes are there,   *)
(* or NoData; hashing a piece tells exactly that.  A session is one run of *)
(* the client on one torrent, one at a time.                               *)
(***************************************************************************)
EXTENDS Integers, FiniteSets

CONSTANTS
  Pieces,
  Torrents,          (* torrents whose stores have the same path and size    *)
  NoTorrent,         (* no session; an info hash region never written        *)
  NoData,
  AllowPowerLoss,
  RecordMayFail      (* record_piece may return an error                     *)

ASSUME TorrentAssumption == NoTorrent \notin Torrents /\ NoData \notin Torrents
ASSUME FaultAssumption == AllowPowerLoss \in BOOLEAN /\ RecordMayFail \in BOOLEAN

VARIABLES
  file,              (* the file as every process sees it                    *)
  disk,              (* the file as a power loss would leave it              *)
  session,           (* torrent the running client works on                  *)
  phase,             (* where the client is with its store                   *)
  held,              (* pieces the session takes as complete                 *)
  writer,            (* piece -> how far its connection has got              *)
  byte,              (* the bitfield byte as the claims lock's holder read it*)
  opened_clean,      (* the session took the stored bitfield on trust        *)
  extracted,         (* torrents whose payload has been copied out           *)
  disturbed          (* ghost: power was lost, or a torrent opened a store   *)
                     (* that is not its own                                  *)

vars == <<file, disk, session, phase, held, writer, byte, opened_clean, extracted,
          disturbed>>

Files == [exists : BOOLEAN, payload : [Pieces -> Torrents \cup {NoData}],
          bits : SUBSET Pieces, info_hash : Torrents \cup {NoTorrent},
          clean : BOOLEAN]

NoFile == [exists |-> FALSE, payload |-> [p \in Pieces |-> NoData], bits |-> {},
           info_hash |-> NoTorrent, clean |-> FALSE]

(* Pieces whose bytes in f hash to what torrent t says they should.        *)
Verified(f, t) == {p \in Pieces : f.payload[p] = t}

Init ==
  /\ file = NoFile
  /\ disk = NoFile
  /\ session = NoTorrent
  /\ phase = "closed"
  /\ held = {}
  /\ writer = [p \in Pieces |-> "idle"]
  /\ byte = {}
  /\ opened_clean = FALSE
  /\ extracted = {}
  /\ disturbed = FALSE

-----------------------------------------------------------------------------
(* initialize.                                                             *)

(* The store is missing: it is sized, its regions written, and synced.     *)
(* Sizing comes first, and a new region reads as zeros.                    *)
CreateSized(t) ==
  /\ phase = "closed"
  /\ ~file.exists
  /\ session' = t
  /\ phase' = "laying_out"
  /\ file' = [file EXCEPT !.exists = TRUE]
  /\ UNCHANGED <<disk, held, writer, byte, opened_clean, extracted, disturbed>>

(* Three writes, but what the first and the last put into the bitfield and *)
(* the flags is the zeros that are there: the file is seen to change once. *)
LayOut ==
  /\ phase = "laying_out"
  /\ phase' = "syncing"
  /\ file' = [file EXCEPT !.bits = {}, !.info_hash = session, !.clean = FALSE]
  /\ UNCHANGED <<disk, session, held, writer, byte, opened_clean, extracted, disturbed>>

SyncLayout ==
  /\ phase = "syncing"
  /\ phase' = "open"
  /\ disk' = file
  /\ UNCHANGED <<file, session, held, writer, byte, opened_clean, extracted, disturbed>>

Opened(t, bits, clean) ==
  /\ session' = t
  /\ phase' = "open"
  /\ held' = bits
  /\ opened_clean' = clean
  /\ UNCHANGED <<disk, writer, byte, extracted>>

(* Another torrent's store: nothing is resumed, and nothing is changed.    *)
OpenMismatched(t) ==
  /\ phase = "closed"
  /\ file.exists
  /\ file.info_hash # t
  /\ UNCHANGED file
  /\ Opened(t, {}, FALSE)
  /\ disturbed' = TRUE

(* The last exit was tidy: the bitfield is believed and the flag cleared.  *)
OpenClean(t) ==
  /\ phase = "closed"
  /\ file.exists
  /\ file.info_hash = t
  /\ file.clean
  /\ file' = [file EXCEPT !.clean = FALSE]
  /\ Opened(t, file.bits, TRUE)
  /\ UNCHANGED disturbed

(* Mutant: the bitfield is believed whatever the flag says.                *)
OpenUnclean_trusts(t) ==
  /\ phase = "closed"
  /\ file.exists
  /\ file.info_hash = t
  /\ ~file.clean
  /\ UNCHANGED file
  /\ Opened(t, file.bits, FALSE)
  /\ UNCHANGED disturbed

(* Mutant: an unclean store is begun afresh.                               *)
OpenUnclean_afresh(t) ==
  /\ phase = "closed"
  /\ file.exists
  /\ file.info_hash = t
  /\ ~file.clean
  /\ file' = [file EXCEPT !.bits = {}]
  /\ Opened(t, {}, FALSE)
  /\ UNCHANGED disturbed

(* It was not: what the bitfield claims is hashed, and the bits that fail  *)
(* are cleared.                                                            *)
OpenUnclean(t) ==
  /\ phase = "closed"
  /\ file.exists
  /\ file.info_hash = t
  /\ ~file.clean
  /\ LET good == file.bits \cap Verified(file, t) IN
       /\ file' = [file EXCEPT !.bits = good]
       /\ Opened(t, good, FALSE)
  /\ UNCHANGED disturbed

-----------------------------------------------------------------------------
(* A connection completing a piece: write, record_piece, PieceVerified.    *)

Write(p) ==
  /\ phase = "open"
  /\ p \notin held
  /\ writer[p] = "idle"
  /\ writer' = [writer EXCEPT ![p] = "written"]
  /\ file' = [file EXCEPT !.payload[p] = session]
  /\ UNCHANGED <<disk, session, phase, held, byte, opened_clean, extracted, disturbed>>

(* Mutant: the byte is read without the lock.                              *)
ReadByte_unlocked(p) ==
  /\ writer[p] = "written"
  /\ writer' = [writer EXCEPT ![p] = "locked"]
  /\ byte' = file.bits
  /\ UNCHANGED <<file, disk, session, phase, held, opened_clean, extracted, disturbed>>

(* The claims lock is taken and the byte read ...                          *)
ReadByte(p) ==
  /\ writer[p] = "written"
  /\ \A q \in Pieces : writer[q] # "locked"
  /\ writer' = [writer EXCEPT ![p] = "locked"]
  /\ byte' = file.bits
  /\ UNCHANGED <<file, disk, session, phase, held, opened_clean, extracted, disturbed>>

(* ... and written back with one more bit.                                 *)
WriteByte(p) ==
  /\ writer[p] = "locked"
  /\ writer' = [writer EXCEPT ![p] = "recorded"]
  /\ file' = [file EXCEPT !.bits = byte \cup {p}]
  /\ byte' = {}
  /\ UNCHANGED <<disk, session, phase, held, opened_clean, extracted, disturbed>>

(* record_piece failed; the connection only logs it.                       *)
RecordFails(p) ==
  /\ RecordMayFail
  /\ writer[p] = "written"
  /\ writer' = [writer EXCEPT ![p] = "unrecorded"]
  /\ UNCHANGED <<file, disk, session, phase, held, byte, opened_clean, extracted, disturbed>>

(* PieceVerified reaches the piece manager; the last one finalizes.        *)
Report(p) ==
  /\ phase = "open"
  /\ writer[p] \in {"recorded", "unrecorded"}
  /\ writer' = [writer EXCEPT ![p] = "idle"]
  /\ held' = held \cup {p}
  /\ phase' = IF held' = Pieces THEN "finalizing" ELSE "open"
  /\ UNCHANGED <<file, disk, session, byte, opened_clean, extracted, disturbed>>

-----------------------------------------------------------------------------
(* finalize: the flag first, then the copy, which may fail.                *)
MarkClean ==
  /\ phase = "finalizing"
  /\ phase' = "copying"
  /\ file' = [file EXCEPT !.clean = TRUE]
  /\ UNCHANGED <<disk, session, held, writer, byte, opened_clean, extracted, disturbed>>

CopyOut(ok) ==
  /\ phase = "copying"
  /\ phase' = "open"
  /\ extracted' = IF ok THEN extracted \cup {session} ELSE extracted
  /\ UNCHANGED <<file, disk, session, held, writer, byte, opened_clean, disturbed>>

-----------------------------------------------------------------------------
(* The end of a session, however it comes about: no code of the store runs *)
(* on the way out.                                                         *)
EndSession ==
  /\ session' = NoTorrent
  /\ phase' = "closed"
  /\ held' = {}
  /\ writer' = [p \in Pieces |-> "idle"]
  /\ byte' = {}
  /\ opened_clean' = FALSE

Exit ==
  /\ session # NoTorrent
  /\ EndSession
  /\ UNCHANGED <<file, disk, extracted, disturbed>>

(* The kernel writes a region back whenever it likes, once the file itself *)
(* is there to hold it.                                                    *)
Flush ==
  /\ AllowPowerLoss
  /\ \/ file.exists /\ disk' = [disk EXCEPT !.exists = TRUE]
     \/ /\ disk.exists
        /\ \/ \E p \in Pieces : disk' = [disk EXCEPT !.payload[p] = file.payload[p]]
           \/ disk' = [disk EXCEPT !.bits = file.bits]
           \/ disk' = [disk EXCEPT !.info_hash = file.info_hash]
           \/ disk' = [disk EXCEPT !.clean = file.clean]
  /\ disk' # disk
  /\ UNCHANGED <<file, session, phase, held, writer, byte, opened_clean, extracted, disturbed>>

PowerLoss ==
  /\ AllowPowerLoss
  /\ file # disk
  /\ file' = disk
  /\ EndSession
  /\ disturbed' = TRUE
  /\ UNCHANGED <<disk, extracted>>

-----------------------------------------------------------------------------
Client ==
  \/ LayOut
  \/ SyncLayout
  \/ \E p \in Pieces : Write(p) \/ ReadByte(p) \/ WriteByte(p) \/ RecordFails(p)
                       \/ Report(p)
  \/ MarkClean
  \/ \E ok \in BOOLEAN : CopyOut(ok)

Open(t) ==
  \/ CreateSized(t)
  \/ OpenMismatched(t)
  \/ OpenClean(t)
  \/ OpenUnclean(t)

Next ==
  \/ Client
  \/ \E t \in Torrents : Open(t)
  \/ Exit
  \/ Flush
  \/ PowerLoss

Spec == Init /\ [][Next]_vars

-----------------------------------------------------------------------------
TypeOK ==
  /\ file \in Files /\ disk \in Files
  /\ session \in Torrents \cup {NoTorrent}
  /\ phase \in {"closed", "laying_out", "syncing", "open", "finalizing", "copying"}
  /\ (phase = "closed") = (session = NoTorrent)
  /\ held \in SUBSET Pieces
  /\ writer \in [Pieces -> {"idle", "written", "locked", "recorded", "unrecorded"}]
  /\ byte \in SUBSET Pieces
  /\ opened_clean \in BOOLEAN
  /\ extracted \in SUBSET Torrents
  /\ disturbed \in BOOLEAN

(* Whatever a session serves and counts as downloaded has its bytes in the *)
(* store, kills in the middle of any step of the sessions before it        *)
(* included.  After a power loss or another torrent's session that holds   *)
(* of every session that had to hash what it found: a claim that outlived  *)
(* its data is corrected on the way back in.                               *)
HeldIsBacked ==
  session # NoTorrent /\ ~(opened_clean /\ disturbed) =>
    held \subseteq Verified(file, session)

(* Two connections recording neighbours share a byte of the bitfield: no   *)
(* recorded bit is lost to the other's read-modify-write, so what this     *)
(* session recorded the next one finds.                                    *)
RecordedSticks ==
  \A p \in Pieces : writer[p] = "recorded" => p \in file.bits

(* A restart costs nothing that was recorded: the next session of the      *)
(* store's own torrent holds every verified piece the bitfield claims.     *)
NothingRecordedIsLost ==
  [][\A t \in Torrents :
       session = NoTorrent /\ session' = t /\ file.info_hash = t
         => file.bits \cap Verified(file, t) \subseteq held']_vars

(* store/mod.rs:109 says the clean bit is "cleared whenever the store is   *)
(* opened"; until it finalizes, an open store is not marked clean.         *)
OpenIsNotClean ==
  phase = "open" /\ held # Pieces => ~file.clean

=============================================================================
