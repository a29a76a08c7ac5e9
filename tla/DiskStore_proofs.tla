-------------------------- MODULE DiskStore_proofs ---------------------------
(***************************************************************************)
(* What holds of the store for any number of pieces and torrents, with     *)
(* sessions killed at any step and power lost with any regions flushed.    *)
(*                                                                         *)
(* The argument.  In a session only its own torrent is written, so what a  *)
(* connection has written stays verified while it records and reports it   *)
(* (WrittenIsVerified), and under the claims lock the byte read is the     *)
(* bitfield (LockedByteIsBits).  While no power was lost and no torrent    *)
(* opened a store of another, the bitfield of the file claims verified     *)
(* pieces only (ClaimsAreBacked): that is what a clean flag may be trusted *)
(* for.                                                                    *)
(***************************************************************************)
EXTENDS DiskStore, TLAPS

InStore == phase \in {"open", "finalizing", "copying"}

NothingOutOfSession ==
  ~InStore => /\ held = {} /\ byte = {}
              /\ \A p \in Pieces : writer[p] = "idle"

WrittenIsVerified ==
  \A p \in Pieces : writer[p] # "idle" => file.payload[p] = session

LockedByteIsBits ==
  /\ \A p, q \in Pieces : writer[p] = "locked" /\ writer[q] = "locked" => p = q
  /\ \A p \in Pieces : writer[p] = "locked" => byte = file.bits

(* A file that does not exist was never given an info_hash.                *)
AbsentIsUnnamed ==
  /\ ~file.exists => file.info_hash = NoTorrent
  /\ ~disk.exists => disk.info_hash = NoTorrent
  /\ session # NoTorrent => file.exists

ClaimsAreBacked ==
  ~disturbed =>
    /\ file.bits \subseteq Verified(file, file.info_hash)
    /\ InStore \/ phase = "syncing" => file.info_hash = session

StoreInv ==
  /\ TypeOK
  /\ NothingOutOfSession
  /\ WrittenIsVerified
  /\ LockedByteIsBits
  /\ AbsentIsUnnamed
  /\ ClaimsAreBacked
  /\ HeldIsBacked
  /\ RecordedSticks

USE DEF InStore, Verified

LEMMA InitStoreInv == Init => StoreInv
<1> SUFFICES ASSUME Init PROVE StoreInv
  OBVIOUS
<1>1. NoFile \in Files
  BY DEF NoFile, Files
<1>2. TypeOK
  BY <1>1 DEF Init, TypeOK
<1>3. NothingOutOfSession /\ WrittenIsVerified /\ LockedByteIsBits
  BY DEF Init, NothingOutOfSession, WrittenIsVerified, LockedByteIsBits
<1>4. AbsentIsUnnamed /\ ClaimsAreBacked
  BY DEF Init, NoFile, AbsentIsUnnamed, ClaimsAreBacked
<1>5. HeldIsBacked /\ RecordedSticks
  BY DEF Init, HeldIsBacked, RecordedSticks
<1> QED
  BY <1>2, <1>3, <1>4, <1>5 DEF StoreInv

LEMMA NextKeepsType == TypeOK /\ [Next]_vars => TypeOK'
<1> SUFFICES ASSUME TypeOK, [Next]_vars PROVE TypeOK'
  OBVIOUS
<1> USE TorrentAssumption DEF TypeOK, Files
<1>1. CASE LayOut \/ SyncLayout
  BY <1>1 DEF LayOut, SyncLayout
<1>2. ASSUME NEW p \in Pieces,
             Write(p) \/ ReadByte(p) \/ WriteByte(p) \/ RecordFails(p) \/ Report(p)
      PROVE  TypeOK'
  BY <1>2 DEF Write, ReadByte, WriteByte, RecordFails, Report
<1>3. CASE MarkClean
  BY <1>3 DEF MarkClean
<1>4. ASSUME NEW ok \in BOOLEAN, CopyOut(ok) PROVE TypeOK'
  BY <1>4 DEF CopyOut
<1>5. ASSUME NEW t \in Torrents, Open(t) PROVE TypeOK'
  <2>0. CASE CreateSized(t)
    BY <2>0 DEF CreateSized
  <2>1. CASE OpenMismatched(t)
    BY <2>1 DEF OpenMismatched, Opened
  <2>2. CASE OpenClean(t)
    BY <2>2 DEF OpenClean, Opened
  <2>3. CASE OpenUnclean(t)
    BY <2>3 DEF OpenUnclean, Opened
  <2> QED
    BY <1>5, <2>0, <2>1, <2>2, <2>3 DEF Open
<1>6. CASE Exit
  BY <1>6 DEF Exit, EndSession
<1>7. CASE Flush
  <2>1. ASSUME NEW p \in Pieces, disk' = [disk EXCEPT !.payload[p] = file.payload[p]]
        PROVE  disk' \in Files
    BY <2>1
  <2>2. ASSUME disk' = [disk EXCEPT !.bits = file.bits] PROVE disk' \in Files
    BY <2>2
  <2>3. ASSUME disk' = [disk EXCEPT !.clean = file.clean] PROVE disk' \in Files
    BY <2>3
  <2>4. ASSUME disk' = [disk EXCEPT !.info_hash = file.info_hash] PROVE disk' \in Files
    BY <2>4
  <2>5. ASSUME disk' = [disk EXCEPT !.exists = TRUE] PROVE disk' \in Files
    BY <2>5
  <2> QED
    BY <1>7, <2>1, <2>2, <2>3, <2>4, <2>5 DEF Flush
<1>8. CASE PowerLoss
  BY <1>8 DEF PowerLoss, EndSession
<1>9. CASE UNCHANGED vars
  BY <1>9 DEF vars
<1> QED
  BY <1>1, <1>2, <1>3, <1>4, <1>5, <1>6, <1>7, <1>8, <1>9 DEF Next, Client

(* A connection's step on one piece.                                       *)
LEMMA PieceKeepsStore ==
  ASSUME StoreInv, TypeOK', NEW p \in Pieces,
         Write(p) \/ ReadByte(p) \/ WriteByte(p) \/ RecordFails(p) \/ Report(p)
  PROVE  StoreInv'
<1> USE TorrentAssumption DEF StoreInv, TypeOK, Files, NothingOutOfSession, WrittenIsVerified,
        LockedByteIsBits, AbsentIsUnnamed, ClaimsAreBacked, HeldIsBacked, RecordedSticks
<1>1. CASE Write(p)
  BY <1>1, SMTT(30) DEF Write
<1>2. CASE ReadByte(p)
  BY <1>2 DEF ReadByte
<1>3. CASE WriteByte(p)
  BY <1>3 DEF WriteByte
<1>4. CASE RecordFails(p)
  BY <1>4 DEF RecordFails
<1>5. CASE Report(p)
  BY <1>5 DEF Report
<1> QED
  BY <1>1, <1>2, <1>3, <1>4, <1>5

LEMMA OpenKeepsStore ==
  ASSUME StoreInv, TypeOK', NEW t \in Torrents, Open(t)
  PROVE  StoreInv'
<1> USE TorrentAssumption DEF StoreInv, TypeOK, Files, NothingOutOfSession, WrittenIsVerified,
        LockedByteIsBits, AbsentIsUnnamed, ClaimsAreBacked, HeldIsBacked, RecordedSticks
<1>1. CASE CreateSized(t)
  BY <1>1 DEF CreateSized
<1>2. CASE OpenMismatched(t)
  BY <1>2 DEF OpenMismatched, Opened
<1>3. CASE OpenClean(t)
  BY <1>3 DEF OpenClean, Opened
<1>4. CASE OpenUnclean(t)
  BY <1>4 DEF OpenUnclean, Opened
<1> QED
  BY <1>1, <1>2, <1>3, <1>4 DEF Open

LEMMA NextKeepsStore == StoreInv /\ [Next]_vars => StoreInv'
<1> SUFFICES ASSUME StoreInv, [Next]_vars PROVE StoreInv'
  OBVIOUS
<1>t. TypeOK'
  BY NextKeepsType DEF StoreInv
<1>1. ASSUME NEW p \in Pieces,
             Write(p) \/ ReadByte(p) \/ WriteByte(p) \/ RecordFails(p) \/ Report(p)
      PROVE  StoreInv'
  BY <1>1, <1>t, PieceKeepsStore
<1>2. ASSUME NEW t \in Torrents, Open(t) PROVE StoreInv'
  BY <1>2, <1>t, OpenKeepsStore
<1> USE TorrentAssumption, <1>t
    DEF StoreInv, TypeOK, Files, NothingOutOfSession, WrittenIsVerified,
        LockedByteIsBits, AbsentIsUnnamed, ClaimsAreBacked, HeldIsBacked, RecordedSticks
<1>3. CASE LayOut
  BY <1>3 DEF LayOut
<1>4. CASE SyncLayout
  BY <1>4 DEF SyncLayout
<1>5. CASE MarkClean
  BY <1>5 DEF MarkClean
<1>6. ASSUME NEW ok \in BOOLEAN, CopyOut(ok) PROVE StoreInv'
  BY <1>6 DEF CopyOut
<1>7. CASE Exit
  BY <1>7 DEF Exit, EndSession
<1>8. CASE Flush
  BY <1>8 DEF Flush
<1>9. CASE PowerLoss
  BY <1>9 DEF PowerLoss, EndSession
<1>10. CASE UNCHANGED vars
  BY <1>10 DEF vars
<1> QED
  BY <1>1, <1>2, <1>3, <1>4, <1>5, <1>6, <1>7, <1>8, <1>9, <1>10 DEF Next, Client

(* The inductive invariant holds of every run of the store.                *)
THEOREM StoreInvariant == Spec => []StoreInv
  BY InitStoreInv, NextKeepsStore, PTL DEF Spec

(* Type correctness, for any torrents sharing the file and any faults.     *)
THEOREM StoreTypeCorrect == Spec => []TypeOK
<1>1. StoreInv => TypeOK
  BY DEF StoreInv
<1> QED
  BY <1>1, StoreInvariant, PTL

(* What a session serves is in the store, unless it believed the clean     *)
(* flag after a power loss or another torrent's session.                   *)
THEOREM HeldBacked == Spec => []HeldIsBacked
<1>1. StoreInv => HeldIsBacked
  BY DEF StoreInv
<1> QED
  BY <1>1, StoreInvariant, PTL

(* No recorded bit is lost to a neighbour's read-modify-write.             *)
THEOREM RecordedStay == Spec => []RecordedSticks
<1>1. StoreInv => RecordedSticks
  BY DEF StoreInv
<1> QED
  BY <1>1, StoreInvariant, PTL

(* Whatever initialize finds, the session of the store's own torrent holds *)
(* every verified piece the bitfield claims.                               *)
THEOREM RecordedResume == Spec => NothingRecordedIsLost
<1> DEFINE Resumes == \A t \in Torrents :
             session = NoTorrent /\ session' = t /\ file.info_hash = t
               => file.bits \cap Verified(file, t) \subseteq held'
<1>1. StoreInv /\ [Next]_vars => [Resumes]_vars
  <2> SUFFICES ASSUME StoreInv, Next, NEW t \in Torrents,
                      session = NoTorrent, session' = t, file.info_hash = t
               PROVE  file.bits \cap Verified(file, t) \subseteq held'
    OBVIOUS
  <2> USE TorrentAssumption DEF StoreInv, TypeOK, Files, AbsentIsUnnamed, NothingOutOfSession
  <2>1. ASSUME NEW u \in Torrents, Open(u)
        PROVE  file.bits \cap Verified(file, t) \subseteq held'
    BY <2>1 DEF Open, CreateSized, OpenMismatched, OpenClean, OpenUnclean, Opened
  <2>2. ASSUME NEW p \in Pieces,
               Write(p) \/ ReadByte(p) \/ WriteByte(p) \/ RecordFails(p) \/ Report(p)
        PROVE  FALSE
    BY <2>2 DEF Write, ReadByte, WriteByte, RecordFails, Report
  <2>3. CASE LayOut \/ SyncLayout \/ MarkClean \/ (\E ok \in BOOLEAN : CopyOut(ok))
    BY <2>3 DEF LayOut, SyncLayout, MarkClean, CopyOut
  <2>4. CASE Exit \/ Flush \/ PowerLoss
    BY <2>4 DEF Exit, Flush, PowerLoss, EndSession
  <2> QED
    BY <2>1, <2>2, <2>3, <2>4 DEF Next, Client
<1> QED
  BY <1>1, StoreInvariant, PTL DEF Spec, NothingRecordedIsLost
=============================================================================
