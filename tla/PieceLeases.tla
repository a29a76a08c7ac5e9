---------------------------- MODULE PieceLeases -----------------------------
(***************************************************************************)
(* What claiming promises, without the manager, its mailbox or a peer      *)
(* connection's steps: pieces are leased to connections, worked on, stored *)
(* and done.  Swarm implements it (Leases there), so its promises hold of  *)
(* the code that Swarm models.                                             *)
(*                                                                         *)
(* A lease is out from the moment a piece is chosen until it is taken      *)
(* back, whatever became of the connection it was given to: the lease of a *)
(* connection dropped in the wrong place is never returned.                *)
(***************************************************************************)
EXTENDS Integers, FiniteSets

CONSTANTS
  Peers,             (* connections pieces are leased to                     *)
  Pieces,            (* pieces of the payload                                *)
  MaxPieceSharers    (* leases one piece can have out                        *)

VARIABLES
  open,              (* leasing has begun                                    *)
  done,              (* pieces that need no more work and may be served      *)
  leases,            (* <<connection, piece>> pairs out                      *)
  working,           (* pairs a connection has the piece of in hand          *)
  stored,            (* pieces whose verified bytes are in the store         *)
  extracted          (* the payload has been written out                     *)

leaseVars == <<open, done, leases, working, stored, extracted>>

Holders(p) == {c \in Peers : <<c, p>> \in leases}

Remaining == Pieces \ done

Init ==
  /\ open = FALSE
  /\ done = {}
  /\ leases = {}
  /\ working = {}
  /\ stored \in SUBSET Pieces
  /\ extracted = FALSE

(* Leasing begins with what an earlier run left behind taken as done.      *)
Open(S) ==
  /\ ~open
  /\ S \subseteq stored
  /\ open' = TRUE
  /\ done' = S
  /\ UNCHANGED <<leases, working, stored, extracted>>

(* A free piece, or a second lease once every remaining piece has one.     *)
MayLease(c, p) ==
  \/ Holders(p) = {}
  \/ /\ \A q \in Remaining : Holders(q) # {}
     /\ c \notin Holders(p)
     /\ Cardinality(Holders(p)) < MaxPieceSharers

(* The connection takes the piece in hand, or is gone before it can.       *)
Lease(c, p, taken) ==
  /\ open
  /\ p \in Remaining
  /\ MayLease(c, p)
  /\ leases' = leases \cup {<<c, p>>}
  /\ working' = IF taken THEN working \cup {<<c, p>>} ELSE working
  /\ UNCHANGED <<open, done, stored, extracted>>

(* The bytes of a piece reach the store while somebody works on it.        *)
Store(c, p) ==
  /\ <<c, p>> \in working
  /\ stored' = stored \cup {p}
  /\ UNCHANGED <<open, done, leases, working, extracted>>

(* A connection lets go of a piece; a write it had started may still land. *)
Stop(c, p, landed) ==
  /\ <<c, p>> \in working
  /\ working' = working \ {<<c, p>>}
  /\ stored' = IF landed THEN stored \cup {p} ELSE stored
  /\ UNCHANGED <<open, done, leases, extracted>>

(* A lease is taken back once its piece is no longer in hand.              *)
Return(c, p) ==
  /\ <<c, p>> \in leases \ working
  /\ leases' = leases \ {<<c, p>>}
  /\ UNCHANGED <<open, done, working, stored, extracted>>

(* The piece of a lease is done: every lease on it ends.                   *)
Finish(c, p) ==
  /\ <<c, p>> \in leases \ working
  /\ p \in Remaining \cap stored
  /\ done' = done \cup {p}
  /\ leases' = {l \in leases : l[2] # p}
  /\ UNCHANGED <<open, working, stored, extracted>>

(* The payload is copied out, whole.                                       *)
Extract ==
  /\ Remaining = {}
  /\ extracted' = TRUE
  /\ UNCHANGED <<open, done, leases, working, stored>>

Next ==
  \/ \E S \in SUBSET Pieces : Open(S)
  \/ \E c \in Peers, p \in Pieces :
       \/ \E taken \in BOOLEAN : Lease(c, p, taken)
       \/ Store(c, p)
       \/ \E landed \in BOOLEAN : Stop(c, p, landed)
       \/ Return(c, p)
       \/ Finish(c, p)
  \/ Extract

Spec == Init /\ [][Next]_leaseVars

-----------------------------------------------------------------------------
LeaseTypeOK ==
  /\ open \in BOOLEAN
  /\ done \in SUBSET Pieces
  /\ leases \in SUBSET (Peers \X Pieces)
  /\ working \in SUBSET (Peers \X Pieces)
  /\ stored \in SUBSET Pieces
  /\ extracted \in BOOLEAN

(* Nobody works on a piece without a lease, unless it was done meanwhile.  *)
WorkIsLeased == \A l \in working : l \in leases \/ l[2] \in done

(* What is done is stored and has no lease out.                            *)
DoneIsStored == done \subseteq stored /\ \A l \in leases : l[2] \notin done

(* The payload is never written out with a piece missing.                  *)
ExtractedIsWhole == extracted => stored = Pieces

NothingBeforeOpen == ~open => done = {} /\ leases = {} /\ working = {}

LeaseInv ==
  /\ LeaseTypeOK
  /\ NothingBeforeOpen
  /\ WorkIsLeased
  /\ DoneIsStored
  /\ ExtractedIsWhole

(* What is done or stored stays so, and a piece in hand goes on being      *)
(* leased until its holder lets go of it or somebody else finishes it.     *)
NothingUndone ==
  [][/\ done \subseteq done' /\ stored \subseteq stored'
     /\ \A l \in leases \cap working : l \in leases' \/ l[2] \in done'
                                       \/ l \notin working']_leaseVars
=============================================================================
