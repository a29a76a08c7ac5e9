# A verification project for dhaar-torrent

TLA+ models of the concurrent core of this BitTorrent client, the TLC
configurations that check them on small instances, and proofs, checked by TLAPS,
that the most important properties hold for every number of peers, pieces,
mailbox slots and so on.  Paths are relative to the root of the repository
(`src/...` is the library crate).

## 1. Inventory: the system

`Download` (`src/lib.rs`) parses a torrent, opens its store and starts five kinds
of tokio task.  They share nothing but channels and one block of atomics.

| component | state it keeps | operations | talks to |
|---|---|---|---|
| piece manager `src/piece_manager` | per piece: complete, requesters; cached bitfield, counts, bytes | one message at a time: ClaimPiece, ReleasePiece, PieceVerified, PieceFailed, GetBitfield, IsInteresting, IsCompleted, HasPiece | bounded mailbox (mpsc) in, oneshot answers, broadcast of PieceComplete, a watch of the progress; calls `Store::finalize` |
| request manager `src/peer_connection/request_manager.rs` | choke and interest flags, `in_flight` pieces with their buffers and holds, `active_blocks`, two deadlines | the arms of one `select!`: incoming message, tick, piece event, request deadline, idle deadline | piece manager's mailbox, the store, the connection's two channels |
| peer connection `src/peer_connection/mod.rs` | stage of the connection; the reader and the writer | handshake, bitfield exchange, three tasks joined | socket, bounded incoming and outgoing channels |
| wire protocol `src/wire_protocol` | handshake or messages; how far the handshake has come | frames to messages and back | reader and writer |
| torrent file `src/torrent_parser`, `crates/bencode-dhaar` | none | parse, take the info_hash over the bytes of `info`, collect the announce URLs | the download that is assembled from it |
| store `src/store` | one file: payload, bitfield, info hash, flags; the claims lock | initialize, write, record_piece, read, finalize | the file system |
| peer explorer `src/peer_explorer/mod.rs` | the peers already passed on | dedup and forward | sources in, bounded channel to the peer manager |
| tracker manager `src/peer_explorer/tracker` | heap of trackers by time due, `announced_start`, `announced_completion` | pop, sleep, announce, put back | HTTP, atomics, explorer |
| peer manager `src/peer_manager` | candidates, live tasks, `active_peers`, cached completion | the arms of one `select!`: news, a task that ended, an inbound socket, a dial that is due | explorer, piece manager, connection tasks |
| status `src/status.rs`, sampler in `src/lib.rs` | atomics written by the piece manager and the peer manager; a watch of the published state | sample | everything that decides on a counter |

Without behaviour of their own and not modelled: configuration, helpers and errors,
`main`, the GUI example, benches, scripts.

**What is hard here.**  Registrations in the piece manager are cleared by messages
only, so whatever can end a connection task between two awaits can leave a piece
locked for good.  Every channel is bounded and the manager copies the whole store
inside one turn, so everybody waits on it.  Endgame lets two connections finish one
piece.  Answers are stale when they arrive.  Nothing in the store is synced after
it is laid out, and torrents of one name and size share a file.  A connection is
three tasks that each wait on another, on a byte stream that may be cut anywhere.  One
tracker task serves all trackers.  The info_hash comes from a second walk over a file
the first walk has parsed.  The status feed mixes two instants.  `PROJECT.json` lists these as hazards, each at its
line, with the properties that would catch it.

**What makes each part correct.**

- claims: every registration has an owner that will give it back; an owner is
  registered; counters equal what they count; a piece is servable only with its
  bytes in the store; finalize copies a whole store, once;
- announcements: no completed piece is missed between snapshot and subscription,
  none is announced early, interest catches up;
- request loop: a block is pending, asked for or held, exactly one of the three; no
  request is open for ever, but under two kinds of peer; what is hashed is the piece;
- wire: however the stream is cut, each frame gives its message, once and in order,
  and what is whole in the buffer is not left there;
- torrent file: the hash covers the info dictionary byte for byte, every tracker is
  taken up, in order;
- connection: a hang-up ends it, no stage before the tasks lasts for ever, a silent
  or undelivering peer does not keep blocks;
- store: what a session serves is there, through kills, neighbours and power loss;
- peers: a peer named is in exactly one place; no slot leaks; failed peers are tried
  again; news gets in while the manager is busy;
- trackers: events are told once and in order; a failing tracker starves nobody, as long
  as its answer ends and is not cut off inside a string;
- status: the state shown is true and never moves back.

## 2. Modules

```
PieceManager ── Swarm ──────── PieceLeases   claims and completions, implementing leases
     └───────── Announcements                what peers are told
RequestManager                               the request loop, by blocks
WireCodec ───── Connection                   the byte stream, tasks and channels
DiskStore                                    the store through crashes
PeerManager                                  explorer, queue, supervision
TorrentFile ─┬─ BencodeWriter                what ser.rs writes, for TLC
Trackers ────┴─ Loading                      from the file to the announce loop
Status                                       the status feed
```

`PieceManager`, `Swarm`, `Announcements`, `RequestManager`, `Connection`, `DiskStore` and
`PeerManager` each have a `_proofs` module beside them; `Swarm_proofs` also holds what
`PieceLeases` promises, and `Reporting_proofs` is about `Trackers`, `Status`, `TorrentFile` and
`Loading` (section 4).
Each `MC<module>.tla` adds only constants and bounds for TLC.  The modules are
joined where the parts meet in the code: `Swarm` and `Announcements` put two
different sets of clients around the one `PieceManager`; the others take their
neighbours through what they can observe of them and say so in their headers
(`RequestManager` sees the manager's answers, `Connection` sees `holding`).

**PieceManager** has one operator per handler of `PieceManager::start`, and the
counters of `DownloadStats` that decide something.  `requesters[p]` is the piece's
`Vec` of peers as a set; `phase` says whether the task is starting, serving, or inside
`finalize`, when it takes no message.  `select_piece` (first unclaimed piece) and
`select_shared_piece` (least crowded, capped, endgame only) are `Unclaimed`,
`Shareable`, `LeastCrowded`, `Choice`.

**Swarm** composes the manager with one task per connection and the bounded mailbox.
A connection's `pc` names the await it is at: sending a claim, waiting for the
answer, writing, recording, reporting, failing, releasing, closing.  `held` are the
pieces with an armed `PieceHold`, `current` the one whose hold is disarmed, `reply`
the oneshot.  `DropTask`, `DropHold`, `EndDrop` are a task dropped or panicking at
any of these awaits: what it held is given back by `PieceHold::drop`, a `try_send`.
`lost` is a ghost: registrations left behind in one of four windows.

**PieceLeases** is what claiming promises, without mailbox, caches, counters or awaits:
leases, who has the piece in hand, what is stored and done.  `Swarm` implements it under
the mapping `open <- phase # "starting"`, `done <- complete`, `leases <- Registered` (the
manager's books), `working <- InHand` (pieces a connection holds, completes or has an
answer for); a claim on its way, or a piece on its way back, changes nothing until the
manager handles it.  A lease is out from the
moment a piece is chosen until it is taken back, whatever became of its holder, so the
refinement holds with dropped tasks too; that leases end is `ClaimsAreResolved`.

**Announcements** is the same manager with connections that ask for the snapshot and
the subscription, turn events into Haves, lag, and keep their interest up to date.

**RequestManager** is the `select!` loop at block granularity: a piece in flight is a
record with its pending blocks, the blocks held and the running digest; `deadline` counts
the ticks left to `request_deadline`, which a Piece message starts afresh, wanted or not, and
other items only set when there is none.  Arms that await are several steps and exclude other
arms; `send`, `send_and_fill` and `send_have` are the sends on the way, which return when the
peer reads.

**WireCodec** is `decode` in both its states, and `encode`, as operators on a buffer.  A
unit of the buffer is one field (a length prefix, an id, a word, a hash), which the
decoder waits for as a whole, and a prefix counts units; `PastUnknown` is the decoder's
loop over frames of unknown kinds.

**Connection** runs it under tokio's `Framed` (decode until it asks for more, then read),
with the stages of `PeerConnection::run`, inbound or outbound, and the reader, the writer
and the loop as three processes over `incoming`, `outgoing` and the socket's buffer.  The
peer first sends a script of frames that arrive in parts of any size, then anything, and
may stop speaking, delivering or reading, or hang up, at any step.  `expected` is a
ghost: the items the script still means.  `ScriptsAssumption` says what a script is: a
greeting, then whole frames, each labelled with what it means by itself (`Meaning`, which
knows of no buffer and no cut); TLC evaluates it on the scripts of `MCConnection`, whose
labels are written out by hand.

**DiskStore** keeps `file` (what processes see) and `disk` (what a power loss leaves)
apart.  `initialize` is five actions, by what it finds; `record_piece` is a read and
a write of the shared byte under the claims lock; `finalize` sets the flag, then
copies.  A session may end between any two steps.  A fresh layout is sized, written and
synced in three; of its three writes only the info hash changes what the file reads as.

**PeerManager** is the explorer's dedup and channel, the heap of candidates as two
queues (fresh and retry), the question to the manager during which no other arm
runs, and tasks that return or panic.  The manager answers no question while
`finalizing`, the copy of the store that begins with the last piece.

**Trackers** runs on a clock of ticks; `due[t]` is the time until tracker t is due.
The counters it reads are two flags that may be seen in either order.  An answer is
accepted (`Accepted`), an error (`Failed`), or takes the task down (`Panics`): one cut off
inside a string, past whose end `parse_bytes` slices.

**TorrentFile** reads bencode twice, as the code does: `Decode` is `from_bytes`, `Skip`
the walk of `skip_value` that finds the span of `info`.  Both are functions over the places
of the input (`Walk`): what is read at a place is given by what is read behind it.  A byte
is a one-character string, of a set `Bytes` that has at least those bencode itself needs
(`BytesAssumption`), and a field's name is one byte; Raw, Info and Torrent are predicates on
what was read.  `Makes` says what the writer makes of a value from what it made of the
value's parts; **BencodeWriter** is the same as a recursive operator, which no proof can
reach, and `EncodeMakes` in `MCTrackers` has TLC compare the two.

**Loading** puts the reading before `Trackers`: `Load` is `parse_from_file_path`,
`SpawnTrackers` the start of the announce loop over `announce_urls`.  A file carries what
its author named and wrote, and whether they dated it; `FilesAssumption` says what a file
that is whole and dated is: one that parses as a torrent, with the info its value of `info`
is read from.  Any other does not parse: `creation_date` is an `Option`, but serde requires
it all the same (`metadata.rs:57`; `README.md:69` of the repository says so).

**Status** is the manager's stores, one at a time, and a sample in two reads.

## 3. What the runs check

A run is `tlc -config MC<module>_<run>.cfg MC<module>` (`claims`, `drops` and
`stranded` are of `MCSwarm`); a proof is `tlapm <module>_proofs.tla`.  Every property a
passing run checks is also seen to fail on a mutant of the code, an operator beside
the one it changes, marked `Mutant`; `PROJECT.json` pairs them.

| run | instance | what it shows |
|---|---|---|
| `claims` | 2 connections, 2 pieces (the last one short), mailbox 2, no drops, symmetric | the manager's views, counters, published progress and the connections agree in every interleaving; every registration has an owner and every owner a registration; what is servable is stored; every step is a step of `PieceLeases` or none |
| `drops` | 2 connections, 1 piece, mailbox 1, drops, fair | a registration outlives its owner only through the four windows; every other registration ends, unless its owner holds the piece on and on |
| `stranded` | 1 connection, 1 piece, drops | *violation*: a dropped task leaves a claim for good |
| `feed` | 1 connection, 3 pieces, event channel 2, fair | completed = snapshot, told, still to take, or lost by lagging; interest is true whenever the connection is at rest |
| `window` | pieces of 3 and 1 blocks, window 2, 2 pieces in flight, a timeout of 2 ticks, 1 failure, fair; 55,874 states | block accounting, choking, the request deadline, the digest, and that every request ends unless the peer stops reading or goes on sending blocks |
| `faults` | 2 torrents on one store, 2 pieces, power loss, failing records | what a session holds is backed, a neighbour's or an earlier session's record is not lost; 762,973 states |
| `shared` | as above, no faults | *violation*: another torrent's session leaves the clean bit set |
| `dialling` | 3 peers, one of which calls in, cap 2, 3 tasks, fair; 83,916 states | each peer in one place, exact counter, every peer dialled and retried while slots come free, news taken in again and again although the manager copies the store |
| `hangup` | channels of 1, a turn that queues up to 2 messages, 28 scripts of up to 5 frames cut anywhere, a peer that may stop anything, fair; 77,335 states | messages are neither misread nor hidden; a hang-up ends the connection, early stages end; of a peer that reads, the blocks asked of it are given back and its silence ends the request loop |
| `silent` | as above | *violation*: a silent peer keeps its connection |
| `announces` | 7 whole torrent files, 5 more without a date, and one cut at every byte or otherwise damaged; 3 trackers, 1 healthy, intervals 3, retry 1, answers take up to 2 ticks, fair; 300,743 states | whole files that carry a date load, with the hash over the author's info and their trackers in order; undated and damaged ones never do; events once and in order; while the loop goes on, no starvation, and completion and `left = 0` reach the trackers |
| `samples` | 3 pieces, any number resumed, copies may fail, fair | the state shown is true, never goes back, and extraction is reported |

**Bounds and why they are enough.**  Two connections are what endgame needs to finish
one piece twice, to release under each other and to fill a mailbox of two; a third
would only be a second copy of the other side.  Two pieces let a connection hold one
while another is finished, and make the last piece differ from the others.  A mailbox of one
or two is full as often as it can be.  An event channel of two for three pieces lags.
A window of two for a piece of three blocks fills and refills; a second piece makes
claims cross.  A timeout of two ticks is the least that tells a deadline started afresh from
one that runs on.  With two connections the cap on endgame sharers, two in the code and in
`claims`, never refuses one: that it binds is left to the theorems `SharingCapped` and
`SwarmImplementsLeases`.  The scripts hold a message of every kind, whole, too short and too long, an
unknown kind before, between and behind known ones, foreign handshakes, and the files
hold every kind of value, fields in either order, unnamed ones, a date first, last or inside
`info` only, a lookalike of `info` inside a string and a nested one.  Two torrents and two pieces of a byte are what the store's sharing is
about.  A cap of two with three peers makes a dial wait for a slot.  `Overdue`, the
tick at which `Trackers` stops counting how late a tracker is, is set so that no
behaviour of the instance reaches it; `MaxFailures` bounds the pieces that fail their
hash in `window`.  Larger instances were tried where time allowed (drops over two
pieces: 2.2 million states, three connections over one piece) with the same result.

`CHECK_DEADLOCK FALSE` stands where the system may come to rest: a connection that is
over, a request loop that has returned, a peer manager with everything dialled, a
tracker loop waiting for an answer that never comes, a status feed that has settled.

**Fairness.**  Weak fairness is given to what the runtime polls when it is ready: the
manager's task, a task past an await, a blocking write or a copy that returns, the clock.
Strong fairness stands for three things: `select!` picks among ready arms at random, so an
arm that is ready again and again is taken; a waiting sender of a bounded channel is queued,
so it gets its turn; and timers fire once they are due.  In `RequestManager` that is no more
than it says: `RequestDeadline` can be taken in a state where no tick is left, and a
deadline started afresh never comes to one.

Nothing is assumed of the network: a peer may stop speaking, delivering or reading for good,
a connection may last for ever, a tracker may never answer.  Where a promise depends on
these the property says so, in its formula where the model can tell, and in words here:

- `EveryRequestEnds` excepts a peer that never reads again, which keeps the loop in a send
  (`<>[]Sending`), and one that goes on sending Piece messages, which keep the deadline from
  passing (`[]<><<BlockArrives>>_vars`).  Sends (`Sent`, `RequestBlock`) are not fair.
- `ClaimsAreResolved` excepts a piece a connection holds from some point on for ever, and
  makes no assumption that holds end.  They may not: the two peers above, and one that
  keeps a connection open while it delivers nothing but unwanted blocks, can each keep one.
- `HoldsAreGivenBack` and `SilenceEndsRequests` hold while the peer reads, the first once it
  sends no more Piece messages.
- `PiecesGetAnnounced` takes the send of a Have to return, that is, a peer that reads.
- `EveryPeerIsDialled` starts from slots that keep coming free.  `NewsIsTakenIn` is about
  peers that sources name once each and that are finitely many: it says that what waits in
  the channel is taken in, not that an endless stream of names is.
- `HealthyIsAnnounced` and `CompletionIsAnnounced` start from a loop that goes on: announces
  that end, and no answer that makes the task panic.
- `ExtractionIsReported` takes the process to run on to the next sample.  One that exits
  within that second never shows its last state (`README.md:59` of the repository).

## 4. What is proved

Eight modules hold proofs, for every value of the constants their assumptions allow.

**`PieceManager_proofs`, `Swarm_proofs`** — any finite or infinite set of peers, any
number of pieces, any piece and total length, cap, mailbox and in-flight limit, with
or without dropped tasks:

- `TypeCorrect`, `ViewsAgree`, `ProgressCurrent`, `InFlightExact`,
  `CompleteUnregistered`, `SharingCapped`: what the manager keeps is consistent;
- `ServableStored`, `FinalizeCopiesAll`: what is servable, recorded or copied out is
  in the store;
- `OneAnswer`, `StrandedIsLost`, `NoClaimStranded`: every registration has an owner;
- `OwnersRegistered`, `OwnedOnceHolds`: every owner is registered, and owns once;
- `SwarmImplementsLeases`: the refinement.

The assumptions are those the code establishes before the first message:
`GeometryAssumption` (`Store::initialize` refuses other geometries),
`SharersAssumption`, `MailboxAssumption`, `InFlightAssumption` (positive constants),
and that the stand-ins for `None` are not pieces.

The argument is built in four layers.  The manager's own part, `ManagerInv`, is
inductive under each handler whoever calls it (`ClaimKeepsInv`, `VerifiedKeepsInv`, ...):
the cached views can only be shown to agree together with the fact that a complete
piece has no requesters, since a second report must find its piece complete and count
nothing; `InFlightIsExact` needs the sets of requesters finite, and rests on
`RegisterCounts` and `UnregisterCounts`, which say how one peer changes the number of
pieces in work.  On it rests the store's part: `ServableIsStored` is not inductive,
because the report travels through the mailbox; `CurrentMatchesPc` and
`WrittenBeforeReported` say that a connection past its write, and a report in the
mailbox, stand for stored bytes.  Then come the registrations: `StrandedOnlyIfLost` needs
`OneAnswerPending`, or a second answer could overwrite a oneshot that owned a piece;
`NothingLostWithoutDrops` then gives `NoClaimStranded`.  Last the owners:
`OwnersAreRegistered` is inductive only together with `OwnedOnce`, for a message left over
from an earlier claim would take its sender off a later one.  The refinement has one
step per action of `Swarm`; a claim handled, a write that returned, a report handled and
a hold let go of are the steps of the leases, all others stutter.

What `PieceLeases` promises, `LeasesHold` and `LeasesNeverUndone`, is proved of the leases
and carried over by the refinement: both are theorems of `Swarm`'s specification.

**`Announcements_proofs`** — any peers, pieces, mailbox and event channel, lagging or not:
`AnnounceTypeCorrect`, `PiecesAnnounced`, `InterestCurrent`.  On the manager's
own invariant (`ManagerInv`, whose lemmas serve both compositions) rests, first, that a
question in the mailbox is the only one of its connection, which waits for it and has not
changed what it asks about (`QuestionsFit`): so a snapshot and its subscription are
answered at one instant, to a connection that has told and lost nothing yet
(`BlankBefore`).  From there on every completion is an event, and every event stays ahead
of the cursor until it is told or lost (`CursorsInLog`), which is `EveryPieceIsAnnounced`.
`InterestIsCurrent` is not inductive: the answer travels while pieces complete.  `AnswersFit`
says what it is worth meanwhile: true unless an event not yet taken says otherwise, and
at that event the connection asks again.

**`RequestManager_proofs`** — any pieces, block counts, window and number of pieces in
flight: `RequestTypeCorrect`, `BlocksAreAccounted`, `ChokedHolds`, `DeadlineWaits`,
`DigestCovers`.  `BlocksAccounted` counts with lengths and cardinalities, which no step
can be shown to keep by itself; the invariant states the partition instead
(`SlotsParted`: no repeats in `pending`, the three sets cover the piece and do not
meet), and the count follows once, at the end.  `DigestCoversPiece` needs that a running
digest has seen 0, 1, ... in order (`HashedInOrder`).  `DeadlineMeansWaiting` needs that
only the incoming arm leaves the deadline behind (`DeadlineFits`).

**`Connection_proofs`** — any set of scripts, each of any number of frames of any length,
cut anywhere; any channel sizes and bursts: `ConnectionTypeCorrect`, `NothingIsMisread`,
`NothingIsHidden`.  The invariant (`InStep`) says that the buffer followed by what has yet
to arrive is, unit for unit, the rest of a script from one of its frames on, and that the
items still expected are what those frames mean; in the handshake, that the remembered
`pstrlen` is the one in the buffer and a hash already told is the next that will be read.
An arrival moves units from one end to the other (`ArrivalFits`); a poll takes off the
buffer just the frames it answers for (`DecodedFits`).  The decoder looks at the
buffer only, so the proof has to carry each frame over to it (`FirstFrame`,
`MeaningInBuffer`, `GreetingInBuffer`), and unrolls the loop over unknown frames by
well-founded induction on where it stands (`PastUnknownUnfolds`, `SkipLands`).
`NothingLeft` is the other half: the socket is read only when nothing in the buffer can be
decoded, whence `NothingIsHidden`.  `EncodedIsMeant` closes the circle: what `encode`
writes for any message is a frame that means that message, so the two theorems are about
streams this client's own encoder writes, among others.  Overlapping conditions of
`decode` are an `IF`/`ELSE IF` chain, in the order the code tests them.

**`DiskStore_proofs`** — any torrents and pieces, kills and power losses at any step:
`StoreTypeCorrect`, `HeldBacked`, `RecordedStay`, `RecordedResume`.  The invariant adds
that a session writes only its own torrent (`WrittenIsVerified`), that the byte read
under the claims lock is still the file's (`LockedByteIsBits`), and that an undisturbed
bitfield claims verified pieces only (`ClaimsAreBacked`).

**`PeerManager_proofs`** — any peers, cap, channel size and set of tasks:
`DiallingTypeCorrect`, `CounterIsExact`, `PeersInOnePlace`.  `OnePlace` names the six
places and says they do not meet, do not repeat, and make up the dedup set until dialling is
given up; every step moves one peer from one place to the next.

**`Reporting_proofs`** — what is read of a file and what is told to others; `Trackers` for
any trackers, delays and latency, `Status` for any number of pieces, `TorrentFile` for any
input, `Loading` for any files.

- `TrackersTypeCorrect`, `EventsToldOnce`.  While an answer is awaited the shared flags
  cannot change, since one task announces to all trackers (`QueryFitsFlags`); the flags say
  what was told (`FlagsFitTold`).  The loop's own `Init` starts over any URLs, due at once,
  which is the state `Loading` starts it in.
- `StatusTypeCorrect`, `StateTrue`, `StateForward`.  `StateNeverGoesBack` is an action
  property; it follows from `StatusInv`, whose parts say that the counters follow what is
  held (`CountsFollowHeld`), that a borrowed progress is of the past (`ProgressIsPast`), and
  that the state shown is one the counters still support (`StateIsSupported`).
- `CompletionStays`: `is_complete` is false at first and never taken back, which is all that
  `Trackers` takes the counters to do (`CountersMove` only ever sets `pieces_in`).
- `SkipEndsWhereDecodeEnds`: wherever a value is decoded, the walk that skips it succeeds and
  ends at the same byte.  The two walks differ in their integers only, and are compared place
  by place from the end of the input (`WalksAgree`).
- `WrittenIsReadBack`: whatever `ser.rs` writes, `de.rs` reads back as it was, to its last
  byte.  A part is shown to be read back *wherever it stands* (`ReadsBack`), which is what a
  list or a map around it needs; the proof follows the order things are written in, from the
  inside out (`IsWritten`, `MakesReadsBack`), and rests on each kind by itself: decimal digits
  (`DecimalCounts`), integers, strings, and parts put together (`PartsStand`,
  `RestReadsBack`).
- `HashIsOfWrittenInfo`: so the info_hash of a torrent that `ser.rs` wrote is taken over the
  very bytes its `info` was written as, wherever that entry stands (`InfoReached`).  What
  serde asks of the entries (`IsTorrent`, the creation date included) is a hypothesis, and
  all that loading needs beside it.
- `HashCovers`, `UrlsInOrder`, `LoadedEventsToldOnce`: from the file to the last announce.
  `LoadInv` keeps what has been loaded tied to the file until the loop is spawned, and the
  loop's own invariant through it.  The hash needs that the search for `info` comes to the
  value that was decoded as the file's info (`InfoFound`) and that the second reading ends
  where the first did; the URLs that `announce_urls` has kept, after each URL, the first
  mentions so far (`UrlsAreFirstMentions`).

The library's induction theorems take an operator, which none of the provers can
instantiate.  `LeastNumber`, `Upward` and `Downward` say the same of sets of numbers, and a
recursive function is first shown to exist, by one of them, before it is unfolded
(`WalkUnfolds`, `InfoUnfolds`, `DecimalUnfolds`, `FlattenUnfolds`).

`ProgressIsCurrent`, `CompleteIsUnregistered`, `SharingIsCapped`, `FinalizeCopiesEverything`,
`NothingUndone` and what `CompletionStays` says are proved and not repeated by a run, and so
is the type invariant of most of the modules above.

Every invariant and every action property of the passing runs is thus a theorem.  Only
model-checked: the liveness properties, since fairness and ENABLED are beyond the prover,
and that `BencodeWriter` makes what `Makes` says, since it is a recursive operator.

## 5. Where the code and its documentation part

Three are runs, with a counterexample TLC prints in a second or two:

- `stranded` — `request_manager.rs:70` says tying the release to the value's lifetime
  covers what `start` cannot.  A task dropped after its ClaimPiece was sent leaves a
  registration for an answer nobody reads (`piece_manager/mod.rs:153` discards the
  failed send).  So do an answer not yet read, a hold disarmed before its message is
  sent (`:101`, `:798`), and a `try_send` refused by a full mailbox (`:131`), which the
  comment at `:126` takes to mean that the manager is gone.
- `shared` — `store/mod.rs:109` says the clean bit is cleared whenever the store is
  opened.  Opening it for another torrent returns before the flag is looked at, so the
  first torrent later believes payload that was written over.
- `silent` — `README.md:332` lists a 150 second idle timeout.  The idle deadline ends
  the request loop, but the connection is joined with its reader, which waits on the
  socket without a timeout.

The others were met while modelling.  The models hold what is needed to see them
again; the property to check is given in words.

- Announces of all trackers share one task and the HTTP request has no timeout
  (`tracker_manager.rs:137`): drop `[]<>(step # "announcing")` from `LoopGoesOn`.
- An answer that ends inside a string (`d5:peers600:xx`) is sliced past its end
  (`de.rs:80`, from `tcp_tracker_client.rs:71`).  The panic ends that one task, whose handle
  nobody joins (`tracker_manager.rs:77`), so one tracker's answer silences us towards every
  tracker until the client is restarted: drop `[](step # "panicked")` from `LoopGoesOn`.
- The request deadline is started afresh by any Piece message, one `receive_block` ignores
  included (`request_manager.rs:402`), so a peer that sends a block nobody asked for every
  half minute keeps our requests, and the pieces behind them, for ever.  The comment at `:46`
  says that a peer "that chats but never delivers stops holding our blocks hostage": drop
  `[]<><<BlockArrives>>_vars` from `EveryRequestEnds`.
- `README.md:46-50` and `:353` of the repository say that an instance that comes up complete
  announces its full length as `left`, because resumed pieces are not counted.  They are:
  `remaining_bytes` goes by `held_bytes`, which adds what was resumed (`status.rs:114`,
  `:124`), so `CompletionIsAnnounced` holds of a store resumed whole as well.
- `creation_date` is declared optional but required (`metadata.rs:57-62`), so a valid torrent
  without one is rejected, by a panic where it is loaded from a path: a rough edge the
  repository lists itself (`README.md:69`).  `Undated` in `MCTrackers` holds such files; drop
  `~file.dated` from `HashCoversInfo`.
- A loop waiting for room in the outgoing channel looks at no deadline
  (`request_manager.rs:947`), so `REQUEST_TIMEOUT` does not bind a peer that stops
  reading: drop `~reads` from `HoldsAreGivenBack`, or `<>[]Sending` from `EveryRequestEnds`.
- The clean bit is set unsynced and unordered against the payload
  (`store/mod.rs:402`), so after a power loss the bitfield is not "believable as it
  stands" (`:279`): drop the conjunct
  `~(opened_clean /\ disturbed)` from `HeldIsBacked`.
- A record that failed is missing after a clean exit too, since finalize marks the
  store clean all the same; `request_manager.rs:823` says it costs a re-download after
  an unclean exit and nothing else.
- finalize is called only on the piece that completes the torrent
  (`piece_manager/mod.rs:121`), so the copy that "can be made again" (`:363`) is not,
  and a session resumed whole reports Finalizing for as long as it runs (`status.rs:191`
  says about as long as writing the download again; `README.md:48` says such an
  instance never leaves Downloading).
- `active_peers` is "capped at MAX_PEERS" (`peer_manager/mod.rs:36`); inbound
  connections are not.
- `fill_pipeline` works up to `MAX_PIECES_IN_FLIGHT` pieces; its comment
  (`request_manager.rs:555`) still says one.  `swap_remove` (`:786`) breaks the "oldest
  first" of `:162` and `:570`.
- `completed` and `left` come from counters stored one after the other
  (`status.rs:64`), so one announce may carry the first without the second being zero.

## 6. Not modelled

- File offsets, hashes, block contents and lengths: `RequestManager` takes every block
  to have the length asked for.  Where a peer sends another length the running digest and
  the clipped copy in `PieceBuffer::accept` part (`request_manager.rs:215`), which a model
  without contents cannot show.
- What is served: a served block is a send that may wait, and changes no state the loop
  decides on.
- `PeerManager`: the branch for a piece manager that has gone, since `Download` stops
  every actor then.  A failing `accept()` and the spinning arm it leaves.
- `Connection`: what we send in the handshake and the bitfield is taken to fit the
  socket's buffers.  Two copies of this client whose loops wait on each other
  (`channels.rs:4`) would need two Connections joined at the socket, out of TLC's reach
  with the three tasks of each kept apart.
- `WireCodec`: the bytes within a field; reserved bits and the port of a peer; a length
  prefix that asks for more than the peer will ever send, beyond the wait it causes.
- `TorrentFile`: UTF-8, the width of integers and the range of a date, the optional strings
  of Torrent and Info, and serde's entry points that panic as unsupported.  An error returned and a
  panic (`parse_from_file_path` unwraps, `parse_bytes` slices) are one outcome: no torrent.
- `Trackers`: URL building, and response parsing but for its outcome: an answer, an error
  or a panic; `min_interval` is at least one tick.
- `Status`: the three loads of `is_complete` are one step, which is sound because the
  counters only grow.
- What other actors do while a `Download` is being dropped.
- Configuration, helpers, errors, `main`, the GUI, benches and scripts: no state and no
  protocol of their own.
