# Verification of EchoSend

EchoSend is a LAN daemon in Go: nodes find each other by UDP heartbeats, gossip
chat messages and file announcements, and pull announced files over TCP. This
directory holds TLA+ models of the daemon, the TLC configurations that check
them and TLAPS proofs of their safety properties.

    tlc -config MCFileSync_race.cfg MCFileSync.tla     # one run
    tlapm FileSyncProofs.tla                           # the proofs of a module

`PROJECT.json` lists the components, the runs with what each shows, a mutant of
the code for each property, the source lines behind each definition, the
findings, the hazards and the theorems.

## 1. Inventory

| Part | State it keeps | Operations | Module |
|---|---|---|---|
| Download orchestrator, `internal/filesync` | `inFlight`, `sem`, `autoFailCount`, `manualOnlyAuto` (volatile) | HandleFileMeta, PullFileByHash, PublishFile, ResumePendingDownloads, download sessions | `FileSync`, abstract: `DownloadPool` |
| Store, `internal/storage` (bbolt) | buckets files, messages, nodes (persistent) | one transaction per operation; PruneStaleNodes takes two | files in `FileBucket` with its keys, abstract: `FileMap`, and as one record per hash in `FileSync`; messages in `Gossip` and `HistorySync`, nodes in `PeerTable` |
| Publication, `filesync` PublishFile up to the answer of the TCP server | the user's files, the record | stat, hash, insert, announce; lookup, wait, open | `Publication` |
| TCP client, `network/tcp.go` DownloadFile | `<name>.tmp` and `<name>` in the storage directory | resume, fetch chunks, verify, rename | `Download` |
| TCP server, `network/tcp.go` handleConn | upload semaphore, per-connection deadlines | answer metadata and chunk requests | `TcpServer` |
| Gossip engine, `network/udp.go` | `seenPkts` (volatile), the socket | Send, SendTo, receive, flood, expiry | `Gossip`, abstract: `Broadcast` |
| Peer registry, `network/peers.go` | `peers` (volatile) in front of the nodes bucket | Upsert, PruneExpired, LoadFromStore | `PeerTable` |
| Daemon, `internal/daemon` | `lastSyncReqAt`, `lastSyncRespAt` (volatile) | packet handlers, history requests and replays, housekeeping, lifecycle | `HistorySync`, and the handlers' parts in `Gossip` and `PeerTable` |
| Heartbeats, `network/udp.go` heartbeatLoop, probeStaticPeers | a ticker, a channel and workers per round | emit, expand, feed, send, drain | `Probe` |
| IPC server, `internal/ipc` | none | HTTP requests of the command line | callers in `FileSync` and `Publication`, SubmitMessage in `Gossip`, AddPeer in `ConfigFile` and `Probe` |
| Configuration, `internal/config` | YAML file and the struct read from it | Load, AddStaticPeer, Save | `ConfigFile` |
| CIDR expansion, `internal/utils` | none | ParseTarget, expandIPv4CIDR | `Cidr` |
| Command line | none | daemon command, IPC port lookup | the configuration part in `ConfigFile` |
| IPC client, socket options | none | | not modelled |

How they interact. The gossip engine runs a goroutine per datagram; it calls the
daemon's handlers, which write to the store, tell the registry of peers, or hand
a FILE_META to the orchestrator. The orchestrator starts one goroutine per
download, which uses the TCP client and the store and, when done, broadcasts a
FILE_META of its own. IPC requests reach the orchestrator and the engine from
yet other goroutines. The TCP server reads the records the orchestrator writes
and the files the TCP client renames. All share the store, whose transactions
are the only atomic steps wider than one mutex. config.yaml is shared by
processes: every command loads it for the IPC port and may write it.

What is hard here: reads of a record that are acted upon several steps later;
sessions that end while handlers of the same hash are running; channels used as
semaphores on paths with many returns; files found by name while records are
found by hash; datagrams that are lost, repeated, reordered, or answered to the
wrong node; timers that run against each other; crashes, which keep the store,
the configuration and the storage directory and nothing else; files that their
user edits while they are hashed; a temporary file that has one name for all
writers. `PROJECT.json` lists these hazards
at their lines.

What makes each part correct:

* orchestrator: one worker per hash; the in-flight set is exact; slots are
  conserved; a session is bounded and ends; no record stays DOWNLOADING; an owned
  record is not overwritten;
* publication: what was published stays servable until its file is changed or a
  session of the same hash takes the record over; a record that was read before a
  wait still leads to the content; the bucket behaves as one record per hash
  whatever keys it has;
* TCP client: a returned path has the content asked for; a saved file stays intact,
  downloaded again or not; a good partial file is kept; leftovers and spoilt parts
  cost a session one attempt at most;
* TCP server: slots are conserved; every connection ends, and gives its slot back; answers
  stay within the published size;
* gossip: floods end; a message is shown once, spreads from its sender's
  history only, and gets to every node;
* registry: entries are not made younger; live peers return, dead ones go;
* history: what was missed is caught up with, and never shown twice;
* configuration: the NodeID survives every restart unless `--id` gives another, an
  acknowledged peer is in the file, and the file is readable at all times;
* probes: a round sends one packet to each usable address, and to no other.

## 2. Modules

`FileSync` is the core. Callers are the goroutines that run HandleFileMeta,
PullFileByHash and PublishFile, workers those that run downloadWithRetry; `pc`
fields say where each is. One action is one transaction, one critical section or
one channel operation, in the order of the code; `caller` and `worker` hold the
local variables. The files bucket is a function from hashes to records, with
the status, the LocalPath reduced to what kind of path it is, and the auto key
(sender, file name). With `DbFaults` every write may fail, and the code's
reaction (mostly: log and go on) is a disjunct. A crash clears all that is
volatile; the restart resets DOWNLOADING records one by one, before anything else
runs. A transfer is one step with two outcomes. The status COMPLETE is written
by no code and is absent.

`FileBucket` holds the bucket's transactions as operators, with keys as they
were spelled by older versions: a lookup takes the lower-case key or else the
first spelling the cursor meets, writes move the record to the lower-case key.
`FileMap` is what they promise, a map from hashes to records with three kinds of
writes: an insertion where nothing is owned, a change of status and of nothing else,
and the arrival of a file. `Publication` runs the transactions in parallel:
PublishFile in its five steps over a disk whose user edits and moves the files,
offers and manual pulls of any hash, published or owned ones too, the sessions
they start, the resume at startup, and a connection that has looked its record up,
waits for a slot, opens what the record names and checks its size. Of `FileSync`
it keeps the writes to the bucket, not the goroutines, slots and retry counts. A
record says whether a peer or the node itself is its source, since a pull wants a
peer. A file hashed while it is edited gives one of the contents or a mixture,
`Torn`. Each PublishFile is a goroutine, and several may run. The upload semaphore
is in `TcpServer`; here a wait is as long as it likes. Records decode; COMPLETE is
absent here too.

`DownloadPool` is what the orchestrator promises without goroutines, locks and
records: sessions that open where there is none, run at most `SyncCap` attempts
at a time and `MaxRetries` each, and all end. `FileSync!Pool` maps each hash to
the session of the worker on it. What it says of safety (`Safe`) and what it says
of progress (`GoesOn`) are two formulas, since the first is proved and the second
only checked; `Broadcast` is split in the same way (`Safe`, `Spreads`).

`Download` is the transfer: sessions, one per hash (as the theorem OneWorker allows
it to assume), of at most `MaxRetries` attempts each, in one directory with POSIX
inodes. A session may begin at any time, for a file that the node has already too,
and ends with the file saved or the record FAILED. `tmp` and `final` are directory
entries by file name, `fd` what an attempt has open, so a file that is renamed or
removed under a running attempt behaves as it does on disk. Content is a sequence
of units that know where they belong. A source that its user edits sends the edited
file for as long as nobody puts it back, which nobody has to; `mishaps` counts the
failures and foreign units that a session has met. The automatic failure count, which
keeps later offers from starting a session, is in `FileSync`.

`TcpServer` is handleConn with its two timers in ticks. The three durations keep
the order of the code's (15 s, 30 s, 5 min); only their order matters. Time
passes only when no timer that has run out is still to be acted upon.

`Gossip` is a mesh of engines. A datagram's goroutine is a job that stores and
floods in separate steps; a database that refuses the message keeps the node from
having it, not from passing it on. `Broadcast` is its abstract specification. Registries
are constant there; `PeerTable` is how one registry and its bucket change, with
the goroutines that carry changes from one to the other, and LastSeen as an age
that stops growing where no code can tell the difference.

`HistorySync` is the request and replay of history on top of the engine. It
leaves out the TTL (Gossip has it), the limit of 200 and FILE_META replays, and
treats 20 s and 300 s as longer than a flood takes: throttles and seen entries
run out only when no copy of the packet in question is about. A refused insertion
counts as a fault like a lost datagram.

Jobs and datagrams are sets in both: two that are equal in every field are one.

`ConfigFile` is config.yaml with its temporary file as directory entries and
inodes, since an open file stays open when it is renamed. Daemons, commands and
goroutines that serve an --add are processes; each write is OpenFile (which
truncates), the write of the content, and the rename. An empty file reads as
the defaults, as YAML has it, hence a new NodeID; a file that two processes have
written may be garbled. A data race on the slice of peers may leave a string
made of two (`Mixed`). A start of the daemon may be given a NodeID with `--id`, which
takes the place of the loaded one and is saved as the new default. Processes crash, the machine does not: no write is lost
for want of an fsync. The settings besides the NodeID and the static peers,
their fallbacks and their validation are left out.

`Cidr` is the expansion of an entry on addresses of `Width` bits with the
wrap-around of the code's unsigned arithmetic, beside a set-based reference.
`Probe` is the heartbeat loop and its rounds: each expands what StaticPeers
holds when it starts, takes a tick of its own ticker for each address, and feeds
a bounded channel to workers. Time passes in periods of that ticker; a kept tick
is one token. AddPeer is the assignment of the slice in one step: a slice header
read while it is assigned (`udp.go:537` against `config.go:172`) is memory that
belongs to neither slice, and beyond a model.

## 3. Runs

Every property of a passing run has a mutant of the code that violates it.
The type invariants of `TcpServer` and `PeerTable` are in no run: they are proved.

| Run | Bounds | Shows |
|---|---|---|
| `files_race` | 1 hash, 2 keys, 2 callers, 2 workers, 1 slot, 2 attempts, threshold 1, pulls and publications, failing transactions, 1 crash | OneWorkerPerHash, InFlightTracksWorkers, SlotsConserved, OwnedOnlyChangedBySession. Two of each actor suffice for every pairwise race, two attempts for a first and a last one |
| `files_live` | 2 hashes (one too large to be fetched unasked) for 1 slot, 1 crash | ImplementsPool and SessionsGoOn, the two halves of the refinement of `DownloadPool`; DownloadingEnds, NoOrphanDownloading, RebroadcastWhileSeeding. Transactions do not fail here: the last three promise nothing of a database that does |
| `download_apart` | two names, files of 2 units and of none, a partial file of up to 3 units left by an earlier run, 1 slot, sessions of 3 attempts (the code's number), 1 edit of a source, 1 failure, 1 crash | SavedIntact, ReturnedIsVerified, GoodPartIsKept, SessionsSucceed, and TypeOK with its relation of descriptors, offsets and control. Three attempts, of which one fails and one meets the edit, leave one for a leftover; sessions of saved files are among them |
| `download_clash` | two versions of one name at once | refutes ReturnedIsVerified |
| `gossip_mesh` | 4 nodes with ways of different length, a LAN segment, TTL 3, 1 loss, 1 repetition, 1 restart, 1 refused insertion, expiry | ShownOnce, FloodsEnd, and the refinement of `Broadcast`: its safety under all faults (ImplementsBroadcast), its liveness when nothing is lost, stopped or refused (ReachesEveryNode). The TTL covers the longest path, as 8 does in any mesh this program is meant for |
| `server_slots` | 2 connections, 1 slot, a file of 2 units that may have 0 to 3, 7 requests | SlotsConserved, AnswersFitSnapshot, ConnectionsEnd |
| `peers_order` | 2 peers, 2 pending writes, 1 restart | NeverRejuvenated, LivePeersReturn, GoneAreForgotten |
| `sync_away` | line of 3, 1 message of either end, 1 node away, 1 lost datagram, restart or refused insertion | CatchesUp, ShownOnce: every hop a request and a replay can take is there, and the author sees its own message come back |
| `publication_serve` | 2 contents of the user at 2 paths, one of which a peer offers as well, 1 legacy key, 1 offer, pulls and sessions without bound, 2 publications, at once or one after the other, 1 edit or move, 1 crash | PublishedIsServable, StaleRecordServes, refinement of `FileMap`; TypeOK says too that a hash has one key and no record is DOWNLOADING without a session in an attempt. Two publications are what republication of a moved file takes; one hash that is published, pulled and served at once is where the record changes under a connection |
| `config_orderly` | 1 daemon, 1 command, 1 --add at a time, 2 peers, 2 failed writes, 2 crashes, 1 NodeID that any start may be given; file absent, without NodeID, or complete | IdentityKept, AddedIsPersisted, NothingLost. Two crashes break a first start and the one after it; two failures take a peer of --peers past its own write and the one at the start |
| `config_atomic` | 2 --add at once | refutes WrittenAtomically |
| `probe_rounds` | every network of 3-bit addresses, /0 to /3, an entry that does not parse; 1 entry added; 2 rounds at once with 1 worker and 1 place in the channel each | RoundIsExact, AddedIsProbed. Three bits have each case of the expansion: /0, whose host count wraps around to 0, a plain block (/1), a point-to-point block (/2) and a single address (/3). Blocks last longer than the heartbeat interval, so rounds overlap |

`config_orderly` takes the circumstances apart that `MCConfigFile_first`,
`_second` and `_atomic` put together: there the same invariants fail.
PublishedIsServable excepts files that were changed and hashes that a download
session has taken over (`refetched`), AddedIsPersisted peers of which a failed
addition was reported, and IdentityKept a NodeID whose saving was, for the same
reason. The report may be that
of --peers at the start (`main.go:203`): when that write and the one of Save
fail, the daemon runs with a peer in memory only, and an --add of it is
acknowledged at once. The proof of AddedIsPersisted asked for this case, which
one failure does not reach.

Deadlock is checked except where the system may stop: `Gossip`, `Download`,
`HistorySync`, `Publication` and `ConfigFile` end when their budgets are spent
and nothing is on the way, `Probe` after a shutdown. TLC
symmetry is used in `files_race` only, which checks no liveness.

### Where the code and its documentation disagree

Each line checks one sentence of the documentation, and TLC finds a behaviour of
the model that refutes it. `MCDownload_clash` and `MCConfigFile_atomic` are runs
of `PROJECT.json`; the others are kept beside them. Where a property is named, the
configuration is that of a passing run with this property in the place of its own.

| Configuration | Sentence | What happens |
|---|---|---|
| `MCDownload_clash` | `tcp.go:373`, DownloadFile verifies what it has written | two versions of one name share `<name>.tmp`; what is renamed is not what was verified |
| `MCConfigFile_atomic` | `config.go:261`, config.yaml is written atomically | two --add requests share `config.yaml.tmp`; one renames what the other has just truncated, and a command that reads it then writes a new NodeID and no peers |
| `MCConfigFile_orderly`, AcknowledgedIsPersisted | `server.go:327`, an added peer is persisted | a write fails after the peer was appended in memory; the next attempt finds it there and answers OK |
| `MCConfigFile_first` | `config.go:22-24`, the NodeID survives restarts | a command entered while the daemon starts for the first time generates a NodeID too, and the last rename wins |
| `MCConfigFile_second` | `README.md:380`, --add persists to config.yaml | a second daemon saves what it loaded before it finds the database locked, over a peer added meanwhile |
| `MCProbe_overlap` | `udp.go:530-531`, the rate is never exceeded | a round that lasts longer than the heartbeat interval (README.md:385 has one of 66 s, against 5 s) is joined by the next, each at the full rate |
| `MCPublication_serve`, PublishingMakesAvailable | `filesync.go:476`, peers can pull what was published | a file that was moved and published again keeps the old path, since the hash is a duplicate |
| `MCPublication_spelled` | `storage.go:230-231`, an owned file is not overwritten | of two legacy keys of one hash the cursor finds the one that is not owned, and the new record hides the other |
| `MCPublication_sized` | `README.md:366`, `[seed]` is being served | the record keeps the size of the offer; with a wrong one the server finds that the file shrank |
| `MCTcpServer_busy` | `tcp.go:260`, tell the peer to retry later | the busy reply comes after 30 s on a connection whose deadline is 15 s |
| `MCFileSync_redownload` | `README.md:825`, a hash is not downloaded twice | the status check of a handler, or a pull without one, is followed by a second session on a file the node already seeds |
| `MCFileSync_refail` | `filesync.go:183`, a failed hash stays in manual mode | a handler that read the status before the failure inserts KNOWN over FAILED |
| `MCFileSync_early` | `filesync.go:59`, FAILED after the last attempt | FAILED is written after every attempt, so a FILE_META or a restart between retries ends automatic downloading |
| `MCFileSync_publish` | `filesync.go:476`, recorded as SEEDING so peers can pull it | publishing while a session for the hash is on leaves a record that is not served |
| `MCDownload_overwrite` | `README.md:366`, `[seed]` is being served | a second version replaces the file a SEEDING record stands for |
| `MCDownload_apart`, TmpRemovedOnlyOnMismatch | `README.md:819`, `.tmp` removed only on a hash mismatch | a verified file is removed too when its rename fails |
| `MCDownload_apart`, ErrorLeavesNoPart | `filesync.go:374`, the partial file is deleted on error | any error before the verification leaves it (and README.md:819 wants that) |
| `MCPeerTable_order`, BucketFollowsRegistry | `peers.go:20`, every PRESENCE upserts registry and DB | an asynchronous deletion overtakes the newer write |
| `MCPeerTable_order`, OnlyStaleArePruned | `storage.go:461`, only old records are pruned | what was collected in one transaction is deleted in the next without looking again |
| `MCHistorySync_away`, AnsweredToRequester | `daemon.go:308`, replays to the requester | a forwarded request is answered to its forwarder; the history still arrives, see CatchesUp |
| `MCHistorySync_startup` | `daemon.go:169`, peers are asked at startup | the request may find no socket yet, and uses up the throttle; the next heartbeat heals it, see CatchesUp |

## 4. Fairness

`FileSync`: goroutines that can run do run (weak fairness of their steps); a Go
channel serves its receivers in the order they came, so a worker that waits for
a slot is not passed over for ever (strong fairness of AcquireSlot); transfers
return because every connection has a deadline. Users and remote offers owe
nothing. `Download`: an attempt runs on (weak fairness of Step), and a session that
waits is served by the channel in its turn (strong fairness of Acquire, as above).
Nobody has to begin a session, and nobody has to put an edited file back:
SessionsSucceed promises the file only to sessions with fewer mishaps than all
attempts but one. `TcpServer`: time passes and handlers run, clients owe
nothing. `Gossip`: goroutines run, and datagrams that are not lost arrive; where
loss is on, a datagram may be lost first. `PeerTable`: tickers and goroutines
run, and a peer that has not left has one of its heartbeats arrive again and
again. `HistorySync`: a stopped daemon is started again, time passes, heartbeats
come. CatchesUp has one hypothesis more, EntriesRunOut: a node that could not store a
message drops every copy while its seen entry lasts, and the entry does run out after
its 300 s, whatever copies come, since a duplicate does not refresh it (`udp.go:411-418`).
The model lets entries run out only between floods, so it has to be told. Losses, repetitions and restarts are bounded in `Gossip` and `HistorySync`,
and what is not lost arrives. `Probe`: time passes, the heartbeat ticker is
served, and the goroutines of a round run on.

## 5. Proofs

Each component with a `Proofs` module has its safety properties proved for every
value of the constants that its named assumptions allow: any sets of hashes,
nodes, peers, connections, messages and paths, any caps, thresholds, sizes and
durations, and any number of crashes, losses, repetitions, failures, offers and
edits, where TLC has two or three. `PROJECT.json` lists the theorems with the
property each states.

| Module | Proved | Under |
|---|---|---|
| `FileSyncProofs` | TypeOK, OneWorkerPerHash, InFlightTracksWorkers, SlotsConserved, OwnedOnlyChangedBySession, ImplementsPool, SessionsShorten* | |
| | NoOrphanDownloading, RebroadcastWhileSeeding | `DbFaults = FALSE` |
| `TcpServerProofs` | TypeOK, SlotsConserved, AnswersFitSnapshot, FuelIsUsed* | |
| `GossipProofs` | TypeOK, ShownOnce, ImplementsBroadcast, TtlBoundsReach* | |
| `PublicationProofs` | ImplementsMap | |
| | TypeOK | `OldSpellings <= 1` |
| | PublishedIsServable, StaleRecordServes | `OldSpellings <= 1`, `OffersTrue`, `PlacesApart` |
| `HistorySyncProofs` | TypeOK, ShownOnce, refinement of `Broadcast`'s Safe* | |
| `PeerProofs` | TypeOK, RoundIsExact and WorkIsDone* of `Probe`, TableTypeOK, NeverRejuvenated and GoneOnlyAge* of `PeerTable` | |
| `DownloadProofs` | TypeOK, AttemptsShorten* | |
| | SavedIntact, ReturnedIsVerified, GoodPartIsKept, GivesUpAfterMishaps* | `NamesApart` |
| `ConfigFileProofs` | TypeOK, IdentityKept, NothingLost, AddedIsPersisted | `OneAtATime` |

Properties marked * are in no run and are defined beside their proofs, but for
GivesUpAfterMishaps, which is in `Download` as the safety half of SessionsSucceed. `PeerProofs`
extends both `Probe` and `PeerTable`, whose own formulas are therefore called
TableInit, TableNext, TableSpec.

The conditions in the last column are where the code keeps its promise; the runs
that check these properties are instances that meet them. A handler whose
transaction fails logs and goes on, so with `DbFaults` a record may stay
DOWNLOADING. `NamesApart` says that no two hashes have one file name (else
`MCDownload_clash`, `_overwrite`), `PlacesApart` the same of `Publication`, where
`OffersTrue` says that peers announce the size a file has (else `MCPublication_sized`).
`OneAtATime` says that there is one daemon and
one --add at a time, and that commands and failures of a write come after the file
has got a NodeID (else `MCConfigFile_atomic`, `_second` and `_first`; a first start
whose writes fail runs under a NodeID that nobody wrote down); starts with `--id` are among
those it allows. `OldSpellings <= 1` says that an older version left one key a hash at
most: with two, TypeOK does not hold, and an insertion may hide an owned record
(`MCPublication_spelled`); that the bucket is a map (ImplementsMap) is proved for any
number of old keys.

The inductive invariants, and why the properties alone will not do:

* `FileSync`. OneWorkerPerHash is not inductive alone: that a new worker's hash is
  nobody else's follows only from `inFlight` being exactly the workers' hashes; and
  that removing the hash of a finishing worker keeps `inFlight` exact follows only
  from no other worker having it. So the two are proved together. TypeOK's bound
  `freeSlots <= SyncCap` follows from the slot equation. Lemma
  EveryStepHasAKind classifies each action by what it does to workers, `inFlight`
  and `freeSlots`; SessionStep and SlotStep then treat five kinds instead of some
  twenty actions, and a second classification, of what a step does to the files,
  carries OwnedOnlyChangedBySession. NoOrphanDownloading needs that who marks a
  record DOWNLOADING is the worker on it, RebroadcastWhileSeeding that the hash of
  a session keeps its record. ImplementsPool is a step simulation that rests on the
  invariant: an attempt starts where the pool has room since holders and free
  slots add up to `SyncCap`.
* `TcpServer`. The slot equation counts the connections behind the select; the
  answer of a connection is within the snapshot because nothing is sent before it
  is fixed, and a chunk is cut to what the answer promised.
* `Gossip`. Shown-once follows from an equation: a node has shown a message as often
  as 1 if the message is in its history and it is not the sender, else 0. It needs
  that no job of the sender's own reaches the handler, and that whatever travels is
  in its sender's history, which is ImplementsBroadcast's content too.
* `Publication`. Each operation of `FileBucket` is shown to be one of `FileMap` on what
  GetFile returns, for any number of spellings: an insertion where nothing is owned, a
  status and nothing else, or an arrival. Sessions on owned records are covered, since
  an update keeps whatever path and size there were. PublishedIsServable then needs
  that a publication under way knows the size and hash of its file unless it was
  touched, that every record with a path names a file of its content or a touched one,
  and that a session past its rename finds its file in place. StaleRecordServes needs
  the same of the record a connection holds, and that a download writes the path of its
  own hash and nothing else, with the very content. TypeOK needs that a session in an
  attempt has a record, and that stale records are reset before anything else runs.
* `HistorySync`. What a node shows it stores in the same step, and an author stores
  its message before anybody else has it: invariants of datagrams, jobs and
  histories.
* `Cidr` and `Probe`. ParseTarget returns the usable addresses of an entry, each
  once and in order, at every prefix length and width (ExpansionIsExact): a block
  and what the loop of `cidr.go` walks through are shown to be the same interval,
  the wrap-around at /0 included. The targets of a list of entries hold each address
  as often as entries call for it (TargetsAreExact). Both rest on recursion, powers
  of two and the joining of lists; the library's induction rules take an operator,
  which the provers cannot instantiate, so inductions go by the least number at
  which the claim fails, and a recursive function is first shown to exist. The
  invariant of a round then says that it has the targets of the entries it found,
  that workers hold or have sent to exactly those that left the channel, and that a
  round that drains has pushed them all unless the daemon stops.
* `PeerTable`. The bucket is never younger than the registry because no pending
  write is; and a daemon that is down has none.
* `Download`. No two directory entries are one file, a descriptor is open on the
  partial file of its name, and offset and length agree while it is fetched, so a
  verification and the rename after it are about the same bytes. GivesUpAfterMishaps
  counts: each attempt but one has been paid for by a mishap, and so is what the
  present one is about to lose, a part with a foreign unit in it or a failed rename.
  The attempt that is free is that of the part found at the beginning: once it is
  removed, a foreign unit is one that the session has fetched itself.
* `ConfigFile`. There is one writer at a time, the daemon until it runs and then the
  --add; what it has in hand says all that the file says, but for a NodeID that --id
  has replaced, so each rename adds to the file. AddedIsPersisted needs the converse: all that the daemon has in memory is in
  the file, was reported, or is in hand.

Assumptions on constants were added where a proof needed them and the code has
them: `MaxChunk > 0`, `MaxInodes > 0`, some target to add, daemons, commands and
adders are different processes, a mixture of two contents is no file a peer shares.

What ends. Liveness is out of the prover's reach, but what makes it true mostly
is not: a quantity that each step uses up and that nothing else refills. These are
proved for every value of the constants, and with the fairness of section 4 they
are why the liveness properties, which TLC checks on small instances, should not hang
on the size of the instance.

| Theorem | Says | Safety core of |
|---|---|---|
| SessionsAreFinite | each step of a session, retries included, lowers its TurnsLeft; a crash, callers and other sessions never raise it; who waits for a slot in vain waits behind a holder | SessionsGoOn |
| AttemptsEnd | an attempt has at most SizeOf[h] + 5 steps, files shared by name or not, and a session MaxRetries attempts | SessionsSucceed |
| LifeIsBounded | steps, units and ticks of a connection come out of a tank that is filled once, whatever its client does | ConnectionsEnd |
| RoundsEnd | each step of a round lowers its work; it is never stuck but for its ticker | AddedIsProbed |
| GoneGrowOld | what is known of a peer that left only ages, in memory, in the bucket and in pending writes | GoneAreForgotten |

Two further theorems are about what no run asks. ReachIsBounded: whoever has a
message is at most `InitTTL` hops from its sender, since every datagram and every
job has come along a route that is as long as its TTL is short; it is the other
side of what ReachesEveryNode supposes, that the TTL covers the mesh.
HistoryIsBroadcast: `HistorySync` implements the same abstract specification as
`Gossip` does, although its copies come from nodes that did not write them.

Only model-checked: the liveness properties themselves (SessionsGoOn, DownloadingEnds,
SessionsSucceed, FloodsEnd, ReachesEveryNode, ConnectionsEnd, LivePeersReturn,
GoneAreForgotten, CatchesUp, AddedIsProbed), since fairness and ENABLED are beyond
the prover. Every safety property of a passing run is proved.

## 6. Not modelled, and what is planned

Socket options, the IPC client, formatting and logging keep no state the properties
are about. Of the flags, `--id` and `--peers` change what `ConfigFile` keeps and are
there; the others set ports, paths, names and limits, which are constants of the
models or absent, and are saved without changing the NodeID or the peers. IPv6 entries of StaticPeers stand for themselves.
`ListFiles`, `ListMessages` in their order and limit, and `Stats` only read;
`DeleteFile`, `PeerRegistry.Remove` and `IsPrivateIP` are called by nothing.
Shutdown is treated as a crash, since nothing waits for handlers or downloads;
the order in which subsystems stop within their half second is left out. The
machine does not crash: bbolt keeps what it has committed, and what a power cut
makes of a renamed file that was not synced is up to the file system.

The size of a hash is constant in `Download`: a source that announces a smaller size
than the part already there, which `tcp.go:430` then truncates, is not covered, and
GoodPartIsKept says nothing of it. That two copies of one packet never both pass
markSeen is the mutex's doing and one step of Receive.

Failure counts and the manual-only set change together under one mutex and have
no property of their own. Two edges of configuration values are not modelled:
`probe_rate_per_sec` above 10^9 makes the delay at `udp.go:555` 0, which
NewTicker does not accept; and a /0 entry, exact in `Cidr`, asks `cidr.go:73` for
a slice of 2^32 - 2 strings.

Left to do: `Download` against `TcpServer` unit by unit.
