# A TLA+ model of logdirect

logdirect is a set of remote persistence paths, of key-value frontends that use
them, and of the databases and kernel patches below. This directory holds TLA+
modules translated from the code, TLC configurations that check them on small
instances, and proofs that the TLAPS proof system checks for every value of the
constants. `PROJECT.json` says which definition models which lines.

## The system and its parts

| part | source (under `src/`) | modules |
|---|---|---|
| hybrid frontend: a client writes records by RDMA into a ring in persistent memory, its clerk batches them, persist threads copy batches to `pmrlog.log` | `logdirectaccess/frontend/hybrid/` | `HybridRing` (one connection), `HybridServer` (what connections share) |
| group frontend: one clerk thread per client, group commit under `global_mutex` | `logdirectaccess/frontend/group/` | `GroupCommit`, `GroupLog` |
| sync and pmem frontends: one request at a time in a mailbox, with pmem also a ring in persistent memory | `logdirectaccess/frontend/sync/`, `pmem/` | `Mailbox`, `RemoteStore` |
| RDMA utilities: sockets, certificates, queue pairs; posts and polls | `logdirectaccess/frontend/rdmautil/` | `Connect`; posts and polls in the frontends' modules |
| database adapters, log file database, cuckoo table | `logdirectaccess/database/dbtype.h`, `logdb/logfile.h` | `CuckooLog` |
| bitcask (`atendb`): data files, index files, recovery | `logdirectaccess/database/bitcask/` | `Bitcask` |
| remote persistence paths: four client and server pairs | `logdirect/remotepath/` | `RemotePath` |
| dma-buf over the NVMe controller memory buffer: kernel patches, importer, their users | `logdirect/patches/`, `logdirect/cpuaccess/` | `CmbExport`, `CmbDmaBuf` |
| LevelDB | `logdirectaccess/database/leveldb/` | `LevelWrite`, `LevelLog`, `LevelTree`, `LevelRecover` |
| append only file of Redis | `redis/src/aof.c`, `bio.c`, `server.c` | `RedisAof`, `RedisManifest` |

A frontend is a client (`SendPut`, `SendGet`, ... of `core.h`) and a clerk thread
on the server. They share two RDMA buffers whose first word, the header, says
whose turn it is: the client writes `CLIENT_DONE` after its request, the clerk
`CLERK_DONE` after its reply. The frontends differ in what happens in between, and
all call one of the databases through `DBType`. The parts are modelled each by
itself where they meet in a call that has a clear promise: the frontends use the
database as a map (in `Mailbox` with a write-back to disk at any time), and
`LevelRecover`, `CuckooLog` and `Bitcask` show what each database keeps; `HybridServer` takes
a request as one step, which `HybridRing` has in detail.

Modules named `MC...` instantiate the others for TLC, modules named `...Proofs`
hold theorems. Several MC modules put instances of one or more specifications
side by side: a variable `conf` (`frontend` in `MCMailbox`) is chosen in the
initial state and says which one a behaviour is about, the variables of the others
stay `None`. A property of such a run is a conjunction with one conjunct for each
`conf` it is claimed of; the type invariant of a module is one of them.

## The runs

| run | modules | properties |
|---|---|---|
| `hybrid_ring` | `HybridRing`, built with `BG_SYNC` | `RingInv`, `GetSeesLastWrite`, `CompletionsBalanced`, `FlushedInOrder` |
| `hybrid_inline` | `HybridRing`, without `BG_SYNC` | `AckedIsDurable`, `ClosedIsLogged`, `WriteCompletes` |
| `hybrid_overwrite` | `HybridRing`, `BG_SYNC` | violated: `RingKeepsUnlogged` |
| `connections` | `Connect`, `HybridServer` | `EndsMatch`, `FirstCallServed`, `RingsApart`, `GetCurrent` |
| `group_commit` | `GroupCommit`, `GroupLog` | `AnsweredIsStored`, `ImplementsLog`, `WriterIsAnswered` |
| `mailbox` | `Mailbox`, `RemoteStore` | `AckedPersistent`, `ImplementsStore`, `CallReturns` |
| `remote_paths` | `RemotePath` | `AckedPersistent`, `WriteReturns`, `ServerEnds` |
| `databases` | `Bitcask`, `CuckooLog` | `TableMatches`, `PutsSurvive`, `PutReturns`, `MCLogMatchesTable`, `SyncedDurable` |
| `bitcask_reopen` | `Bitcask` | violated: `RereadValue` |
| `cmb` | `CmbExport`, `CmbDmaBuf` | `MCRegionOwned`, `MCMappingValid`, `MCReleaseClean`, `MCMemoryReturned` |
| `leveldb` | the four `Level...` | `ReadsLatest`, `LevelsOrdered`, `LogRecovers`, `WritesReported`, `WaitersHaveWork`, `CrashSafe` |
| `redis` | `RedisAof`, `RedisManifest` | `Rebuilds`, `FsyncedTrue`, `RepliedDurable`, `Restartable`, `AckedThere` |

Deadlock checking is off in all of them because the systems may stop: connections
close, bounds are reached. That threads do not wait for each other for ever is
what the temporal properties, and `WaitersHaveWork`, say.

## HybridRing

**State.** The variables keep the source's names: `buf_head`, `buf_tail`,
`header` and `answer` are the client's (its tail word is written by persist
threads); `kheader`, `message`, `ktail` (`HybridClerk::buf_tail_`), `batch`,
`batch_length` are the clerk's; `ring` is `write_buf_`, cell by cell; `im_index`
and `db` are the in-memory index and the database; `threads`, `mu`, `log`,
`synced` are the runs of `persist_func`, its mutex, the log file and how much of
it `fdatasync` has covered. `toClerk` and `toClient` are RDMA writes posted and
not yet placed: one queue pair is reliable and ordered, so each is a FIFO.
`cpc` and `kpc` say where the two threads are. `recs` and `last` are history.

**Data.** A record is its number, in every cell it occupies, so that a torn or
misplaced read is seen (`ReadAt`). Positions and sizes keep their arithmetic.
PUT and UPDATE take one path in the code and in the model. A reply that the code
does not fill in keeps the words of the request. Replies are short enough to be
posted inline (the other case is in `Mailbox`). The database is what the LevelDB
adapter does: a put of the last record of each key, a `Delete` that always
succeeds.

**Actions.** `SendWrite` is cut at its waits: `StartWrite` (with the NOP branch),
`NopAcked`, `WriteInPlace` or `RewindAndWrite`, `WriteAcked`. The other requests
are `SendSimple`/`SimpleAcked` and `SendClose`. `PlaceAtClerk` and `PlaceAtClient`
are the network. The clerk has one action per case of its switch (`ClerkPut`,
`ClerkPutAndFlush`, `ClerkNop`, `ClerkGet`, `ClerkDelete`, `ClerkSync`,
`ClerkClose`), then `ClerkPersisted`, `ClerkReply`, `ClerkPoll`, `ClerkGone`.
`persist_func` is `PersistWrite`, `PersistSync`, `PersistPost`, `PersistPoll`.
Under `BG_SYNC` the function captures `clk` by reference in a detached thread;
once the clerk is gone the thread works with a destroyed object, and
`PersistLost` lets it get lost at any point.

**Shown.** Client and clerk agree on every position without exchanging one
(`RingInv`, the inductive invariant of the proof); a GET returns the last
acknowledged write, from ring or database; every write is in exactly one batch, in
order and whole; there are always as many completions as pollers of the one
completion queue. Without `BG_SYNC` an acknowledged write is at every moment in the
ring or in the synced log, a closed connection is wholly logged, every write
completes. With `BG_SYNC`, `RingKeepsUnlogged` is violated: the client cannot tell a
full ring from an empty one by `buf_head_` and a stale tail and overwrites records
that are not logged, which the comments of `hybrid.cc:70` and `:76` exclude.

**Bounds.** A ring of 6 cells with one header cell, sizes 1 and 2 and a batch
limit of 3 give: batches that end at the limit and beyond it, batches cut short by
the NOP, rewinds on both sides, an empty batch at a NOP, a record that would end
exactly at the end of the ring. `MaxPuts` 3 (4 without background threads) is
enough for a second lap. `BG_SYNC` is a constant because it is a build flag
(`hybrid.cc:9`). Keys are symmetric.

**Fairness** (`FairSpec`): posted writes are placed; the spinning client and the
clerk are scheduled; some persist thread that can run does. Nothing is assumed of
which thread gets the mutex: `std::mutex` promises no order.

## HybridServer and Connect (run `connections`)

`Connect` is the set-up that all frontends share: `MakeSocket`, the accept loop
(`NewChannel`, `Open`, `Spawn`), both ends in `default_connect`
(`WriteCertificate`, `ReadCertificate`, the three changes of the queue pair's
state), the client's first request, and the adapter, which repeats a write until
the other end is ready or `retry_cnt` is used up (`Arrives`, `Retry`, `GiveUp`).
A certificate is the end that it names. `EndsMatch`: each clerk is connected to the
client whose socket it was given, also when other clients die (`Dying`) or calls
fail (`Failing`). `FirstCallServed`: a client may post its first request before the
server's queue pair is ready; it is served nevertheless, provided that the server
gets ready before the repetitions end (`Prompt`) and nothing fails.

`HybridServer` has what the connections of a hybrid server share: the slots of the
controller memory in `bitmap_` (`LoadBits`, `StoreBits`, `Allocate` in the
listener, `ClearLoad`, `ClearStore`, `Free` in the callback of a closing clerk;
each is an unlocked read and a later write), `im_index_` and the database
(`Insert`, `Flush`, `Erase`; `Find`, `Copy`, `DbGet`). A request is one step of the
client, a record one cell, a batch is persistent when it is flushed. Listener and
closing clerks interleave freely; the history variable `raced` says that a store to
`bitmap_` has overwritten one it had not seen. `RingsApart`: until then no two
connections get one slot, over four connections, two slots and heap buffers for the
rest. `GetCurrent`: until then a GET returns a record of its key, also while the key
moves from the index to the database, clerks close and others write the key; and if
one client writes the key, a record that it had at some moment of the call. Excepted
is a record that the ring has lost between `find` and `memcpy`, or that belonged to a
connection that was closed; see the deviations.

Bounds: two clients in `Connect`; two clients with rings of 2 records, batches of 2
and 4 records in all, so that rings go round, one key that both write and one that
only the first does. Fairness in `Connect`: threads run and the network delivers.

## GroupCommit

**State.** `queue` is `writers_queue` (a clerk has one `Writer` at a time, so it
holds clerks), `done` and `woken` the fields and condition variables of the
Writers, `mu` the holder of `global_mutex` across actions, `batch`,
`batch_length`, `last_writer` and `iter` the static batch and the loop of
`BuildBatchGroup`. `pushed` and `stored` are history: requests in the order they
entered the queue and the order in which `PutBatch` stored them.

**Actions.** What `Run` does from lock to unlock, or to a wait, is one action:
`Push`, `Wake`, `WakeSpuriously` (condition variables may return unsignaled),
`StartBuild`, `BuildBatchGroup` (one round of its loop, the mutex held),
`PutBatch` (without the mutex), `Finish`, `SendReply`; `Get`, `Sync` and `Close`
bypass the queue. A leader's reply is never filled in, as in the code. A request
simply arrives: `GroupClient` has the code of `SyncClient`, and its handshake is
in `Mailbox`.

**GroupLog** is what group commit promises: a received request is appended to the
log once, in one atomic step with others that wait, and answered afterwards.
`Abstract == INSTANCE GroupLog` maps `waiting` to the logged request each clerk
holds and `log` to `stored`.

**Bounds.** Three clerks: a leader, a follower in its batch and one that is left
behind to lead next; a batch limit of 2 records, three logged requests in all, one
of which may come while the leader sleeps or stores. **Fairness**: some clerk that can
go on does, and a reply is sent.
Neither fairness among the waiters for the mutex nor spurious wakeups are assumed.

## Mailbox

Clients and clerks of the sync and pmem frontends over one database. The words of
a mailbox are written separately: a post is a sequence of writes (`Posted`) that
the network places one at a time (`PlaceAtClerk`, `PlaceAtClient`), and the reply
overwrites the request. The calls are `SendWrite`, `SendGet`, `SendDelete`,
`SendSync`, `SendClose`, then `ClientPoll`, `Return`, `Closed`; the clerk is
`ClerkServe`, `ClerkClose`, `ClerkReply`, `ClerkPoll`. A call of the database may fail
(`Failing`): it changes nothing, the reply says `ERROR` or `NOTFOUND`, and, as in the
code, a client does not look at the status of its put. `Writeback` is the database
reaching the disk in its own time. `RemoteStore` is the promise: a call takes
effect once, at one moment between its start and its return, or fails, and returns
the answer of that moment; `Store` maps a mailbox to it.

The ring of pmem starts over when the next record does not fit. History variables
say how often (`lap`) and where each record was placed (`written`).
`AckedPersistent`: a record the database has taken and not written back is whole
in its client's ring, where the client placed it, until the positions of that
client's later puts have come round to it (`Overrun`); with the sync frontend it is
on disk at once. `CallReturns`: every call, CLOSE included, comes back.

Bounds: one client with four calls and a ring of 8 cells, which its records of up to
5 cells go round; two clients with two calls each; two clients of the sync frontend
with three. One key, and a value whose reply is exactly as long as what goes inline
(`MAX_INLINE_SIZE`); a longer reply is a deviation. The assumption that a record fits
the ring is safe: its length is a `uint16_t`, and `BUFSIZE` is 1 GiB (`flags.h:62`).
Fairness: spinning threads are scheduled, posted writes are placed.

## RemotePath

One client and one server on each of the four paths: direct writes into persistent
memory (1, 2), writes into memory that the server flushes and answers (3 to a file,
4 to controller memory). A write has `Packets[path]` packets, delivered in order
one at a time, so that the server can see the header word before the rest.
`AckedPersistent`: a record whose `Write` returned is whole in the server's memory and
persistent, on a served path (3, 4) in the copy that the server made; path 3
keeps them all, on the others the next write uses the same place. The copy may be
taken while packets are missing: it then has the end of the record before wherever
copying was ahead of the network (`Copied`), and is whole if the write is one packet.
On a path in
`Cached` the adapter writes to the processor's cache, nothing in the code writes it
back, and the claim is only that the record is whole there (`Evict` is the cache's
own write-back). `WriteReturns`: every write returns; `ServerEnds`: the server ends
after a close, on the direct paths one that arrives after `Run` has begun.
Writes have three packets (the path MTU is 256 bytes), on path 4 one, and there are
four of them. On paths 3 and 4 the first 8 bytes of the buffer are the flag word.

## Databases (run `databases`)

`Bitcask` cuts `Put` and `PutBatch` where other threads, or the end of the process,
can come in: `ReadFileNum`, `PickFile`, `Reserve` (the compare-exchange), `Full`,
`TryLock`, `Grow`, `Pwrite` (into a file opened with `O_APPEND`, so that data lands
in the order of the writes), `PwriteShort` (less is written: a put goes on to the next
file, a batch ends the process), `SyncFile`, `Insert`, `AppendIndex`; `Get` is `Get`, `Read`,
`Got`; then `Delete`, `Erase`, `Crash`, `IndexCallback` per index file, `Recovered`.
`Throw` is a get or delete of an absent key, for which `find` throws and the
process ends. An `Index` has its `flag_`, which `Get` tests and `IndexCallback` does
not set, and a value may be empty, which `IndexCallback` takes for a deletion.
`TableMatches`: in an open database the table leads to the whole last record of each
key the process has put, and to nothing for one it has deleted, through growth,
batches and short writes; and a get beside the leader of a group returns a record
current during the call. With several writers only that the files it names are there.
`PutsSurvive`: a put that has returned is not lost by the end of the process: after
the replay the table has its place or that of a later record of the key. What a get
makes of that place is another matter: `RereadValue`, which `test/dbimpl_test.cc:52`
tests, is violated by every reopened database (run `bitcask_reopen`): the replayed
`Index` is taken for an address in memory. `PutReturns`: a put that
finds its file full ends, whoever gets the lock; strong fairness of a thread's steps
is needed because another thread may take the room of each new file, and bounded
puts make it hold. A deletion is not persistent (its tombstone
is commented out, `db_impl.cc:151`). Writes to index files do not fail in the model.

`CuckooLog` is the table with the log file behind it: `Put` inserts into the table
key by key and then appends one write, tests `sync_`, calls `fdatasync`;
`SetSync` sets the flag and syncs itself. `PowerLoss` keeps any part of what is not
synced; `Restart` begins to write at offset 0, and nothing reads the log.
`SyncedDurable`: once `SetSync` has returned, every write that has returned is
durable, also one that found the flag unset. `MCLogMatchesTable`: with one writer of
a key at a time log and table agree.

Bounds: one or two threads, two keys, two or three puts, segments of 2 or 3 cells,
so that files grow during the puts; in `CuckooLog` two threads with a batch that has
a key twice, and three threads on one key.

## Controller memory (run `cmb`)

`CmbExport` is the patched NVMe driver: the pool, the submission queue in it, and
the dma-buf objects with their reference counts. `attach` and `detach` run in steps,
since the object has no lock and two of these calls can meet on it. What then becomes
of the counter and the address is a deviation; the history variable `met` has the
objects on which it happened, and the run follows a behaviour up to the first meeting
(`Apart`), about which and before which its properties speak. `CmbDmaBuf` adds the
users: a server whose contexts register the buffer with the network adapter, and
programs of `cpuaccess` that attach through `/dev/importer`, whose state is one set
of global variables. Processes may be killed at any step (`Crashing`), allocations
fail (`Failing`), the device go away (`Removing`). `MCRegionOwned`: every region has
one owner. `MCMappingValid`: what is mapped, or written by the adapter, are the pages
of the process' own object, and references are counted. `MCReleaseClean`: an object
is released without attachment and memory. `MCMemoryReturned`: a server that ends,
also in the middle of something, returns its memory; the kernel is assumed to go on
with what it began. The middle two are claimed with at most one program on the
importer. Bounds: two contexts, two objects and two regions, in three mixes of
processes.

## LevelDB (run `leveldb`)

`LevelWrite`: `DBImpl::Write` with its queue, `MakeRoomForWrite` branch by branch,
the log, and the background thread; an action is a stretch of code under `mutex_` or
one call without it. `WritesReported`: every writer learns what became of its own
entries, and a synchronous one that returned ok is on disk. `WaitersHaveWork`:
nobody waits for a background thread with nothing scheduled. Three writers, all
level-0 limits at one file, failing files.

`LevelLog`: the log format, byte by byte with the reader's resynchronisation
(`ReadAll`), for blocks of 7 bytes and headers of 2 with lengths that fill blocks in
all ways. `LogRecovers`: what is read was written, whole. In a new log everything the
crash may not lose is read, without a report of corruption. A log that is written on
after a crash or a failed write, and read after the next crash, loses only what lies
behind a piece of a record in its block (`Buried`), and records come once and in
order. A crash of the process leaves a prefix of the bytes written, one of the
machine a prefix that has the synced ones.

`LevelTree`: memtables, versions, compactions by size or by hand, snapshots. Sizes are
left open: every comparison of bytes is a choice. `ReadsLatest`: a read, also at a
snapshot, finds the newest entry it may see, and no deletion or older value instead.
`LevelsOrdered`: files of a level do not overlap and levels are ordered by age.
Either one snapshot with overwrites on two keys and four writes, or deletes with manual
compactions on three keys and three writes; the mixtures are deviations. Seek
compactions are not modelled.

`LevelRecover`: logs, tables and MANIFEST through switches, flushes, compactions,
removal of files, crashes at any step and recovery. Operations on the directory are
taken as durable in their order. `CrashSafe`: at every moment a crash leaves what
must survive it, and recovery shows it. With `reuse_logs`, which the adapter sets
(`dbtype.h:68`), only crashes of the process are considered.

## Redis (run `redis`)

`RedisAof`: `aof_buf`, `flushAppendOnlyFile` with its postponements and short writes,
`fsync` in the bio thread, `bgrewriteaof`, `appendonly` switched on and off,
`shutdown`. A command is two bytes of the stream, so that a write may end within one.
A rewrite may fail to start, because the directory, the new file or the manifest
cannot be written or `fork` fails (the new file is then in use), and `startAppendOnly`
then leaves the file off; or its child fails. `Rebuilds`: files and buffer have every
command once and in order. `FsyncedTrue`: what WAITAOF answers is on disk.
`RepliedDurable`: with appendfsync always a reply leaves after the fsync. Three
commands, two rewrites, two switches. Errors of writes and rewrites together are
checked under always, where all three are claimed; under everysec that is a deviation,
and errors and rewrites are checked one at a time.

`RedisManifest`: base, incremental and history files, the manifest and the directory,
with a crash between any two calls that change it. When the machine stops the
directory is in one of its states since it was last synced. `Restartable`: the next
start succeeds. `AckedThere`: a running server has every command it replied to, in
order. One crash under always, two of the process under everysec, two after an
upgrade from an old version; more crashes reach the deviations. A rewrite that
cannot be started is here only one of a file that is on (`OpenEnd`).

## Proofs

`HybridRingProofs` proves for any ring, header and batch size, any keys, any
record sizes that fit the ring behind its header, and both values of `BG_SYNC`
(assumption `RingAssumption`): `RingInvariant` (`Spec => []RingInv`), and from it
`RecordsStayInRing` and `BatchStaysInPlace`: the clerk reads its batch where the
client put it, although no position is ever sent. `BatchInPlace` is not inductive.
`RingInv` adds:

- `HandshakeInv`: a call is in one of seven phases, each of which fixes both
  header words, the writes on their way and where the clerk is. So a clerk that
  wakes up finds the posted request and its record whole, and a `CLERK_DONE` at
  the client answers the client's own call;
- `PositionInv`: the clerk's tail plus its batch length is the client's head, but
  for a record the clerk has not taken and a rewind the client has not done.
  Because a batch that is not full is shorter than `BATCH_SIZE`, the NOP always
  makes `NextTail` rewind, and because the client rewinds before it reaches the
  end, the clerk's test `ktail + len = MAX_ASYNC_SIZE` never holds;
- `BatchInv`: the records of the batch lie between the tail and its end. A new
  record begins at that end, so placing it leaves the batch as it is.

`HybridStoreProofs` goes on, under the same assumption, to what is stored and
answered: `StoreInvariant` (`Spec => []StoreInv`), and from it
`WritesFlushedInOrder` (`FlushedInOrder`, for any number of writes and batches) and
`GetIsCurrent` (`GetSeesLastWrite`). `StoreInv` adds to `RingInv` and
`FlushedInOrder`:

- `IndexInv`: until the close `im_index` has the keys of the batch and no others,
  each with the place of its last record, because a flush erases exactly the keys
  it has stored;
- `StoredInv`: the newest write of a key that the clerk has taken is the last one of
  the key in the batch, or, if the batch has none, what the database holds; a key
  that was deleted while a record of it was in the batch is left out (`Unknown`);
- `ReplyInv`: the answer to a GET is right wherever it is, at the clerk, on its way or
  in the client's buffer, and is placed before its header word.

`HybridLogProofs` has what persist threads do. `NoCompletionMissing`
(`CompletionsBalanced`) is inductive beside `RingInv`: each step moves a completion
or a poller, and the cardinalities of both sets change by the same amount.
With `BG_SYNC = FALSE` as a hypothesis, `InlineInvariant` (`Spec => []InlineInv`)
gives `InlineWritesDurable` (`AckedIsDurable`) and `InlineCloseLogsAll`
(`ClosedIsLogged`). `InlineInv` adds to `StoreInv` that every thread but the one the
clerk waits for is done and its batch in the synced log (`LogInv`), and that a record
of the batch lies where the client noted it (`PlaceInv`): a record is therefore
overwritten only after its batch is logged. With `BG_SYNC` nothing is proved of how
far the *log* has come: there lies the violation.

`GroupCommitProofs` proves for any set of clerks, any keys, sizes and
bounds (assumption `GroupAssumption`: sizes are between 1 and `MAX_REQUEST`):
`GroupInvariant` (`Spec => []GroupInv`), from it `OneLeaderHolds`,
`BatchFitsHolds`, `StoredInOrderHolds`, `AnsweredIsStoredHolds`, and
`GroupCommitImplementsLog` (`Spec => ImplementsLog`). None of the properties is
inductive alone. That only one clerk leads rests on `QueueInv`: the queue has no
repetition, contains exactly the leader and the waiting writers that are not done,
and a leader is its front; this survives the two windows in which the leader has
given up the mutex because others only push at the back. `BatchInv` adds that the
batch is the requests of a prefix of the queue, ended by `last_writer`, so that
`Finish` pops exactly what was stored. `HistoryInv` relates the queue to `pushed`
and `stored`. In the refinement `Receive` is a `Request`, `PutBatch` a `Commit`,
`SendReply` an `Answer` or a stutter, everything else a stutter.

`MailboxProofs` proves for any clients, keys, lengths, ring and both frontends
(`MailboxAssumption`) `MailInvariant`, that a connection is always in one of six
phases (`Idle`, `Sending`, `Delivered`, `Serving`, `Answered`, `Closing`), each of
which fixes both header words, the writes on their way and both buffers, and
`MailboxImplementsStore`: `ClerkServe` is the moment at which a call takes effect.
It holds with refused replies too, whose calls do not return, and with calls of the
database that fail. `MailboxPersists` (`AckedPersistent`) is proved for a database that
syncs, and for pmem with rings that start over any number of times. There `KeptInv`
says of every record ever placed, not only of what the database holds, that it is
whole, on its way or overrun. That placing a record spares the others needs `WayLast`:
one that is on its way is its client's newest and ends at `buf_head_`, and those of the
same lap lie before it; one of the lap before that it reaches is overrun by then, and
older ones are anyway. `PutPlaced` and `DbPlaced` tie the record to the call and what
the clerk has served to a record that has arrived.

`RemotePathProofs` proves for any paths, packets and number of writes
(`PathAssumption`), cached paths or not, `PhaseInvariant` and from it `WritesPersist`,
`FileOrder` and `ServerRemains`. The phase of a `Write` fixes which packets are on
their way, what of the buffer is new and what is of the write before, and how many
records are stored; `AckedPersistent` alone says nothing of a record that is half way.

`CuckooLogProofs` proves for any threads, keys, batches and bounds `DurableAfterSync`
(`Spec => []SyncedDurable`) from `SyncInvariant`: whatever has returned and is not
durable is in what an `fdatasync` of a `SetSync` in progress is writing out, because
a write that found the flag unset was placed before.

`LevelWriteProofs` proves for any writers and number of calls, with and without files
that fail, when writers are not stopped before a compaction is due (`Limits`, which
the constants of `dbformat.h` satisfy): `WriteInvariant` (`Spec => []WriteInv`), and
from it `WritersToldTruth` (`WritesReported`) and `WaitsEndWithWork`
(`WaitersHaveWork`). `WriteInv` adds: the first of the queue leads and the others
wait (`QueueInv`); entries belong to calls that were made, so that a new one is in
nobody's report yet (`MadeInv`); a call that has not returned is applied only when
its leader has inserted the group, or when it was told so (`PendingInv`); a group
with a synchronous writer has gone through the log's `Sync` before it is inserted
(`SyncInv`); and work that is there is scheduled unless the background thread has
given up (`WorkInv`), which is what a waiting writer relies on.

The last entry of a key in a batch is what `KeysOf` and `LastOf` are defined by: that
a key which occurs has a last occurrence would need induction over the batch.

Only model-checked: everything temporal (`WriteCompletes`, `FirstCallServed`,
`WriterIsAnswered`, `CallReturns`, `WriteReturns`, `ServerEnds`, `PutReturns`,
`MCMemoryReturned`, ...: liveness is beyond the prover); the log format, trees and
recovery of LevelDB, `Bitcask` and the manifest of Redis (`LevelLog` and `LevelTree`
use recursive definitions, which are beyond it, too); `Connect`, `HybridServer`, the
controller memory and `RedisAof`, and the table of `CuckooLog`
(`MCLogMatchesTable`), for which no inductive invariant has been written.

## Known deviations

Places where the code does not do what a comment, a test or a document of the
repository says, or where nothing stops it from losing data, met while modelling. Two
are runs, `hybrid_overwrite` and `bitcask_reopen`; for each of the others the passing
runs exclude the case by the constant in brackets, or do not claim the property there.
Giving such a constant another value, or dropping such a condition, makes TLC show the
behaviour in the model.

Hybrid frontend (`frontend/hybrid/hybrid.cc`)
- :71 a client that sees a tail of the last lap overwrites records that are not in
  the log [`BG_SYNC`; run `hybrid_overwrite`].
- :275 persist threads are detached: CLOSE destroys the clerk while an earlier batch
  is not written [`BG_SYNC`]. :218 they take `mu_` in any order: an older tail may be
  written last, and `SendWrite` waits for ever [`BG_SYNC`].
- :315 DELETE does not remove the key from `im_index_`.
- :266 a flush erases keys from the shared index also when another clerk has entered a
  newer record, and a GET then reads the older one from the database [`Private` in
  `GetCurrent`]; :323 CLOSE leaves entries that point into a ring that is given away,
  and :297 GET reads the ring after the index lock is released [the exception in
  `GetCurrent`].
- :400 `bitmap_` is changed without a lock: when clerks close at the same time or while a
  connection is accepted an update is lost, and a slot may be given out twice [`raced`].

Other frontends
- `group/group.cc:243` a DELETE is stored as an empty value and is still found; :251 the
  reply to a leader's DELETE is not filled in.
- `pmem/pmem.cc:48` the ring wraps over records that the database may not have written
  back, which a crash then loses [`Overrun` in `AckedPersistent`].
- `sync/sync.cc:60` (and `pmem.cc`) the client of a put that the database refused returns as
  if it had been stored (`Failing`).
- `rdmautil/rdmautil.cc:241` `post_write1` names the wrong memory key: a reply too long to
  be inline breaks the queue pair, and the client waits for ever [`MAX_INLINE_SIZE`]. The
  clerk of the hybrid frontend uses it too (`hybrid.cc:354`).
- `sync/sync.cc:266` (and the other `Listen`s) the server exits when a client ends during
  set-up [`Dying`]; :28 errors of the queue pair are positive and taken for success
  [`Failing`]; `rdmautil.cc:305` a completion with an error is dropped, and a client whose
  first request was given up waits for ever [`Prompt`].
- `rdmautil.cc:282` `post_cas` exchanges its operands; it has no caller.

Databases
- `bitcask/file/posix_file.cc:57` offsets are reserved in one order and, with `O_APPEND`,
  written in another: two writers read each other's data [`Writers`].
- `bitcask/db/db_impl.cc:130` `data_files_` is read while another thread grows it
  (`WildFile`); :121 a get of an absent key ends the process (`Throw`); :181 entries replayed
  after a restart have `flag_` 0 and are taken for addresses in memory [run
  `bitcask_reopen`]; :183 a put of an empty value is a deletion after a restart;
  :54 index files are not synced [`PowerFails`].
- `dbtype.h:202` two threads that put one key may change table and log in different
  orders [`Batches`].
- `dbtype.h:208` the same exception in the CuckooDB adapter (`Getters`, `down`).

Remote paths (`remotepath/path.h`)
- :257 the server takes a record of several packets when its first word has arrived, and
  stores the end of the one before with it [`Copied` in `AckedPersistent`]; :206 nothing
  writes a cache back [`Cached`]; :79 `Run` clears a word that may already have the
  client's END_FLAG (excluded in `ServerEnds`).

Controller memory
- `importer.c:100` programs overwrite each other's attachment [conf `tools`];
  `0002-...patch:146` attachments are counted without a lock: when an attach and
  a detach meet, a region can be freed while it is attached, or never [`Apart`];
  `0001-...patch:187` the pool is destroyed and its pointer kept (`oops`).

LevelDB
- `db_impl.cc:478`, `version_set.cc:1013` a log or MANIFEST with a cut record is appended to,
  and what follows in the block cannot be read [`Buried` in `LogRecovers`; `Strict`]; so too
  after `log_writer.cc:106`, where the block offset advances although an append failed; the
  reused MANIFEST is not synced [`reuse_logs` with `Crashes`].
- `version_set.cc:1393` boundary files of the next level are not added: with a snapshot and
  deletions a deleted key comes back [`Workload` with `MaxSnapshots`]; :485 a memtable is
  placed between the inputs of a manual compaction, which takes longer workloads
  [`Workload`]. Both were reproduced with the library.
- `db_impl.cc:1318` a forced memtable switch is merged into another writer's group;
  :1372 a log is left unsynced when the next one begins.

Redis (`src/redis/src/`)
- `aof.c:809` without `O_APPEND`, a short write followed by `ftruncate` leaves a hole;
  :2442 a rewrite begins with commands still in the buffer, which are then applied twice,
  and :928 WAITAOF answers for them; `bio.c:274` a failed fsync of a closed file is
  forgotten; `aof.c:1238` fsyncs put off during a rewrite are answered for [`Failing` with
  `MaxRewrites`; `aof_no_fsync_on_rewrite`]. :2674 after a rewrite the last commands are not
  synced until the next write; :1110 more than one write is lost with the process under
  everysec; `server.c:4370` a shutdown does not wait for the bio thread; `aof.c:993` a
  switch within a transaction fills a buffer without a file; :1005 `startAppendOnly`
  after a failed `fork` leaves the temporary file and its name, which a later switch
  takes over [`MaxSwitches`].
- `aof.c:2652` a base file is unlinked that a renamed manifest names [`Failing` with
  "dirsync"]; :834 a file closed by a rewrite may be cut by a crash of the machine
  [`aof_fsync` with `Machine`]; :1769 data read after a restart is not synced, :599 nor is
  the directory, and :354 the name of a history file is used again, which leaves the server
  writing to a file without a name [`MaxCrashes`].

## Not modelled

- Benchmarks and tests (`benchmark.cc`, `generator.h`, `test.cc`, `latency.cc`,
  `throughput.cc`, `bandwidth.cc`, `randset.h`): measurement around the clients modelled
  here; their assertions serve as a source of properties.
- `PutIndex` of bitcask, `post_read` and `post_cas`, `importer_get_cmb`: no caller.
- LevelDB: the formats of tables and blocks, caches, iterators, repair, seek compactions.
- Redis but for the append only file: data types, networking, replication, cluster,
  sentinel, modules, scripting, RDB; the encoding of commands.
- libcuckoo, taken as atomic per call, and the option parser `cmdline.h`.
- Timing, throughput and the contents of messages.

Redis, LevelDB and libcuckoo, vendored code, are nearly all of the
repository's 195 thousand lines; what is modelled is logdirect's own code and those
parts of the vendored code on which the durability of its data rests.
