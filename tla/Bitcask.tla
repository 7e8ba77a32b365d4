------------------------------ MODULE Bitcask ------------------------------
(***************************************************************************)
(* The bitcask database (atendb): data files that only grow, an in-memory  *)
(* hash table from keys to places in them, index files from which the      *)
(* table is rebuilt when the database is opened again.                     *)
(*                                                                         *)
(* A thread is between two steps wherever another thread, or the end of    *)
(* the process, can be seen.  A record is its number, in every cell of the *)
(* data file that it fills, so that a read at the wrong place shows.  Its  *)
(* key fills one cell; a record of one cell has an empty value, which is   *)
(* how the group frontend stores a deletion.  Writers are the        *)
(* threads that put and delete: all clerks of the sync and pmem frontends, *)
(* the one leader of the group frontend.                                   *)
(***************************************************************************)
EXTENDS Integers, Sequences
LOCAL INSTANCE SequencesExt

CONSTANTS
    Clients,       \* threads that use the database
    Writers,       \* those of them that put and delete
    Keys,
    Sizes,         \* sizes of a record, key and value together
    MaxBatch,      \* bound: entries of a batch
    SEGMENT_SIZE,  \* offset from which a data file takes no more records
    Slots, Slot,   \* index files, and Hash(key) % max_index_num_
    Synced,        \* sync_
    PowerFails,    \* the machine, and not only the process, may go down
    ShortWrites,   \* pwrite of data may write less than it is given
    MaxPuts, MaxCrashes, MaxFiles  \* bounds: records, ends of the process, data files
                                   \* after which no write is short

Free    == "free"
NoKey   == "no key"
Deleted == -1
None    == 0                \* no record: a header, a hole, the end of the file

VARIABLES
    pc,           \* where each thread is
    entries, buf, \* the records it puts, and the cells it writes
    file, offset, \* file_index and *file_offset of its put
    idx, key,     \* the Index of its get or delete, and the key
    result,       \* the record its get returned
    lock,         \* holder of global_lock_ across steps, or Free
    file_num,
    hash_table,   \* key -> Index, or Absent
    data_files,   \* per file file_offset_, its cells, how many of them are synced
    index_files,  \* slot -> sequence of [key, idx]
    proc,         \* "open", "down" or "recover"
    replayed,     \* slot -> entries that IndexCallback has read
    crashes,      \* ends of the process so far
    recs,         \* history: key and length of each record
    acked,        \* history: records whose put returned
    last,         \* history: what the process last did to each key, since it began:
                  \* the record it put, Deleted, or None
    seen          \* history: records that the key of a get had since it began

putVars  == <<entries, buf, file, offset>>
getVars  == <<idx, key, result, seen>>
memVars  == <<lock, file_num, hash_table>>
diskVars == <<data_files, index_files>>
runVars  == <<proc, replayed, crashes>>
histVars == <<recs, acked, last>>
vars == <<pc, putVars, getVars, memVars, diskVars, runVars, histVars>>

\* Index(file_index, file_offset, ..) sets flag_; Index() leaves it 0.
FileIndex(f, off, len) == [file |-> f, off |-> off, len |-> len, flag |-> 1]

Absent  == [file |-> 0, off |-> 0, len |-> 0, flag |-> 2]   \* no entry in the table
NoIndex == [file |-> 0, off |-> 0, len |-> 0, flag |-> 0]

\* Index::operator!= compares the address, as one word, and flag_.
IsNotFound(i) == i.file = 0 /\ i.off = 0 /\ i.flag = 0

\* value_size_ = 0.
IsEmpty(i) == i.len = 1

DataFile(off, cells, synced) == [off |-> off, cells |-> cells, synced |-> synced]

\* PosixFile::Read and DecodeData of a place in a file: the record that fills the
\* cells read.
Stored(i) ==
    LET cells == data_files[i.file + 1].cells IN
    IF /\ i.off + i.len <= Len(cells)
       /\ \A j \in i.off + 1 .. i.off + i.len : cells[j] = cells[i.off + 1]
    THEN cells[i.off + 1] ELSE None

\* No thread is in a call of the database.
NoCall(p, e, b, f, o, k, i, r, s) ==
    /\ p = [c \in Clients |-> "idle"]
    /\ e = [c \in Clients |-> <<>>] /\ b = [c \in Clients |-> <<>>]
    /\ f = [c \in Clients |-> 0] /\ o = [c \in Clients |-> 0]
    /\ k = [c \in Clients |-> NoKey] /\ i = [c \in Clients |-> NoIndex]
    /\ r = [c \in Clients |-> None] /\ s = [c \in Clients |-> {}]

Go(c, l) == pc' = [pc EXCEPT ![c] = l]

-----------------------------------------------------------------------------
(* Put and PutBatch                                                        *)

\* The offsets of the entries in the buffer of a batch, as BuildBatchGroup and
\* the hybrid clerk compute them: each comes after its Request, whose size is
\* header (a Put writes the record alone).
Starts(b, header) ==
    LET start[i \in 1 .. Len(b)] ==
            IF i = 1 THEN header ELSE start[i - 1] + b[i - 1].len + header
    IN  start

Begin(c, b, header) ==
    LET start == Starts(b, header)
        es == [i \in 1 .. Len(b) |-> [key |-> b[i].key, off |-> start[i], len |-> b[i].len,
                                      id |-> Len(recs) + i]]
        cells(i) == [j \in 1 .. header + b[i].len |-> IF j <= header THEN None ELSE es[i].id]
    IN
    /\ proc = "open" /\ pc[c] = "idle" /\ Len(recs) + Len(b) <= MaxPuts
    /\ entries' = [entries EXCEPT ![c] = es]
    /\ buf' = [buf EXCEPT ![c] = FlattenSeq([i \in 1 .. Len(b) |-> cells(i)])]
    /\ recs' = recs \o b
    /\ Go(c, "lock")
    /\ UNCHANGED <<file, offset, getVars, memVars, diskVars, runVars, acked, last>>

Put(c, k, n) == Begin(c, <<[key |-> k, len |-> n]>>, 0)
PutBatch(c, b) == Begin(c, b, 1)

\* file_index, read under global_lock_.
ReadFileNum(c) ==
    /\ proc = "open" /\ pc[c] = "lock" /\ lock = Free
    /\ file' = [file EXCEPT ![c] = file_num - 1]
    /\ Go(c, "file")
    /\ UNCHANGED <<entries, buf, offset, getVars, memVars, diskVars, runVars, histVars>>

\* data_files_[file_index], without the lock.
PickFile(c) ==
    /\ proc = "open" /\ pc[c] = "file"
    /\ Go(c, "reserve")
    /\ UNCHANGED <<putVars, getVars, memVars, diskVars, runVars, histVars>>

\* While another thread is in push_back the vector may move: what is read from
\* data_files_ may then be no pointer at all.
WildFile(c) ==
    /\ proc = "open" /\ pc[c] \in {"file", "read"} /\ lock # Free
    /\ Go(c, "fault") /\ proc' = "down"
    /\ UNCHANGED <<putVars, getVars, memVars, diskVars, replayed, crashes, histVars>>

\* The compare-exchange loop of AppendData and AppendDataBatch.
Reserve(c) ==
    LET f == data_files[file[c] + 1] IN
    /\ proc = "open" /\ pc[c] = "reserve" /\ f.off < SEGMENT_SIZE
    /\ offset' = [offset EXCEPT ![c] = f.off]
    /\ data_files' = [data_files EXCEPT ![file[c] + 1] =
                        DataFile(f.off + Len(buf[c]), f.cells, f.synced)]
    /\ Go(c, "pwrite")
    /\ UNCHANGED <<entries, buf, file, getVars, memVars, index_files, runVars, histVars>>

\* No room: create the next data file, unless another thread has the lock.
Full(c) ==
    /\ proc = "open" /\ pc[c] = "reserve" /\ data_files[file[c] + 1].off >= SEGMENT_SIZE
    /\ Go(c, "trylock")
    /\ UNCHANGED <<putVars, getVars, memVars, diskVars, runVars, histVars>>

TryLock(c) ==
    /\ proc = "open" /\ pc[c] = "trylock"
    /\ IF lock = Free THEN lock' = c /\ Go(c, "grow") ELSE lock' = lock /\ Go(c, "lock")
    /\ UNCHANGED <<putVars, getVars, file_num, hash_table, diskVars, runVars, histVars>>

\* Mutant: the lock is not given back.
GrowKeepsLock(c) ==
    /\ proc = "open" /\ pc[c] = "grow"
    /\ data_files' = Append(data_files, DataFile(0, <<>>, 0))
    /\ file_num' = file_num + 1
    /\ Go(c, "lock")
    /\ UNCHANGED <<putVars, getVars, lock, hash_table, index_files, runVars, histVars>>

Grow(c) ==
    /\ proc = "open" /\ pc[c] = "grow"
    /\ data_files' = Append(data_files, DataFile(0, <<>>, 0))
    /\ file_num' = file_num + 1 /\ lock' = Free
    /\ Go(c, "lock")
    /\ UNCHANGED <<putVars, getVars, hash_table, index_files, runVars, histVars>>

\* NewFile opens with O_APPEND, with which Linux writes at the end of the file
\* whatever offset pwrite is given.
Pwrite(c) ==
    LET f == data_files[file[c] + 1] IN
    /\ proc = "open" /\ pc[c] = "pwrite"
    /\ data_files' = [data_files EXCEPT ![file[c] + 1] =
                        DataFile(f.off, f.cells \o buf[c], f.synced)]
    /\ Go(c, IF Synced THEN "sync" ELSE "index")
    /\ UNCHANGED <<putVars, getVars, memVars, index_files, runVars, histVars>>

\* Less is written.  AppendData returns false, which Put takes for a file that is
\* full; AppendDataBatch, whose buffer begins with a Request, ends the process.
PwriteShort(c) ==
    LET f == data_files[file[c] + 1] IN
    /\ ShortWrites /\ Len(data_files) < MaxFiles
    /\ proc = "open" /\ pc[c] = "pwrite"
    /\ \E n \in 0 .. Len(buf[c]) - 1 :
          data_files' = [data_files EXCEPT ![file[c] + 1] =
                           DataFile(f.off, f.cells \o SubSeq(buf[c], 1, n), f.synced)]
    /\ IF buf[c][1] = None THEN Go(c, "exit") /\ proc' = "down"
       ELSE Go(c, "trylock") /\ proc' = proc
    /\ UNCHANGED <<putVars, getVars, memVars, index_files, replayed, crashes, histVars>>

SyncFile(c) ==
    LET f == data_files[file[c] + 1] IN
    /\ proc = "open" /\ pc[c] = "sync"
    /\ data_files' = [data_files EXCEPT ![file[c] + 1] = DataFile(f.off, f.cells, Len(f.cells))]
    /\ Go(c, "index")
    /\ UNCHANGED <<putVars, getVars, memVars, index_files, runVars, histVars>>

\* Mutant: the place of the entry in its batch is taken for its place in the file.
IndexOfInBatch(c) ==
    FileIndex(file[c], Head(entries[c]).off, Head(entries[c]).len)

\* The index of the next entry goes into the table ...
IndexOf(c) ==
    FileIndex(file[c], offset[c] + Head(entries[c]).off, Head(entries[c]).len)

Insert(c) ==
    LET e == Head(entries[c]) IN
    /\ proc = "open" /\ pc[c] = "index"
    /\ hash_table' = [hash_table EXCEPT ![e.key] = IndexOf(c)]
    /\ seen' = [d \in Clients |-> IF key[d] = e.key THEN seen[d] \cup {e.id} ELSE seen[d]]
    /\ last' = [last EXCEPT ![e.key] = e.id]
    /\ Go(c, "log")
    /\ UNCHANGED <<putVars, idx, key, result, lock, file_num, diskVars, runVars, recs, acked>>

\* Mutant: only the last entry of a batch is logged.
AppendIndexLast(c) ==
    LET e == Head(entries[c])
        ids == {buf[c][j] : j \in 1 .. Len(buf[c])} \ {None}
    IN
    /\ proc = "open" /\ pc[c] = "log"
    /\ index_files' = IF Tail(entries[c]) # <<>> THEN index_files
                      ELSE [index_files EXCEPT ![Slot[e.key]] =
                              Append(@, [key |-> e.key, idx |-> IndexOf(c)])]
    /\ entries' = [entries EXCEPT ![c] = Tail(entries[c])]
    /\ IF Tail(entries[c]) # <<>>
       THEN Go(c, "index") /\ UNCHANGED <<acked, buf, file, offset>>
       ELSE /\ Go(c, "idle") /\ acked' = acked \cup ids
            /\ buf' = [buf EXCEPT ![c] = <<>>]
            /\ file' = [file EXCEPT ![c] = 0] /\ offset' = [offset EXCEPT ![c] = 0]
    /\ UNCHANGED <<getVars, memVars, data_files, runVars, recs, last>>

\* ... and to its index file, which is never synced.  After the last entry the
\* put returns.
AppendIndex(c) ==
    LET e == Head(entries[c])
        ids == {buf[c][j] : j \in 1 .. Len(buf[c])} \ {None}
    IN
    /\ proc = "open" /\ pc[c] = "log"
    /\ index_files' = [index_files EXCEPT ![Slot[e.key]] =
                         Append(@, [key |-> e.key, idx |-> IndexOf(c)])]
    /\ entries' = [entries EXCEPT ![c] = Tail(entries[c])]
    /\ IF Tail(entries[c]) # <<>>
       THEN Go(c, "index") /\ UNCHANGED <<acked, buf, file, offset>>
       ELSE /\ Go(c, "idle") /\ acked' = acked \cup ids
            /\ buf' = [buf EXCEPT ![c] = <<>>]
            /\ file' = [file EXCEPT ![c] = 0] /\ offset' = [offset EXCEPT ![c] = 0]
    /\ UNCHANGED <<getVars, memVars, data_files, runVars, recs, last>>

-----------------------------------------------------------------------------
(* Get and Delete                                                          *)

\* hash_table_.find throws for a key that is not there, and no clerk catches it.
Throw(c, k) ==
    /\ proc = "open" /\ pc[c] = "idle" /\ hash_table[k] = Absent
    /\ Go(c, "threw") /\ proc' = "down"
    /\ UNCHANGED <<putVars, getVars, memVars, diskVars, replayed, crashes, histVars>>

\* The Index of the key.  One with flag_ 0 is taken for an address in memory.
Get(c, k) ==
    LET i == hash_table[k] IN
    /\ proc = "open" /\ pc[c] = "idle" /\ i # Absent
    /\ key' = [key EXCEPT ![c] = k] /\ idx' = [idx EXCEPT ![c] = i]
    /\ result' = [result EXCEPT ![c] = None]
    /\ seen' = [seen EXCEPT ![c] = {last[k]}]
    /\ IF IsNotFound(i) THEN Go(c, "got") /\ proc' = proc
       ELSE IF i.flag = 0 THEN Go(c, "fault") /\ proc' = "down"
       ELSE Go(c, "read") /\ proc' = proc
    /\ UNCHANGED <<putVars, memVars, diskVars, replayed, crashes, histVars>>

Read(c) ==
    /\ proc = "open" /\ pc[c] = "read"
    /\ result' = [result EXCEPT ![c] = Stored(idx[c])]
    /\ Go(c, "got")
    /\ UNCHANGED <<putVars, idx, key, seen, memVars, diskVars, runVars, histVars>>

Got(c) ==
    /\ proc = "open" /\ pc[c] = "got"
    /\ key' = [key EXCEPT ![c] = NoKey] /\ idx' = [idx EXCEPT ![c] = NoIndex]
    /\ result' = [result EXCEPT ![c] = None] /\ seen' = [seen EXCEPT ![c] = {}]
    /\ Go(c, "idle")
    /\ UNCHANGED <<putVars, memVars, diskVars, runVars, histVars>>

\* Delete finds the key, then erases it; the index files are not told.  (It
\* returns false for an Index that it takes for not_found.)
Delete(c, k) ==
    /\ proc = "open" /\ pc[c] = "idle"
    /\ hash_table[k] # Absent /\ ~IsNotFound(hash_table[k])
    /\ key' = [key EXCEPT ![c] = k]
    /\ Go(c, "erase")
    /\ UNCHANGED <<putVars, idx, result, seen, memVars, diskVars, runVars, histVars>>

Erase(c) ==
    /\ proc = "open" /\ pc[c] = "erase"
    /\ hash_table' = [hash_table EXCEPT ![key[c]] = Absent]
    /\ last' = [last EXCEPT ![key[c]] = Deleted]
    /\ key' = [key EXCEPT ![c] = NoKey]
    /\ Go(c, "idle")
    /\ UNCHANGED <<putVars, idx, result, seen, lock, file_num, diskVars, runVars, recs, acked>>

-----------------------------------------------------------------------------
(* The end of the process, and DB::Open                                    *)

\* What a file keeps: everything when the process ends, and at least what was
\* synced when the machine does.
Kept(seq, n) == {SubSeq(seq, 1, m) : m \in (IF PowerFails THEN n ELSE Len(seq)) .. Len(seq)}

Crash ==
    /\ crashes < MaxCrashes /\ crashes' = crashes + 1
    /\ \E df \in [1 .. Len(data_files) -> UNION {Kept(data_files[i].cells, data_files[i].synced) :
                                                   i \in 1 .. Len(data_files)}] :
        /\ \A i \in 1 .. Len(data_files) : df[i] \in Kept(data_files[i].cells, data_files[i].synced)
        /\ data_files' = [i \in 1 .. Len(data_files) |-> DataFile(Len(df[i]), df[i], Len(df[i]))]
    /\ \E xf \in [Slots -> UNION {Kept(index_files[s], 0) : s \in Slots}] :
        /\ \A s \in Slots : xf[s] \in Kept(index_files[s], 0)
        /\ index_files' = xf
    /\ last' = [k \in Keys |-> None]
    /\ proc' = "recover" /\ replayed' = [s \in Slots |-> 0]
    /\ lock' = Free /\ hash_table' = [k \in Keys |-> Absent] /\ file_num' = Len(data_files)
    /\ NoCall(pc', entries', buf', file', offset', key', idx', result', seen')
    /\ UNCHANGED <<recs, acked>>

\* The flag_ of the Index that is entered is the one of Index().
FromLog(i) == [file |-> i.file, off |-> i.off, len |-> i.len, flag |-> 0]

\* IndexCallback, one thread for each index file: a key with an empty value is
\* erased.
IndexCallback(s) ==
    LET e == index_files[s][replayed[s] + 1] IN
    /\ proc = "recover" /\ replayed[s] < Len(index_files[s])
    /\ hash_table' = [hash_table EXCEPT ![e.key] =
                        IF IsEmpty(e.idx) THEN Absent ELSE FromLog(e.idx)]
    /\ replayed' = [replayed EXCEPT ![s] = replayed[s] + 1]
    /\ UNCHANGED <<pc, putVars, getVars, lock, file_num, diskVars, proc, crashes, histVars>>

\* Recover has joined its threads.
Recovered ==
    /\ proc = "recover" /\ \A s \in Slots : replayed[s] = Len(index_files[s])
    /\ proc' = "open"
    /\ UNCHANGED <<pc, putVars, getVars, memVars, diskVars, replayed, crashes, histVars>>

-----------------------------------------------------------------------------
\* DB::Open of a directory that does not exist.
Init ==
    /\ NoCall(pc, entries, buf, file, offset, key, idx, result, seen)
    /\ lock = Free /\ file_num = 1 /\ hash_table = [k \in Keys |-> Absent]
    /\ data_files = <<DataFile(0, <<>>, 0)>> /\ index_files = [s \in Slots |-> <<>>]
    /\ proc = "open" /\ replayed = [s \in Slots |-> 0] /\ crashes = 0
    /\ recs = <<>> /\ acked = {} /\ last = [k \in Keys |-> None]

BatchEntries == UNION {[1 .. n -> [key : Keys, len : Sizes]] : n \in 1 .. MaxBatch}

PutStep(c) ==
    \/ ReadFileNum(c) \/ PickFile(c) \/ Reserve(c) \/ Full(c) \/ TryLock(c) \/ Grow(c)
    \/ Pwrite(c) \/ PwriteShort(c) \/ SyncFile(c) \/ Insert(c) \/ AppendIndex(c)

Next ==
    \/ \E c \in Writers, k \in Keys, n \in Sizes : Put(c, k, n)
    \/ \E c \in Writers, b \in BatchEntries : PutBatch(c, b)
    \/ \E c \in Writers, k \in Keys : Delete(c, k)
    \/ \E c \in Clients, k \in Keys : Get(c, k) \/ Throw(c, k)
    \/ \E c \in Clients : PutStep(c) \/ Read(c) \/ Got(c) \/ Erase(c) \/ WildFile(c)
    \/ Crash
    \/ \E s \in Slots : IndexCallback(s)
    \/ Recovered

Spec == Init /\ [][Next]_vars

\* Threads of the server run, and so do those of Recover.
FairSpec ==
    /\ Spec
    /\ \A c \in Clients : SF_vars(PutStep(c))
    /\ \A s \in Slots : WF_vars(IndexCallback(s))
    /\ WF_vars(Recovered)

-----------------------------------------------------------------------------
Index == [file : Nat, off : Nat, len : Nat, flag : {0, 1}]

TypeOK ==
    /\ pc \in [Clients -> {"idle", "lock", "file", "reserve", "trylock", "grow", "pwrite", "sync",
                           "index", "log", "read", "got", "erase", "threw", "fault", "exit"}]
    /\ entries \in [Clients -> Seq([key : Keys, off : Nat, len : Nat, id : Nat])]
    /\ buf \in [Clients -> Seq(Nat)]
    /\ file \in [Clients -> Nat] /\ offset \in [Clients -> Nat]
    /\ idx \in [Clients -> Index] /\ key \in [Clients -> Keys \cup {NoKey}]
    /\ result \in [Clients -> Nat] /\ seen \in [Clients -> SUBSET Int]
    /\ lock \in Clients \cup {Free} /\ file_num \in Nat
    /\ hash_table \in [Keys -> Index \cup {Absent}]
    /\ data_files \in Seq([off : Nat, cells : Seq(Nat), synced : Nat])
    /\ index_files \in [Slots -> Seq([key : Keys, idx : Index])]
    /\ proc \in {"open", "down", "recover"} /\ replayed \in [Slots -> Nat] /\ crashes \in Nat
    /\ recs \in Seq([key : Keys, len : Sizes]) /\ acked \subseteq Nat /\ last \in [Keys -> Nat \cup {Deleted}]

\* A get returns a record that its key had at some moment of the call.
ReadBack == \A c \in Clients : pc[c] = "got" => result[c] \in seen[c]

\* What a get finds in the table of an open database: for a key that the process
\* has put, an Index into a file, and there that record, whole (AppendData's
\* offset is where pwrite put the data); nothing for one that it has deleted; and
\* for the others nothing or what Recover entered.
TableMatches ==
    proc = "open" =>
        \A k \in Keys :
            LET i == hash_table[k] IN
            /\ last[k] > None => i # Absent /\ i.flag = 1 /\ Stored(i) = last[k]
            /\ last[k] = Deleted => i = Absent
            /\ last[k] = None => i = Absent \/ i.flag = 0

\* A put that has returned is not lost: the table of an open database, after
\* Recover too, has the place of its record or of a later one of the key, whole;
\* or nothing, when the process has deleted the key or, after Recover, when a
\* later record has an empty value.
PutsSurvive ==
    proc = "open" =>
        \A id \in acked :
            LET k == recs[id].key
                i == hash_table[k]
            IN  \/ last[k] = Deleted
                \/ /\ i # Absent /\ Stored(i) >= id /\ recs[Stored(i)] = [key |-> k, len |-> i.len]
                   /\ i.flag = 0 => ~IsEmpty(i)
                \/ /\ i = Absent
                   /\ \E j \in id .. Len(recs) : recs[j].key = k /\ IsEmpty(recs[j])

\* A get of a key that is in the table returns a record that was put for the key.
RereadValue ==
    \A c \in Clients : pc[c] \in {"got", "fault"} /\ key[c] # NoKey =>
        result[c] # None /\ recs[result[c]].key = key[c]

\* The assertion of Get, file_index < file_num_, for whatever Get may read; and
\* data_files_ holds every file that file_num_ counts.
FileIndexValid ==
    /\ file_num <= Len(data_files)
    /\ \A k \in Keys : hash_table[k] # Absent => hash_table[k].file < file_num

\* A put comes to an end, whatever other threads do with the lock.
PutReturns == \A c \in Clients : pc[c] = "lock" ~> pc[c] = "idle" \/ proc # "open"

=============================================================================
