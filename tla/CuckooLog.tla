----------------------------- MODULE CuckooLog -----------------------------
(***************************************************************************)
(* The CuckooDB adapter over the log file database: a table in memory and  *)
(* a file to which every write is appended, used by the threads of the     *)
(* clerks.  The file is made durable by fdatasync, in each write once      *)
(* sync_ is set and by SetSync itself.  A value is the number of its       *)
(* write with the place in the batch; a write to the file has one place.   *)
(* LogDB is this adapter without the table.                                *)
(***************************************************************************)
EXTENDS Naturals, FiniteSets, Sequences, SequencesExt

CONSTANTS
    Threads, Keys,
    Batches,    \* thread -> the key sequences it puts: one for Put, more for PutBatch
    Sync,       \* option sync of the server
    Getters,    \* keys that GET may ask for although they are absent
    MaxOps      \* bound: writes in the life of a server

ASSUME LogAssumption ==
    /\ Batches \in [Threads -> SUBSET Seq(Keys)] /\ Sync \in BOOLEAN
    /\ Getters \subseteq Keys /\ MaxOps \in Nat

VARIABLES
    table,      \* db_: key -> value, or Absent
    file,       \* what the file has, place by place
    pos,        \* offset of the file
    dirty,      \* places written since they were last made durable
    sync_,
    pc, batch, id, at,  \* thread: place, keys not yet inserted, its write and where it is
    snap,       \* thread: the places its fdatasync writes out
    ops,        \* writes so far
    returned,   \* places of the writes that have returned
    armed,      \* the server has told a caller that it syncs
    down        \* the process has ended by an exception

threadVars == <<pc, batch, id, at, snap>>
vars == <<table, file, pos, dirty, sync_, threadVars, ops, returned, armed, down>>

Absent  == <<0, 0>>
NoBatch == [keys |-> <<>>, next |-> 1]

\* The records of a write as the file has them.
Records(n, keys) == [i \in DOMAIN keys |-> [key |-> keys[i], val |-> <<n, i>>]]

Go(t, from, to) == /\ pc[t] = from /\ ~down
                   /\ pc' = [pc EXCEPT ![t] = to]

-----------------------------------------------------------------------------
\* Put, Update and PutBatch are called.
Put(t) ==
    /\ Go(t, "idle", "insert") /\ ops < MaxOps
    /\ \E keys \in Batches[t] : batch' = [batch EXCEPT ![t] = [keys |-> keys, next |-> 1]]
    /\ ops' = ops + 1 /\ id' = [id EXCEPT ![t] = ops + 1]
    /\ UNCHANGED <<table, file, pos, dirty, sync_, at, snap, returned, armed, down>>

\* Mutant: a key that is in the table keeps its value.
InsertNew(t) ==
    LET b == batch[t] k == b.keys[b.next] IN
    /\ Go(t, "insert", IF b.next = Len(b.keys) THEN "write" ELSE "insert")
    /\ table' = IF table[k] = Absent THEN [table EXCEPT ![k] = <<id[t], b.next>>] ELSE table
    /\ batch' = [batch EXCEPT ![t].next = b.next + 1]
    /\ UNCHANGED <<file, pos, dirty, sync_, id, at, snap, ops, returned, armed, down>>

\* insert_or_assign of one key.
Insert(t) ==
    LET b == batch[t] k == b.keys[b.next] IN
    /\ Go(t, "insert", IF b.next = Len(b.keys) THEN "write" ELSE "insert")
    /\ table' = [table EXCEPT ![k] = <<id[t], b.next>>]
    /\ batch' = [batch EXCEPT ![t].next = b.next + 1]
    /\ UNCHANGED <<file, pos, dirty, sync_, id, at, snap, ops, returned, armed, down>>

\* write: the kernel takes the offset and moves it in one step.
Write(t) ==
    /\ Go(t, "write", "test")
    /\ pos' = pos + 1
    /\ file' = IF pos < Len(file) THEN [file EXCEPT ![pos + 1] = Records(id[t], batch[t].keys)]
                                  ELSE Append(file, Records(id[t], batch[t].keys))
    /\ dirty' = dirty \cup {pos + 1}
    /\ at' = [at EXCEPT ![t] = pos + 1]
    /\ UNCHANGED <<table, sync_, batch, id, snap, ops, returned, armed, down>>

\* if (sync_), read without a lock.
Test(t) ==
    /\ Go(t, "test", IF sync_ THEN "fdatasync" ELSE "return")
    /\ UNCHANGED <<table, file, pos, dirty, sync_, batch, id, at, snap, ops, returned, armed, down>>

\* fdatasync writes out what is dirty when it is called,
FdatasyncCall(t) ==
    /\ \/ Go(t, "fdatasync", "flushing")
       \/ Go(t, "set", "setting")
    /\ snap' = [snap EXCEPT ![t] = dirty]
    /\ UNCHANGED <<table, file, pos, dirty, sync_, batch, id, at, ops, returned, armed, down>>

\* and returns when it is durable.
FdatasyncDone(t) ==
    /\ \/ Go(t, "flushing", "return")
       \/ Go(t, "setting", "armed")
    /\ dirty' = dirty \ snap[t] /\ snap' = [snap EXCEPT ![t] = {}]
    /\ UNCHANGED <<table, file, pos, sync_, batch, id, at, ops, returned, armed, down>>

Return(t) ==
    /\ Go(t, "return", "idle")
    /\ returned' = returned \cup {at[t]}
    /\ batch' = [batch EXCEPT ![t] = NoBatch]
    /\ id' = [id EXCEPT ![t] = 0] /\ at' = [at EXCEPT ![t] = 0]
    /\ UNCHANGED <<table, file, pos, dirty, sync_, snap, ops, armed, down>>

\* Mutant: sync_ is set, and what was written before stays as it is.
SetSyncOnly(t) ==
    /\ Go(t, "idle", "armed")
    /\ sync_' = TRUE
    /\ UNCHANGED <<table, file, pos, dirty, batch, id, at, snap, ops, returned, armed, down>>

SetSync(t) ==
    /\ Go(t, "idle", "set")
    /\ sync_' = TRUE
    /\ UNCHANGED <<table, file, pos, dirty, batch, id, at, snap, ops, returned, armed, down>>

SetSyncReturns(t) ==
    /\ Go(t, "armed", "idle")
    /\ armed' = TRUE
    /\ UNCHANGED <<table, file, pos, dirty, sync_, batch, id, at, snap, ops, returned, down>>

\* erase; the log has no record of it.
Delete(t, k) ==
    /\ Go(t, "idle", "idle")
    /\ table' = [table EXCEPT ![k] = Absent]
    /\ UNCHANGED <<file, pos, dirty, sync_, batch, id, at, snap, ops, returned, armed, down>>

\* find throws when the key is absent, and nobody catches it.
Get(t, k) ==
    /\ Go(t, "idle", "idle")
    /\ table[k] = Absent => k \in Getters
    /\ down' = (table[k] = Absent)
    /\ UNCHANGED <<table, file, pos, dirty, sync_, batch, id, at, snap, ops, returned, armed>>

\* The server starts: the file keeps its contents and its offset is 0, and
\* nothing reads it into the table.
Open ==
    /\ table' = [k \in Keys |-> Absent]
    /\ pos' = 0 /\ sync_' = Sync /\ armed' = Sync
    /\ pc' = [t \in Threads |-> "idle"]
    /\ batch' = [t \in Threads |-> NoBatch]
    /\ id' = [t \in Threads |-> 0] /\ at' = [t \in Threads |-> 0]
    /\ snap' = [t \in Threads |-> {}]
    /\ ops' = 0 /\ returned' = {} /\ down' = FALSE

\* A loss of power keeps what is durable, and any of the rest.
PowerLoss ==
    /\ file # <<>>
    /\ \E lost \in SUBSET dirty : file' = [p \in DOMAIN file |-> IF p \in lost THEN <<>> ELSE file[p]]
    /\ dirty' = {}
    /\ Open

\* The end of the process keeps the file.
Restart ==
    /\ UNCHANGED <<file, dirty>>
    /\ Open

-----------------------------------------------------------------------------
Init ==
    /\ table = [k \in Keys |-> Absent]
    /\ file = <<>> /\ pos = 0 /\ dirty = {}
    /\ sync_ = Sync /\ armed = Sync
    /\ pc = [t \in Threads |-> "idle"]
    /\ batch = [t \in Threads |-> NoBatch]
    /\ id = [t \in Threads |-> 0] /\ at = [t \in Threads |-> 0]
    /\ snap = [t \in Threads |-> {}]
    /\ ops = 0 /\ returned = {} /\ down = FALSE

Step(t) ==
    \/ Put(t) \/ Insert(t) \/ Write(t) \/ Test(t) \/ FdatasyncCall(t) \/ FdatasyncDone(t) \/ Return(t)
    \/ SetSync(t) \/ SetSyncReturns(t)
    \/ \E k \in Keys : Delete(t, k) \/ Get(t, k)

Next == (\E t \in Threads : Step(t)) \/ PowerLoss \/ Restart

Spec == Init /\ [][Next]_vars

-----------------------------------------------------------------------------
\* Type correctness of the adapter.
TypeOK ==
    /\ table \in [Keys -> Nat \X Nat]
    /\ pos \in 0 .. Len(file) /\ dirty \subseteq DOMAIN file /\ sync_ \in BOOLEAN
    /\ pc \in [Threads -> {"idle", "insert", "write", "test", "fdatasync", "flushing", "return",
                           "set", "setting", "armed"}]
    /\ id \in [Threads -> 0 .. MaxOps] /\ at \in [Threads -> 0 .. pos]
    /\ snap \in [Threads -> SUBSET (DOMAIN file)]
    /\ ops \in 0 .. MaxOps /\ returned \subseteq 1 .. pos
    /\ armed \in BOOLEAN /\ down \in BOOLEAN

\* Once SetSync has returned, every write that has returned, before or after, is
\* durable: also a write that found sync_ unset and returns later.
SyncedDurable == armed => returned \cap dirty = {}

\* Places that are not durable although their write has returned, or is about to.
Loose == (returned \cup {at[t] : t \in {u \in Threads : pc[u] = "return"}}) \cap dirty

\* Why: sync_ is set before SetSync's fdatasync begins, so that what it does not
\* write out is written out by the writes themselves.
SyncInv ==
    /\ armed => sync_ /\ Loose = {}
    /\ \A t \in Threads :
        /\ pc[t] \in {"set", "setting", "armed"} => sync_
        /\ pc[t] = "setting" => Loose \subseteq snap[t]
        /\ pc[t] = "armed" => Loose = {}
        /\ pc[t] = "flushing" => at[t] \notin dirty \ snap[t]

\* What the log says of a key: its last record in the part this server wrote.
Logged(k) ==
    LET all == FlattenSeq(SubSeq(file, 1, pos))
        of  == {i \in DOMAIN all : all[i].key = k}
    IN  IF of = {} THEN Absent ELSE all[CHOOSE i \in of : \A j \in of : j <= i].val

\* With one writer of a key at a time, the log and the table agree on every key
\* that is in the table and that no thread is writing.
LogMatchesTable ==
    \A k \in Keys :
        \/ table[k] \in {Absent, Logged(k)}
        \/ \E t \in Threads : pc[t] \in {"insert", "write"} /\ k \in ToSet(batch[t].keys)

=============================================================================
