--------------------------- MODULE HybridServer ----------------------------
(***************************************************************************)
(* The clerks of one hybrid server: they share the index im_index_ of the  *)
(* records that are still in the rings, the database, and the controller   *)
(* memory, of which each ring is a slot.  HybridRing has the handshake, the *)
(* sizes and the log of one connection; here a request is one step of its  *)
(* client, a record is one cell of a ring, and a batch is persisted when   *)
(* it is flushed.                                                          *)
(***************************************************************************)
EXTENDS Integers, Sequences, FiniteSets

CONSTANTS
    Conns,     \* connections
    Keys, KeysOf,  \* keys, and which of them the client of a connection writes
    Cells,     \* records that a ring holds
    Batch,     \* records of a batch
    Slots,     \* MAX_DMABUF_SIZE / MAX_ASYNC_SIZE
    Bits,      \* width of bitmap_
    Closers,   \* connections that are closed
    MaxPuts    \* bound: records

VARIABLES
    lpc, lconn, lslot, lbits,  \* Listen: where it is, whom it accepts, slot and bitmap_ it read
    bitmap,     \* bitmap_
    pc,         \* where each clerk is
    ring,       \* the buffer of each connection
    cbits,      \* bitmap_ as the callback of a closing clerk read it
    count,      \* records each client has placed
    batch,      \* key_batch and index_batch of each clerk
    mem,        \* contents of the buffers
    im_index,   \* key -> place in a buffer, or NoEntry
    db,         \* key -> record
    key, idx, result,  \* of the put or get in progress, or the last one
    raced,      \* history: a store to bitmap_ has overwritten another one
    recs,       \* history: key and connection of each record
    last,       \* history: the record that was last entered for each key
    seen        \* history: records that the key of a get had since it began

listenVars == <<lpc, lconn, lslot, lbits>>
getVars    == <<idx, result, seen>>
histVars   == <<recs, last>>
vars == <<listenVars, bitmap, raced, pc, ring, cbits, count, batch, mem, im_index, db, key,
          getVars, histVars>>

\* An entry of im_index_ is a place; rec is history.
Entry(b, i, r) == [buf |-> b, cell |-> i, rec |-> r]
NoEntry == Entry(-1, -1, 0)
NoRing  == -1
None    == 0       \* no record
Garbage == -1      \* memory that was given back, or never written
Buffers == (0 .. Slots - 1) \cup Conns

Bit(s) == 2 ^ (Bits - 1 - s)
IsSet(b, s) == (b \div Bit(s)) % 2 = 1

\* __builtin_clzll(~bitmap_): the first slot whose bit is not set.
FirstFree(b) == CHOOSE s \in 0 .. Bits : /\ \A t \in 0 .. s - 1 : IsSet(b, t)
                                         /\ s = Bits \/ ~IsSet(b, s)

Go(c, l) == pc' = [pc EXCEPT ![c] = l]

-----------------------------------------------------------------------------
(* Listen                                                                  *)

Closing(c) == pc[c] \in {"callback", "clear"}

\* A connection comes and a slot is chosen.
Accept(c) ==
    /\ lpc = "accept" /\ pc[c] = "new"
    /\ lconn' = c /\ lslot' = FirstFree(bitmap)
    /\ lpc' = IF FirstFree(bitmap) < Slots THEN "load" ELSE "heap"
    /\ UNCHANGED <<lbits, bitmap, raced, pc, ring, cbits, count, batch, mem, im_index, db, key,
                   getVars, histVars>>

\* bitmap_ = bitmap_ + bit: a load and a store.
LoadBits ==
    /\ lpc = "load"
    /\ lbits' = bitmap /\ lpc' = "store"
    /\ UNCHANGED <<lconn, lslot, bitmap, raced, pc, ring, cbits, count, batch, mem, im_index, db,
                   key, getVars, histVars>>

\* Mutant: the bit of the slot is not set.
StoreBitsNot ==
    /\ lpc = "store"
    /\ bitmap' = lbits
    /\ raced' = (raced \/ lbits # bitmap)
    /\ ring' = [ring EXCEPT ![lconn] = lslot]
    /\ Go(lconn, "idle") /\ lpc' = "accept"
    /\ UNCHANGED <<lconn, lslot, lbits, cbits, count, batch, mem, im_index, db, key, getVars,
                   histVars>>

StoreBits ==
    /\ lpc = "store"
    /\ bitmap' = (lbits + Bit(lslot)) % 2 ^ Bits
    /\ raced' = (raced \/ lbits # bitmap)
    /\ ring' = [ring EXCEPT ![lconn] = lslot]
    /\ Go(lconn, "idle") /\ lpc' = "accept"
    /\ UNCHANGED <<lconn, lslot, lbits, cbits, count, batch, mem, im_index, db, key, getVars,
                   histVars>>

\* No slot is left: the ring is allocated.
Allocate ==
    /\ lpc = "heap"
    /\ ring' = [ring EXCEPT ![lconn] = lconn]
    /\ Go(lconn, "idle") /\ lpc' = "accept"
    /\ UNCHANGED <<lconn, lslot, lbits, bitmap, raced, cbits, count, batch, mem, im_index, db, key,
                   getVars, histVars>>

-----------------------------------------------------------------------------
(* PUT                                                                     *)

\* The client places its record behind the last one, or at the start again.
Send(c, k) ==
    /\ pc[c] = "idle" /\ Len(recs) < MaxPuts
    /\ recs' = Append(recs, [key |-> k, conn |-> c])
    /\ mem' = [mem EXCEPT ![ring[c]][count[c] % Cells] = Len(recs) + 1]
    /\ count' = [count EXCEPT ![c] = count[c] + 1]
    /\ key' = [key EXCEPT ![c] = k] /\ idx' = [idx EXCEPT ![c] = NoEntry]
    /\ result' = [result EXCEPT ![c] = None] /\ seen' = [seen EXCEPT ![c] = {None}]
    /\ Go(c, "put")
    /\ UNCHANGED <<listenVars, bitmap, raced, ring, cbits, batch, im_index, db, last>>

\* Where the record is that a client sent last.
Sent(c) ==
    LET cell == (count[c] - 1) % Cells IN Entry(ring[c], cell, mem[ring[c]][cell])

\* The clerk enters the record in the shared index and in its batch.
Insert(c) ==
    /\ pc[c] = "put"
    /\ im_index' = [im_index EXCEPT ![key[c]] = Sent(c)]
    /\ batch' = [batch EXCEPT ![c] = Append(batch[c], [key |-> key[c], place |-> Sent(c)])]
    /\ last' = [last EXCEPT ![key[c]] = Sent(c).rec]
    /\ seen' = [d \in Conns |-> IF pc[d] \in {"copy", "db"} /\ key[d] = key[c]
                                THEN seen[d] \cup {Sent(c).rec} ELSE seen[d]]
    /\ Go(c, IF Len(batch[c]) + 1 = Batch THEN "flush" ELSE "idle")
    /\ UNCHANGED <<listenVars, bitmap, raced, ring, cbits, count, mem, db, key, idx, result, recs>>

\* PutBatch stores what the ring holds, in the order of the batch.
Stored(b) ==
    [k \in Keys |->
        LET own == { i \in 1 .. Len(b) : b[i].key = k }
            top == CHOOSE i \in own : \A j \in own : j <= i
        IN  IF own = {} THEN db[k] ELSE mem[b[top].place.buf][b[top].place.cell]]

Flush(c) ==
    /\ pc[c] = "flush"
    /\ db' = Stored(batch[c])
    /\ Go(c, "erase")
    /\ UNCHANGED <<listenVars, bitmap, raced, ring, cbits, count, batch, mem, im_index, key,
                   getVars, histVars>>

\* Mutant: the entries are kept.
EraseNot(c) ==
    /\ pc[c] = "erase"
    /\ batch' = [batch EXCEPT ![c] = Tail(batch[c])]
    /\ Go(c, IF Len(batch[c]) = 1 THEN "idle" ELSE "erase")
    /\ UNCHANGED <<listenVars, bitmap, raced, ring, cbits, count, mem, im_index, db, key, getVars,
                   histVars>>

\* The keys of the batch are erased one by one, whoever entered them last.
Erase(c) ==
    /\ pc[c] = "erase"
    /\ im_index' = [im_index EXCEPT ![batch[c][1].key] = NoEntry]
    /\ batch' = [batch EXCEPT ![c] = Tail(batch[c])]
    /\ Go(c, IF Len(batch[c]) = 1 THEN "idle" ELSE "erase")
    /\ UNCHANGED <<listenVars, bitmap, raced, ring, cbits, count, mem, db, key, getVars, histVars>>

-----------------------------------------------------------------------------
(* GET                                                                     *)

Find(c, k) ==
    /\ pc[c] = "idle"
    /\ key' = [key EXCEPT ![c] = k] /\ idx' = [idx EXCEPT ![c] = im_index[k]]
    /\ seen' = [seen EXCEPT ![c] = {last[k]}] /\ result' = [result EXCEPT ![c] = None]
    /\ Go(c, IF im_index[k] # NoEntry THEN "copy" ELSE "db")
    /\ UNCHANGED <<listenVars, bitmap, raced, ring, cbits, count, batch, mem, im_index, db, histVars>>

\* The bytes are copied from the ring after the index was read.
Copy(c) ==
    /\ pc[c] = "copy"
    /\ result' = [result EXCEPT ![c] = mem[idx[c].buf][idx[c].cell]]
    /\ Go(c, "idle")
    /\ UNCHANGED <<listenVars, bitmap, raced, ring, cbits, count, batch, mem, im_index, db, key,
                   idx, seen, histVars>>

DbGet(c) ==
    /\ pc[c] = "db"
    /\ result' = [result EXCEPT ![c] = db[key[c]]]
    /\ Go(c, "idle")
    /\ UNCHANGED <<listenVars, bitmap, raced, ring, cbits, count, batch, mem, im_index, db, key,
                   idx, seen, histVars>>

-----------------------------------------------------------------------------
(* CLOSE                                                                   *)

\* The rest of the batch is stored; nothing is erased from im_index_.
Close(c) ==
    /\ pc[c] = "idle"
    /\ db' = Stored(batch[c])
    /\ batch' = [batch EXCEPT ![c] = <<>>]
    /\ Go(c, "callback")
    /\ UNCHANGED <<listenVars, bitmap, raced, ring, cbits, count, mem, im_index, key, getVars,
                   histVars>>

\* The callback gives the ring back: bitmap_ = bitmap_ - bit, or delete.
ClearLoad(c) ==
    /\ pc[c] = "callback" /\ ring[c] \notin Conns
    /\ cbits' = [cbits EXCEPT ![c] = bitmap]
    /\ Go(c, "clear")
    /\ UNCHANGED <<listenVars, bitmap, raced, ring, count, batch, mem, im_index, db, key, getVars,
                   histVars>>

ClearStore(c) ==
    /\ pc[c] = "clear"
    /\ bitmap' = (cbits[c] - Bit(ring[c])) % 2 ^ Bits
    /\ raced' = (raced \/ cbits[c] # bitmap)
    /\ Go(c, "gone")
    /\ UNCHANGED <<listenVars, ring, cbits, count, batch, mem, im_index, db, key, getVars, histVars>>

Free(c) ==
    /\ pc[c] = "callback" /\ ring[c] \in Conns
    /\ mem' = [mem EXCEPT ![ring[c]] = [i \in 0 .. Cells - 1 |-> Garbage]]
    /\ Go(c, "gone")
    /\ UNCHANGED <<listenVars, bitmap, raced, ring, cbits, count, batch, im_index, db, key, getVars,
                   histVars>>

-----------------------------------------------------------------------------
Init ==
    /\ lpc = "accept" /\ lconn = (CHOOSE c \in Conns : TRUE) /\ lslot = 0 /\ lbits = 0
    /\ bitmap = 0 /\ raced = FALSE
    /\ pc = [c \in Conns |-> "new"] /\ ring = [c \in Conns |-> NoRing]
    /\ cbits = [c \in Conns |-> 0] /\ count = [c \in Conns |-> 0]
    /\ batch = [c \in Conns |-> <<>>]
    /\ mem = [b \in Buffers |-> [i \in 0 .. Cells - 1 |-> Garbage]]
    /\ im_index = [k \in Keys |-> NoEntry] /\ db = [k \in Keys |-> None]
    /\ key = [c \in Conns |-> CHOOSE k \in Keys : TRUE]
    /\ idx = [c \in Conns |-> NoEntry]
    /\ result = [c \in Conns |-> None] /\ seen = [c \in Conns |-> {None}]
    /\ recs = <<>> /\ last = [k \in Keys |-> None]

Next ==
    \/ LoadBits \/ StoreBits \/ Allocate
    \/ \E c \in Conns :
        \/ Accept(c) \/ Insert(c) \/ Flush(c) \/ Erase(c) \/ Copy(c) \/ DbGet(c)
        \/ c \in Closers /\ Close(c)
        \/ ClearLoad(c) \/ ClearStore(c) \/ Free(c)
        \/ \E k \in KeysOf[c] : Send(c, k)
        \/ \E k \in Keys : Find(c, k)

Spec == Init /\ [][Next]_vars

-----------------------------------------------------------------------------
\* Type correctness: what Listen and the clerks hold, with batches of at most
\* Batch records.
TypeOK ==
    /\ lpc \in {"accept", "load", "store", "heap"} /\ lconn \in Conns
    /\ lslot \in 0 .. Bits /\ lbits \in 0 .. 2 ^ Bits - 1 /\ bitmap \in 0 .. 2 ^ Bits - 1
    /\ pc \in [Conns -> {"new", "idle", "put", "flush", "erase", "copy", "db", "callback",
                         "clear", "gone"}]
    /\ ring \in [Conns -> Buffers \cup {NoRing}] /\ cbits \in [Conns -> 0 .. 2 ^ Bits - 1]
    /\ \A c \in Conns : Len(batch[c]) <= Batch
    /\ \A b \in Buffers, i \in 0 .. Cells - 1 : mem[b][i] \in Garbage .. Len(recs)
    /\ \A k \in Keys : db[k] \in Garbage .. Len(recs) /\ last[k] \in None .. Len(recs)

Open(c) == pc[c] \notin {"new", "gone"}

\* No two clients write to one ring, though slots are chosen by the listener from
\* a bitmap_ that clerks change meanwhile; unless a store to bitmap_, which has no
\* lock, has overwritten another one.
RingsApart ==
    ~raced => \A c, d \in Conns : Open(c) /\ Open(d) /\ ring[c] = ring[d] => c = d

\* Until then bitmap_ has the bits of the slots in use and no other: none is lost,
\* and none counted twice.
BitmapExact ==
    ~raced =>
        \A s \in 0 .. Bits - 1 : IsSet(bitmap, s) <=> \E c \in Conns : Open(c) /\ ring[c] = s

\* An entry of im_index_ leads to the record for which it was made, as long as the
\* connection of that record is open: however often the ring goes round and
\* whoever else writes or erases the key.
IndexLive ==
    ~raced =>
        \A k \in Keys :
            LET e == im_index[k] IN
            e # NoEntry /\ Open(recs[e.rec].conn) => recs[e.rec].key = k /\ mem[e.buf][e.cell] = e.rec

\* A key that one client writes.
Private(k) == Cardinality({c \in Conns : k \in KeysOf[c]}) = 1

\* A GET returns a record of its key, wherever it is: in a ring, in the database,
\* or on its way from one to the other.  For a key with one writer it is one that
\* the key had at some moment of the call.  The exception is a record that was
\* overwritten or given back after find and before memcpy, or whose connection
\* was closed.
GetCurrent ==
    ~raced =>
        \A c \in Conns :
            LET found == idx[c] # NoEntry IN
            pc[c] = "idle" /\ (found => result[c] = idx[c].rec) =>
                /\ result[c] # None => recs[result[c]].key = key[c]
                /\ Private(key[c]) => result[c] \in seen[c]

=============================================================================
