----------------------------- MODULE HybridRing -----------------------------
(***************************************************************************)
(* One connection of the hybrid frontend: a HybridClient, its HybridClerk, *)
(* the ring in persistent memory that the client fills by RDMA, and the    *)
(* threads that copy batches of the ring to pmrlog.log.                    *)
(*                                                                         *)
(* The client never tells the clerk where in the ring it put a record, and *)
(* the clerk never tells the client where its batch starts except by a     *)
(* tail that a persist thread writes back later: both sides compute the    *)
(* positions on their own.  Ring positions keep their arithmetic; a record *)
(* is its number in the order of the writes, in every cell it occupies.    *)
(*                                                                         *)
(* PUT and UPDATE take the same path on both sides (one write here).  The  *)
(* database behind DBType is the LevelDB adapter.                          *)
(***************************************************************************)
EXTENDS Integers, Sequences, FiniteSets

CONSTANTS
    Keys,            \* keys of the store
    Sizes,           \* total_len of a write: header, key and value
    MAX_ASYNC_SIZE,  \* size of the ring
    BATCH_SIZE,      \* bytes that make the clerk flush its batch
    RING_HEADER,     \* first position of the ring that holds records
    BG_SYNC,         \* build flag: batches are persisted by a detached thread
    MaxPuts          \* bound: writes of the client

NoKey == "no key"

ASSUME RingAssumption ==
    /\ MAX_ASYNC_SIZE \in Nat /\ BATCH_SIZE \in Nat \ {0} /\ RING_HEADER \in Nat \ {0}
    /\ Sizes \subseteq Nat \ {0}
    /\ RING_HEADER < MAX_ASYNC_SIZE
    /\ \A s \in Sizes : RING_HEADER + s < MAX_ASYNC_SIZE
    /\ NoKey \notin Keys
    /\ BG_SYNC \in BOOLEAN
    /\ MaxPuts \in Nat

VARIABLES
    \* the client
    cpc,         \* where the client is: idle, or what it waits for
    pend,        \* the write it is working on, or the key of a simple request
    buf_head,    \* HybridClient::buf_head_
    buf_tail,    \* *HybridClient::buf_tail_, written by persist threads
    header,      \* *HybridClient::header_, written by the clerk
    answer,      \* the reply in the client's buffer
    \* the reliable connection: RDMA writes posted and not yet placed
    toClerk, toClient,
    cq,          \* completions waiting in the clerk's out_cq
    \* the clerk
    kpc,         \* where HybridClerk::Run is
    kheader,     \* header word of send_buf_
    message,     \* words of send_buf_ behind the header: the request, then its reply
    ktail,       \* HybridClerk::buf_tail_
    batch,       \* key_batch and index_batch
    batch_length,
    ring,        \* write_buf_, in persistent memory
    im_index,    \* key -> place of its newest record in the ring
    db,          \* key -> record number (the database behind DBType)
    \* the persist threads and the log file
    threads, mu, log, synced,
    \* history
    recs,        \* every write posted: key, length and place in the ring
    last         \* key -> last acknowledged write, Unknown once deleted

clientVars  == <<cpc, pend, buf_head, buf_tail, header, answer>>
netVars     == <<toClerk, toClient, cq>>
clerkVars   == <<kpc, kheader, message, ktail, batch, batch_length>>
storeVars   == <<ring, im_index, db>>
persistVars == <<threads, mu, log, synced>>
histVars    == <<recs, last>>
vars == <<clientVars, netVars, clerkVars, storeVars, persistVars, histVars>>

CLIENT_DONE == "CLIENT_DONE"
CLERK_DONE  == "CLERK_DONE"
None    == 0                              \* no record: ids start at 1
Unknown == -1
Simple  == {"GET", "DELETE", "SYNC"}      \* requests that carry no record
NoEntry == [pos |-> 0, len |-> 0]
Cells   == 0 .. (MAX_ASYNC_SIZE - 1)

\* What a reader of len bytes at pos finds: a record, or None when torn.
ReadAt(r, pos, len) ==
    IF \A i \in pos .. (pos + len - 1) : r[i] = r[pos] THEN r[pos] ELSE None

Meta(op, k, len, id) == [kind |-> "meta", op |-> op, key |-> k, len |-> len, id |-> id]
Record(pos, len, id) == [kind |-> "record", pos |-> pos, len |-> len, id |-> id]
Hdr     == [kind |-> "header"]
SendMsg == [kind |-> "send"]
Reply(rep)  == [kind |-> "reply", rep |-> rep]
TailWord(t) == [kind |-> "tail", tail |-> t]
NoPend   == [key |-> NoKey, len |-> 0]
Ok       == [status |-> "OK", val |-> None]
NoAnswer == [status |-> "none", val |-> None]

-----------------------------------------------------------------------------
(* The client                                                              *)

\* Posts the request, the record at pos and the header, in this order.
PostWrite(pos) ==
    LET id == Len(recs) + 1 IN
    /\ toClerk' = toClerk \o << Meta("PUT", pend.key, pend.len, id),
                                Record(pos, pend.len, id), Hdr >>
    /\ buf_head' = pos + pend.len
    /\ recs' = Append(recs, [key |-> pend.key, len |-> pend.len, pos |-> pos])
    /\ cpc' = "write"

\* The end of the ring is too near for a record of len bytes.
PastEnd(len) == buf_head + len >= MAX_ASYNC_SIZE

\* SendWrite up to its wait for room; a NOP first when the end is too near.
StartWrite(k, len) ==
    /\ cpc = "idle" /\ Len(recs) < MaxPuts
    /\ pend' = [key |-> k, len |-> len]
    /\ IF PastEnd(len)
       THEN /\ toClerk' = toClerk \o << Meta("NOP", NoKey, 0, None), Hdr >>
            /\ cpc' = "nop"
       ELSE /\ cpc' = "space"
            /\ UNCHANGED toClerk
    /\ UNCHANGED <<buf_head, buf_tail, header, answer, toClient, cq,
                   clerkVars, storeVars, persistVars, histVars>>

\* The wait of the branch that does not rewind, then the write.
WriteInPlace ==
    /\ cpc = "space"
    /\ ~(buf_head < buf_tail /\ buf_head + pend.len >= buf_tail)
    /\ PostWrite(buf_head)
    /\ UNCHANGED <<pend, buf_tail, header, answer, toClient, cq,
                   clerkVars, storeVars, persistVars, last>>

NopAcked ==
    /\ cpc = "nop" /\ header = CLERK_DONE
    /\ header' = CLIENT_DONE
    /\ cpc' = "rewind" /\ answer' = NoAnswer
    /\ UNCHANGED <<pend, buf_head, buf_tail, netVars,
                   clerkVars, storeVars, persistVars, histVars>>

\* The wait of the branch that rewinds, then the write at the start.
RewindAndWrite ==
    /\ cpc = "rewind"
    /\ ~(buf_head <= buf_tail)
    /\ PostWrite(RING_HEADER)
    /\ UNCHANGED <<pend, buf_tail, header, answer, toClient, cq,
                   clerkVars, storeVars, persistVars, last>>

\* WriteAcked that leaves the header word for the next call.
WriteAckedNoReset ==
    /\ cpc = "write" /\ header = CLERK_DONE
    /\ cpc' = "idle" /\ pend' = NoPend /\ answer' = NoAnswer
    /\ last' = [last EXCEPT ![pend.key] = Len(recs)]
    /\ UNCHANGED <<header, buf_head, buf_tail, netVars,
                   clerkVars, storeVars, persistVars, recs>>

WriteAcked ==
    /\ cpc = "write" /\ header = CLERK_DONE
    /\ header' = CLIENT_DONE
    /\ cpc' = "idle" /\ pend' = NoPend /\ answer' = NoAnswer
    /\ last' = [last EXCEPT ![pend.key] = Len(recs)]
    /\ UNCHANGED <<buf_head, buf_tail, netVars,
                   clerkVars, storeVars, persistVars, recs>>

\* SendGet, SendDelete, SendSync: request and header, then the wait.
SendSimple(op, k) ==
    /\ cpc = "idle"
    /\ pend' = [key |-> k, len |-> 0]
    /\ toClerk' = toClerk \o << Meta(op, k, 0, None), Hdr >>
    /\ cpc' = op
    /\ UNCHANGED <<buf_head, buf_tail, header, answer, toClient, cq,
                   clerkVars, storeVars, persistVars, histVars>>

SimpleAcked ==
    /\ cpc \in Simple /\ header = CLERK_DONE
    /\ header' = CLIENT_DONE
    /\ cpc' = "idle" /\ pend' = NoPend /\ answer' = NoAnswer
    /\ last' = IF cpc = "DELETE" THEN [last EXCEPT ![pend.key] = Unknown] ELSE last
    /\ UNCHANGED <<buf_head, buf_tail, netVars,
                   clerkVars, storeVars, persistVars, recs>>

\* SendClose: no acknowledgement, only a send that needs a posted receive.
SendClose ==
    /\ cpc = "idle"
    /\ toClerk' = toClerk \o << Meta("CLOSE", NoKey, 0, None), Hdr, SendMsg >>
    /\ cpc' = "closed"
    /\ UNCHANGED <<pend, buf_head, buf_tail, header, answer, toClient, cq,
                   clerkVars, storeVars, persistVars, histVars>>

-----------------------------------------------------------------------------
(* The connection: writes of one queue pair are placed in posting order.   *)

PlaceAtClerk ==
    /\ toClerk # <<>>
    /\ LET m == Head(toClerk) IN
       /\ m.kind # "send"
       /\ message' = IF m.kind = "meta" THEN m ELSE message
       /\ ring' = IF m.kind = "record"
                  THEN [c \in Cells |->
                          IF c \in m.pos .. (m.pos + m.len - 1) THEN m.id ELSE ring[c]]
                  ELSE ring
       /\ kheader' = IF m.kind = "header" THEN CLIENT_DONE ELSE kheader
    /\ toClerk' = Tail(toClerk)
    /\ UNCHANGED <<clientVars, toClient, cq, kpc, ktail, batch, batch_length,
                   im_index, db, persistVars, histVars>>

\* The header and the tail word are posted signaled: each leaves a completion.
SignaledHeaderOnly == {"header"}

Signaled == {"header", "tail"}

PlaceAtClient ==
    /\ toClient # <<>>
    /\ LET m == Head(toClient) IN
       /\ answer' = IF m.kind = "reply" THEN m.rep ELSE answer
       /\ header' = IF m.kind = "header" THEN CLERK_DONE ELSE header
       /\ buf_tail' = IF m.kind = "tail" THEN m.tail ELSE buf_tail
       /\ cq' = IF m.kind \in Signaled THEN cq + 1 ELSE cq
    /\ toClient' = Tail(toClient)
    /\ UNCHANGED <<cpc, pend, buf_head, toClerk, clerkVars, storeVars, persistVars, histVars>>

\* poll_one_completion(true): any completion of out_cq, whoever posted its write.
TakeCompletion ==
    /\ cq > 0
    /\ cq' = cq - 1

-----------------------------------------------------------------------------
(* The clerk: one action per request, taken when the header says CLIENT_DONE. *)

Woken(op) ==
    /\ kpc = "spin" /\ kheader = CLIENT_DONE
    /\ message.op = op
    /\ kheader' = CLERK_DONE

\* The request joined to the batch, as key_batch and index_batch record it.
Joined == Append(batch, [key |-> message.key, off |-> batch_length,
                         len |-> message.len, id |-> message.id])

\* The batch b as the copy of the ring from buf_tail_ on holds it.
Copied(b) == [i \in 1 .. Len(b) |-> ReadAt(ring, ktail + b[i].off, b[i].len)]

\* buf_tail_ behind a batch of len bytes: a short batch ends a run of the ring.
NextTail(len) ==
    IF len < BATCH_SIZE \/ ktail + len = MAX_ASYNC_SIZE THEN RING_HEADER ELSE ktail + len

\* The entry i of the batch b is the last one of its key.
Newest(b, i) == \A j \in (i + 1) .. Len(b) : b[j].key # b[i].key

\* The keys of the batch b, each by its last entry.
KeysOf(b) == { b[i].key : i \in { j \in 1 .. Len(b) : Newest(b, j) } }

\* DBType::PutBatch: the last record of a key in the batch wins.
PutBatch(b) ==
    db' = [k \in Keys |->
             IF k \in KeysOf(b)
             THEN Copied(b)[CHOOSE i \in 1 .. Len(b) : b[i].key = k /\ Newest(b, i)]
             ELSE db[k]]

\* im_index_ without the keys of the batch b.
ErasedNothing(b) == im_index

Erased(b) == [k \in Keys |-> IF k \in KeysOf(b) THEN NoEntry ELSE im_index[k]]

\* A flush that goes on with the batch it has handed over.
FlushKeepsBatch(b, len) ==
    /\ PutBatch(b)
    /\ ktail' = NextTail(len)
    /\ threads' = Append(threads, [data |-> Copied(b), tail |-> NextTail(len), st |-> "start"])
    /\ batch' = b
    /\ batch_length' = 0

\* Copies the batch, stores it, moves the tail and hands the copy to a thread.
Flush(b, len) ==
    /\ PutBatch(b)
    /\ ktail' = NextTail(len)
    /\ threads' = Append(threads, [data |-> Copied(b), tail |-> NextTail(len), st |-> "start"])
    /\ batch' = <<>>
    /\ batch_length' = 0

IsFull(len) == len >= BATCH_SIZE \/ ktail + len = MAX_ASYNC_SIZE

ClerkPut ==
    LET len == batch_length + message.len IN
    /\ Woken("PUT") /\ ~IsFull(len)
    /\ batch' = Joined
    /\ batch_length' = len
    /\ im_index' = [im_index EXCEPT ![message.key] =
                      [pos |-> ktail + batch_length, len |-> message.len]]
    /\ message' = Ok
    /\ kpc' = "reply"
    /\ UNCHANGED <<clientVars, netVars, ktail, ring, db, persistVars, histVars>>

ClerkPutAndFlush ==
    LET len == batch_length + message.len IN
    /\ Woken("PUT") /\ IsFull(len)
    /\ Flush(Joined, len)
    /\ im_index' = Erased(Joined)
    /\ message' = Ok
    /\ kpc' = IF BG_SYNC THEN "reply" ELSE "persist"
    /\ UNCHANGED <<clientVars, netVars, ring, mu, log, synced, histVars>>

ClerkNop ==
    /\ Woken("NOP")
    /\ Flush(batch, batch_length)
    /\ im_index' = Erased(batch)
    /\ message' = Ok
    /\ kpc' = IF BG_SYNC THEN "reply" ELSE "persist"
    /\ UNCHANGED <<clientVars, netVars, ring, mu, log, synced, histVars>>

\* The in-memory index first, then the database.
Lookup(k) ==
    IF im_index[k] # NoEntry
    THEN [status |-> "OK", val |-> ReadAt(ring, im_index[k].pos, im_index[k].len)]
    ELSE [status |-> IF db[k] # None THEN "OK" ELSE "NOTFOUND", val |-> db[k]]

ClerkGet ==
    /\ Woken("GET")
    /\ message' = Lookup(message.key)
    /\ kpc' = "reply"
    /\ UNCHANGED <<clientVars, netVars, ktail, batch, batch_length,
                   storeVars, persistVars, histVars>>

\* Only the database forgets the key: batch and im_index_ stay as they are.
\* LevelDB::Delete succeeds whether or not it holds the key.
ClerkDelete ==
    /\ Woken("DELETE")
    /\ message' = Ok
    /\ db' = [db EXCEPT ![message.key] = None]
    /\ kpc' = "reply"
    /\ UNCHANGED <<clientVars, netVars, ktail, batch, batch_length,
                   ring, im_index, persistVars, histVars>>

\* SetSync changes the database only; the reply keeps the request's words.
ClerkSync ==
    /\ Woken("SYNC")
    /\ kpc' = "reply"
    /\ UNCHANGED <<clientVars, netVars, message, ktail, batch, batch_length,
                   storeVars, persistVars, histVars>>

\* A close that forgets the last batch.
ClerkCloseNoFlush ==
    /\ Woken("CLOSE")
    /\ kpc' = "recv"
    /\ UNCHANGED <<clientVars, netVars, message, ktail, batch, batch_length,
                   storeVars, persistVars, histVars>>

\* The last batch is flushed, its index entries stay, and it is persisted here.
ClerkClose ==
    /\ Woken("CLOSE")
    /\ IF batch_length > 0
       THEN /\ Flush(batch, batch_length)
            /\ kpc' = "closing"
       ELSE /\ kpc' = "recv"
            /\ UNCHANGED <<db, ktail, threads, batch, batch_length>>
    /\ UNCHANGED <<clientVars, netVars, message, ring, im_index, mu, log, synced, histVars>>

\* persist_func called by the clerk itself has returned.
ClerkPersisted ==
    /\ kpc \in {"persist", "closing"} /\ threads[Len(threads)].st = "done"
    /\ kpc' = IF kpc = "closing" THEN "recv" ELSE "reply"
    /\ UNCHANGED <<clientVars, netVars, kheader, message, ktail, batch, batch_length,
                   storeVars, persistVars, histVars>>

ClerkReply ==
    /\ kpc = "reply"
    /\ toClient' = toClient \o << Reply(message), Hdr >>
    /\ kpc' = "poll"
    /\ UNCHANGED <<clientVars, toClerk, cq, kheader, message, ktail, batch, batch_length,
                   storeVars, persistVars, histVars>>

\* Takes one completion of out_cq, which may be a persist thread's.
ClerkPoll ==
    /\ kpc = "poll" /\ TakeCompletion
    /\ kpc' = "spin"
    /\ UNCHANGED <<clientVars, toClerk, toClient, kheader, message, ktail, batch, batch_length,
                   storeVars, persistVars, histVars>>

\* The client's send has met the receive: the buffer is released, clk destroyed.
ClerkGone ==
    /\ kpc = "recv" /\ toClerk = << SendMsg >>
    /\ toClerk' = <<>>
    /\ kpc' = "gone"
    /\ UNCHANGED <<clientVars, toClient, cq, kheader, message, ktail, batch, batch_length,
                   storeVars, persistVars, histVars>>

-----------------------------------------------------------------------------
(* persist_func, under clk->mu_                                            *)

PersistWrite(t) ==
    /\ threads[t].st = "start" /\ mu = 0
    /\ mu' = t
    /\ log' = Append(log, threads[t].data)
    /\ threads' = [threads EXCEPT ![t].st = "sync"]
    /\ UNCHANGED <<clientVars, netVars, clerkVars, storeVars, synced, histVars>>

\* persist_func without its fdatasync.
PersistNoSync(t) ==
    /\ threads[t].st = "sync"
    /\ threads' = [threads EXCEPT ![t].st = "post"]
    /\ UNCHANGED <<clientVars, netVars, clerkVars, storeVars, synced, mu, log, histVars>>

PersistSync(t) ==
    /\ threads[t].st = "sync"
    /\ synced' = Len(log)
    /\ threads' = [threads EXCEPT ![t].st = "post"]
    /\ UNCHANGED <<clientVars, netVars, clerkVars, storeVars, mu, log, histVars>>

PersistPost(t) ==
    /\ threads[t].st = "post" /\ kpc # "gone"
    /\ toClient' = Append(toClient, TailWord(threads[t].tail))
    /\ threads' = [threads EXCEPT ![t].st = "poll"]
    /\ UNCHANGED <<clientVars, toClerk, cq, clerkVars, storeVars, mu, log, synced, histVars>>

\* PersistPoll that keeps clk->mu_.
PersistPollLocked(t) ==
    /\ threads[t].st = "poll" /\ kpc # "gone" /\ TakeCompletion
    /\ threads' = [threads EXCEPT ![t].st = "done"]
    /\ UNCHANGED <<clientVars, toClerk, toClient, clerkVars, storeVars, mu, log, synced, histVars>>

PersistPoll(t) ==
    /\ threads[t].st = "poll" /\ kpc # "gone" /\ TakeCompletion
    /\ mu' = 0
    /\ threads' = [threads EXCEPT ![t].st = "done"]
    /\ UNCHANGED <<clientVars, toClerk, toClient, clerkVars, storeVars, log, synced, histVars>>

\* clk is gone while a detached thread still uses clk->mu_ and clk->context_:
\* the thread may be lost at any point.
PersistLost(t) ==
    /\ kpc = "gone" /\ threads[t].st \notin {"done", "lost"}
    /\ threads' = [threads EXCEPT ![t].st = "lost"]
    /\ UNCHANGED <<clientVars, netVars, clerkVars, storeVars, mu, log, synced, histVars>>

-----------------------------------------------------------------------------
Init ==
    /\ cpc = "idle" /\ pend = NoPend
    /\ buf_head = RING_HEADER /\ buf_tail = RING_HEADER
    /\ header = CLIENT_DONE /\ answer = NoAnswer
    /\ toClerk = <<>> /\ toClient = <<>> /\ cq = 0
    /\ kpc = "spin" /\ kheader = CLERK_DONE
    /\ message = Ok
    /\ ktail = RING_HEADER /\ batch = <<>> /\ batch_length = 0
    /\ ring = [c \in Cells |-> None]
    /\ im_index = [k \in Keys |-> NoEntry] /\ db = [k \in Keys |-> None]
    /\ threads = <<>> /\ mu = 0 /\ log = <<>> /\ synced = 0
    /\ recs = <<>> /\ last = [k \in Keys |-> None]

ClientStep ==
    \/ \E k \in Keys, len \in Sizes : StartWrite(k, len)
    \/ WriteInPlace \/ NopAcked \/ RewindAndWrite \/ WriteAcked
    \/ \E op \in {"GET", "DELETE"}, k \in Keys : SendSimple(op, k)
    \/ SendSimple("SYNC", NoKey) \/ SimpleAcked \/ SendClose

ClerkStep ==
    \/ ClerkPut \/ ClerkPutAndFlush \/ ClerkNop \/ ClerkGet \/ ClerkDelete \/ ClerkSync
    \/ ClerkClose \/ ClerkPersisted \/ ClerkReply \/ ClerkPoll \/ ClerkGone

PersistStep(t) ==
    PersistWrite(t) \/ PersistSync(t) \/ PersistPost(t) \/ PersistPoll(t) \/ PersistLost(t)

Next ==
    \/ ClientStep
    \/ PlaceAtClerk \/ PlaceAtClient
    \/ ClerkStep
    \/ \E t \in 1 .. Len(threads) : PersistStep(t)

Spec == Init /\ [][Next]_vars

\* The client goes on when what it waits for has come.
ClientResumes == WriteInPlace \/ NopAcked \/ RewindAndWrite \/ WriteAcked \/ SimpleAcked

PersistThreads == \E t \in 1 .. Len(threads) : PersistStep(t)

\* The network delivers, the spinning client and clerk are scheduled, and some
\* persist thread that can go on does.  Nothing orders the threads: whichever
\* is at clk->mu_ first takes it, for std::mutex is not a queue.
Fairness ==
    /\ WF_vars(PlaceAtClerk) /\ WF_vars(PlaceAtClient)
    /\ WF_vars(ClientResumes) /\ WF_vars(ClerkStep) /\ WF_vars(PersistThreads)

FairSpec == Spec /\ Fairness

-----------------------------------------------------------------------------
(* Properties                                                              *)

Replies  == [status : {"none", "OK", "NOTFOUND"}, val : Nat]
Requests == [kind : {"meta"}, op : Simple \cup {"PUT", "NOP", "CLOSE"},
             key : Keys \cup {NoKey}, len : Nat, id : Nat]
ToClient == [kind : {"reply"}, rep : Replies \cup Requests] \cup {Hdr}
              \cup [kind : {"tail"}, tail : Nat]

\* Type invariant.
TypeOK ==
    /\ cpc \in Simple \cup {"idle", "space", "nop", "rewind", "write", "closed"}
    /\ pend \in [key : Keys \cup {NoKey}, len : Nat]
    /\ buf_head \in Nat /\ buf_tail \in Nat
    /\ header \in {CLIENT_DONE, CLERK_DONE} /\ answer \in Replies \cup Requests
    /\ toClient \in Seq(ToClient) /\ cq \in Nat
    /\ kpc \in {"spin", "persist", "closing", "reply", "poll", "recv", "gone"}
    /\ kheader \in {CLIENT_DONE, CLERK_DONE}
    /\ message \in Requests \cup Replies
    /\ ktail \in Nat /\ batch_length \in Nat
    /\ batch \in Seq([key : Keys, off : Nat, len : Nat, id : Nat])
    /\ ring \in [Cells -> Nat]
    /\ im_index \in [Keys -> [pos : Nat, len : Nat]] /\ db \in [Keys -> Nat]
    /\ threads \in Seq([data : Seq(Nat), tail : Nat,
                        st : {"start", "sync", "post", "poll", "done", "lost"}])
    /\ mu \in Nat /\ log \in Seq(Seq(Nat)) /\ synced \in Nat
    /\ recs \in Seq([key : Keys, len : Nat, pos : Nat])
    /\ last \in [Keys -> Int]

\* The clerk finds every record of its unflushed batch where it computes it to
\* be, whole: the client's buf_head_ and the clerk's buf_tail_ + batch_length
\* name the same place, and no later write of the client reaches the batch.
BatchInPlace ==
    \A i \in 1 .. Len(batch) : ReadAt(ring, ktail + batch[i].off, batch[i].len) = batch[i].id

\* Every record lies inside the ring, behind the header words (SendWrite).
RecordsInRing ==
    \A i \in 1 .. Len(recs) :
        RING_HEADER <= recs[i].pos /\ recs[i].pos + recs[i].len < MAX_ASYNC_SIZE

\* The request that the client has posted and waits for.
Posted ==
    IF cpc = "write" THEN Meta("PUT", pend.key, pend.len, Len(recs))
    ELSE IF cpc = "nop" THEN Meta("NOP", NoKey, 0, None) ELSE Meta(cpc, pend.key, 0, None)

PostedRecord == Record(buf_head - pend.len, pend.len, Len(recs))

\* The record of that request is in the ring.
Placed == \A c \in (buf_head - pend.len) .. (buf_head - 1) : ring[c] = Len(recs)

NoHeader == \A i \in 1 .. Len(toClient) : toClient[i].kind # "header"
OneHeader ==
    \E i \in 1 .. Len(toClient) :
        /\ toClient[i].kind = "header"
        /\ \A j \in 1 .. Len(toClient) : j # i => toClient[j].kind # "header"

\* The phases of a call: none; request on its way; arrived; taken by the clerk;
\* reply on its way; arrived.  The header word changes hands once in each way.
AtRest   == /\ cpc \in {"idle", "space", "rewind"}
            /\ toClerk = <<>> /\ kheader = CLERK_DONE /\ kpc \in {"spin", "poll"}
            /\ NoHeader /\ header = CLIENT_DONE
Calling  == cpc \in Simple \cup {"nop", "write"}
Sent     == /\ Calling
            /\ \/ cpc # "write" /\ toClerk = << Posted, Hdr >>
               \/ cpc = "write" /\ toClerk = << Posted, PostedRecord, Hdr >>
               \/ cpc = "write" /\ toClerk = << PostedRecord, Hdr >> /\ message = Posted
               \/ toClerk = << Hdr >> /\ message = Posted /\ (cpc = "write" => Placed)
            /\ kheader = CLERK_DONE /\ kpc \in {"spin", "poll"}
            /\ NoHeader /\ header = CLIENT_DONE
Arrived  == /\ Calling /\ toClerk = <<>> /\ message = Posted /\ (cpc = "write" => Placed)
            /\ kheader = CLIENT_DONE /\ kpc \in {"spin", "poll"}
            /\ NoHeader /\ header = CLIENT_DONE
Handled  == /\ Calling /\ toClerk = <<>>
            /\ kheader = CLERK_DONE /\ kpc \in {"persist", "reply"}
            /\ NoHeader /\ header = CLIENT_DONE
Replied  == /\ Calling /\ toClerk = <<>>
            /\ kheader = CLERK_DONE /\ kpc \in {"spin", "poll"}
            /\ OneHeader /\ header = CLIENT_DONE
Answered == /\ Calling /\ toClerk = <<>>
            /\ kheader = CLERK_DONE /\ kpc \in {"spin", "poll"}
            /\ NoHeader /\ header = CLERK_DONE
Closing  == LET close == Meta("CLOSE", NoKey, 0, None) IN
            /\ cpc = "closed"
            /\ \/ /\ kpc \in {"spin", "poll"} /\ kheader = CLERK_DONE
                  /\ \/ toClerk = << close, Hdr, SendMsg >>
                     \/ toClerk = << Hdr, SendMsg >> /\ message = close
               \/ /\ kpc \in {"spin", "poll"} /\ kheader = CLIENT_DONE
                  /\ toClerk = << SendMsg >> /\ message = close
               \/ /\ kpc \in {"closing", "recv"} /\ kheader = CLERK_DONE
                  /\ toClerk = << SendMsg >>
               \/ kpc = "gone" /\ toClerk = <<>> /\ kheader = CLERK_DONE

HandshakeInv == AtRest \/ Sent \/ Arrived \/ Handled \/ Replied \/ Answered \/ Closing

\* The posted request has not been taken by the clerk.
Untaken == toClerk # <<>> \/ kheader = CLIENT_DONE

\* Both sides agree on the place of the next record: the clerk's end of the
\* batch is the client's head, but for the record of a write the clerk has not
\* taken yet, and but for a rewind the client has not done yet.
PositionInv ==
    /\ RING_HEADER <= buf_head /\ buf_head < MAX_ASYNC_SIZE
    /\ RING_HEADER <= ktail /\ ktail + batch_length < MAX_ASYNC_SIZE
    /\ batch_length < BATCH_SIZE
    /\ cpc \in {"space", "nop", "rewind", "write"} => pend.key \in Keys /\ pend.len \in Sizes
    /\ cpc \in {"GET", "DELETE"} => pend.key \in Keys
    /\ cpc = "space" => buf_head + pend.len < MAX_ASYNC_SIZE
    /\ cpc = "write" => RING_HEADER <= buf_head - pend.len
    /\ cpc = "write" /\ Untaken => ktail + batch_length = buf_head - pend.len
    /\ cpc = "rewind" \/ (cpc = "nop" /\ ~Untaken) => ktail = RING_HEADER /\ batch_length = 0
    /\ (\/ cpc \in Simple \cup {"idle", "space"}
        \/ cpc = "write" /\ ~Untaken
        \/ cpc = "nop" /\ Untaken) => ktail + batch_length = buf_head

\* The batch lies whole in the ring between the clerk's tail and its end, and
\* what the index points to lies in the ring.
BatchInv ==
    /\ \A i \in 1 .. Len(batch) :
        /\ batch[i].len > 0 /\ batch[i].off + batch[i].len <= batch_length
        /\ \A c \in (ktail + batch[i].off) .. (ktail + batch[i].off + batch[i].len - 1) :
               ring[c] = batch[i].id
    /\ \A k \in Keys : im_index[k].pos \in Cells

\* The inductive invariant behind TypeOK, BatchInPlace and RecordsInRing.
RingInv == TypeOK /\ HandshakeInv /\ PositionInv /\ BatchInv /\ RecordsInRing

\* Ids of the writes handed to persist_func.
Flushed == UNION { { threads[t].data[i] : i \in 1 .. Len(threads[t].data) } :
                   t \in 1 .. Len(threads) }

\* How many writes the clerk has taken.
Taken == IF cpc = "write" /\ Untaken THEN Len(recs) - 1 ELSE Len(recs)

\* The batches handed to persist_func, one after the other, followed by the
\* batch b, are the writes 1, ..., n in this order.
InOrder(b, n) ==
    /\ Flushed \cup { b[i].id : i \in 1 .. Len(b) } = 1 .. n
    /\ \A t \in 1 .. Len(threads) : \A i, j \in 1 .. Len(threads[t].data) :
           i < j => threads[t].data[i] < threads[t].data[j]
    /\ \A s, t \in 1 .. Len(threads) : s < t =>
           \A i \in 1 .. Len(threads[s].data), j \in 1 .. Len(threads[t].data) :
               threads[s].data[i] < threads[t].data[j]
    /\ \A i, j \in 1 .. Len(b) : i < j => b[i].id < b[j].id
    /\ \A id \in Flushed, j \in 1 .. Len(b) : id < b[j].id

\* Every write that the clerk has taken is in exactly one place on its way to
\* the log, and in order: the batches handed to persist_func and the batch being
\* built are the writes taken so far, without loss, repetition or exchange, and
\* with no torn record.
FlushedInOrder == InOrder(batch, Taken)

\* Until the close, im_index_ has the keys of the batch and no others, each
\* with the place of its last record.
IndexInv ==
    cpc # "closed" =>
        /\ \A k \in Keys \ KeysOf(batch) : im_index[k] = NoEntry
        /\ \A i \in 1 .. Len(batch) : Newest(batch, i) =>
               im_index[batch[i].key] = [pos |-> ktail + batch[i].off, len |-> batch[i].len]

\* The newest write of k that the clerk has taken.
Latest(k) == IF cpc = "write" /\ pend.key = k /\ ~Untaken THEN Len(recs) ELSE last[k]

\* Until the close, that write is the last one of k in the batch or, if the
\* batch has none, the one in the database; unless k is or was being deleted.
StoredInv ==
    cpc # "closed" =>
        \A k \in Keys : Latest(k) # Unknown =>
            /\ \A i \in 1 .. Len(batch) :
                   batch[i].key = k /\ Newest(batch, i) => batch[i].id = Latest(k)
            /\ k \notin KeysOf(batch) /\ ~(cpc = "DELETE" /\ pend.key = k) => db[k] = Latest(k)

\* The answer m to a GET of the key in hand is right.
Right(m) ==
    last[pend.key] # Unknown =>
        /\ m.val = last[pend.key]
        /\ m.status = IF last[pend.key] = None THEN "NOTFOUND" ELSE "OK"

\* A reply is followed by its header word, and a GET's reply is right wherever it is.
ReplyInv ==
    /\ \A i \in 1 .. Len(toClient) : toClient[i].kind = "reply" =>
           \E j \in (i + 1) .. Len(toClient) : toClient[j].kind = "header"
    /\ cpc = "GET" =>
        /\ kpc # "persist" /\ (kpc = "reply" => Right(message))
        /\ header = CLERK_DONE => Right(answer)
        /\ \A i \in 1 .. Len(toClient) :
               /\ toClient[i].kind = "reply" => Right(toClient[i].rep)
               /\ toClient[i].kind = "header" =>
                      Right(answer) \/ \E j \in 1 .. (i - 1) : toClient[j].kind = "reply"

\* A GET returns the last acknowledged write of its key, whether the record is
\* still in the ring, in the database, or was never written (Run, case GET).
GetSeesLastWrite ==
    (cpc = "GET" /\ header = CLERK_DONE /\ last[pend.key] # Unknown) =>
        /\ answer.val = last[pend.key]
        /\ answer.status = IF last[pend.key] = None THEN "NOTFOUND" ELSE "OK"

Coming  == { i \in 1 .. Len(toClient) : toClient[i].kind \in Signaled }
Pollers == { t \in 1 .. Len(threads) : threads[t].st = "poll" }

\* The clerk and its persist threads poll one completion queue: there are
\* always exactly as many completions, waiting or to come, as pollers, so that
\* taking each other's completions starves neither (until the clerk is gone).
CompletionsBalanced ==
    kpc # "gone" =>
        cq + Cardinality(Coming) = (IF kpc = "poll" THEN 1 ELSE 0) + Cardinality(Pollers)

\* The inductive invariant behind FlushedInOrder and GetSeesLastWrite.
StoreInv ==
    /\ RingInv /\ Taken \in Nat /\ FlushedInOrder
    /\ IndexInv /\ StoredInv /\ ReplyInv

Logged == UNION { { log[i][j] : j \in 1 .. Len(log[i]) } : i \in 1 .. synced }

\* Writes the client has seen acknowledged: all but the one it waits for.
Acked == IF cpc = "write" THEN 1 .. (Len(recs) - 1) ELSE 1 .. Len(recs)

\* An acknowledged write is in the persistent ring or in the synced log: a
\* crash of the server at this point would not lose it.
AckedIsDurable ==
    \A id \in Acked :
        \/ id \in Logged
        \/ kpc # "gone" /\ ReadAt(ring, recs[id].pos, recs[id].len) = id

\* While the connection is open, the client's waits for the tail keep it from
\* overwriting an acknowledged record that is not yet in the synced log.
RingKeepsUnlogged == kpc # "gone" => AckedIsDurable

\* Without BG_SYNC the clerk waits for each flush: every batch but the last is
\* in the synced log, and the records of the last are still in the ring.
LogInv ==
    /\ synced <= Len(log)
    /\ \A t \in 1 .. Len(threads) :
        /\ threads[t].st # "lost"
        /\ threads[t].st # "done" => t = Len(threads) /\ kpc \in {"persist", "closing"}
        /\ threads[t].st = "sync" => Len(log) >= 1 /\ log[Len(log)] = threads[t].data
        /\ \A i \in 1 .. Len(threads[t].data) :
               LET id == threads[t].data[i] IN
               IF threads[t].st \in {"start", "sync"}
               THEN ReadAt(ring, recs[id].pos, recs[id].len) = id
               ELSE id \in Logged

\* The clerk has each record of its batch where the client has put it.
PlaceInv ==
    /\ \A i \in 1 .. Len(batch) :
           /\ recs[batch[i].id].pos = ktail + batch[i].off
           /\ recs[batch[i].id].len = batch[i].len
    /\ cpc = "write" => recs[Len(recs)].pos = buf_head - pend.len /\ recs[Len(recs)].len = pend.len
    /\ kpc \in {"closing", "recv", "gone"} => batch = <<>>

\* The inductive invariant behind AckedIsDurable and ClosedIsLogged without BG_SYNC.
InlineInv == StoreInv /\ LogInv /\ PlaceInv

\* Once the clerk is gone and its persist threads have ended, all that was
\* acknowledged is in the log.
ClosedIsLogged ==
    (kpc = "gone" /\ \A t \in 1 .. Len(threads) : threads[t].st \in {"done", "lost"}) =>
        Acked \subseteq Logged

\* A write that the client has started is acknowledged: no wait of SendWrite,
\* for the clerk or for the tail, lasts forever.
WriteCompletes == cpc \in {"space", "nop", "rewind", "write"} ~> cpc = "idle"

=============================================================================
