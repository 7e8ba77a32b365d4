---------------------------- MODULE GroupCommit ----------------------------
(***************************************************************************)
(* The server side of the group frontend: one GroupClerk thread for each   *)
(* client, the queue of writers under global_mutex, the batch that the     *)
(* front of the queue builds and stores for the writers behind it.         *)
(*                                                                         *)
(* A part of Run that holds the mutex from lock to unlock (or to a wait)   *)
(* is one action; BuildBatchGroup, which loops over the queue, keeps the   *)
(* mutex over several.  A write is its number; a client has one request    *)
(* at a time, since the header word changes hands with each.  The database *)
(* behind DBType is the LevelDB adapter.                                   *)
(***************************************************************************)
EXTENDS Integers, Sequences

CONSTANTS
    Clerks,       \* clerk threads
    Keys,         \* keys of the store
    Sizes,        \* Request::Length() of a logged request
    BATCH_SIZE,   \* length at which a batch is closed
    MAX_REQUEST,  \* largest request the buffers hold
    MaxWrites     \* bound: logged requests

Free == "free"

ASSUME GroupAssumption ==
    /\ BATCH_SIZE \in Nat \ {0} /\ MAX_REQUEST \in Nat
    /\ Sizes \subseteq 1 .. MAX_REQUEST
    /\ Free \notin Clerks
    /\ MaxWrites \in Nat

VARIABLES
    pc,            \* where each clerk is in Run
    req,           \* the request in each clerk's buffer
    reply,         \* the reply, in the same words of the buffer
    queue,         \* writers_queue (a clerk has at most one Writer)
    done, woken,   \* Writer::done; its condition variable was signaled
    mu,            \* holder of global_mutex across actions, or Free
    iter,          \* the iterator of BuildBatchGroup, as a queue index
    batch,         \* WriteBatch: the requests copied into it
    batch_length,
    last_writer,
    db,            \* key -> number of the write it holds
    issued,        \* history: number of logged requests so far
    pushed,        \* history: requests in the order they entered the queue
    stored         \* history: requests in the order PutBatch stored them

batchVars == <<iter, batch, batch_length, last_writer>>
histVars  == <<issued, pushed, stored>>
vars == <<pc, req, reply, queue, done, woken, mu, batchVars, db, histVars>>

Absent  == 0
Logging == {"PUT", "DELETE"}     \* UPDATE takes the path of PUT
Unlogged(op, k) == [op |-> op, key |-> k, len |-> 0, id |-> 0]
Idle    == Unlogged("none", "none")
NoReply == [status |-> "none", val |-> Absent]
Ok      == [status |-> "OK", val |-> Absent]
Leading == {"sleep", "build", "put", "finish"}

-----------------------------------------------------------------------------
(* Requests.  Everything but CLOSE, GET and SYNC is logged, DELETE included. *)

Receive(c, op, k, len) ==
    /\ pc[c] = "idle" /\ issued < MaxWrites
    /\ req' = [req EXCEPT ![c] = [op |-> op, key |-> k, len |-> len, id |-> issued + 1]]
    /\ issued' = issued + 1
    /\ pc' = [pc EXCEPT ![c] = "arrived"]
    /\ UNCHANGED <<reply, queue, done, woken, mu, batchVars, db, pushed, stored>>

Get(c, k) ==
    /\ pc[c] = "idle"
    /\ req' = [req EXCEPT ![c] = Unlogged("GET", k)]
    /\ reply' = [reply EXCEPT ![c] =
                   [status |-> IF db[k] # Absent THEN "OK" ELSE "NOTFOUND", val |-> db[k]]]
    /\ pc' = [pc EXCEPT ![c] = "reply"]
    /\ UNCHANGED <<queue, done, woken, mu, batchVars, db, histVars>>

\* SetSync concerns the database; the reply keeps the request's words.
Sync(c) ==
    /\ pc[c] = "idle"
    /\ req' = [req EXCEPT ![c] = Unlogged("SYNC", "none")]
    /\ reply' = [reply EXCEPT ![c] = NoReply]
    /\ pc' = [pc EXCEPT ![c] = "reply"]
    /\ UNCHANGED <<queue, done, woken, mu, batchVars, db, histVars>>

Close(c) ==
    /\ pc[c] = "idle"
    /\ pc' = [pc EXCEPT ![c] = "closed"]
    /\ UNCHANGED <<req, reply, queue, done, woken, mu, batchVars, db, histVars>>

-----------------------------------------------------------------------------
(* The queue of writers                                                    *)

\* The loop of a writer that has waited ends by done only.
ProceedWhenDone(c, q) ==
    /\ pc' = [pc EXCEPT ![c] = IF done[c] THEN "reply"
                               ELSE IF Head(q) = c /\ pc[c] # "wait" THEN "sleep" ELSE "wait"]
    /\ reply' = IF done[c] THEN [reply EXCEPT ![c] = Ok] ELSE reply
    /\ woken' = [woken EXCEPT ![c] = FALSE]

\* The test of the while loop with the mutex held: go on as a follower that
\* was served, lead, or wait (which gives the mutex back).
Proceed(c, q) ==
    /\ pc' = [pc EXCEPT ![c] = IF done[c] THEN "reply"
                               ELSE IF Head(q) = c THEN "sleep" ELSE "wait"]
    /\ reply' = IF done[c] THEN [reply EXCEPT ![c] = Ok] ELSE reply
    /\ woken' = [woken EXCEPT ![c] = FALSE]

\* A new Writer, pushed at the back.
Push(c) ==
    LET q == Append(queue, c) IN
    /\ pc[c] = "arrived" /\ mu = Free
    /\ queue' = q
    /\ pushed' = Append(pushed, req[c])
    /\ Proceed(c, q)
    /\ UNCHANGED <<req, done, mu, batchVars, db, issued, stored>>

Wake(c) ==
    /\ pc[c] = "wait" /\ woken[c] /\ mu = Free
    /\ Proceed(c, queue)
    /\ UNCHANGED <<req, queue, done, mu, batchVars, db, histVars>>

\* A condition variable may return without a signal.
WakeSpuriously(c) ==
    /\ pc[c] = "wait" /\ ~woken[c] /\ mu = Free
    /\ Proceed(c, queue)
    /\ UNCHANGED <<req, queue, done, mu, batchVars, db, histVars>>

\* BuildBatchGroup that goes on with the last batch.
StartBuildNoClear(c) ==
    /\ pc[c] = "sleep" /\ mu = Free
    /\ mu' = c
    /\ iter' = 1
    /\ pc' = [pc EXCEPT ![c] = "build"]
    /\ UNCHANGED <<req, reply, queue, done, woken, batch, batch_length, last_writer, db, histVars>>

\* The leader has slept for followers and starts BuildBatchGroup.
StartBuild(c) ==
    /\ pc[c] = "sleep" /\ mu = Free
    /\ mu' = c
    /\ iter' = 1 /\ batch' = <<>> /\ batch_length' = 0
    /\ pc' = [pc EXCEPT ![c] = "build"]
    /\ UNCHANGED <<req, reply, queue, done, woken, last_writer, db, histVars>>

\* The limit of the batch.
Enough(length) == length >= BATCH_SIZE

\* One round of its loop; the mutex is released after the last one.
BuildBatchGroup(c) ==
    LET w == queue[iter]
        length == batch_length + req[w].len
    IN
    /\ pc[c] = "build"
    /\ batch' = Append(batch, req[w])
    /\ batch_length' = length
    /\ last_writer' = w
    /\ IF Enough(length) \/ iter = Len(queue)
       THEN /\ pc' = [pc EXCEPT ![c] = "put"]
            /\ mu' = Free
            /\ UNCHANGED iter
       ELSE /\ iter' = iter + 1
            /\ UNCHANGED <<pc, mu>>
    /\ UNCHANGED <<req, reply, queue, done, woken, db, histVars>>

\* The place of the last request of key k in a sequence, 0 if there is none.
LastOf(k, requests) ==
    LET is == { i \in 1 .. Len(requests) :
                  requests[i].key = k /\ \A j \in (i + 1) .. Len(requests) : requests[j].key # k } IN
    IF is = {} THEN 0 ELSE CHOOSE i \in is : TRUE

\* DBType::PutBatch, without the mutex: it stores every request as a put.
PutBatch(c) ==
    /\ pc[c] = "put"
    /\ db' = [k \in Keys |-> LET i == LastOf(k, batch) IN
                            IF i = 0 THEN db[k] ELSE batch[i].id]
    /\ stored' = stored \o batch
    /\ pc' = [pc EXCEPT ![c] = "finish"]
    /\ UNCHANGED <<req, reply, queue, done, woken, mu, batchVars, issued, pushed>>

\* Pops the writers up to last_writer, marks and signals the followers, then
\* signals the new front.  The leader's own reply is never filled in.
Finish(c) ==
    LET n == CHOOSE i \in 1 .. Len(queue) : queue[i] = last_writer
        served == { queue[i] : i \in 1 .. n } \ {c}
        rest == SubSeq(queue, n + 1, Len(queue))
        signaled == served \cup (IF rest = <<>> THEN {} ELSE {Head(rest)})
    IN
    /\ pc[c] = "finish" /\ mu = Free
    /\ queue' = rest
    /\ done' = [d \in Clerks |-> IF d \in served THEN TRUE ELSE done[d]]
    /\ woken' = [d \in Clerks |-> IF d \in signaled THEN TRUE ELSE woken[d]]
    /\ reply' = [reply EXCEPT ![c] = NoReply]
    /\ pc' = [pc EXCEPT ![c] = "reply"]
    /\ UNCHANGED <<req, mu, batchVars, db, histVars>>

\* A Writer kept from request to request.
SendReplyKeepsWriter(c) ==
    /\ pc[c] = "reply"
    /\ pc' = [pc EXCEPT ![c] = "idle"]
    /\ req' = [req EXCEPT ![c] = Idle]
    /\ reply' = [reply EXCEPT ![c] = NoReply]
    /\ UNCHANGED <<queue, done, woken, mu, batchVars, db, histVars>>

\* The reply goes to the client; the Writer is gone from the stack.
SendReply(c) ==
    /\ pc[c] = "reply"
    /\ pc' = [pc EXCEPT ![c] = "idle"]
    /\ done' = [done EXCEPT ![c] = FALSE]
    /\ woken' = [woken EXCEPT ![c] = FALSE]
    /\ req' = [req EXCEPT ![c] = Idle]
    /\ reply' = [reply EXCEPT ![c] = NoReply]
    /\ UNCHANGED <<queue, mu, batchVars, db, histVars>>

-----------------------------------------------------------------------------
Init ==
    /\ pc = [c \in Clerks |-> "idle"] /\ req = [c \in Clerks |-> Idle]
    /\ reply = [c \in Clerks |-> NoReply]
    /\ queue = <<>> /\ done = [c \in Clerks |-> FALSE] /\ woken = [c \in Clerks |-> FALSE]
    /\ mu = Free /\ iter = 1 /\ batch = <<>> /\ batch_length = 0 /\ last_writer = Free
    /\ db = [k \in Keys |-> Absent]
    /\ issued = 0 /\ pushed = <<>> /\ stored = <<>>

Writing(c) ==
    \/ Push(c) \/ Wake(c) \/ StartBuild(c) \/ BuildBatchGroup(c) \/ PutBatch(c) \/ Finish(c)

Next ==
    \E c \in Clerks :
        \/ \E op \in Logging, k \in Keys, len \in Sizes : Receive(c, op, k, len)
        \/ \E k \in Keys : Get(c, k)
        \/ Sync(c) \/ Close(c) \/ Writing(c) \/ WakeSpuriously(c) \/ SendReply(c)

Spec == Init /\ [][Next]_vars

\* Some thread that can go on does, and a reply is sent.  Nothing is assumed of
\* which waiting thread gets the mutex, nor are spurious wakeups relied on.
FairSpec ==
    /\ Spec
    /\ WF_vars(\E c \in Clerks : Writing(c))
    /\ \A c \in Clerks : WF_vars(SendReply(c))

-----------------------------------------------------------------------------
(* Properties                                                              *)

Logged   == [op : Logging, key : Keys, len : Sizes, id : 1 .. MaxWrites]
Requests == [op : Logging \cup {"GET", "SYNC", "none"}, key : Keys \cup {"none"},
             len : Sizes \cup {0}, id : 0 .. MaxWrites]

\* Type invariant.
TypeOK ==
    /\ pc \in [Clerks -> Leading \cup {"idle", "arrived", "wait", "reply", "closed"}]
    /\ req \in [Clerks -> Requests]
    /\ reply \in [Clerks -> [status : {"none", "OK", "NOTFOUND"}, val : Nat]]
    /\ queue \in Seq(Clerks)
    /\ done \in [Clerks -> BOOLEAN] /\ woken \in [Clerks -> BOOLEAN]
    /\ mu \in Clerks \cup {Free} /\ last_writer \in Clerks \cup {Free}
    /\ iter \in Nat \ {0} /\ batch \in Seq(Logged) /\ batch_length \in Nat
    /\ db \in [Keys -> Nat]
    /\ issued \in 0 .. MaxWrites /\ pushed \in Seq(Logged) /\ stored \in Seq(Logged)

\* Only one clerk at a time leads, from its turn at the front until it has
\* popped itself, although it gives the mutex up twice in between: the static
\* batch and the call of PutBatch have one user.
OneLeader ==
    \A c, d \in Clerks : pc[c] \in Leading /\ pc[d] \in Leading => c = d

\* The requests copied by BuildBatchGroup fit in WriteBatch::buffer.
BatchFits == batch_length <= BATCH_SIZE + MAX_REQUEST

\* Requests are stored in the order in which they entered the queue, with the
\* content they had there, and none is stored twice.
StoredInOrder ==
    /\ Len(stored) <= Len(pushed)
    /\ \A i \in 1 .. Len(stored) : stored[i] = pushed[i]
    /\ \A i, j \in 1 .. Len(pushed) : pushed[i].id = pushed[j].id => i = j

\* A clerk that answers a logged request has it stored, whether it led the
\* batch or was marked done by another.
AnsweredIsStored ==
    \A c \in Clerks :
        (pc[c] = "reply" /\ req[c].op \in Logging) =>
            \E i \in 1 .. Len(stored) : stored[i] = req[c]

\* The queue holds, without repetition, the writers that are not served yet,
\* and a leader is its front; what is in a clerk's buffer fits where it is.
QueueInv ==
    /\ \A i, j \in 1 .. Len(queue) : queue[i] = queue[j] => i = j
    /\ \A c \in Clerks :
        /\ (\E i \in 1 .. Len(queue) : queue[i] = c)
             <=> pc[c] \in Leading \/ (pc[c] = "wait" /\ ~done[c])
        /\ pc[c] \in Leading => queue[1] = c
        /\ done[c] => pc[c] \in {"wait", "reply"}
        /\ pc[c] \in Leading \cup {"arrived", "wait"} => req[c] \in Logged
        /\ pc[c] \in {"idle", "closed"} => req[c] = Idle

\* The mutex is held across actions by the clerk that builds, and by no other;
\* the batch is a prefix of the queue, closed at the last writer.
BatchInv ==
    /\ \A c \in Clerks : mu = c <=> pc[c] = "build"
    /\ batch_length < BATCH_SIZE + MAX_REQUEST
    /\ \A c \in Clerks :
        /\ pc[c] = "build" =>
            iter \in 1 .. Len(queue) /\ Len(batch) = iter - 1 /\ batch_length < BATCH_SIZE
        /\ pc[c] \in {"put", "finish"} =>
            Len(batch) \in 1 .. Len(queue) /\ last_writer = queue[Len(batch)]
        /\ pc[c] \in {"build", "put", "finish"} =>
            \A i \in 1 .. Len(batch) : batch[i] = req[queue[i]]

\* How many of the requests pushed have left the queue, or will with this batch.
Popped == Len(stored) - (IF \E c \in Clerks : pc[c] = "finish" THEN Len(batch) ELSE 0)

\* The requests pushed are those popped followed by those of the queue, and the
\* stored ones are the first of them; the numbers of requests are fresh.
HistoryInv ==
    /\ Popped >= 0 /\ Len(pushed) = Popped + Len(queue)
    /\ \A i \in 1 .. Len(queue) : pushed[Popped + i] = req[queue[i]]
    /\ StoredInOrder
    /\ \A i \in 1 .. Len(pushed) : pushed[i].id <= issued
    /\ \A c \in Clerks :
        /\ req[c].id <= issued
        /\ pc[c] = "arrived" => \A i \in 1 .. Len(pushed) : pushed[i].id # req[c].id
        /\ done[c] \/ (pc[c] = "reply" /\ req[c].op \in Logging) =>
            \E i \in 1 .. Len(stored) : stored[i] = req[c]
        /\ \A d \in Clerks : req[c].id = req[d].id /\ req[c].id # 0 => c = d

\* The inductive invariant behind the others.
GroupInv == TypeOK /\ QueueInv /\ BatchInv /\ HistoryInv

\* The request that a clerk has to answer, for GroupLog.
Waiting(c) == IF req[c].op \in Logging THEN req[c] ELSE Idle

Abstract == INSTANCE GroupLog WITH
    Requests <- Logged, None <- Idle,
    waiting <- [c \in Clerks |-> Waiting(c)], log <- stored

\* Group commit implements the atomic log: whatever the interleaving of the
\* clerks, each PutBatch appends whole waiting requests, once, before their
\* answers.
ImplementsLog == Abstract!Spec

\* Each logged request is answered: no signal is lost, no writer is left in the
\* queue without a leader before it.
WriterIsAnswered == \A c \in Clerks : pc[c] = "arrived" ~> pc[c] = "idle"

=============================================================================
