------------------------- MODULE GroupCommitProofs -------------------------
(***************************************************************************)
(* Proofs about GroupCommit.                                               *)
(***************************************************************************)
EXTENDS GroupCommit, TLAPS

\* The provers, and their time, for a leaf that names none.
USE SMTT(60), ZenonT(60), SMTT(90)

USE DEF Free, Absent, Logging, Idle, NoReply, Ok, Leading, batchVars, histVars

\* The server starts with no writer and an empty batch: GroupInv holds.
LEMMA InitInv == Init => GroupInv
<1> SUFFICES ASSUME Init PROVE GroupInv
    OBVIOUS
<1>1. TypeOK
    BY GroupAssumption DEF Init, Unlogged, TypeOK, Requests
<1>2. QueueInv
    BY DEF Init, QueueInv
<1>3. BatchInv
    BY GroupAssumption DEF Init, BatchInv
<1>4. HistoryInv
    BY DEF Init, Unlogged, HistoryInv, Popped, StoredInOrder
<1> QED
    BY <1>1, <1>2, <1>3, <1>4 DEF GroupInv

\* What the assumption on the constants says of the requests that clerks hold.
LEMMA ConstantFacts ==
    /\ BATCH_SIZE \in Nat /\ BATCH_SIZE > 0 /\ MAX_REQUEST \in Nat /\ MaxWrites \in Nat
    /\ \A s \in Sizes : s \in Nat /\ s <= MAX_REQUEST
<1>1. \A s \in Sizes : s \in 1 .. MAX_REQUEST
    BY GroupAssumption
<1> QED
    BY <1>1, GroupAssumption

\* What the type invariant says of requests, clerk by clerk and entry by entry.
LEMMA LoggedFacts ==
    /\ Logged \subseteq Requests
    /\ \A r \in Logged : /\ r.op \in Logging /\ r.key \in Keys /\ r.id \in Nat /\ r.id # 0
                         /\ r.len \in Nat /\ r.len <= MAX_REQUEST
    /\ \A r \in Requests : r.id \in Nat
<1>1. Logged \subseteq Requests
    BY GroupAssumption DEF Logged, Requests
<1>2. ASSUME NEW r \in Logged
      PROVE  /\ r.op \in Logging /\ r.key \in Keys /\ r.id \in Nat /\ r.id # 0
             /\ r.len \in Nat /\ r.len <= MAX_REQUEST
  <2>1. r.op \in Logging /\ r.key \in Keys /\ r.id \in 1 .. MaxWrites /\ r.len \in Sizes
    BY DEF Logged
  <2>2. r.id \in Nat /\ r.id # 0
    BY <2>1, GroupAssumption
  <2>3. r.len \in Nat /\ r.len <= MAX_REQUEST
    BY <2>1, ConstantFacts
  <2> QED
    BY <2>1, <2>2, <2>3
<1>3. \A r \in Requests : r.id \in Nat
    BY GroupAssumption DEF Requests
<1> QED
    BY <1>1, <1>2, <1>3

\* What the type invariant says of each variable that the queue steps use.
LEMMA TypeFacts ==
    ASSUME TypeOK
    PROVE  /\ Len(queue) \in Nat /\ Len(batch) \in Nat
           /\ Len(pushed) \in Nat /\ Len(stored) \in Nat
           /\ \A i \in 1 .. Len(queue) : queue[i] \in Clerks
           /\ \A i \in 1 .. Len(batch) : batch[i] \in Logged
           /\ \A i \in 1 .. Len(pushed) : pushed[i] \in Logged
           /\ \A i \in 1 .. Len(stored) : stored[i] \in Logged
           /\ \A c \in Clerks : req[c] \in Requests
           /\ issued \in Nat
BY GroupAssumption DEF TypeOK

\* A step of a clerk that is not in the queue leaves the batch and the queue's
\* requests as they are.
LEMMA OutsideQueue ==
    ASSUME GroupInv, NEW c \in Clerks,
           pc[c] \in {"idle", "reply"}, pc'[c] \in {"idle", "arrived", "reply", "closed"},
           \A d \in Clerks : d # c => pc'[d] = pc[d] /\ req'[d] = req[d],
           UNCHANGED <<queue, mu, batchVars, pushed, stored>>
    PROVE  /\ BatchInv'
           /\ Popped' = Popped
           /\ \A i \in 1 .. Len(queue) : req'[queue[i]] = req[queue[i]]
<1> USE TypeFacts DEF GroupInv
<1>1. \A i \in 1 .. Len(queue) : queue[i] # c
    BY DEF QueueInv
<1>2. \A i \in 1 .. Len(queue) : req'[queue[i]] = req[queue[i]]
    BY <1>1
<1>3. \A d \in Clerks : (pc'[d] \in Leading \/ pc[d] \in Leading) => pc'[d] = pc[d]
    OBVIOUS
<1>4. BatchInv'
  <2>1. ASSUME NEW d \in Clerks, pc'[d] \in {"build", "put", "finish"}, NEW i \in 1 .. Len(batch)
        PROVE  batch[i] = req'[queue[i]]
    <3>1. pc[d] = pc'[d]
        BY <2>1, <1>3
    <3>2. i \in 1 .. Len(queue)
        BY <2>1, <3>1 DEF BatchInv
    <3> QED
        BY <2>1, <3>1, <3>2, <1>2 DEF BatchInv
  <2> QED
    BY <2>1, <1>3 DEF BatchInv
<1>5. Popped' = Popped
    BY <1>3 DEF Popped
<1> QED
    BY <1>2, <1>4, <1>5

\* A logged request that arrives gets a fresh number: Receive preserves GroupInv.
LEMMA ReceiveInv ==
    ASSUME GroupInv, NEW c \in Clerks, NEW op \in Logging, NEW k \in Keys, NEW len \in Sizes,
           Receive(c, op, k, len)
    PROVE  GroupInv'
<1> USE ConstantFacts DEF GroupInv
<1> DEFINE r == [op |-> op, key |-> k, len |-> len, id |-> issued + 1]
<1>1. r \in Logged /\ r.id = issued + 1
    BY DEF Receive, Logged, TypeOK
<1>2. /\ pc[c] = "idle" /\ pc' = [pc EXCEPT ![c] = "arrived"]
      /\ req' = [req EXCEPT ![c] = r]
      /\ issued' = issued + 1 /\ issued' \in 0 .. MaxWrites
      /\ UNCHANGED <<reply, queue, done, woken, mu, batchVars, db, pushed, stored>>
    BY DEF Receive, TypeOK
<1> HIDE DEF r
<1>3. \A d \in Clerks : d # c => req'[d] = req[d] /\ pc'[d] = pc[d]
    BY <1>2 DEF TypeOK
<1>4. req'[c] = r /\ pc'[c] = "arrived" /\ ~done[c]
    BY ZenonT(60), <1>2 DEF TypeOK, QueueInv
<1>5. TypeOK'
    BY <1>1, <1>2, LoggedFacts DEF TypeOK
<1>6. QueueInv'
    BY <1>1, <1>2, <1>3, <1>4 DEF QueueInv
<1>7. /\ BatchInv' /\ Popped' = Popped
      /\ \A i \in 1 .. Len(queue) : req'[queue[i]] = req[queue[i]]
    BY <1>2, <1>3, <1>4, OutsideQueue
<1>8. HistoryInv'
  <2>1. \A d \in Clerks : req[d].id \in Nat /\ req[d].id <= issued
    BY TypeFacts, LoggedFacts DEF HistoryInv
  <2>2. \A i \in 1 .. Len(pushed) : pushed[i].id \in Nat /\ pushed[i].id <= issued
    BY TypeFacts, LoggedFacts DEF HistoryInv
  <2>3. \A d, e \in Clerks : req'[d].id = req'[e].id /\ req'[d].id # 0 => d = e
    BY <1>1, <2>1, <1>3, <1>4, TypeFacts DEF HistoryInv
  <2>4. \A d \in Clerks :
          /\ req'[d].id <= issued'
          /\ pc'[d] = "arrived" => \A i \in 1 .. Len(pushed) : pushed[i].id # req'[d].id
          /\ done'[d] \/ (pc'[d] = "reply" /\ req'[d].op \in Logging) =>
               \E i \in 1 .. Len(stored) : stored[i] = req'[d]
    BY <1>1, <1>2, <2>1, <2>2, <1>3, <1>4, TypeFacts DEF HistoryInv
  <2>5. \A i \in 1 .. Len(pushed') : pushed'[i].id <= issued'
    BY <1>2, <2>2, TypeFacts
  <2> QED
    BY <1>2, <1>7, <2>3, <2>4, <2>5 DEF HistoryInv, StoredInOrder
<1> QED
    BY <1>5, <1>6, <1>7, <1>8

\* Steps of a clerk that has no logged request before or after the step, or
\* that forgets it: Get, Sync, Close and SendReply.
LEMMA OffQueueInv ==
    ASSUME GroupInv, NEW c \in Clerks,
           pc[c] \in {"idle", "reply"}, pc'[c] \in {"idle", "reply", "closed"},
           req'[c].id = 0, req'[c].op \notin Logging,
           pc'[c] # "reply" => req'[c] = Idle, ~done'[c],
           \A d \in Clerks : d # c => pc'[d] = pc[d] /\ req'[d] = req[d] /\ done'[d] = done[d],
           UNCHANGED <<queue, mu, batchVars, db, histVars>>,
           TypeOK'
    PROVE  GroupInv'
<1> USE DEF GroupInv
<1>1. QueueInv'
    BY DEF QueueInv
<1>2. /\ BatchInv' /\ Popped' = Popped
      /\ \A i \in 1 .. Len(queue) : req'[queue[i]] = req[queue[i]]
    BY OutsideQueue
<1>3. HistoryInv'
  <2>1. \A d, e \in Clerks : req'[d].id = req'[e].id /\ req'[d].id # 0 => d = e
    BY DEF HistoryInv
  <2>2. \A d \in Clerks :
          /\ req'[d].id <= issued'
          /\ pc'[d] = "arrived" => \A i \in 1 .. Len(pushed) : pushed[i].id # req'[d].id
          /\ done'[d] \/ (pc'[d] = "reply" /\ req'[d].op \in Logging) =>
               \E i \in 1 .. Len(stored) : stored[i] = req'[d]
    BY TypeFacts DEF HistoryInv
  <2> QED
    BY <1>2, <2>1, <2>2 DEF HistoryInv, StoredInOrder
<1> QED
    BY <1>1, <1>2, <1>3

\* A GET, answered from the database at once, preserves GroupInv.
LEMMA GetInv ==
    ASSUME GroupInv, NEW c \in Clerks, NEW k \in Keys, Get(c, k)
    PROVE  GroupInv'
<1> DEFINE r == Unlogged("GET", k)
<1>1. r \in Requests /\ r.id = 0 /\ r.op \notin Logging
    BY ConstantFacts DEF Requests, Unlogged
<1>2. req' = [req EXCEPT ![c] = r]
    BY DEF Get, GroupInv, TypeOK, QueueInv
<1>3. pc'[c] = "reply"
    BY DEF Get, GroupInv, TypeOK
<1> HIDE DEF r
<1>4. /\ ~done'[c]
      /\ \A d \in Clerks : d # c => pc'[d] = pc[d] /\ done'[d] = done[d]
  <2>1. ~done[c]
    BY DEF Get, GroupInv, QueueInv
  <2> QED
    BY <2>1 DEF Get, GroupInv, TypeOK
<1>5. req'[c] = r /\ \A d \in Clerks : d # c => req'[d] = req[d]
    BY <1>2 DEF GroupInv, TypeOK
<1>6. TypeOK'
    BY <1>1, <1>2 DEF Get, GroupInv, TypeOK
<1> QED
    BY <1>1, <1>3, <1>4, <1>5, <1>6, OffQueueInv DEF Get

\* A SYNC preserves GroupInv.
LEMMA SyncInv ==
    ASSUME GroupInv, NEW c \in Clerks, Sync(c)
    PROVE  GroupInv'
<1> DEFINE r == Unlogged("SYNC", "none")
<1>1. r \in Requests /\ r.id = 0 /\ r.op \notin Logging
    BY ConstantFacts DEF Requests, Unlogged
<1>2. req' = [req EXCEPT ![c] = r]
    BY DEF Sync, GroupInv, TypeOK, QueueInv
<1>3. pc'[c] = "reply"
    BY DEF Sync, GroupInv, TypeOK
<1> HIDE DEF r
<1>4. /\ ~done'[c]
      /\ \A d \in Clerks : d # c => pc'[d] = pc[d] /\ done'[d] = done[d]
  <2>1. ~done[c]
    BY DEF Sync, GroupInv, QueueInv
  <2> QED
    BY <2>1 DEF Sync, GroupInv, TypeOK
<1>5. req'[c] = r /\ \A d \in Clerks : d # c => req'[d] = req[d]
    BY <1>2 DEF GroupInv, TypeOK
<1>6. TypeOK'
  <2>1. NoReply \in [status : {"none", "OK", "NOTFOUND"}, val : Nat]
    OBVIOUS
  <2> HIDE DEF NoReply
  <2> QED
    BY <1>1, <1>2, <2>1 DEF Sync, GroupInv, TypeOK
<1> QED
    BY <1>1, <1>3, <1>4, <1>5, <1>6, OffQueueInv DEF Sync

\* A clerk that leaves Run at CLOSE preserves GroupInv.
LEMMA CloseInv ==
    ASSUME GroupInv, NEW c \in Clerks, Close(c)
    PROVE  GroupInv'
<1> DEFINE r == Idle
<1>1. r \in Requests /\ r.id = 0 /\ r.op \notin Logging
    BY ConstantFacts DEF Requests, Unlogged
<1>2. req' = [req EXCEPT ![c] = r]
    BY DEF Close, GroupInv, TypeOK, QueueInv
<1>3. pc'[c] = "closed" /\ r = Idle
    BY DEF Close, GroupInv, TypeOK
<1> HIDE DEF r
<1>4. /\ ~done'[c]
      /\ \A d \in Clerks : d # c => pc'[d] = pc[d] /\ done'[d] = done[d]
  <2>1. ~done[c]
    BY DEF Close, GroupInv, QueueInv
  <2> QED
    BY <2>1 DEF Close, GroupInv, TypeOK
<1>5. req'[c] = r /\ \A d \in Clerks : d # c => req'[d] = req[d]
    BY <1>2 DEF GroupInv, TypeOK
<1>6. TypeOK'
    BY <1>1, <1>2 DEF Close, GroupInv, TypeOK
<1> QED
    BY <1>1, <1>3, <1>4, <1>5, <1>6, OffQueueInv DEF Close

\* A clerk that sends its reply and forgets the request preserves GroupInv.
LEMMA SendReplyInv ==
    ASSUME GroupInv, NEW c \in Clerks, SendReply(c)
    PROVE  GroupInv'
<1> DEFINE r == Idle
<1>1. r \in Requests /\ r.id = 0 /\ r.op \notin Logging
    BY ConstantFacts DEF Requests, Unlogged
<1>2. req' = [req EXCEPT ![c] = r]
    BY DEF SendReply, GroupInv, TypeOK, QueueInv
<1>3. pc'[c] = "idle" /\ r = Idle
    BY DEF SendReply, GroupInv, TypeOK
<1> HIDE DEF r
<1>4. ~done'[c] /\ \A d \in Clerks : d # c => pc'[d] = pc[d] /\ done'[d] = done[d]
    BY DEF SendReply, GroupInv, TypeOK, QueueInv
<1>5. req'[c] = r /\ \A d \in Clerks : d # c => req'[d] = req[d]
    BY <1>2 DEF GroupInv, TypeOK
<1>6. TypeOK'
    BY <1>1, <1>2 DEF SendReply, GroupInv, TypeOK
<1> QED
    BY ZenonT(60), <1>1, <1>3, <1>4, <1>5, <1>6, OffQueueInv DEF SendReply

\* The number of requests that have left the queue is an integer.
LEMMA PoppedFacts == ASSUME TypeOK PROVE Popped \in Int
BY TypeFacts DEF Popped

\* A Writer pushed at the back (push_back and the first test of the loop in
\* Run) preserves GroupInv, whether the clerk waits or leads at once.
LEMMA PushInv ==
    ASSUME GroupInv, NEW c \in Clerks, Push(c)
    PROVE  GroupInv'
<1> USE TypeFacts DEF GroupInv
<1>0. \A i \in 1 .. Len(queue) : queue[i] # c
    BY DEF Push, QueueInv
<1>1. /\ queue' = Append(queue, c) /\ Len(queue') = Len(queue) + 1
      /\ queue'[Len(queue) + 1] = c
      /\ \A i \in 1 .. Len(queue) : queue'[i] = queue[i] /\ queue[i] # c
    BY <1>0 DEF Push, TypeOK
<1>2. Head(queue') = queue'[1]
    BY <1>1 DEF TypeOK
<1>a. pc[c] = "arrived" /\ ~done[c] /\ req[c] \in Logged
    BY DEF Push, QueueInv
<1>3. /\ pc[c] = "arrived" /\ ~done[c] /\ req[c] \in Logged
      /\ pc'[c] = IF queue'[1] = c THEN "sleep" ELSE "wait"
      /\ \A d \in Clerks : d # c => pc'[d] = pc[d]
      /\ UNCHANGED <<req, reply, done, mu, batchVars, db, issued, stored>>
    BY <1>a, <1>1, <1>2 DEF Push, Proceed, TypeOK
<1>4. Len(queue) > 0 => queue'[1] = queue[1] /\ queue[1] # c
    BY <1>1
<1>5. pc'[c] \in {"sleep", "wait"} /\ (pc'[c] = "sleep" => Len(queue) = 0)
    BY <1>3, <1>4
<1>6. TypeOK'
  <2>1. pc' \in [Clerks -> Leading \cup {"idle", "arrived", "wait", "reply", "closed"}]
    BY DEF Push, Proceed, TypeOK
  <2>2. woken' \in [Clerks -> BOOLEAN]
    BY DEF Push, Proceed, TypeOK
  <2>3. pushed' \in Seq(Logged) /\ queue' \in Seq(Clerks)
    BY <1>1, <1>3 DEF Push, TypeOK
  <2> QED
    BY <1>3, <2>1, <2>2, <2>3 DEF TypeOK
<1>7. QueueInv'
  <2>0. \A i, j \in 1 .. Len(queue) : queue[i] = queue[j] => i = j
    BY DEF QueueInv
  <2>1. \A i, j \in 1 .. Len(queue') : queue'[i] = queue'[j] => i = j
    BY <1>1, <2>0
  <2>2. ASSUME NEW d \in Clerks
        PROVE  (\E i \in 1 .. Len(queue') : queue'[i] = d)
                 <=> pc'[d] \in Leading \/ (pc'[d] = "wait" /\ ~done'[d])
    <3>1. CASE d = c
        BY <3>1, <1>1, <1>3, <1>5
    <3>2. CASE d # c
        BY <3>2, <1>1, <1>3 DEF QueueInv
    <3> QED
        BY <3>1, <3>2
  <2>3. ASSUME NEW d \in Clerks, pc'[d] \in Leading PROVE queue'[1] = d
    <3>1. CASE d = c
        BY <3>1, <2>3, <1>3
    <3>2. CASE d # c
      <4>1. pc[d] \in Leading /\ queue[1] = d
        BY <3>2, <2>3, <1>3 DEF QueueInv
      <4>2. Len(queue) > 0
        BY <4>1 DEF QueueInv
      <4> QED
        BY <4>1, <4>2, <1>4
    <3> QED
        BY <3>1, <3>2
  <2>4. \A d \in Clerks :
          /\ done'[d] => pc'[d] \in {"wait", "reply"}
          /\ pc'[d] \in Leading \cup {"arrived", "wait"} => req'[d] \in Logged
          /\ pc'[d] \in {"idle", "closed"} => req'[d] = Idle
    BY ZenonT(60), <1>3, <1>5 DEF QueueInv
  <2> QED
    BY <2>1, <2>2, <2>3, <2>4 DEF QueueInv
<1>8. BatchInv'
  <2>1. \A d \in Clerks : pc'[d] \in {"build", "put", "finish"} => d # c /\ pc[d] = pc'[d]
    BY <1>3, <1>5
  <2>2. \A d \in Clerks : pc[d] = "build" => pc'[d] = "build"
    BY <1>3
  <2>3. \A d \in Clerks : mu' = d <=> pc'[d] = "build"
    BY <1>3, <2>1, <2>2 DEF BatchInv
  <2>4. batch_length' < BATCH_SIZE + MAX_REQUEST
    BY <1>3 DEF BatchInv
  <2>5. ASSUME NEW d \in Clerks, pc'[d] \in {"build", "put", "finish"}
        PROVE  /\ pc'[d] = "build" => iter' \in 1 .. Len(queue') /\ Len(batch') = iter' - 1
                                      /\ batch_length' < BATCH_SIZE
               /\ pc'[d] \in {"put", "finish"} =>
                    Len(batch') \in 1 .. Len(queue') /\ last_writer' = queue'[Len(batch')]
               /\ \A i \in 1 .. Len(batch') : batch'[i] = req'[queue'[i]]
    BY <1>1, <1>3, <2>1, <2>5 DEF BatchInv
  <2> QED
    BY <2>3, <2>4, <2>5 DEF BatchInv
<1>9. HistoryInv'
  <2>1. Popped' = Popped
    BY <1>3, <1>5 DEF Popped
  <2>2. /\ Len(pushed') = Len(pushed) + 1 /\ pushed'[Len(pushed) + 1] = req[c]
        /\ \A i \in 1 .. Len(pushed) : pushed'[i] = pushed[i]
    BY DEF Push, TypeOK
  <2>3. Popped \in Nat /\ Popped + Len(queue) = Len(pushed) /\ Len(pushed') = Popped' + Len(queue')
    BY <1>1, <2>1, <2>2, PoppedFacts DEF HistoryInv
  <2>4. ASSUME NEW i \in 1 .. Len(queue')
        PROVE  pushed'[Popped' + i] = req'[queue'[i]]
    <3>1. CASE i \in 1 .. Len(queue)
      <4>1. Popped + i \in 1 .. Len(pushed)
        BY <3>1, <2>3
      <4> QED
        BY ZenonT(60), <3>1, <4>1, <1>1, <1>3, <2>1, <2>2 DEF HistoryInv
    <3>2. CASE i = Len(queue) + 1
        BY <3>2, <1>1, <1>3, <2>1, <2>2, <2>3
    <3> QED
        BY <3>1, <3>2, <1>1
  <2>a. \A i \in 1 .. Len(pushed) : pushed[i].id # req[c].id
    BY <1>3 DEF HistoryInv
  <2>5. StoredInOrder'
    <3>1. \A i, j \in 1 .. Len(pushed') : pushed'[i].id = pushed'[j].id => i = j
        BY <2>2, <2>a DEF HistoryInv, StoredInOrder
    <3> QED
        BY <1>3, <2>2, <3>1 DEF HistoryInv, StoredInOrder
  <2>6. \A i \in 1 .. Len(pushed') : pushed'[i].id <= issued'
    BY <1>3, <2>2 DEF HistoryInv
  <2>7. \A d \in Clerks :
          pc'[d] = "arrived" => \A i \in 1 .. Len(pushed') : pushed'[i].id # req'[d].id
    <3>1. req[c].id # 0
        BY <1>3, LoggedFacts
    <3>2. \A d \in Clerks : pc'[d] = "arrived" => d # c /\ pc[d] = "arrived" /\ req[d].id # req[c].id
        BY <3>1, <1>3, <1>5 DEF HistoryInv
    <3> QED
        BY <3>2, <1>3, <2>2 DEF HistoryInv
  <2> QED
    BY ZenonT(60), <1>3, <1>5, <2>1, <2>3, <2>4, <2>5, <2>6, <2>7 DEF HistoryInv
<1> QED
    BY <1>6, <1>7, <1>8, <1>9

\* A waiting Writer that tests its loop condition, signaled or not, preserves
\* GroupInv: it leads only as the front of the queue.
LEMMA ProceedInv ==
    ASSUME GroupInv, NEW c \in Clerks, pc[c] = "wait", Proceed(c, queue),
           UNCHANGED <<req, queue, done, mu, batchVars, db, histVars>>
    PROVE  GroupInv'
<1> USE TypeFacts DEF GroupInv
<1>1. ~done[c] => Len(queue) > 0 /\ Head(queue) = queue[1]
    BY DEF TypeOK, QueueInv
<1>2. /\ pc'[c] \in {"reply", "sleep", "wait"}
      /\ done[c] <=> pc'[c] = "reply"
      /\ pc'[c] = "sleep" => queue[1] = c
      /\ \A d \in Clerks : d # c => pc'[d] = pc[d]
    BY <1>1 DEF Proceed, TypeOK
<1>3. TypeOK'
  <2>1. pc' \in [Clerks -> Leading \cup {"idle", "arrived", "wait", "reply", "closed"}]
    BY DEF Proceed, TypeOK
  <2>2. Ok \in [status : {"none", "OK", "NOTFOUND"}, val : Nat]
    OBVIOUS
  <2>3. /\ woken' \in [Clerks -> BOOLEAN]
        /\ reply' \in [Clerks -> [status : {"none", "OK", "NOTFOUND"}, val : Nat]]
    <3> HIDE DEF Ok
    <3> QED
        BY <2>2 DEF Proceed, TypeOK
  <2> QED
    BY <2>1, <2>3 DEF TypeOK
<1>4. QueueInv'
    BY <1>2 DEF QueueInv
<1>5. \A d \in Clerks : /\ (pc'[d] \in {"build", "put", "finish"}) => pc'[d] = pc[d]
                        /\ (pc[d] \in {"build", "put", "finish"}) => pc'[d] = pc[d]
    BY <1>2
<1>6. BatchInv'
    BY <1>5 DEF BatchInv
<1>7. Popped' = Popped
    BY <1>5 DEF Popped
<1>8. HistoryInv'
    BY <1>2, <1>7 DEF HistoryInv, StoredInOrder
<1> QED
    BY <1>3, <1>4, <1>6, <1>8

\* Wakeups, by a signal or spurious, preserve GroupInv.
LEMMA WakeInv ==
    ASSUME GroupInv, NEW c \in Clerks, Wake(c) \/ WakeSpuriously(c)
    PROVE  GroupInv'
BY ZenonT(60), ProceedInv DEF Wake, WakeSpuriously

\* The leader that locks the mutex again and clears the batch preserves GroupInv.
LEMMA StartBuildInv ==
    ASSUME GroupInv, NEW c \in Clerks, StartBuild(c)
    PROVE  GroupInv'
<1> USE ConstantFacts, TypeFacts DEF GroupInv
<1>1. /\ pc[c] = "sleep" /\ pc'[c] = "build"
      /\ \A d \in Clerks : d # c => pc'[d] = pc[d]
      /\ mu' = c /\ iter' = 1 /\ batch' = <<>> /\ batch_length' = 0
      /\ UNCHANGED <<req, queue, done, stored, pushed, issued>>
    BY DEF StartBuild, TypeOK
<1>2. TypeOK'
    BY DEF StartBuild, TypeOK
<1>3. queue[1] = c /\ Len(queue) > 0
    BY <1>1 DEF QueueInv
<1>4. \A d \in Clerks : pc[d] \in Leading => d = c
    BY <1>1, <1>3 DEF QueueInv
<1>5. QueueInv'
    BY <1>1, <1>3 DEF QueueInv
<1>6. BatchInv'
  <2>1. \A d \in Clerks : d # c => pc'[d] \notin Leading
    BY <1>1, <1>4
  <2>2. Len(batch') = 0
    BY <1>1
  <2> QED
    BY <1>1, <1>3, <2>1, <2>2 DEF BatchInv
<1>7. Popped' = Popped
  <2>1. \A d \in Clerks : pc[d] # "finish" /\ pc'[d] # "finish"
    BY <1>1, <1>4
  <2> QED
    BY <1>1, <2>1 DEF Popped
<1>8. HistoryInv'
    BY <1>1, <1>7 DEF HistoryInv, StoredInOrder
<1> QED
    BY <1>2, <1>5, <1>6, <1>8

\* One round of the loop of BuildBatchGroup preserves GroupInv: the batch stays
\* a copy of the first requests of the queue and within the buffer.
LEMMA BuildBatchGroupInv ==
    ASSUME GroupInv, NEW c \in Clerks, BuildBatchGroup(c)
    PROVE  GroupInv'
<1> USE ConstantFacts, TypeFacts DEF GroupInv
<1> DEFINE w == queue[iter]
           length == batch_length + req[w].len
           last == length >= BATCH_SIZE \/ iter = Len(queue)
<1>1. /\ pc[c] = "build" /\ mu = c
      /\ iter \in 1 .. Len(queue) /\ Len(batch) = iter - 1 /\ batch_length < BATCH_SIZE
      /\ \A i \in 1 .. Len(batch) : batch[i] = req[queue[i]]
    BY ZenonT(60) DEF BuildBatchGroup, Enough, BatchInv
<1>2. w \in Clerks /\ queue[1] = c /\ \A d \in Clerks : pc[d] \in Leading => d = c
    BY ZenonT(60), <1>1 DEF QueueInv
<1>3. req[w] \in Logged
    BY <1>1, <1>2 DEF QueueInv
<1>4. length \in Nat /\ length < BATCH_SIZE + MAX_REQUEST
  <2>1. req[w].len \in Nat /\ req[w].len <= MAX_REQUEST
    BY <1>3, LoggedFacts
  <2>2. batch_length \in Nat
    BY DEF TypeOK
  <2> QED
    BY <1>1, <2>1, <2>2
<1>5. /\ batch' = Append(batch, req[w]) /\ batch_length' = length /\ last_writer' = w
      /\ last => pc'[c] = "put" /\ mu' = Free /\ iter' = iter
      /\ ~last => iter' = iter + 1 /\ pc' = pc /\ mu' = mu
      /\ \A d \in Clerks : d # c => pc'[d] = pc[d]
      /\ pc' \in [Clerks -> Leading \cup {"idle", "arrived", "wait", "reply", "closed"}]
      /\ UNCHANGED <<req, reply, queue, done, woken, db, histVars>>
    BY ZenonT(60) DEF BuildBatchGroup, Enough, TypeOK
<1>6. /\ Len(batch') = iter /\ batch' \in Seq(Logged)
      /\ \A i \in 1 .. Len(batch') : batch'[i] = req[queue[i]]
    BY <1>1, <1>3, <1>5 DEF TypeOK
<1> HIDE DEF w, length
<1>7. pc'[c] \in {"build", "put"} /\ (last <=> pc'[c] = "put")
    BY ZenonT(60), <1>1, <1>5
<1>8. TypeOK'
  <2>1. iter' \in Nat \ {0} /\ mu' \in Clerks \cup {Free} /\ last_writer' \in Clerks \cup {Free}
    BY <1>1, <1>2, <1>5
  <2> QED
    BY <1>4, <1>5, <1>6, <2>1 DEF TypeOK
<1>9. QueueInv'
    BY <1>1, <1>2, <1>5, <1>7 DEF QueueInv
<1>10. BatchInv'
  <2>1. \A d \in Clerks : d # c => pc'[d] \notin Leading
    BY <1>2, <1>5
  <2>2. \A d \in Clerks : mu' = d <=> pc'[d] = "build"
    BY <1>1, <1>5, <1>7, <2>1, GroupAssumption
  <2>3. pc'[c] = "build" =>
          iter' \in 1 .. Len(queue') /\ Len(batch') = iter' - 1 /\ batch_length' < BATCH_SIZE
    BY <1>1, <1>4, <1>5, <1>6, <1>7
  <2>4. pc'[c] = "put" => Len(batch') \in 1 .. Len(queue') /\ last_writer' = queue'[Len(batch')]
    BY <1>1, <1>5, <1>6, <1>7 DEF w
  <2> QED
    BY ZenonT(60), <1>4, <1>5, <1>6, <1>7, <2>1, <2>2, <2>3, <2>4 DEF BatchInv
<1>11. Popped' = Popped
  <2>1. \A d \in Clerks : pc[d] # "finish" /\ pc'[d] # "finish"
    BY <1>1, <1>2, <1>5, <1>7
  <2> QED
    BY <1>5, <2>1 DEF Popped
<1>12. HistoryInv'
  <2>1. \A d \in Clerks : /\ pc'[d] = "arrived" => pc[d] = "arrived"
                          /\ pc'[d] = "reply" => pc[d] = "reply"
    BY ZenonT(60), <1>5, <1>7
  <2> QED
    BY <1>5, <1>11, <2>1 DEF HistoryInv, StoredInOrder
<1> QED
    BY <1>8, <1>9, <1>10, <1>12

\* PutBatch, without the mutex, preserves GroupInv: what it stores continues the
\* order of the queue, and Writers pushed meanwhile are behind the batch.
LEMMA PutBatchInv ==
    ASSUME GroupInv, NEW c \in Clerks, PutBatch(c)
    PROVE  GroupInv'
<1> USE ConstantFacts, TypeFacts DEF GroupInv
<1>1. /\ pc[c] = "put" /\ Len(batch) \in 1 .. Len(queue)
      /\ \A i \in 1 .. Len(batch) : batch[i] = req[queue[i]]
      /\ queue[1] = c /\ \A d \in Clerks : pc[d] \in Leading => d = c
    BY DEF PutBatch, BatchInv, QueueInv
<1>2. /\ pc'[c] = "finish" /\ \A d \in Clerks : d # c => pc'[d] = pc[d]
      /\ stored' = stored \o batch
      /\ UNCHANGED <<req, reply, queue, done, woken, mu, batchVars, issued, pushed>>
    BY ZenonT(60) DEF PutBatch, TypeOK
<1>3. /\ stored' \in Seq(Logged) /\ Len(stored') = Len(stored) + Len(batch)
      /\ \A i \in 1 .. Len(stored') :
           stored'[i] = IF i <= Len(stored) THEN stored[i] ELSE batch[i - Len(stored)]
    BY <1>2 DEF TypeOK
<1>4. db' \in [Keys -> Nat]
  <2>1. ASSUME NEW k \in Keys, LastOf(k, batch) # 0
        PROVE  LastOf(k, batch) \in 1 .. Len(batch)
    BY <2>1 DEF LastOf
  <2> QED
    BY <2>1, LoggedFacts DEF PutBatch, TypeOK
<1>5. TypeOK'
    BY ZenonT(60), <1>2, <1>3, <1>4 DEF PutBatch, TypeOK
<1>6. QueueInv'
    BY <1>1, <1>2 DEF QueueInv
<1>7. BatchInv'
    BY ZenonT(60), <1>1, <1>2 DEF BatchInv
<1>8. Popped = Len(stored) /\ Popped' = Len(stored)
  <2>1. \A d \in Clerks : pc[d] # "finish"
    BY <1>1
  <2> QED
    BY <1>2, <1>3, <2>1 DEF Popped
<1>9. HistoryInv'
  <2>1. Len(pushed) = Len(stored) + Len(queue)
    BY <1>8 DEF HistoryInv
  <2>2. \A i \in 1 .. Len(stored') : stored'[i] = pushed[i]
    <3>1. ASSUME NEW i \in 1 .. Len(stored'), i > Len(stored)
          PROVE  stored'[i] = pushed[i]
      <4>1. i - Len(stored) \in 1 .. Len(batch) /\ i - Len(stored) \in 1 .. Len(queue)
        BY <3>1, <1>1, <1>3
      <4>2. pushed[Len(stored) + (i - Len(stored))] = req[queue[i - Len(stored)]]
        BY <4>1, <1>8 DEF HistoryInv
      <4>3. Len(stored) + (i - Len(stored)) = i
        OBVIOUS
      <4>4. stored'[i] = batch[i - Len(stored)]
        BY <3>1, <4>1, <1>3
      <4>5. batch[i - Len(stored)] = req[queue[i - Len(stored)]]
        BY <4>1, <1>1
      <4> QED
        BY ONLY <4>2, <4>3, <4>4, <4>5
    <3> QED
        BY <3>1, <1>3 DEF HistoryInv, StoredInOrder
  <2>3. StoredInOrder'
    BY <1>1, <1>2, <1>3, <2>1, <2>2 DEF HistoryInv, StoredInOrder
  <2>4. \A d \in Clerks :
          done'[d] \/ (pc'[d] = "reply" /\ req'[d].op \in Logging) =>
            \E i \in 1 .. Len(stored') : stored'[i] = req'[d]
    <3>1. \A d \in Clerks :
            done[d] \/ (pc[d] = "reply" /\ req[d].op \in Logging) =>
              \E i \in 1 .. Len(stored) : stored[i] = req[d]
        BY DEF HistoryInv
    <3>2. \A i \in 1 .. Len(stored) : i \in 1 .. Len(stored') /\ stored'[i] = stored[i]
        BY <1>3
    <3> QED
        BY <3>1, <3>2, <1>2
  <2>5. \A d \in Clerks : pc'[d] = "arrived" => pc[d] = "arrived"
    BY <1>2
  <2> QED
    BY ZenonT(60), <1>2, <1>8, <2>1, <2>3, <2>4, <2>5 DEF HistoryInv
<1> QED
    BY <1>5, <1>6, <1>7, <1>9

\* The loop that pops the Writers up to last_writer preserves GroupInv: it pops
\* those of the batch, and marks done only writers whose request is stored.
LEMMA FinishInv ==
    ASSUME GroupInv, NEW c \in Clerks, Finish(c)
    PROVE  GroupInv'
<1> USE ConstantFacts, TypeFacts DEF GroupInv
<1> DEFINE n == Len(batch)
           served == { queue[i] : i \in 1 .. n } \ {c}
<1>1. /\ pc[c] = "finish" /\ mu = Free /\ n \in 1 .. Len(queue) /\ last_writer = queue[n]
      /\ \A i \in 1 .. n : batch[i] = req[queue[i]]
      /\ queue[1] = c /\ \A d \in Clerks : pc[d] \in Leading => d = c
    BY ZenonT(60) DEF Finish, BatchInv, QueueInv
<1>2. \A i, j \in 1 .. Len(queue) : queue[i] = queue[j] => i = j
    BY DEF QueueInv
<1>3. (CHOOSE i \in 1 .. Len(queue) : queue[i] = last_writer) = n
    BY <1>1, <1>2
<1>4. /\ queue' = SubSeq(queue, n + 1, Len(queue))
      /\ done' = [d \in Clerks |-> IF d \in served THEN TRUE ELSE done[d]]
      /\ woken' \in [Clerks -> BOOLEAN]
      /\ pc' = [pc EXCEPT ![c] = "reply"] /\ reply' = [reply EXCEPT ![c] = NoReply]
      /\ UNCHANGED <<req, mu, batchVars, db, histVars>>
    BY ZenonT(60), <1>3 DEF Finish, TypeOK
<1>5. /\ queue' \in Seq(Clerks) /\ Len(queue') = Len(queue) - n
      /\ \A i \in 1 .. Len(queue') : n + i \in 1 .. Len(queue) /\ queue'[i] = queue[n + i]
    BY <1>1, <1>4 DEF TypeOK
<1>6. \A d \in Clerks : d \in served <=> d # c /\ \E i \in 1 .. n : queue[i] = d
    OBVIOUS
<1> HIDE DEF served
<1>7. /\ pc'[c] = "reply" /\ \A d \in Clerks : d # c => pc'[d] = pc[d]
      /\ \A d \in Clerks : done'[d] <=> d \in served \/ done[d]
      /\ \A d \in Clerks : pc'[d] \notin Leading
    BY <1>1, <1>4 DEF TypeOK
<1>8. TypeOK'
  <2>1. NoReply \in [status : {"none", "OK", "NOTFOUND"}, val : Nat]
    OBVIOUS
  <2> HIDE DEF NoReply
  <2>2. done' \in [Clerks -> BOOLEAN]
    BY ZenonT(60), <1>4 DEF TypeOK
  <2> QED
    BY ZenonT(60), <1>4, <1>5, <2>1, <2>2 DEF TypeOK
<1>9. \A d \in served : pc[d] = "wait" /\ ~done[d]
  <2>1. \A d \in served : d \in Clerks /\ d # c /\ \E i \in 1 .. Len(queue) : queue[i] = d
    <3>1. Len(queue) \in Nat /\ n \in Nat /\ n <= Len(queue)
        BY <1>1
    <3>2. \A i \in 1 .. n : i \in 1 .. Len(queue) /\ queue[i] \in Clerks
        BY <1>6, <3>1
    <3> HIDE DEF n
    <3> QED
        BY ONLY ZenonT(60), <3>2 DEF served
  <2> QED
    BY <1>1, <2>1 DEF QueueInv
<1>10. QueueInv'
  <2>1. \A i, j \in 1 .. Len(queue') : queue'[i] = queue'[j] => i = j
    BY <1>1, <1>2, <1>5
  <2>2. ASSUME NEW d \in Clerks
        PROVE  (\E i \in 1 .. Len(queue') : queue'[i] = d) <=> (pc'[d] = "wait" /\ ~done'[d])
    <3>1. (\E i \in 1 .. Len(queue') : queue'[i] = d)
            <=> \E i \in 1 .. Len(queue) : queue[i] = d /\ i > n
      <4>1. ASSUME NEW i \in 1 .. Len(queue), queue[i] = d, i > n
            PROVE  \E k \in 1 .. Len(queue') : queue'[k] = d
        <5>1. i - n \in 1 .. Len(queue') /\ queue'[i - n] = queue[n + (i - n)]
            BY <4>1, <1>1, <1>5
        <5> QED
            BY <5>1, <4>1, <1>1
      <4>2. ASSUME NEW i \in 1 .. Len(queue'), queue'[i] = d
            PROVE  \E k \in 1 .. Len(queue) : queue[k] = d /\ k > n
        <5>1. n + i \in 1 .. Len(queue) /\ queue[n + i] = d /\ n + i > n
            BY <4>2, <1>1, <1>5
        <5> QED
            BY <5>1
      <4> QED
        BY <4>1, <4>2
    <3>2. d = c => ~\E i \in 1 .. Len(queue) : queue[i] = d /\ i > n
        BY <1>1, <1>2
    <3>3. d \in served => ~\E i \in 1 .. Len(queue) : queue[i] = d /\ i > n
        BY <1>1, <1>2, <1>6
    <3>4. d # c /\ d \notin served =>
            ((\E i \in 1 .. Len(queue) : queue[i] = d)
               <=> \E i \in 1 .. Len(queue) : queue[i] = d /\ i > n)
        BY <1>1, <1>6
    <3>5. d # c => ((\E i \in 1 .. Len(queue) : queue[i] = d) <=> (pc[d] = "wait" /\ ~done[d]))
        BY <1>1 DEF QueueInv
    <3> QED
        BY ZenonT(60), <3>1, <3>2, <3>3, <3>4, <3>5, <1>7
  <2>3. \A d \in Clerks :
          /\ done'[d] => pc'[d] \in {"wait", "reply"}
          /\ pc'[d] \in {"arrived", "wait"} => req'[d] \in Logged
          /\ pc'[d] \in {"idle", "closed"} => req'[d] = Idle
    BY ZenonT(60), <1>4, <1>7, <1>9 DEF QueueInv
  <2> QED
    BY ZenonT(60), <1>7, <2>1, <2>2, <2>3 DEF QueueInv
<1>11. BatchInv'
  <2>1. \A d \in Clerks : mu' # d
    BY ZenonT(60), <1>1, <1>4, GroupAssumption
  <2>2. batch_length' < BATCH_SIZE + MAX_REQUEST
    BY ZenonT(60), <1>4 DEF BatchInv
  <2> QED
    BY ZenonT(60), <1>7, <2>1, <2>2 DEF BatchInv
<1>12. Popped = Len(stored) - n /\ Popped' = Len(stored)
  <2>1. (\E d \in Clerks : pc[d] = "finish") /\ ~(\E d \in Clerks : pc'[d] = "finish")
    BY ZenonT(60), <1>1, <1>7
  <2>2. stored' = stored /\ Len(stored) \in Nat
    BY ZenonT(60), <1>4
  <2>3. Popped' = Len(stored) - 0
    BY ONLY <2>1, <2>2, ZenonT(60) DEF Popped
  <2>4. Popped = Len(stored) - n
    BY ONLY <2>1, ZenonT(60) DEF Popped
  <2>5. Len(stored) - 0 = Len(stored)
    BY ONLY <2>2, SMTT(60)
  <2> QED
    BY ONLY <2>3, <2>4, <2>5, ZenonT(60)
<1>13. HistoryInv'
  <2>1. Len(pushed) = Len(stored) - n + Len(queue) /\ Len(stored) - n >= 0
    BY ZenonT(60), <1>12 DEF HistoryInv
  <2>2. \A i \in 1 .. Len(queue) : pushed[Len(stored) - n + i] = req[queue[i]]
    BY <1>12 DEF HistoryInv
  <2>3. ASSUME NEW i \in 1 .. Len(queue') PROVE pushed'[Popped' + i] = req'[queue'[i]]
    <3>1. pushed[Len(stored) - n + (n + i)] = req[queue[n + i]]
        BY ZenonT(60), <1>5, <2>2
    <3>2. Len(stored) - n + (n + i) = Len(stored) + i
        BY <1>1, <1>5
    <3> QED
        BY ZenonT(60), <3>1, <3>2, <1>4, <1>5, <1>12
  <2>4. \A i \in 1 .. n : \E j \in 1 .. Len(stored) : stored[j] = req[queue[i]]
    <3>1. ASSUME NEW i \in 1 .. n
          PROVE  /\ Len(stored) - n + i \in 1 .. Len(stored)
                 /\ stored[Len(stored) - n + i] = req[queue[i]]
      <4>1. Len(stored) - n + i \in 1 .. Len(stored) /\ i \in 1 .. Len(queue)
        BY <1>1, <2>1
      <4> QED
        BY <4>1, <2>2 DEF HistoryInv, StoredInOrder
    <3> QED
        BY <3>1
  <2>5. ASSUME NEW d \in Clerks, done'[d] \/ (pc'[d] = "reply" /\ req'[d].op \in Logging)
        PROVE  \E i \in 1 .. Len(stored') : stored'[i] = req'[d]
    <3>1. CASE d = c
      <4>1. 1 \in 1 .. n /\ queue[1] = d
        BY <3>1, <1>1
      <4>2. stored' = stored /\ req' = req
        BY <1>4
      <4> QED
        BY <4>1, <4>2, <2>4
    <3>2. CASE d \in served
        BY <3>2, <2>4, <1>4, <1>6
    <3>3. CASE d # c /\ d \notin served
        BY ZenonT(60), <3>3, <2>5, <1>4, <1>7 DEF HistoryInv
    <3> QED
        BY <3>1, <3>2, <3>3
  <2>6. Len(pushed') = Popped' + Len(queue') /\ Popped' >= 0
    <3>1. Len(pushed') = Len(pushed) /\ Popped' = Len(stored) /\ Len(queue') = Len(queue) - n
        BY ZenonT(60), <1>4, <1>5, <1>12
    <3> QED
        BY <3>1, <2>1
  <2>7. StoredInOrder'
    BY ZenonT(60), <1>4 DEF HistoryInv, StoredInOrder
  <2>8. \A d \in Clerks : pc'[d] = "arrived" => pc[d] = "arrived"
    BY ZenonT(60), <1>7
  <2> QED
    BY ZenonT(60), <1>4, <2>3, <2>5, <2>6, <2>7, <2>8 DEF HistoryInv
<1> QED
    BY <1>8, <1>10, <1>11, <1>13

\* GroupInv is inductive: every step of the clerks preserves it.
LEMMA NextInv == GroupInv /\ [Next]_vars => GroupInv'
<1> SUFFICES ASSUME GroupInv, [Next]_vars PROVE GroupInv'
    OBVIOUS
<1>1. CASE UNCHANGED vars
  <2> USE <1>1 DEF vars, GroupInv
  <2>1. TypeOK'
    BY DEF TypeOK
  <2>2. QueueInv'
    BY ZenonT(60) DEF QueueInv
  <2>3. BatchInv'
    BY DEF BatchInv
  <2>4. HistoryInv'
    BY ZenonT(60) DEF HistoryInv, Popped, StoredInOrder
  <2> QED
    BY <2>1, <2>2, <2>3, <2>4
<1>2. CASE Next
    BY <1>2, ReceiveInv, GetInv, SyncInv, CloseInv, SendReplyInv, PushInv, WakeInv,
       StartBuildInv, BuildBatchGroupInv, PutBatchInv, FinishInv DEF Next, Writing
<1> QED
    BY <1>1, <1>2

\* For any number of clerks and any sizes, GroupInv holds in every state that
\* the clerks of GroupClerk::Run reach.
THEOREM GroupInvariant == Spec => []GroupInv
BY InitInv, NextInv, PTL DEF Spec

\* Never more than one clerk uses the static batch and calls PutBatch, although
\* the leader gives global_mutex up around its sleep and around PutBatch.
THEOREM OneLeaderHolds == Spec => []OneLeader
<1>1. GroupInv => OneLeader
    BY DEF GroupInv, QueueInv, OneLeader
<1> QED
    BY <1>1, GroupInvariant, PTL

\* BuildBatchGroup never copies beyond buffer[BATCH_SIZE + MAX_REQUEST].
THEOREM BatchFitsHolds == Spec => []BatchFits
<1>1. GroupInv => BatchFits
    BY ConstantFacts DEF GroupInv, TypeOK, BatchInv, BatchFits
<1> QED
    BY <1>1, GroupInvariant, PTL

\* The database gets the logged requests in the order of push_back, each at
\* most once, with the content it had when it was pushed.
THEOREM StoredInOrderHolds == Spec => []StoredInOrder
<1>1. GroupInv => StoredInOrder
    BY ZenonT(60) DEF GroupInv, HistoryInv
<1> QED
    BY <1>1, GroupInvariant, PTL

\* No clerk reaches send_reply with a logged request that PutBatch has not
\* stored.
THEOREM AnsweredIsStoredHolds == Spec => []AnsweredIsStored
<1>1. GroupInv => AnsweredIsStored
    BY DEF GroupInv, HistoryInv, AnsweredIsStored
<1> QED
    BY <1>1, GroupInvariant, PTL

-----------------------------------------------------------------------------
(* GroupCommit implements GroupLog.                                        *)

\* A step that leaves every clerk's request and the store alone is a stutter.
LEMMA Stutters ==
    ASSUME stored' = stored, \A c \in Clerks : Waiting(c)' = Waiting(c)
    PROVE  UNCHANGED Abstract!vars
BY DEF Abstract!vars

\* Receive is a Request of the atomic log.
LEMMA ReceiveRefines ==
    ASSUME GroupInv, NEW c \in Clerks, NEW op \in Logging, NEW k \in Keys, NEW len \in Sizes,
           Receive(c, op, k, len)
    PROVE  Abstract!Request(c)
<1> USE ConstantFacts, TypeFacts DEF GroupInv
<1> DEFINE r == [op |-> op, key |-> k, len |-> len, id |-> issued + 1]
<1>1. r \in Logged /\ r.id = issued + 1 /\ r.op \in Logging
    BY DEF Receive, Logged, TypeOK
<1>2. /\ pc[c] = "idle" /\ req' = [req EXCEPT ![c] = r] /\ stored' = stored
    BY ZenonT(60) DEF Receive
<1> HIDE DEF r
<1>3. Waiting(c) = Idle
    BY ZenonT(60), <1>2 DEF QueueInv, Waiting, Unlogged
<1>4. \A i \in 1 .. Len(stored) : stored[i] # r
  <2>1. \A i \in 1 .. Len(stored) : i \in 1 .. Len(pushed) /\ stored[i] = pushed[i]
    BY DEF HistoryInv, StoredInOrder
  <2>2. \A i \in 1 .. Len(pushed) : pushed[i].id \in Nat /\ pushed[i].id <= issued
    BY LoggedFacts DEF HistoryInv
  <2> QED
    BY <1>1, <2>1, <2>2
<1>5. \A d \in Clerks : Waiting(d) # r
  <2>1. \A d \in Clerks : req[d].id \in Nat
    <3>1. \A d \in Clerks : req[d] \in Requests
        BY TypeFacts
    <3>2. \A q \in Requests : q.id \in Nat
        BY LoggedFacts
    <3> QED
        BY ONLY <3>1, <3>2
  <2>2. \A d \in Clerks : req[d].id <= issued
    BY ZenonT(60) DEF HistoryInv
  <2>3. issued \in Nat
    BY TypeFacts
  <2> SUFFICES ASSUME NEW d \in Clerks PROVE Waiting(d) # r
    OBVIOUS
  <2>4. CASE req[d].op \in Logging
    <3>1. Waiting(d) = req[d]
        BY ONLY ZenonT(60), <2>4 DEF Waiting
    <3> QED
        BY ONLY SMTT(60), <1>1, <2>1, <2>2, <2>3, <3>1, d \in Clerks
  <2>5. CASE req[d].op \notin Logging
    <3>1. Waiting(d).id = 0
        BY ONLY SMTT(60), <2>5 DEF Waiting, Idle, Unlogged
    <3> QED
        BY ONLY SMTT(60), <1>1, <2>3, <3>1
  <2> QED
    BY ONLY <2>4, <2>5
<1>6. Waiting(c)' = r /\ \A d \in Clerks : d # c => Waiting(d)' = Waiting(d)
    BY ZenonT(60), <1>1, <1>2 DEF Waiting, TypeOK
<1>7. [d \in Clerks |-> Waiting(d)]' = [[d \in Clerks |-> Waiting(d)] EXCEPT ![c] = r]
    BY ZenonT(60), <1>6
<1> QED
    BY ZenonT(60), <1>1, <1>2, <1>3, <1>4, <1>5, <1>7 DEF Abstract!Request, Abstract!InLog

\* PutBatch is a Commit of the atomic log: the batch is the requests of distinct
\* waiting clerks, none of them logged before.
LEMMA PutBatchRefines ==
    ASSUME GroupInv, NEW c \in Clerks, PutBatch(c)
    PROVE  Abstract!Commit
<1> USE ConstantFacts, TypeFacts DEF GroupInv
<1> DEFINE n == Len(batch)
           order == [i \in 1 .. n |-> queue[i]]
<1>1. /\ pc[c] = "put" /\ n \in 1 .. Len(queue)
      /\ \A i \in 1 .. n : batch[i] = req[queue[i]]
      /\ queue[1] = c /\ \A d \in Clerks : pc[d] \in Leading => d = c
    BY ZenonT(60) DEF PutBatch, BatchInv, QueueInv
<1>2. /\ order \in [1 .. n -> Clerks]
      /\ \A i, j \in 1 .. n : order[i] = order[j] => i = j
  <2>1. \A i, j \in 1 .. Len(queue) : queue[i] = queue[j] => i = j
    BY DEF QueueInv
  <2>2. \A i \in 1 .. Len(queue) : queue[i] \in Clerks
    BY ZenonT(60)
  <2>3. \A i \in 1 .. n : i \in 1 .. Len(queue)
    BY <1>1
  <2> HIDE DEF n, GroupInv
  <2> QED
    BY ONLY <2>1, <2>2, <2>3
<1>3. n \in Nat /\ n > 0 /\ Len(stored') - Len(stored) = n
    BY <1>1 DEF PutBatch, TypeOK
<1>4. ASSUME NEW i \in 1 .. n
      PROVE  /\ Waiting(order[i]) = batch[i] /\ batch[i] # Idle
             /\ \A j \in 1 .. Len(stored) : stored[j] # batch[i]
  <2>1. queue[i] \in Clerks /\ i \in 1 .. Len(queue) /\ batch[i] = req[queue[i]]
    BY <1>1
  <2>2. batch[i].op \in Logging /\ batch[i] # Idle
    BY LoggedFacts DEF Unlogged
  <2>3. Popped = Len(stored)
    BY <1>1 DEF Popped
  <2>4. Len(stored) + i \in 1 .. Len(pushed) /\ pushed[Len(stored) + i] = batch[i]
    BY <2>1, <2>3 DEF HistoryInv
  <2>5. ASSUME NEW j \in 1 .. Len(stored), stored[j] = batch[i] PROVE FALSE
    <3>1. j \in 1 .. Len(pushed) /\ pushed[j] = pushed[Len(stored) + i]
        BY <2>4, <2>5 DEF HistoryInv, StoredInOrder
    <3>2. j = Len(stored) + i
        BY ZenonT(60), <3>1, <2>4 DEF HistoryInv, StoredInOrder
    <3> QED
        BY <3>2
  <2> QED
    BY ZenonT(60), <2>1, <2>2, <2>5 DEF Waiting
<1>5. stored' = stored \o [i \in 1 .. n |-> Waiting(order[i])]
  <2>1. batch = [i \in 1 .. n |-> Waiting(order[i])]
    BY <1>4 DEF TypeOK
  <2> QED
    BY ZenonT(60), <2>1 DEF PutBatch
<1>6. \A d \in Clerks : Waiting(d)' = Waiting(d)
    BY ZenonT(60) DEF PutBatch, Waiting
<1>7. [d \in Clerks |-> Waiting(d)]' = [d \in Clerks |-> Waiting(d)]
    BY <1>6
<1> HIDE DEF n, order
<1> DEFINE waiting == [d \in Clerks |-> Waiting(d)]
<1>8. \A i \in 1 .. n : waiting[order[i]] = Waiting(order[i])
    BY ZenonT(60), <1>2
<1>9. stored' = stored \o [i \in 1 .. n |-> waiting[order[i]]]
  <2>1. [i \in 1 .. n |-> waiting[order[i]]] = [i \in 1 .. n |-> Waiting(order[i])]
    BY <1>8
  <2> QED
    BY ZenonT(60), <2>1, <1>5
<1>10. \A i \in 1 .. n : waiting[order[i]] # Idle /\ ~Abstract!InLog(waiting[order[i]])
    BY <1>4, <1>8 DEF Abstract!InLog
<1>11. waiting' = waiting
    BY <1>7
<1> HIDE DEF waiting
<1>12. \E ord \in [1 .. n -> Clerks] :
         /\ \A i, j \in 1 .. n : ord[i] = ord[j] => i = j
         /\ \A i \in 1 .. n : waiting[ord[i]] # Idle /\ ~Abstract!InLog(waiting[ord[i]])
         /\ stored' = stored \o [i \in 1 .. n |-> waiting[ord[i]]]
    BY ZenonT(60), <1>2, <1>9, <1>10
<1> QED
    BY ZenonT(60), <1>3, <1>11, <1>12 DEF Abstract!Commit, waiting

\* SendReply is an Answer of the atomic log, or a stutter for GET and SYNC.
LEMMA SendReplyRefines ==
    ASSUME GroupInv, NEW c \in Clerks, SendReply(c)
    PROVE  Abstract!Answer(c) \/ UNCHANGED Abstract!vars
<1> USE DEF GroupInv
<1>1. /\ pc[c] = "reply" /\ req' = [req EXCEPT ![c] = Idle] /\ stored' = stored
    BY DEF SendReply
<1>2. Waiting(c)' = Idle /\ \A d \in Clerks : d # c => Waiting(d)' = Waiting(d)
    BY <1>1 DEF Waiting, TypeOK
<1>3. CASE req[c].op \in Logging
  <2>1. Waiting(c) = req[c] /\ req[c] # Idle
    BY <1>3 DEF Waiting, Unlogged
  <2>2. \E i \in 1 .. Len(stored) : stored[i] = req[c]
    BY ZenonT(60), <1>1, <1>3 DEF HistoryInv
  <2>3. [d \in Clerks |-> Waiting(d)]' = [[d \in Clerks |-> Waiting(d)] EXCEPT ![c] = Idle]
    BY ZenonT(60), <1>2
  <2> QED
    BY ZenonT(60), <1>1, <2>1, <2>2, <2>3 DEF Abstract!Answer, Abstract!InLog
<1>4. CASE req[c].op \notin Logging
    BY <1>1, <1>2, <1>4, Stutters DEF Waiting
<1> QED
    BY <1>3, <1>4

\* The other steps, those on the queue and its mutex, are stutters of the log.
LEMMA StutterSteps ==
    ASSUME GroupInv, NEW c \in Clerks,
           \/ \E k \in Keys : Get(c, k)
           \/ Sync(c) \/ Close(c) \/ Push(c) \/ Wake(c) \/ WakeSpuriously(c)
           \/ StartBuild(c) \/ BuildBatchGroup(c) \/ Finish(c)
    PROVE  UNCHANGED Abstract!vars
<1>1. CASE UNCHANGED <<req, stored>>
    BY <1>1, Stutters DEF Waiting
<1>2. CASE \E k \in Keys : Get(c, k)
  <2>1. PICK k \in Keys : Get(c, k)
    BY <1>2
  <2>2. req[c] = Idle /\ req' = [req EXCEPT ![c] = Unlogged("GET", k)] /\ stored' = stored
    BY ZenonT(60), <2>1 DEF Get, GroupInv, QueueInv
  <2> QED
    BY ZenonT(60), <2>2, Stutters DEF Waiting, Unlogged, GroupInv, TypeOK
<1>3. CASE Sync(c)
  <2>1. req[c] = Idle /\ req' = [req EXCEPT ![c] = Unlogged("SYNC", "none")] /\ stored' = stored
    BY ZenonT(60), <1>3 DEF Sync, GroupInv, QueueInv
  <2> QED
    BY <2>1, Stutters DEF Waiting, Unlogged, GroupInv, TypeOK
<1>4. CASE \/ Close(c) \/ Push(c) \/ Wake(c) \/ WakeSpuriously(c)
           \/ StartBuild(c) \/ BuildBatchGroup(c) \/ Finish(c)
    BY ZenonT(60), <1>1, <1>4 DEF Close, Push, Wake, WakeSpuriously, StartBuild, BuildBatchGroup, Finish
<1> QED
    BY <1>2, <1>3, <1>4

\* Every step of the clerks is a step of the atomic log or a stutter.
LEMMA NextRefines == GroupInv /\ [Next]_vars => [Abstract!Next]_(Abstract!vars)
<1> SUFFICES ASSUME GroupInv, [Next]_vars PROVE [Abstract!Next]_(Abstract!vars)
    OBVIOUS
<1>1. CASE UNCHANGED vars
    BY <1>1, Stutters DEF vars, Waiting
<1>2. CASE Next
  <2>1. PICK c \in Clerks :
          \/ \E op \in Logging, k \in Keys, len \in Sizes : Receive(c, op, k, len)
          \/ \E k \in Keys : Get(c, k)
          \/ Sync(c) \/ Close(c) \/ Writing(c) \/ WakeSpuriously(c) \/ SendReply(c)
    BY <1>2 DEF Next
  <2> QED
    BY <2>1, ReceiveRefines, PutBatchRefines, SendReplyRefines, StutterSteps
       DEF Writing, Abstract!Next
<1> QED
    BY <1>1, <1>2

\* Group commit, with its queue, mutex and condition variables, implements the
\* atomic log of GroupLog for any number of clerks.
THEOREM GroupCommitImplementsLog == Spec => ImplementsLog
<1>1. Init => Abstract!Init
    BY DEF Init, Abstract!Init, Waiting, Unlogged
<1> QED
    BY <1>1, NextRefines, GroupInvariant, PTL DEF Spec, ImplementsLog, Abstract!Spec

=============================================================================
