------------------------- MODULE HybridStoreProofs -------------------------
(***************************************************************************)
(* Proofs about HybridRing: what is in the batches, the index and the      *)
(* database, and what a GET returns.                                       *)
(***************************************************************************)
EXTENDS HybridRingProofs

\* The provers, and their time, for a leaf that names none.
USE SMTT(60), ZenonT(60), SMTT(90)

USE DEF CLIENT_DONE, CLERK_DONE, None, clientVars, netVars, clerkVars, storeVars,
        persistVars, histVars

\* The number of a record is not None.
LEMMA NumberIsSome ==
    ASSUME NEW n \in Nat, NEW i \in 1 .. n
    PROVE  i # None
OBVIOUS

-----------------------------------------------------------------------------
(* The persist threads                                                     *)

\* A flush starts one more thread, with the copy of the batch.
LEMMA FlushThreads ==
    ASSUME TypeOK, NEW b, NEW len, Flush(b, len)
    PROVE  /\ Len(threads) \in Nat /\ Len(threads') = Len(threads) + 1
           /\ threads'[Len(threads) + 1].data = Copied(b)
           /\ threads'[Len(threads) + 1].st = "start"
           /\ \A t \in 1 .. Len(threads) : threads'[t] = threads[t]
<1> DEFINE x == [data |-> Copied(b), tail |-> NextTail(len), st |-> "start"]
<1>1. x.data = Copied(b) /\ x.st = "start"
    OBVIOUS
<1>2. threads' = Append(threads, x)
    BY DEF Flush
<1>3. PICK T : threads \in Seq(T)
    BY DEF TypeOK
<1> HIDE DEF x
<1>4. threads \in Seq(T \cup {x}) /\ x \in T \cup {x}
    BY <1>3
<1>5. /\ Len(threads) \in Nat /\ Len(threads') = Len(threads) + 1
      /\ threads'[Len(threads) + 1] = x
      /\ \A t \in 1 .. Len(threads) : threads'[t] = threads[t]
    BY ONLY <1>2, <1>4, AppendFacts
<1> QED
    BY ONLY <1>1, <1>5

\* A thread that goes on to the state s; the others stay where they are.
LEMMA ThreadMoves ==
    ASSUME TypeOK, NEW t \in 1 .. Len(threads), NEW s, threads' = [threads EXCEPT ![t].st = s]
    PROVE  /\ Len(threads) \in Nat /\ Len(threads') = Len(threads) /\ threads'[t].st = s
           /\ \A u \in 1 .. Len(threads) :
                  threads'[u].data = threads[u].data /\ (u # t => threads'[u] = threads[u])
<1> DEFINE T == [data : Seq(Nat), tail : Nat,
                 st : {"start", "sync", "post", "poll", "done", "lost"}]
           x == [threads[t] EXCEPT !.st = s]
<1>1. threads \in Seq(T)
    BY DEF TypeOK
<1>2. threads[t] \in T
    BY ONLY <1>1, t \in 1 .. Len(threads), ElementFacts, ZenonT(60)
<1>3. x.st = s /\ x.data = threads[t].data
    BY <1>2
<1>4. threads' = [threads EXCEPT ![t] = x]
    OBVIOUS
<1> HIDE DEF T, x
<1>5. Len(threads) \in Nat /\ DOMAIN threads = 1 .. Len(threads)
    BY ONLY <1>1
<1>6. Len(threads') = Len(threads)
    BY ONLY <1>1, <1>4
<1>7. \A u \in 1 .. Len(threads) : threads'[u] = IF u = t THEN x ELSE threads[u]
    BY ONLY <1>4, <1>5
<1> QED
    BY ONLY <1>3, <1>5, <1>6, <1>7, t \in 1 .. Len(threads)

\* The state of a persist thread that takes a step, before and after it.
LEMMA PersistMoves ==
    ASSUME NEW t, PersistStep(t)
    PROVE  /\ UNCHANGED <<clientVars, toClerk, clerkVars, storeVars, histVars>>
           /\ \E s \in {"sync", "post", "poll", "done", "lost"} :
                  /\ threads' = [threads EXCEPT ![t].st = s]
                  /\ s = "sync" => threads[t].st = "start"
                  /\ s = "post" => threads[t].st = "sync"
                  /\ s = "poll" => threads[t].st = "post"
                  /\ s = "done" => threads[t].st = "poll"
                  /\ s = "lost" => kpc = "gone" /\ threads[t].st # "done"
                  /\ IF s = "poll" THEN \E x : toClient' = Append(toClient, TailWord(x))
                                   ELSE UNCHANGED toClient
                  /\ IF s = "done" THEN cq > 0 /\ cq' = cq - 1 ELSE UNCHANGED cq
BY DEF PersistStep, PersistWrite, PersistSync, PersistPost, PersistPoll, PersistLost,
       TakeCompletion

\* The client touches its own variables and what it posts.
LEMMA ClientFrame ==
    ASSUME ClientStep
    PROVE  UNCHANGED <<toClient, cq, clerkVars, storeVars, persistVars>>
<1>1. ASSUME NEW k, NEW len, StartWrite(k, len)
      PROVE  UNCHANGED <<toClient, cq, clerkVars, storeVars, persistVars>>
    BY <1>1 DEF StartWrite
<1>2. ASSUME NEW op, NEW k, SendSimple(op, k)
      PROVE  UNCHANGED <<toClient, cq, clerkVars, storeVars, persistVars>>
    BY <1>2 DEF SendSimple
<1>3. CASE WriteInPlace \/ NopAcked \/ RewindAndWrite
    BY <1>3 DEF WriteInPlace, NopAcked, RewindAndWrite
<1>4. CASE WriteAcked \/ SimpleAcked \/ SendClose
    BY <1>4 DEF WriteAcked, SimpleAcked, SendClose
<1> QED
    BY ONLY ZenonT(60), ClientStep, <1>1, <1>2, <1>3, <1>4 DEF ClientStep

-----------------------------------------------------------------------------
(* The order of the writes                                                 *)

\* What a flush copies of a batch that lies whole in the ring is its ids.
LEMMA CopiedIds ==
    ASSUME TypeOK, NEW b \in Seq([key : Keys, off : Nat, len : Nat, id : Nat]),
           \A i \in 1 .. Len(b) :
               /\ b[i].len > 0
               /\ \A c \in (ktail + b[i].off) .. (ktail + b[i].off + b[i].len - 1) : ring[c] = b[i].id
    PROVE  /\ Len(Copied(b)) = Len(b)
           /\ \A i \in 1 .. Len(b) : Copied(b)[i] = b[i].id
<1>1. Len(b) \in Nat
    OBVIOUS
<1>2. Len(Copied(b)) = Len(b)
    BY <1>1 DEF Copied
<1>3. ASSUME NEW i \in 1 .. Len(b)
      PROVE  ReadAt(ring, ktail + b[i].off, b[i].len) = b[i].id
    <2>1. b[i] \in [key : Keys, off : Nat, len : Nat, id : Nat]
        BY ONLY ZenonT(60), ElementFacts, <1>3,
                b \in Seq([key : Keys, off : Nat, len : Nat, id : Nat])
    <2>2. b[i].off \in Nat /\ b[i].len \in Nat
        BY ONLY <2>1
    <2>3. ktail \in Nat
        BY DEF TypeOK
    <2>4. ktail + b[i].off \in Nat
        BY ONLY SMTT(60), <2>2, <2>3
    <2>5. /\ b[i].len > 0
          /\ \A c \in (ktail + b[i].off) .. (ktail + b[i].off + b[i].len - 1) : ring[c] = b[i].id
        BY ONLY ZenonT(60), <1>3,
                \A j \in 1 .. Len(b) :
                   /\ b[j].len > 0
                   /\ \A c \in (ktail + b[j].off) .. (ktail + b[j].off + b[j].len - 1) : ring[c] = b[j].id
    <2>6. ktail + b[i].off \in (ktail + b[i].off) .. (ktail + b[i].off + b[i].len - 1)
        BY ONLY SMTT(60), <2>2, <2>3, <2>5
    <2>7. ring[ktail + b[i].off] = b[i].id
        BY ONLY <2>5, <2>6
    <2> QED  BY ONLY ZenonT(60), <2>5, <2>7 DEF ReadAt
<1> QED
    BY <1>2, <1>3 DEF Copied

\* The batch is copied whole.
LEMMA BatchCopied ==
    ASSUME RingInv
    PROVE  /\ Len(Copied(batch)) = Len(batch)
           /\ \A i \in 1 .. Len(batch) : Copied(batch)[i] = batch[i].id
<1>1. TypeOK /\ BatchInv /\ batch \in Seq([key : Keys, off : Nat, len : Nat, id : Nat])
    BY ZenonT(60) DEF RingInv, TypeOK
<1>2. \A i \in 1 .. Len(batch) :
        /\ batch[i].len > 0
        /\ \A c \in (ktail + batch[i].off) .. (ktail + batch[i].off + batch[i].len - 1) :
               ring[c] = batch[i].id
    BY <1>1 DEF BatchInv
<1> QED
    BY ONLY ZenonT(60), <1>1, <1>2, CopiedIds

\* So is the batch with the record of the request that wakes the clerk.
LEMMA JoinedCopied ==
    ASSUME RingInv, Woken("PUT")
    PROVE  /\ Len(Copied(Joined)) = Len(Joined)
           /\ \A i \in 1 .. Len(Joined) : Copied(Joined)[i] = Joined[i].id
<1>1. TypeOK /\ BatchInv /\ Joined \in Seq([key : Keys, off : Nat, len : Nat, id : Nat]) /\ Placed
    BY JoinedFacts, WokenFacts DEF RingInv
<1>2. ASSUME NEW i \in 1 .. Len(Joined)
      PROVE  /\ Joined[i].len > 0
             /\ \A c \in (ktail + Joined[i].off) .. (ktail + Joined[i].off + Joined[i].len - 1) :
                    ring[c] = Joined[i].id
    <2>1. i = Len(batch) + 1 \/ i \in 1 .. Len(batch)
        BY JoinedFacts
    <2>2. CASE i = Len(batch) + 1
        <3>1. Joined[i].off = batch_length /\ Joined[i].len = pend.len /\ Joined[i].id = Len(recs)
            BY <2>2, JoinedFacts
        <3>2. /\ pend.len \in Nat /\ pend.len >= 1
              /\ ktail \in Nat /\ batch_length \in Nat /\ buf_head \in Nat
              /\ ktail + batch_length = buf_head - pend.len
            BY PutFacts
        <3>3. ktail + batch_length + pend.len - 1 = buf_head - 1 /\ pend.len > 0
            BY ONLY <3>2
        <3>4. \A c \in (ktail + batch_length) .. (ktail + batch_length + pend.len - 1) :
                  ring[c] = Len(recs)
            BY <1>1, <3>2, <3>3 DEF Placed
        <3> QED  BY <3>1, <3>3, <3>4
    <2>3. CASE i \in 1 .. Len(batch)
        <3>1. Joined[i] = batch[i]
            BY <2>3, JoinedFacts
        <3> QED  BY <1>1, <2>3, <3>1 DEF BatchInv
    <2> QED  BY ONLY <2>1, <2>2, <2>3
<1> QED
    BY ONLY ZenonT(60), <1>1, <1>2, CopiedIds

\* What a thread holds has been flushed, before and after a step.
LEMMA FlushedIn ==
    ASSUME NEW t \in 1 .. Len(threads), NEW i \in 1 .. Len(threads[t].data)
    PROVE  threads[t].data[i] \in Flushed
BY DEF Flushed

\* The same after a step.
LEMMA FlushedInNext ==
    ASSUME NEW t \in 1 .. Len(threads'), NEW i \in 1 .. Len(threads'[t].data)
    PROVE  threads'[t].data[i] \in Flushed'
BY DEF Flushed

\* A flush of an ordered batch leaves the writes in order.
LEMMA FlushInOrder ==
    ASSUME TypeOK, NEW b, NEW len, NEW n, Flush(b, len), InOrder(b, n),
           Len(Copied(b)) = Len(b), \A i \in 1 .. Len(b) : Copied(b)[i] = b[i].id
    PROVE  InOrder(<<>>, n)'
<1> DEFINE m == Len(threads)
<1>1. /\ m \in Nat /\ Len(threads') = m + 1
      /\ threads'[m + 1].data = Copied(b)
      /\ \A t \in 1 .. m : threads'[t] = threads[t]
    BY FlushThreads
<1> HIDE DEF m
<1>2. Flushed' = Flushed \cup { b[i].id : i \in 1 .. Len(b) }
    <2>1. ASSUME NEW t \in 1 .. Len(threads')
          PROVE  t \in 1 .. m \/ t = m + 1
        BY <1>1
    <2>2. 1 .. m \subseteq 1 .. Len(threads') /\ m + 1 \in 1 .. Len(threads')
        BY <1>1
    <2>3. ASSUME NEW id \in Flushed'
          PROVE  id \in Flushed \cup { b[i].id : i \in 1 .. Len(b) }
        <3>0. PICK t \in 1 .. Len(threads') : \E i \in 1 .. Len(threads'[t].data) :
                  id = threads'[t].data[i]
            BY ONLY <2>3 DEF Flushed
        <3>1. PICK i \in 1 .. Len(threads'[t].data) : id = threads'[t].data[i]
            BY ONLY <3>0
        <3>2. CASE t \in 1 .. m
            <4>1. id = threads[t].data[i] /\ i \in 1 .. Len(threads[t].data)
                BY ONLY <1>1, <3>1, <3>2
            <4> QED  BY ONLY ZenonT(60), <3>2, <4>1, FlushedIn DEF m
        <3>3. CASE t = m + 1
            BY <1>1, <3>1, <3>3
        <3> QED  BY <2>1, <3>2, <3>3
    <2>4. ASSUME NEW id \in Flushed \cup { b[i].id : i \in 1 .. Len(b) }
          PROVE  id \in Flushed'
        <3>1. CASE id \in Flushed
            <4>0. PICK t \in 1 .. m : \E i \in 1 .. Len(threads[t].data) : id = threads[t].data[i]
                BY ONLY <3>1 DEF Flushed, m
            <4>1. PICK i \in 1 .. Len(threads[t].data) : id = threads[t].data[i]
                BY ONLY <4>0
            <4>2. /\ t \in 1 .. Len(threads') /\ i \in 1 .. Len(threads'[t].data)
                  /\ id = threads'[t].data[i]
                BY ONLY <1>1, <2>2, <4>1
            <4> QED  BY ONLY ZenonT(60), <4>2, FlushedInNext
        <3>2. CASE id \in { b[i].id : i \in 1 .. Len(b) }
            <4>1. PICK i \in 1 .. Len(b) : id = b[i].id
                BY ONLY <3>2
            <4>2. i \in 1 .. Len(threads'[m + 1].data) /\ id = threads'[m + 1].data[i]
                BY <1>1, <4>1
            <4> QED  BY ONLY ZenonT(60), <2>2, <4>2, FlushedInNext
        <3> QED  BY <3>1, <3>2
    <2> QED  BY <2>3, <2>4
<1>3. Flushed' \cup { <<>>[i].id : i \in 1 .. Len(<<>>) } = 1 .. n
    <2>1. { <<>>[i].id : i \in 1 .. Len(<<>>) } = {}
        OBVIOUS
    <2> QED  BY <1>2, <2>1 DEF InOrder
<1>4. ASSUME NEW t \in 1 .. Len(threads'), NEW i \in 1 .. Len(threads'[t].data),
             NEW j \in 1 .. Len(threads'[t].data), i < j
      PROVE  threads'[t].data[i] < threads'[t].data[j]
    <2>1. CASE t \in 1 .. m
        BY <1>1, <1>4, <2>1 DEF InOrder, m
    <2>2. CASE t = m + 1
        BY <1>1, <1>4, <2>2 DEF InOrder
    <2> QED  BY <1>1, <2>1, <2>2
<1>5. ASSUME NEW s \in 1 .. Len(threads'), NEW t \in 1 .. Len(threads'), s < t,
             NEW i \in 1 .. Len(threads'[s].data), NEW j \in 1 .. Len(threads'[t].data)
      PROVE  threads'[s].data[i] < threads'[t].data[j]
    <2>1. s \in 1 .. m
        BY <1>1, <1>5
    <2>2. CASE t \in 1 .. m
        BY <1>1, <1>5, <2>1, <2>2 DEF InOrder, m
    <2>3. CASE t = m + 1
        <3>1. threads'[s] = threads[s] /\ i \in 1 .. Len(threads[s].data)
            BY <1>1, <2>1
        <3>2. threads[s].data[i] \in Flushed
            BY ONLY ZenonT(60), <2>1, <3>1, FlushedIn DEF m
        <3>3. threads'[t].data[j] = b[j].id /\ j \in 1 .. Len(b)
            BY <1>1, <2>3
        <3> QED  BY <3>1, <3>2, <3>3 DEF InOrder
    <2> QED  BY <1>1, <2>2, <2>3
<1> QED
    BY <1>3, <1>4, <1>5 DEF InOrder

-----------------------------------------------------------------------------
(* The steps that move no record of the store                              *)

\* A step that leaves the records of the store and the client's call as they
\* are: only words travel, or a persist thread or the clerk goes on.
Quiet ==
    /\ UNCHANGED <<cpc, pend, histVars, ktail, batch, batch_length, im_index, db>>
    /\ cpc = "write" => (Untaken' <=> Untaken)
    /\ Len(threads') = Len(threads)
    /\ \A t \in 1 .. Len(threads) : threads'[t].data = threads[t].data

\* A sequence with an element is not empty.
LEMMA NonEmpty == \A a, b, c : <<a>> # <<>> /\ <<a, b>> # <<>> /\ <<a, b, c>> # <<>>
OBVIOUS

\* Whether the clerk has taken the posted request, in the phases of a call.
LEMMA UntakenPhases ==
    /\ AtRest \/ Handled \/ Replied \/ Answered => ~Untaken
    /\ Sent \/ Arrived => Untaken
    /\ HandshakeInv /\ cpc # "closed" /\ Untaken => Sent \/ Arrived
<1>1. AtRest \/ Handled \/ Replied \/ Answered => ~Untaken
    BY DEF AtRest, Handled, Replied, Answered, Untaken
<1>2. Sent => toClerk # <<>>
    BY ONLY ZenonT(60), NonEmpty DEF Sent
<1>3. Arrived => Untaken
    BY DEF Arrived, Untaken
<1> QED
    BY <1>1, <1>2, <1>3 DEF HandshakeInv, Closing, Untaken

\* The words of a request leave it untaken until the clerk wakes up.
LEMMA PlaceAtClerkQuiet ==
    ASSUME RingInv, RingInv', PlaceAtClerk
    PROVE  Quiet
<1>1. /\ UNCHANGED <<clientVars, toClient, cq, kpc, ktail, batch, batch_length,
                     im_index, db, persistVars, histVars>>
      /\ toClerk # <<>>
    BY DEF PlaceAtClerk
<1>2. ASSUME cpc = "write"
      PROVE  Untaken' /\ Untaken
    <2>1. Untaken
        BY <1>1 DEF Untaken
    <2>2. (Sent \/ Arrived) /\ HandshakeInv'
        BY <1>2, <2>1, UntakenPhases DEF RingInv
    <2>3. kpc \in {"spin", "poll"} /\ NoHeader /\ header = CLIENT_DONE
        BY <2>2 DEF Sent, Arrived
    <2>4. kpc' \in {"spin", "poll"} /\ NoHeader' /\ header' = CLIENT_DONE /\ cpc' = "write"
        BY <1>1, <1>2, <2>3 DEF NoHeader
    <2>5. Sent' \/ Arrived'
        BY ONLY <2>2, <2>4 DEF HandshakeInv, AtRest, Handled, Replied, Answered, Closing, NoHeader,
                OneHeader
    <2>6. toClerk' # <<>> \/ kheader' = CLIENT_DONE
        BY ONLY ZenonT(60), <2>5, NonEmpty DEF Sent, Arrived
    <2> QED  BY <2>1, <2>6 DEF Untaken
<1> QED
    BY <1>1, <1>2 DEF Quiet

\* Neither do the other steps of the connection and of the clerk's replies.
LEMMA ReplyQuiet ==
    ASSUME RingInv, PlaceAtClient \/ ClerkPersisted \/ ClerkReply \/ ClerkPoll \/ ClerkGone
    PROVE  Quiet
<1>1. /\ UNCHANGED <<cpc, pend, histVars, ktail, batch, batch_length, im_index, db, threads, kheader>>
      /\ toClerk' = toClerk \/ kpc = "recv"
    BY DEF PlaceAtClient, ClerkPersisted, ClerkReply, ClerkPoll, ClerkGone
<1>2. kpc = "recv" => cpc = "closed"
    BY Phases DEF RingInv
<1> QED
    BY <1>1, <1>2 DEF Quiet, Untaken

\* Neither do the persist threads.
LEMMA PersistQuiet ==
    ASSUME TypeOK, NEW t \in 1 .. Len(threads), PersistStep(t)
    PROVE  Quiet
<1>1. UNCHANGED <<clientVars, toClerk, clerkVars, storeVars, histVars>>
    BY PersistMoves
<1>2. PICK s : threads' = [threads EXCEPT ![t].st = s]
    BY PersistMoves
<1>3. /\ Len(threads') = Len(threads)
      /\ \A u \in 1 .. Len(threads) : threads'[u].data = threads[u].data
    BY <1>2, ThreadMoves
<1> QED
    BY ZenonT(60), <1>1, <1>3 DEF Quiet, Untaken

\* Neither do GET and SYNC.
LEMMA GetQuiet ==
    ASSUME RingInv, ClerkGet \/ ClerkSync
    PROVE  Quiet
<1>1. UNCHANGED <<clientVars, netVars, ktail, batch, batch_length, storeVars, persistVars, histVars>>
    BY DEF ClerkGet, ClerkSync
<1>2. cpc # "write"
    BY WokenFacts DEF ClerkGet, ClerkSync, RingInv, Simple
<1> QED
    BY <1>1, <1>2 DEF Quiet

\* A quiet step keeps the order of the writes.
LEMMA OrderFrame ==
    ASSUME FlushedInOrder, batch' = batch, Taken' = Taken,
           Len(threads') = Len(threads),
           \A t \in 1 .. Len(threads) : threads'[t].data = threads[t].data
    PROVE  FlushedInOrder'
<1>1. Flushed' = Flushed
    BY DEF Flushed
<1> QED
    BY <1>1 DEF FlushedInOrder, InOrder

\* Quiet steps keep the order of the writes.
LEMMA QuietOrder ==
    ASSUME FlushedInOrder, Quiet
    PROVE  FlushedInOrder'
<1>1. Taken' = Taken
    BY DEF Quiet, Taken
<1> QED
    BY <1>1, OrderFrame DEF Quiet

\* A client that starts, posts or ends a call changes nothing in what the clerk
\* has taken: a posted write is untaken, and an answered one is taken.
LEMMA ClientTaken ==
    ASSUME RingInv, ClientStep
    PROVE  Taken' = Taken
<1>1. TypeOK /\ HandshakeInv /\ Len(recs) \in Nat
    BY DEF RingInv, TypeOK
<1>2. CASE WriteInPlace \/ RewindAndWrite
    <2>1. AtRest
        BY <1>1, <1>2, Phases DEF WriteInPlace, RewindAndWrite
    <2>2. PICK pos : PostWrite(pos)
        BY <1>2 DEF WriteInPlace, RewindAndWrite
    <2>3. cpc # "write" /\ toClerk = <<>>
        BY <2>1 DEF AtRest
    <2>4. cpc' = "write" /\ toClerk' # <<>> /\ Len(recs') = Len(recs) + 1
        <3>1. recs' = Append(recs, [key |-> pend.key, len |-> pend.len, pos |-> pos])
            BY <2>2 DEF PostWrite
        <3>2. Len(recs') = Len(recs) + 1
            BY <1>1, <3>1 DEF TypeOK
        <3>3. PICK x, y, z : toClerk' = <<>> \o <<x, y, z>>
            BY <2>2, <2>3 DEF PostWrite
        <3> QED  BY <2>2, <3>2, <3>3, NonEmpty, Tuples DEF PostWrite
    <2> QED  BY <1>1, <2>3, <2>4 DEF Taken, Untaken
<1>3. CASE WriteAcked
    <2>1. ~Untaken
        BY <1>1, <1>3, Phases, UntakenPhases DEF WriteAcked
    <2> QED  BY <1>3, <2>1 DEF WriteAcked, Taken
<1>4. CASE NopAcked \/ SimpleAcked \/ SendClose
    BY <1>4 DEF NopAcked, SimpleAcked, SendClose, Taken, Simple
<1>5. ASSUME NEW k, NEW len, StartWrite(k, len)
      PROVE  Taken' = Taken
    BY <1>5 DEF StartWrite, Taken
<1>6. ASSUME NEW op \in Simple, NEW k, SendSimple(op, k)
      PROVE  Taken' = Taken
    BY <1>6 DEF SendSimple, Taken, Simple
<1> QED
    BY ONLY ZenonT(60), ClientStep, <1>2, <1>3, <1>4, <1>5, <1>6 DEF ClientStep, Simple

\* The batch with the record of the request that wakes the clerk is in order.
LEMMA JoinedInOrder ==
    ASSUME RingInv, Taken \in Nat, FlushedInOrder, Woken("PUT")
    PROVE  InOrder(Joined, Len(recs))
<1> DEFINE n == Len(batch)
<1>1. /\ Len(Joined) = n + 1 /\ n \in Nat
      /\ \A i \in 1 .. n : Joined[i] = batch[i]
      /\ Joined[n + 1].id = Len(recs)
    BY JoinedFacts
<1>2. Taken = Len(recs) - 1 /\ Len(recs) \in Nat /\ Len(recs) >= 1
    <2>1. cpc = "write" /\ Untaken
        BY WokenFacts, UntakenPhases DEF RingInv
    <2>2. Len(recs) \in Nat
        BY DEF RingInv, TypeOK
    <2>3. Taken = Len(recs) - 1
        BY <2>1 DEF Taken
    <2> QED  BY <2>2, <2>3
<1>3. InOrder(batch, Len(recs) - 1)
    BY <1>2 DEF FlushedInOrder
<1> HIDE DEF n
<1>4. Flushed \cup { Joined[i].id : i \in 1 .. Len(Joined) } = 1 .. Len(recs)
    <2>1. { Joined[i].id : i \in 1 .. Len(Joined) } = { batch[i].id : i \in 1 .. n } \cup {Len(recs)}
        BY <1>1
    <2>2. Flushed \cup { batch[i].id : i \in 1 .. n } = 1 .. (Len(recs) - 1)
        BY ONLY <1>3 DEF InOrder, n
    <2>3. 1 .. Len(recs) = 1 .. (Len(recs) - 1) \cup {Len(recs)}
        BY ONLY <1>2
    <2> QED  BY ONLY ZenonT(60), <2>1, <2>2, <2>3
<1>5. \A id \in 1 .. (Len(recs) - 1) : id \in Int /\ id < Len(recs)
    BY ONLY <1>2
<1>6. Flushed \subseteq 1 .. (Len(recs) - 1) /\ \A i \in 1 .. n : batch[i].id \in 1 .. (Len(recs) - 1)
    <2>1. Flushed \cup { batch[i].id : i \in 1 .. n } = 1 .. (Len(recs) - 1)
        BY ONLY <1>3 DEF InOrder, n
    <2> QED  BY ONLY ZenonT(60), <2>1
<1>7. ASSUME NEW i \in 1 .. Len(Joined), NEW j \in 1 .. Len(Joined), i < j
      PROVE  Joined[i].id < Joined[j].id
    <2>1. i \in 1 .. n
        BY <1>1, <1>7
    <2>2. CASE j \in 1 .. n
        BY ONLY <1>1, <1>3, <1>7, <2>1, <2>2 DEF InOrder, n
    <2>3. CASE j = n + 1
        BY ONLY <1>1, <1>5, <1>6, <2>1, <2>3
    <2> QED  BY <1>1, <2>2, <2>3
<1>8. ASSUME NEW id \in Flushed, NEW j \in 1 .. Len(Joined)
      PROVE  id < Joined[j].id
    <2>1. CASE j \in 1 .. n
        BY ONLY <1>1, <1>3, <1>8, <2>1 DEF InOrder, n
    <2>2. CASE j = n + 1
        BY ONLY <1>1, <1>5, <1>6, <1>8, <2>2
    <2> QED  BY <1>1, <2>1, <2>2
<1> QED
    BY ONLY <1>3, <1>4, <1>7, <1>8 DEF InOrder

\* Every step keeps the order of the writes.
LEMMA OrderKept ==
    ASSUME RingInv, RingInv', Taken \in Nat, FlushedInOrder, [Next]_vars
    PROVE  Taken' \in Nat /\ FlushedInOrder'
<1>1. TypeOK /\ HandshakeInv /\ Len(recs) \in Nat
    <2>1. TypeOK /\ HandshakeInv
        BY DEF RingInv
    <2> QED  BY ONLY <2>1 DEF TypeOK
<1>2. CASE Quiet
    <2>1. Taken' = Taken
        BY <1>2 DEF Quiet, Taken
    <2> QED  BY <1>2, <2>1, QuietOrder
<1>3. CASE ClientStep
    <2>1. Taken' = Taken
        BY <1>3, ClientTaken
    <2>2. UNCHANGED <<batch, threads>>
        BY <1>3, ClientFrame
    <2> QED  BY <2>1, <2>2, OrderFrame
<1>4. CASE ClerkDelete
    <2>1. UNCHANGED <<cpc, recs, batch, threads>> /\ cpc # "write"
        BY <1>1, <1>4, WokenFacts DEF ClerkDelete, Simple
    <2>2. Taken' = Taken
        BY <2>1 DEF Taken
    <2> QED  BY <2>1, <2>2, OrderFrame
<1>5. ASSUME Woken("PUT"), UNCHANGED <<clientVars, netVars, histVars>>
      PROVE  Taken' = Len(recs)
    BY <1>1, <1>5, WokenFacts DEF Woken, Arrived, Taken, Untaken
<1>6. CASE ClerkPut
    <2>1. Woken("PUT") /\ UNCHANGED <<clientVars, netVars, threads, histVars>> /\ batch' = Joined
        BY <1>6 DEF ClerkPut
    <2>2. Taken' = Len(recs) /\ Flushed' = Flushed
        BY <1>5, <2>1 DEF Flushed
    <2>3. InOrder(Joined, Len(recs))
        BY <2>1, JoinedInOrder
    <2> QED  BY ZenonT(60), <1>1, <2>1, <2>2, <2>3 DEF FlushedInOrder, InOrder
<1>7. CASE ClerkPutAndFlush
    <2>1. PICK len : Flush(Joined, len)
        BY <1>7 DEF ClerkPutAndFlush
    <2>2. Woken("PUT") /\ UNCHANGED <<clientVars, netVars, histVars>> /\ batch' = <<>>
        BY <1>7 DEF ClerkPutAndFlush, Flush
    <2>3. InOrder(<<>>, Len(recs))'
        BY <1>1, <2>1, <2>2, JoinedInOrder, JoinedCopied, FlushInOrder
    <2>4. Taken' = Len(recs) /\ recs' = recs
        BY <1>5, <2>2
    <2> QED  BY <1>1, <2>2, <2>3, <2>4 DEF FlushedInOrder
<1>8. ASSUME Flush(batch, batch_length), UNCHANGED <<cpc, recs>>, cpc # "write"
      PROVE  Taken' \in Nat /\ FlushedInOrder'
    <2>1. Taken' = Taken /\ batch' = <<>> /\ Taken = Len(recs)
        BY <1>8 DEF Taken, Flush
    <2>2. InOrder(<<>>, Len(recs))'
        BY ZenonT(60), <1>1, <1>8, <2>1, BatchCopied, FlushInOrder DEF FlushedInOrder
    <2> QED  BY <1>8, <2>1, <2>2 DEF FlushedInOrder
<1>9. CASE ClerkNop
    <2>1. cpc = "nop" /\ Flush(batch, batch_length) /\ UNCHANGED <<cpc, recs>>
        BY ZenonT(60), <1>1, <1>9, WokenFacts DEF ClerkNop
    <2> QED  BY <1>8, <2>1
<1>10. CASE ClerkClose
    <2>1. cpc = "closed" /\ UNCHANGED <<cpc, recs>>
        BY <1>1, <1>10, WokenFacts DEF ClerkClose
    <2>2. CASE batch_length > 0
        BY <1>8, <1>10, <2>1, <2>2 DEF ClerkClose
    <2>3. CASE ~(batch_length > 0)
        <3>1. UNCHANGED <<batch, threads>>
            BY <1>10, <2>3 DEF ClerkClose
        <3>2. Taken' = Taken
            BY <2>1 DEF Taken
        <3> QED  BY <3>1, <3>2, OrderFrame
    <2> QED  BY <2>2, <2>3
<1>11. CASE ClerkStep
    BY <1>2, <1>4, <1>6, <1>7, <1>9, <1>10, <1>11, GetQuiet, ReplyQuiet DEF ClerkStep
<1>12. CASE UNCHANGED vars
    <2>1. Taken' = Taken /\ UNCHANGED <<batch, threads>>
        BY <1>12 DEF vars, Taken, Untaken
    <2> QED  BY <2>1, OrderFrame
<1> QED
    BY <1>1, <1>2, <1>3, <1>11, <1>12, PlaceAtClerkQuiet, ReplyQuiet, PersistQuiet DEF Next

-----------------------------------------------------------------------------
(* The index and the database                                              *)

\* What the request that wakes the clerk changes in the keys of the batch.
LEMMA JoinedNewest ==
    ASSUME RingInv, Woken("PUT")
    PROVE  /\ KeysOf(Joined) = KeysOf(batch) \cup {message.key}
           /\ Newest(Joined, Len(batch) + 1)
           /\ \A i \in 1 .. Len(batch) :
                  Newest(Joined, i) => Newest(batch, i) /\ batch[i].key # message.key
<1> DEFINE n == Len(batch)
<1>1. /\ Len(Joined) = n + 1 /\ n \in Nat
      /\ \A i \in 1 .. n : Joined[i] = batch[i]
      /\ Joined[n + 1].key = message.key
    BY JoinedFacts
<1> HIDE DEF n
<1>3. Newest(Joined, n + 1)
    BY <1>1 DEF Newest
<1>4. ASSUME NEW i \in 1 .. n, Newest(Joined, i)
      PROVE  Newest(batch, i) /\ batch[i].key # message.key
    <2>1. n + 1 \in (i + 1) .. Len(Joined) /\ Joined[i] = batch[i]
        BY <1>1
    <2>2. batch[i].key # message.key
        BY <1>1, <1>4, <2>1 DEF Newest
    <2>3. ASSUME NEW j \in (i + 1) .. n
          PROVE  batch[j].key # batch[i].key
        <3>1. j \in (i + 1) .. Len(Joined) /\ j \in 1 .. n
            BY <1>1
        <3> QED  BY <1>1, <1>4, <2>1, <3>1 DEF Newest
    <2> QED  BY <2>2, <2>3 DEF Newest, n
<1>5. ASSUME NEW i \in 1 .. n, Newest(batch, i), batch[i].key # message.key
      PROVE  Newest(Joined, i)
    <2>1. ASSUME NEW j \in (i + 1) .. Len(Joined)
          PROVE  Joined[j].key # Joined[i].key
        <3>1. j = n + 1 \/ (j \in (i + 1) .. n /\ j \in 1 .. n)
            BY <1>1
        <3>2. Joined[i] = batch[i] /\ (j \in 1 .. n => Joined[j] = batch[j])
            BY <1>1
        <3>3. j \in (i + 1) .. n => batch[j].key # batch[i].key
            BY <1>5 DEF Newest, n
        <3> QED  BY ONLY ZenonT(60), <1>1, <1>5, <3>1, <3>2, <3>3
    <2> QED  BY <2>1 DEF Newest
<1>6. ASSUME NEW k \in KeysOf(Joined)
      PROVE  k \in KeysOf(batch) \cup {message.key}
    <2>1. PICK i \in 1 .. Len(Joined) : Joined[i].key = k /\ Newest(Joined, i)
        BY ONLY ZenonT(60), <1>6 DEF KeysOf
    <2>2. i = n + 1 \/ i \in 1 .. n
        BY <1>1
    <2> QED  BY ONLY ZenonT(60), <1>1, <1>4, <2>1, <2>2 DEF KeysOf, n
<1>7. ASSUME NEW k \in KeysOf(batch) \cup {message.key}
      PROVE  k \in KeysOf(Joined)
    <2>1. n + 1 \in 1 .. Len(Joined) /\ \A i \in 1 .. n : i \in 1 .. Len(Joined)
        BY <1>1
    <2>2. CASE k = message.key
        BY ONLY ZenonT(60), <1>1, <1>3, <2>1, <2>2 DEF KeysOf
    <2>3. CASE k \in KeysOf(batch) /\ k # message.key
        <3>1. PICK i \in 1 .. n : batch[i].key = k /\ Newest(batch, i)
            BY ONLY ZenonT(60), <2>3 DEF KeysOf, n
        <3> QED  BY ONLY ZenonT(60), <1>1, <1>5, <2>1, <2>3, <3>1 DEF KeysOf
    <2> QED  BY ONLY ZenonT(60), <1>7, <2>2, <2>3
<1> QED
    BY <1>3, <1>4, <1>6, <1>7, ZenonT(60) DEF n

\* PutBatch stores the last record of each key of a batch that is copied whole.
LEMMA PutBatchStores ==
    ASSUME NEW b, PutBatch(b), NEW k \in Keys,
           \A i \in 1 .. Len(b) : Copied(b)[i] = b[i].id
    PROVE  /\ k \in KeysOf(b) => \E i \in 1 .. Len(b) :
                  b[i].key = k /\ Newest(b, i) /\ db'[k] = b[i].id
           /\ k \notin KeysOf(b) => db'[k] = db[k]
<1>1. ASSUME k \in KeysOf(b)
      PROVE  \E i \in 1 .. Len(b) : b[i].key = k /\ Newest(b, i) /\ db'[k] = b[i].id
    <2> DEFINE P(i) == b[i].key = k /\ Newest(b, i)
               c == CHOOSE i \in 1 .. Len(b) : P(i)
    <2>1. \E i \in 1 .. Len(b) : P(i)
        BY <1>1, NewestExists
    <2>2. c \in 1 .. Len(b) /\ P(c)
        <3> HIDE DEF P
        <3> QED  BY ONLY <2>1, ZenonT(60)
    <2>3. db'[k] = Copied(b)[c]
        BY <1>1, ZenonT(60) DEF PutBatch
    <2> HIDE DEF c
    <2> QED  BY <2>2, <2>3, ZenonT(60)
<1>2. ASSUME k \notin KeysOf(b)
      PROVE  db'[k] = db[k]
    BY <1>2, ZenonT(60) DEF PutBatch
<1> QED
    BY ZenonT(60), <1>1, <1>2

\* The index follows the batch while neither changes.
LEMMA IndexFrame ==
    ASSUME IndexInv, cpc = "closed" => cpc' = "closed", UNCHANGED <<batch, ktail, im_index>>
    PROVE  IndexInv'
BY DEF IndexInv, KeysOf, Newest

\* ClerkPut enters the place of the record it takes.
LEMMA PutIndex ==
    ASSUME RingInv, IndexInv, ClerkPut
    PROVE  IndexInv'
<1> DEFINE n == Len(batch)
<1>1. /\ Woken("PUT") /\ batch' = Joined /\ ktail' = ktail
      /\ im_index' = [im_index EXCEPT ![message.key] =
                        [pos |-> ktail + batch_length, len |-> message.len]]
    BY DEF ClerkPut
<1>2. /\ message.key \in Keys /\ message.len = pend.len /\ cpc = "write"
      /\ im_index \in [Keys -> [pos : Nat, len : Nat]]
    BY ZenonT(60), <1>1, PutFacts, WokenFacts DEF RingInv, TypeOK
<1>3. /\ Len(Joined) = n + 1 /\ n \in Nat
      /\ \A i \in 1 .. n : Joined[i] = batch[i]
      /\ Joined[n + 1].key = message.key /\ Joined[n + 1].off = batch_length
      /\ Joined[n + 1].len = message.len
    BY <1>1, <1>2, JoinedFacts
<1>4. /\ KeysOf(Joined) = KeysOf(batch) \cup {message.key}
      /\ \A i \in 1 .. n : Newest(Joined, i) => Newest(batch, i) /\ batch[i].key # message.key
    BY <1>1, JoinedNewest
<1>5. /\ im_index'[message.key] = [pos |-> ktail + batch_length, len |-> message.len]
      /\ \A k \in Keys \ {message.key} : im_index'[k] = im_index[k]
    BY <1>1, <1>2
<1> HIDE DEF n
<1>6. /\ \A k \in Keys \ KeysOf(batch) : im_index[k] = NoEntry
      /\ \A i \in 1 .. n : Newest(batch, i) =>
             im_index[batch[i].key] = [pos |-> ktail + batch[i].off, len |-> batch[i].len]
    BY <1>2 DEF IndexInv, n
<1>7. \A k \in Keys \ KeysOf(Joined) : im_index'[k] = NoEntry
    BY ONLY ZenonT(60), <1>4, <1>5, <1>6
<1>8. ASSUME NEW i \in 1 .. Len(Joined), Newest(Joined, i)
      PROVE  im_index'[Joined[i].key] = [pos |-> ktail + Joined[i].off, len |-> Joined[i].len]
    <2>1. CASE i = n + 1
        BY ONLY ZenonT(60), <1>3, <1>5, <2>1
    <2>2. CASE i \in 1 .. n
        <3>1. batch[i].key \in Keys
            BY <2>2, BatchTypes DEF RingInv, n
        <3>2. Joined[i] = batch[i] /\ Newest(batch, i) /\ batch[i].key # message.key
            BY ONLY ZenonT(60), <1>3, <1>4, <1>8, <2>2
        <3>3. im_index'[batch[i].key] = im_index[batch[i].key]
            BY ONLY ZenonT(60), <1>5, <3>1, <3>2
        <3> QED  BY ONLY ZenonT(60), <1>6, <2>2, <3>2, <3>3
    <2> QED  BY <1>3, <2>1, <2>2
<1>9. /\ \A k \in Keys \ KeysOf(batch') : im_index'[k] = NoEntry
      /\ \A i \in 1 .. Len(batch') : Newest(batch', i) =>
             im_index'[batch'[i].key] = [pos |-> ktail' + batch'[i].off, len |-> batch'[i].len]
    BY ONLY <1>1, <1>7, <1>8, ZenonT(60)
<1> QED
    BY ONLY <1>9 DEF IndexInv, KeysOf, Newest

\* A flush that erases the keys it has stored leaves an empty index.
LEMMA FlushIndex ==
    ASSUME IndexInv, cpc # "closed", NEW b, KeysOf(batch) \subseteq KeysOf(b),
           batch' = <<>>, im_index' = Erased(b)
    PROVE  IndexInv'
<1>1. \A k \in Keys : im_index'[k] = NoEntry
    BY DEF IndexInv, Erased
<1>2. KeysOf(batch)' \subseteq Keys /\ Len(batch') = 0
    BY DEF KeysOf
<1> QED
    BY <1>1, <1>2 DEF IndexInv

\* The client steps only while it is open.
LEMMA ClientOpen ==
    ASSUME ClientStep
    PROVE  cpc # "closed"
<1>1. ASSUME NEW k, NEW len, StartWrite(k, len)  PROVE cpc # "closed"
    BY <1>1 DEF StartWrite
<1>2. ASSUME NEW op, NEW k, SendSimple(op, k)  PROVE cpc # "closed"
    BY <1>2 DEF SendSimple
<1>3. CASE WriteInPlace \/ NopAcked \/ RewindAndWrite \/ WriteAcked \/ SimpleAcked \/ SendClose
    BY ZenonT(60), <1>3 DEF WriteInPlace, NopAcked, RewindAndWrite, WriteAcked, SimpleAcked, SendClose, Simple
<1> QED
    BY ONLY ZenonT(60), ClientStep, <1>1, <1>2, <1>3 DEF ClientStep

\* Every step keeps the index.
LEMMA IndexKept ==
    ASSUME RingInv, RingInv', IndexInv, [Next]_vars
    PROVE  IndexInv'
<1>1. TypeOK /\ HandshakeInv
    BY DEF RingInv
<1>2. CASE Quiet
    BY <1>2, IndexFrame DEF Quiet
<1>3. CASE ClientStep
    <2>1. UNCHANGED <<batch, ktail, im_index>>
        BY <1>3, ClientFrame
    <2> QED  BY <1>3, <2>1, ClientOpen, IndexFrame
<1>4. CASE ClerkDelete
    BY <1>4, IndexFrame DEF ClerkDelete
<1>5. CASE ClerkPutAndFlush
    <2>1. Woken("PUT") /\ batch' = <<>> /\ im_index' = Erased(Joined)
        BY <1>5 DEF ClerkPutAndFlush, Flush
    <2>2. cpc # "closed" /\ KeysOf(batch) \subseteq KeysOf(Joined)
        BY <1>1, <2>1, WokenFacts, JoinedNewest
    <2> QED  BY <2>1, <2>2, FlushIndex
<1>6. CASE ClerkNop
    <2>1. Woken("NOP") /\ batch' = <<>> /\ im_index' = Erased(batch)
        BY <1>6 DEF ClerkNop, Flush
    <2>2. cpc # "closed"
        BY <1>1, <2>1, WokenFacts
    <2> QED  BY <2>1, <2>2, FlushIndex
<1>7. CASE ClerkClose
    <2>1. cpc' = "closed"
        BY ZenonT(60), <1>1, <1>7, WokenFacts DEF ClerkClose
    <2> QED  BY <2>1 DEF IndexInv
<1>8. CASE ClerkStep
    BY <1>2, <1>4, <1>5, <1>6, <1>7, <1>8, PutIndex, GetQuiet, ReplyQuiet DEF ClerkStep
<1>9. CASE UNCHANGED vars
    BY <1>9, IndexFrame DEF vars
<1> QED
    BY <1>1, <1>2, <1>3, <1>8, <1>9, PlaceAtClerkQuiet, ReplyQuiet, PersistQuiet DEF Next

\* What is stored of a key stays right while batch and database stay, if the
\* newest write of the key stays or becomes unknown.
LEMMA StoredFrame ==
    ASSUME StoredInv, cpc = "closed" => cpc' = "closed", UNCHANGED <<batch, db>>,
           \A k \in Keys : \/ Latest(k)' = Unknown
                           \/ /\ Latest(k)' = Latest(k)
                              /\ cpc = "DELETE" /\ pend.key = k =>
                                     cpc' = "DELETE" /\ pend'.key = k
    PROVE  StoredInv'
<1> SUFFICES ASSUME cpc' # "closed", NEW k \in Keys, Latest(k)' # Unknown
             PROVE  /\ \A i \in 1 .. Len(batch') :
                           batch'[i].key = k /\ Newest(batch, i)' => batch'[i].id = Latest(k)'
                    /\ k \notin KeysOf(batch)' /\ ~(cpc' = "DELETE" /\ pend'.key = k)
                         => db'[k] = Latest(k)'
    BY ZenonT(60) DEF StoredInv
<1>1. Latest(k)' = Latest(k) /\ cpc # "closed"
    OBVIOUS
<1>2. KeysOf(batch)' = KeysOf(batch) /\ \A i : Newest(batch, i)' = Newest(batch, i)
    BY ZenonT(60) DEF KeysOf, Newest
<1> QED
    BY <1>1, <1>2, ZenonT(60) DEF StoredInv

\* Quiet steps keep what the database holds.
LEMMA QuietStored ==
    ASSUME StoredInv, Quiet
    PROVE  StoredInv'
<1>1. \A k \in Keys : Latest(k)' = Latest(k)
    BY DEF Latest, Quiet
<1> QED
    BY <1>1, StoredFrame DEF Quiet

\* A client that posts a write leaves the newest write of every key as it is.
LEMMA PostLatest ==
    ASSUME RingInv, WriteInPlace \/ RewindAndWrite
    PROVE  \A k \in Keys : Latest(k)' = Latest(k)
<1>1. AtRest
    BY Phases DEF WriteInPlace, RewindAndWrite, RingInv
<1>2. PICK pos : PostWrite(pos)
    BY DEF WriteInPlace, RewindAndWrite
<1>3. PICK x, y, z : toClerk' = <<>> \o <<x, y, z>>
    BY <1>1, <1>2 DEF PostWrite, AtRest
<1>4. Untaken'
    BY <1>3, NonEmpty, Tuples DEF Untaken
<1>5. cpc # "write" /\ last' = last
    BY <1>1 DEF AtRest, WriteInPlace, RewindAndWrite
<1> QED
    BY <1>4, <1>5 DEF Latest

\* The acknowledged write becomes the last one of its key.
LEMMA AckedLatest ==
    ASSUME RingInv, WriteAcked
    PROVE  \A k \in Keys : Latest(k)' = Latest(k)
<1>1. ~Untaken
    BY Phases, UntakenPhases DEF WriteAcked, RingInv
<1>2. last \in [Keys -> Int] /\ cpc = "write" /\ cpc' = "idle"
      /\ last' = [last EXCEPT ![pend.key] = Len(recs)]
    BY DEF WriteAcked, RingInv, TypeOK
<1> QED
    BY <1>1, <1>2 DEF Latest

\* An acknowledged DELETE makes its key unknown.
LEMMA SimpleAckedLatest ==
    ASSUME RingInv, SimpleAcked, NEW k \in Keys
    PROVE  \/ Latest(k)' = Unknown
           \/ Latest(k)' = Latest(k) /\ ~(cpc = "DELETE" /\ pend.key = k)
<1>1. last \in [Keys -> Int] /\ cpc # "write" /\ cpc' = "idle"
      /\ last' = IF cpc = "DELETE" THEN [last EXCEPT ![pend.key] = Unknown] ELSE last
    BY DEF SimpleAcked, RingInv, TypeOK, Simple
<1> QED
    BY <1>1 DEF Latest

\* The client's steps keep what is stored.
LEMMA ClientStored ==
    ASSUME RingInv, StoredInv, ClientStep
    PROVE  StoredInv'
<1>1. UNCHANGED <<batch, db>> /\ cpc # "closed"
    BY ClientFrame, ClientOpen
<1>2. CASE WriteInPlace \/ RewindAndWrite
    <2>1. cpc # "DELETE"
        BY <1>2 DEF WriteInPlace, RewindAndWrite
    <2> QED  BY <1>1, <1>2, <2>1, PostLatest, StoredFrame
<1>3. CASE WriteAcked
    <2>1. cpc # "DELETE"
        BY <1>3 DEF WriteAcked
    <2> QED  BY <1>1, <1>3, <2>1, AckedLatest, StoredFrame
<1>4. CASE SimpleAcked
    BY <1>1, <1>4, SimpleAckedLatest, StoredFrame
<1>5. CASE NopAcked
    <2>1. cpc # "DELETE" /\ \A k \in Keys : Latest(k)' = Latest(k)
        BY <1>5 DEF NopAcked, Latest
    <2> QED  BY <1>1, <2>1, StoredFrame
<1>6. CASE SendClose
    BY <1>6 DEF SendClose, StoredInv
<1>7. ASSUME NEW k, NEW len, StartWrite(k, len)
      PROVE  StoredInv'
    <2>1. cpc # "DELETE" /\ \A x \in Keys : Latest(x)' = Latest(x)
        BY <1>7 DEF StartWrite, Latest
    <2> QED  BY <1>1, <2>1, StoredFrame
<1>8. ASSUME NEW op \in Simple, NEW k, SendSimple(op, k)
      PROVE  StoredInv'
    <2>1. cpc # "DELETE" /\ \A x \in Keys : Latest(x)' = Latest(x)
        BY <1>8 DEF SendSimple, Latest, Simple
    <2> QED  BY <1>1, <2>1, StoredFrame
<1> QED
    BY ONLY ZenonT(60), ClientStep, <1>2, <1>3, <1>4, <1>5, <1>6, <1>7, <1>8 DEF ClientStep, Simple

\* The newest write of a key, once the clerk has taken the write that woke it.
LEMMA WokenLatest ==
    ASSUME RingInv, Woken("PUT"), UNCHANGED <<clientVars, netVars, histVars>>, NEW k \in Keys
    PROVE  /\ k = message.key => Latest(k)' = Len(recs)
           /\ k # message.key => Latest(k)' = Latest(k)
<1>1. /\ cpc = "write" /\ message.key = pend.key /\ toClerk = <<>>
      /\ kheader' = CLERK_DONE
    BY WokenFacts DEF RingInv, Woken, Arrived
<1>2. ~Untaken'
    BY <1>1 DEF Untaken
<1> QED
    BY <1>1, <1>2 DEF Latest

\* With that write joined to the batch, the batch and the database hold the
\* newest writes.
LEMMA JoinedStored ==
    ASSUME RingInv, StoredInv, Woken("PUT"), UNCHANGED <<clientVars, netVars, histVars>>,
           NEW k \in Keys, Latest(k)' # Unknown
    PROVE  /\ \A i \in 1 .. Len(Joined) :
                  Joined[i].key = k /\ Newest(Joined, i) => Joined[i].id = Latest(k)'
           /\ k \notin KeysOf(Joined) => db[k] = Latest(k)'
<1> DEFINE n == Len(batch)
<1>1. /\ Len(Joined) = n + 1 /\ n \in Nat
      /\ \A i \in 1 .. n : Joined[i] = batch[i]
      /\ Joined[n + 1].key = message.key /\ Joined[n + 1].id = Len(recs)
    BY JoinedFacts
<1>2. /\ KeysOf(Joined) = KeysOf(batch) \cup {message.key}
      /\ \A i \in 1 .. n : Newest(Joined, i) => Newest(batch, i) /\ batch[i].key # message.key
    BY JoinedNewest
<1>3. cpc = "write"
    BY WokenFacts DEF RingInv
<1>4. /\ k = message.key => Latest(k)' = Len(recs)
      /\ k # message.key => Latest(k)' = Latest(k)
    BY WokenLatest
<1> HIDE DEF n
<1>5. Latest(k) # Unknown =>
        /\ \A i \in 1 .. n : batch[i].key = k /\ Newest(batch, i) => batch[i].id = Latest(k)
        /\ k \notin KeysOf(batch) => db[k] = Latest(k)
    BY <1>3 DEF StoredInv, n
<1>6. ASSUME NEW i \in 1 .. Len(Joined), Joined[i].key = k, Newest(Joined, i)
      PROVE  Joined[i].id = Latest(k)'
    <2>1. CASE i = n + 1
        BY <1>1, <1>4, <1>6, <2>1
    <2>2. CASE i \in 1 .. n
        <3>1. Joined[i] = batch[i] /\ Newest(batch, i) /\ k # message.key
            BY ONLY ZenonT(60), <1>1, <1>2, <1>6, <2>2
        <3> QED  BY ONLY ZenonT(60), <1>4, <1>5, <1>6, <2>2, <3>1, Latest(k)' # Unknown
    <2> QED  BY <1>1, <2>1, <2>2
<1> QED
    BY ONLY ZenonT(60), <1>2, <1>4, <1>5, <1>6, Latest(k)' # Unknown

\* A flush stores what the flushed batch held.
LEMMA FlushStored ==
    ASSUME NEW b, NEW len, Flush(b, len), Len(b) \in Nat,
           \A i \in 1 .. Len(b) : Copied(b)[i] = b[i].id,
           \A k \in Keys : Latest(k)' # Unknown =>
               /\ \A i \in 1 .. Len(b) : b[i].key = k /\ Newest(b, i) => b[i].id = Latest(k)'
               /\ k \notin KeysOf(b) => db[k] = Latest(k)'
    PROVE  StoredInv'
<1>1. PutBatch(b) /\ batch' = <<>>
    BY ZenonT(60) DEF Flush
<1>2. ASSUME NEW k \in Keys, Latest(k)' # Unknown
      PROVE  db'[k] = Latest(k)'
    <2>1. /\ k \in KeysOf(b) => \E i \in 1 .. Len(b) :
                 b[i].key = k /\ Newest(b, i) /\ db'[k] = b[i].id
          /\ k \notin KeysOf(b) => db'[k] = db[k]
        BY ZenonT(60), <1>1, PutBatchStores
    <2>2. /\ \A i \in 1 .. Len(b) : b[i].key = k /\ Newest(b, i) => b[i].id = Latest(k)'
          /\ k \notin KeysOf(b) => db[k] = Latest(k)'
        BY ZenonT(60), <1>2
    <2> QED  BY ONLY ZenonT(60), <2>1, <2>2
<1>3. Len(batch') = 0
    BY <1>1
<1>4. \A i : ~(i \in 1 .. Len(batch'))
    BY <1>3
<1> QED
    BY <1>2, <1>4, ZenonT(60) DEF StoredInv

\* Every step keeps what is stored.
LEMMA StoredKept ==
    ASSUME RingInv, RingInv', StoredInv, [Next]_vars
    PROVE  StoredInv'
<1>1. TypeOK /\ HandshakeInv
    BY DEF RingInv
<1>2. CASE ClerkPut
    <2>1. Woken("PUT") /\ UNCHANGED <<clientVars, netVars, histVars, db>> /\ batch' = Joined
        BY <1>2 DEF ClerkPut
    <2>2. ASSUME NEW k \in Keys, Latest(k)' # Unknown
          PROVE  /\ \A i \in 1 .. Len(Joined) :
                        Joined[i].key = k /\ Newest(Joined, i) => Joined[i].id = Latest(k)'
                 /\ k \notin KeysOf(Joined) => db[k] = Latest(k)'
        BY ZenonT(60), <2>1, <2>2, JoinedStored
    <2>3. KeysOf(batch)' = KeysOf(Joined) /\ \A i : Newest(batch, i)' = Newest(Joined, i)
        BY ZenonT(60), <2>1 DEF KeysOf, Newest
    <2> QED  BY <2>1, <2>2, <2>3, ZenonT(60) DEF StoredInv
<1>3. CASE ClerkPutAndFlush
    <2>1. PICK len : Flush(Joined, len)
        BY <1>3 DEF ClerkPutAndFlush
    <2>2. Woken("PUT") /\ UNCHANGED <<clientVars, netVars, histVars>>
        BY <1>3 DEF ClerkPutAndFlush
    <2>3. Len(Joined) \in Nat /\ \A i \in 1 .. Len(Joined) : Copied(Joined)[i] = Joined[i].id
        BY <2>2, JoinedFacts, JoinedCopied
    <2> QED  BY ZenonT(60), <2>1, <2>2, <2>3, JoinedStored, FlushStored
<1>4. CASE ClerkNop
    <2>1. cpc = "nop" /\ Flush(batch, batch_length) /\ UNCHANGED <<clientVars, histVars>>
        BY <1>1, <1>4, WokenFacts DEF ClerkNop
    <2>2. Len(batch) \in Nat /\ \A i \in 1 .. Len(batch) : Copied(batch)[i] = batch[i].id
        BY <1>1, BatchCopied DEF TypeOK
    <2>3. \A k \in Keys : Latest(k)' = Latest(k)
        BY <2>1 DEF Latest
    <2>4. \A k \in Keys : Latest(k)' # Unknown =>
            /\ \A i \in 1 .. Len(batch) :
                   batch[i].key = k /\ Newest(batch, i) => batch[i].id = Latest(k)'
            /\ k \notin KeysOf(batch) => db[k] = Latest(k)'
        BY <2>1, <2>3, ZenonT(60) DEF StoredInv
    <2> QED  BY ZenonT(60), <2>1, <2>2, <2>4, FlushStored
<1>5. CASE ClerkDelete
    <2>1. /\ cpc = "DELETE" /\ message.key = pend.key /\ UNCHANGED <<clientVars, batch, histVars>>
          /\ db' = [db EXCEPT ![message.key] = None]
        BY <1>1, <1>5, WokenFacts DEF ClerkDelete, Simple
    <2>2. \A k \in Keys : Latest(k)' = Latest(k)
        BY <2>1 DEF Latest
    <2>3. \A k \in Keys : k # pend.key => db'[k] = db[k]
        BY <1>1, <2>1 DEF TypeOK
    <2>4. KeysOf(batch)' = KeysOf(batch) /\ \A i : Newest(batch, i)' = Newest(batch, i)
        BY <2>1 DEF KeysOf, Newest
    <2> QED  BY <2>1, <2>2, <2>3, <2>4, ZenonT(60) DEF StoredInv
<1>6. CASE ClerkClose
    <2>1. cpc' = "closed"
        BY <1>1, <1>6, WokenFacts DEF ClerkClose
    <2> QED  BY ZenonT(60), <2>1 DEF StoredInv
<1>7. CASE ClerkStep
    BY <1>2, <1>3, <1>4, <1>5, <1>6, <1>7, QuietStored, GetQuiet, ReplyQuiet DEF ClerkStep
<1>8. CASE UNCHANGED vars
    <2>1. UNCHANGED <<cpc, pend, batch, db>> /\ \A k \in Keys : Latest(k)' = Latest(k)
        BY ZenonT(60), <1>8 DEF vars, Latest, Untaken
    <2> QED  BY <2>1, StoredFrame
<1> QED
    BY <1>1, <1>7, <1>8, ClientStored, QuietStored, PlaceAtClerkQuiet, ReplyQuiet, PersistQuiet
       DEF Next

-----------------------------------------------------------------------------
(* The answers                                                             *)

\* A record of the batch is found whole.
LEMMA BatchRead ==
    ASSUME RingInv, NEW i \in 1 .. Len(batch)
    PROVE  ReadAt(ring, ktail + batch[i].off, batch[i].len) = batch[i].id
<1>1. Copied(batch)[i] = batch[i].id
    BY BatchCopied
<1> QED
    BY <1>1, ZenonT(60) DEF Copied

\* What the clerk looks up is the last acknowledged write of the key.
LEMMA LookupRight ==
    ASSUME RingInv, FlushedInOrder, Taken \in Nat, IndexInv, StoredInv, cpc = "GET"
    PROVE  Right(Lookup(pend.key))
<1> DEFINE k == pend.key
<1>1. TypeOK /\ k \in Keys
    BY DEF RingInv, PositionInv
<1> SUFFICES ASSUME last[k] # Unknown
             PROVE  /\ Lookup(k).val = last[k]
                    /\ Lookup(k).status = IF last[k] = None THEN "NOTFOUND" ELSE "OK"
    BY DEF Right
<1> HIDE DEF k
<1>2. Latest(k) = last[k]
    BY DEF Latest
<1>3. CASE k \in KeysOf(batch)
    <2>1. PICK i \in 1 .. Len(batch) : batch[i].key = k /\ Newest(batch, i)
        BY ONLY ZenonT(60), <1>3, NewestExists
    <2>2. im_index[k] = [pos |-> ktail + batch[i].off, len |-> batch[i].len]
        BY ZenonT(60), <2>1 DEF IndexInv
    <2>3. batch[i].id = last[k]
        BY <1>1, <1>2, <2>1, ZenonT(60) DEF StoredInv
    <2>4. batch[i].id \in 1 .. Taken
        BY ZenonT(60) DEF FlushedInOrder, InOrder
    <2>5. last[k] # None
        BY ONLY ZenonT(60), <2>3, <2>4, Taken \in Nat, NumberIsSome
    <2>6. batch[i].len > 0 /\ batch[i].len \in Nat
        BY <1>1, BatchTypes DEF RingInv, BatchInv
    <2>7. im_index[k] # NoEntry /\ im_index[k].pos = ktail + batch[i].off
          /\ im_index[k].len = batch[i].len
        BY ONLY <2>2, <2>6 DEF NoEntry
    <2>8. ReadAt(ring, im_index[k].pos, im_index[k].len) = last[k]
        BY <2>3, <2>7, BatchRead
    <2> QED  BY ONLY ZenonT(60), <2>5, <2>7, <2>8 DEF Lookup, None
<1>4. CASE k \notin KeysOf(batch)
    <2>1. im_index[k] = NoEntry
        BY ZenonT(60), <1>1, <1>4 DEF IndexInv
    <2>2. db[k] = last[k]
        BY <1>1, <1>2, <1>4, ZenonT(60) DEF StoredInv
    <2> QED  BY ONLY ZenonT(60), <2>1, <2>2 DEF Lookup, None
<1> QED
    BY <1>3, <1>4

\* The answers stay right while none moves.
LEMMA AnswerFrame ==
    ASSUME ReplyInv, toClient' = toClient,
           cpc' = "GET" => /\ cpc = "GET" /\ UNCHANGED <<pend, last, answer, header>>
                           /\ kpc' # "persist" /\ (kpc' = "reply" => Right(message)')
    PROVE  ReplyInv'
<1>1. ASSUME cpc' = "GET"
      PROVE  /\ Right(answer)' <=> Right(answer)
             /\ \A i \in 1 .. Len(toClient) : Right(toClient[i].rep)' <=> Right(toClient[i].rep)
    BY ZenonT(60), <1>1 DEF Right
<1>2. \A i \in 1 .. Len(toClient') : toClient'[i].kind = "reply" =>
           \E j \in (i + 1) .. Len(toClient') : toClient'[j].kind = "header"
    BY DEF ReplyInv
<1>3. ASSUME cpc' = "GET"
      PROVE  /\ header' = CLERK_DONE => Right(answer)'
             /\ \A i \in 1 .. Len(toClient') :
                  /\ toClient'[i].kind = "reply" => Right(toClient[i].rep)'
                  /\ toClient'[i].kind = "header" =>
                        Right(answer)' \/ \E j \in 1 .. (i - 1) : toClient'[j].kind = "reply"
    BY ZenonT(60), <1>3, <1>1 DEF ReplyInv
<1> QED
    BY <1>2, <1>3, ZenonT(60) DEF ReplyInv

\* A client that sends a GET finds no answer underway.
LEMMA ClientAnswers ==
    ASSUME RingInv, ReplyInv, ClientStep
    PROVE  ReplyInv'
<1>1. toClient' = toClient /\ kpc' = kpc
    BY ClientFrame
<1>2. CASE WriteInPlace \/ RewindAndWrite \/ WriteAcked \/ NopAcked \/ SimpleAcked \/ SendClose
    <2>1. cpc' # "GET"
        BY ZenonT(60), <1>2 DEF WriteInPlace, RewindAndWrite, PostWrite, WriteAcked, NopAcked, SimpleAcked, SendClose
    <2> QED  BY <1>1, <2>1, AnswerFrame
<1>3. ASSUME NEW k, NEW len, StartWrite(k, len)
      PROVE  ReplyInv'
    <2>1. cpc' # "GET"
        BY <1>3 DEF StartWrite
    <2> QED  BY <1>1, <2>1, AnswerFrame
<1>4. ASSUME NEW op, NEW k, SendSimple(op, k)
      PROVE  ReplyInv'
    <2>1. cpc = "idle" /\ header' = header
        BY <1>4 DEF SendSimple
    <2>2. header = CLIENT_DONE /\ NoHeader /\ kpc \in {"spin", "poll"}
        BY <2>1, Phases DEF RingInv, AtRest
    <2>3. \A i \in 1 .. Len(toClient) : toClient[i].kind \notin {"reply", "header"}
        <3>1. Len(toClient) \in Nat
            BY DEF RingInv, TypeOK
        <3> QED  BY <2>2, <3>1 DEF NoHeader, ReplyInv
    <2> QED  BY ZenonT(60), <1>1, <2>1, <2>2, <2>3 DEF ReplyInv
<1> QED
    BY ONLY ZenonT(60), ClientStep, <1>2, <1>3, <1>4 DEF ClientStep

\* What is placed at the client: the reply before its header word.
LEMMA PlaceAtClientAnswers ==
    ASSUME RingInv, ReplyInv, PlaceAtClient
    PROVE  ReplyInv'
<1> DEFINE n == Len(toClient)
           m == Head(toClient)
<1>1. /\ toClient \in Seq(ToClient) /\ toClient # <<>> /\ toClient' = Tail(toClient)
      /\ UNCHANGED <<cpc, pend, kpc, message, last>>
      /\ answer' = IF m.kind = "reply" THEN m.rep ELSE answer
      /\ header' = IF m.kind = "header" THEN CLERK_DONE ELSE header
    BY ZenonT(60) DEF PlaceAtClient, RingInv, TypeOK
<1>2. /\ n >= 1 /\ Len(toClient') = n - 1 /\ n \in Nat /\ m = toClient[1]
      /\ \A i \in 1 .. (n - 1) : toClient'[i] = toClient[i + 1]
    BY <1>1, TailFacts
<1> HIDE DEF n, m
<1>3. ASSUME NEW i \in 1 .. (n - 1), toClient'[i].kind = "reply"
      PROVE  \E j \in (i + 1) .. (n - 1) : toClient'[j].kind = "header"
    <2>1. i + 1 \in 1 .. n /\ toClient[i + 1].kind = "reply"
        BY <1>2, <1>3
    <2>2. PICK j \in (i + 2) .. n : toClient[j].kind = "header"
        BY <1>2, <2>1 DEF ReplyInv, n
    <2>3. j - 1 \in (i + 1) .. (n - 1) /\ toClient'[j - 1] = toClient[j]
        BY <1>2, <2>2
    <2> QED  BY <2>2, <2>3
<1>4. ASSUME cpc' = "GET"
      PROVE  /\ kpc' # "persist" /\ (kpc' = "reply" => Right(message)')
             /\ header' = CLERK_DONE => Right(answer)'
             /\ \A i \in 1 .. (n - 1) :
                    /\ toClient'[i].kind = "reply" => Right(toClient[i].rep)'
                    /\ toClient'[i].kind = "header" =>
                        Right(answer)' \/ \E j \in 1 .. (i - 1) : toClient'[j].kind = "reply"
    <2> DEFINE R(a) == last[pend.key] # Unknown =>
                         /\ a.val = last[pend.key]
                         /\ a.status = IF last[pend.key] = None THEN "NOTFOUND" ELSE "OK"
    <2>1. /\ kpc # "persist" /\ (kpc = "reply" => R(message)) /\ (header = CLERK_DONE => R(answer))
          /\ \A i \in 1 .. n :
               /\ toClient[i].kind = "reply" => R(toClient[i].rep)
               /\ toClient[i].kind = "header" =>
                      R(answer) \/ \E j \in 1 .. (i - 1) : toClient[j].kind = "reply"
        BY ZenonT(60), <1>1, <1>4 DEF ReplyInv, Right, n
    <2>2. (Right(answer)' <=> R(answer')) /\ (Right(message)' <=> R(message))
        BY ZenonT(60), <1>1 DEF Right
    <2>3. \A i \in 1 .. (n - 1) : Right(toClient[i].rep)' <=> R(toClient'[i].rep)
        BY <1>1 DEF Right
    <2> HIDE DEF R
    <2>4. m.kind = "reply" => R(answer')
        BY <1>1, <1>2, <2>1
    <2>5. m.kind # "reply" => answer' = answer
        BY <1>1
    <2>6. m.kind = "header" => R(answer)
        <3>1. ~(\E j \in 1 .. (1 - 1) : toClient[j].kind = "reply") /\ 1 \in 1 .. n
            BY <1>2
        <3> QED  BY ONLY <1>2, <2>1, <3>1
    <2>7. header' = CLERK_DONE => R(answer')
        BY <1>1, <2>1, <2>4, <2>5, <2>6
    <2>8. ASSUME NEW i \in 1 .. (n - 1), toClient'[i].kind = "header"
          PROVE  R(answer') \/ \E j \in 1 .. (i - 1) : toClient'[j].kind = "reply"
        <3>1. i + 1 \in 1 .. n /\ toClient[i + 1].kind = "header"
            BY <1>2, <2>8
        <3>2. CASE R(answer)
            BY <2>4, <2>5, <3>2
        <3>3. ASSUME NEW j \in 1 .. ((i + 1) - 1), toClient[j].kind = "reply"
              PROVE  R(answer') \/ \E l \in 1 .. (i - 1) : toClient'[l].kind = "reply"
            <4>1. CASE j = 1
                BY <1>2, <2>4, <3>3, <4>1
            <4>2. CASE j # 1
                <5>1. j - 1 \in 1 .. (i - 1) /\ toClient'[j - 1] = toClient[j]
                    BY <1>2, <4>2
                <5> QED  BY <3>3, <5>1
            <4> QED  BY <4>1, <4>2
        <3> QED  BY ONLY ZenonT(60), <2>1, <3>1, <3>2, <3>3
    <2>9. \A i \in 1 .. (n - 1) : toClient'[i].kind = "reply" => R(toClient'[i].rep)
        BY <1>2, <2>1
    <2> QED  BY ONLY ZenonT(60), <1>1, <2>1, <2>2, <2>3, <2>7, <2>8, <2>9
<1> QED
    BY <1>2, <1>3, <1>4, ZenonT(60) DEF ReplyInv

\* What is appended behind the words underway to the client keeps the answers
\* right: a tail word, or a right reply with its header word.
LEMMA AppendedAnswers ==
    ASSUME ReplyInv, NEW n \in Nat, n = Len(toClient), NEW l \in Nat, Len(toClient') = n + l,
           \A i \in 1 .. n : toClient'[i] = toClient[i],
           \/ l = 1 /\ toClient'[n + 1].kind = "tail"
           \/ /\ l = 2 /\ toClient'[n + 1] = Reply(message) /\ toClient'[n + 2].kind = "header"
              /\ cpc = "GET" => Right(message),
           UNCHANGED <<cpc, pend, last, answer, header, message>>,
           kpc' = kpc \/ kpc' = "poll"
    PROVE  ReplyInv'
<1>1. Reply(message).kind = "reply" /\ Reply(message).rep = message
    BY DEF Reply
<1>2. \A i \in 1 .. (n + l) : i \in 1 .. n \/ i = n + 1 \/ (l = 2 /\ i = n + 2)
    OBVIOUS
<1>3. ASSUME NEW i \in 1 .. (n + l), toClient'[i].kind = "reply"
      PROVE  \E j \in (i + 1) .. (n + l) : toClient'[j].kind = "header"
    <2>1. CASE i \in 1 .. n
        <3>1. PICK j \in (i + 1) .. n : toClient[j].kind = "header"
            BY ZenonT(60), <1>3, <2>1 DEF ReplyInv
        <3>2. j \in (i + 1) .. (n + l) /\ toClient'[j] = toClient[j]
            BY <2>1, <3>1
        <3> QED  BY <3>1, <3>2
    <2>2. CASE i \notin 1 .. n
        BY <1>1, <1>2, <1>3, <2>2
    <2> QED  BY <2>1, <2>2
<1>4. ASSUME cpc' = "GET"
      PROVE  /\ kpc' # "persist" /\ (kpc' = "reply" => Right(message)')
             /\ header' = CLERK_DONE => Right(answer)'
             /\ \A i \in 1 .. (n + l) :
                    /\ toClient'[i].kind = "reply" => Right(toClient[i].rep)'
                    /\ toClient'[i].kind = "header" =>
                        Right(answer)' \/ \E j \in 1 .. (i - 1) : toClient'[j].kind = "reply"
    <2> DEFINE R(a) == last[pend.key] # Unknown =>
                         /\ a.val = last[pend.key]
                         /\ a.status = IF last[pend.key] = None THEN "NOTFOUND" ELSE "OK"
    <2>1. /\ kpc # "persist" /\ (kpc = "reply" => R(message)) /\ (header = CLERK_DONE => R(answer))
          /\ l = 2 => R(message)
          /\ \A i \in 1 .. n :
               /\ toClient[i].kind = "reply" => R(toClient[i].rep)
               /\ toClient[i].kind = "header" =>
                      R(answer) \/ \E j \in 1 .. (i - 1) : toClient[j].kind = "reply"
        <3>1. cpc = "GET" /\ n = Len(toClient) /\ (l = 2 => Right(message))
            BY <1>4
        <3>2. /\ kpc # "persist" /\ (kpc = "reply" => Right(message))
              /\ (header = CLERK_DONE => Right(answer)) /\ (l = 2 => Right(message))
              /\ \A i \in 1 .. n :
                   /\ toClient[i].kind = "reply" => Right(toClient[i].rep)
                   /\ toClient[i].kind = "header" =>
                          Right(answer) \/ \E j \in 1 .. (i - 1) : toClient[j].kind = "reply"
            BY ONLY <3>1, ReplyInv, ZenonT(60) DEF ReplyInv
        <3> QED  BY ONLY ZenonT(60), <3>2 DEF Right
    <2>2. (Right(answer)' <=> R(answer)) /\ (Right(message)' <=> R(message))
        BY ZenonT(60) DEF Right
    <2>3. \A i \in 1 .. (n + l) : Right(toClient[i].rep)' <=> R(toClient'[i].rep)
        BY ZenonT(60) DEF Right
    <2> HIDE DEF R
    <2>4. ASSUME NEW i \in 1 .. (n + l), toClient'[i].kind = "reply"
          PROVE  R(toClient'[i].rep)
        BY ZenonT(60), <1>1, <1>2, <2>1, <2>4
    <2>5. ASSUME NEW i \in 1 .. (n + l), toClient'[i].kind = "header"
          PROVE  R(answer) \/ \E j \in 1 .. (i - 1) : toClient'[j].kind = "reply"
        <3>1. CASE i \in 1 .. n
            <4>1. \A j \in 1 .. (i - 1) : j \in 1 .. n
                BY <1>2, <3>1
            <4>2. toClient'[i] = toClient[i] /\ \A j \in 1 .. n : toClient'[j] = toClient[j]
                BY <3>1
            <4> QED  BY ONLY ZenonT(60), <2>1, <2>5, <3>1, <4>1, <4>2
        <3>2. CASE i = n + 2 /\ l = 2
            BY <1>1, <3>2
        <3>3. CASE i = n + 1
            BY <1>1, <2>5, <3>3
        <3> QED  BY ZenonT(60), <1>2, <3>1, <3>2, <3>3
    <2> QED  BY <2>1, <2>2, <2>3, <2>4, <2>5, ZenonT(60)
<1> QED
    BY <1>3, <1>4, ZenonT(60) DEF ReplyInv

\* The clerk's reply.
LEMMA ReplyAnswers ==
    ASSUME RingInv, ReplyInv, ClerkReply
    PROVE  ReplyInv'
<1>1. /\ kpc = "reply" /\ kpc' = "poll" /\ toClient' = toClient \o << Reply(message), Hdr >>
      /\ UNCHANGED <<clientVars, message, last>>
    BY DEF ClerkReply
<1>2. toClient \in Seq(ToClient) /\ Reply(message) \in ToClient /\ Hdr \in ToClient
      /\ Hdr.kind = "header"
    BY ZenonT(60), ToClientFacts, Kinds DEF RingInv, TypeOK
<1>3. /\ Len(toClient') = Len(toClient) + 2 /\ Len(toClient) \in Nat
      /\ toClient'[Len(toClient) + 1] = Reply(message) /\ toClient'[Len(toClient) + 2].kind = "header"
      /\ \A i \in 1 .. Len(toClient) : toClient'[i] = toClient[i]
  <2> DEFINE q == toClient \o << Reply(message), Hdr >>
  <2>1. /\ Len(q) = Len(toClient) + 2 /\ Len(toClient) \in Nat
        /\ q[Len(toClient) + 1] = Reply(message) /\ q[Len(toClient) + 2] = Hdr
        /\ \A i \in 1 .. Len(toClient) : q[i] = toClient[i]
    BY ONLY SMTT(60), <1>2, ReplyFacts
  <2>2. toClient' = q
    BY <1>1
  <2> HIDE DEF q
  <2> QED
    BY ONLY ZenonT(60), <1>2, <2>1, <2>2
<1>4. cpc = "GET" => Right(message)
    BY <1>1 DEF ReplyInv
<1> QED
    BY ZenonT(60), <1>1, <1>3, <1>4, AppendedAnswers

\* The persist threads post tail words only.
LEMMA PersistAnswers ==
    ASSUME RingInv, ReplyInv, NEW t \in 1 .. Len(threads), PersistStep(t)
    PROVE  ReplyInv'
<1>1. UNCHANGED <<clientVars, clerkVars, histVars>>
    BY PersistMoves
<1>2. CASE toClient' = toClient
    BY ZenonT(60), <1>1, <1>2, AnswerFrame DEF ReplyInv, Right
<1>3. ASSUME NEW x, toClient' = Append(toClient, TailWord(x))
      PROVE  ReplyInv'
    <2>1. TailWord(x).kind = "tail"
        BY DEF TailWord
    <2>2. toClient \in Seq(ToClient \cup {TailWord(x)}) /\ TailWord(x) \in ToClient \cup {TailWord(x)}
          /\ Len(toClient) \in Nat
        BY DEF RingInv, TypeOK
    <2>3. /\ Len(toClient') = Len(toClient) + 1 /\ toClient'[Len(toClient) + 1].kind = "tail"
          /\ \A i \in 1 .. Len(toClient) : toClient'[i] = toClient[i]
        <3> DEFINE q == Append(toClient, TailWord(x))
        <3>1. /\ Len(q) = Len(toClient) + 1 /\ q[Len(toClient) + 1] = TailWord(x)
              /\ \A i \in 1 .. Len(toClient) : q[i] = toClient[i]
            BY ONLY SMTT(60), <2>2, AppendFacts
        <3>2. toClient' = q
            BY <1>3
        <3> HIDE DEF q
        <3> QED  BY ONLY ZenonT(60), <2>1, <3>1, <3>2
    <2> QED  BY <1>1, <2>2, <2>3, AppendedAnswers, ZenonT(60)
<1>4. toClient' = toClient \/ \E x : toClient' = Append(toClient, TailWord(x))
    BY PersistMoves
<1> QED
    BY <1>2, <1>3, <1>4

\* Every step keeps the answers right.
LEMMA AnswersKept ==
    ASSUME StoreInv, [Next]_vars
    PROVE  ReplyInv'
<1>1. RingInv /\ TypeOK /\ HandshakeInv /\ ReplyInv
    BY DEF StoreInv, RingInv
<1>2. CASE PlaceAtClerk
    <2>1. toClient' = toClient /\ toClerk # <<>> /\ UNCHANGED <<clientVars, kpc, last>>
        BY <1>2 DEF PlaceAtClerk
    <2>2. cpc = "GET" => kpc \in {"spin", "poll"}
        BY <1>1, <2>1, UntakenPhases DEF Untaken, Sent, Arrived
    <2> QED  BY <1>1, <2>1, <2>2, AnswerFrame
<1>3. CASE ClerkGet
    <2>1. /\ message' = Lookup(message.key) /\ kpc' = "reply"
          /\ UNCHANGED <<clientVars, toClient, last>>
        BY <1>3 DEF ClerkGet
    <2>2. cpc = "GET" /\ message.key = pend.key
        BY ZenonT(60), <1>1, <1>3, WokenFacts DEF ClerkGet, Simple
    <2>3. Right(Lookup(pend.key))
        BY <2>2, LookupRight DEF StoreInv
    <2>4. Right(message)'
        BY ZenonT(60), <2>1, <2>2, <2>3 DEF Right
    <2> QED  BY ZenonT(60), <1>1, <2>1, <2>2, <2>4, AnswerFrame
<1>4. CASE ClerkPut \/ ClerkPutAndFlush \/ ClerkNop \/ ClerkDelete \/ ClerkSync \/ ClerkClose
    <2>1. toClient' = toClient /\ cpc' = cpc
        BY ZenonT(60), <1>4 DEF ClerkPut, ClerkPutAndFlush, ClerkNop, ClerkDelete, ClerkSync, ClerkClose
    <2>2. PICK op \in {"PUT", "NOP", "DELETE", "SYNC", "CLOSE"} : Woken(op)
        BY ZenonT(60), <1>4 DEF ClerkPut, ClerkPutAndFlush, ClerkNop, ClerkDelete, ClerkSync, ClerkClose
    <2>3. cpc # "GET"
        BY ONLY <1>1, <2>2, WokenFacts, SMTT(60) DEF Simple
    <2> QED  BY <1>1, <2>1, <2>3, AnswerFrame
<1>5. CASE ClerkPersisted
    <2>1. toClient' = toClient /\ cpc' = cpc /\ kpc \in {"persist", "closing"}
        BY ZenonT(60), <1>5 DEF ClerkPersisted
    <2>2. cpc # "GET"
        BY ZenonT(60), <1>1, <2>1, Phases DEF ReplyInv
    <2> QED  BY <1>1, <2>1, <2>2, AnswerFrame
<1>6. CASE ClerkPoll \/ ClerkGone
    <2>1. toClient' = toClient /\ kpc' \in {"spin", "gone"} /\ UNCHANGED <<clientVars, last>>
        BY <1>6 DEF ClerkPoll, ClerkGone
    <2> QED  BY <1>1, <2>1, AnswerFrame
<1>7. CASE ClerkStep
    BY <1>1, <1>3, <1>4, <1>5, <1>6, <1>7, ReplyAnswers DEF ClerkStep
<1>8. CASE UNCHANGED vars
    BY ZenonT(60), <1>1, <1>8, AnswerFrame DEF vars, ReplyInv, Right
<1> QED
    BY <1>1, <1>2, <1>7, <1>8, ClientAnswers, PlaceAtClientAnswers, PersistAnswers DEF Next

-----------------------------------------------------------------------------
(* The theorems                                                            *)

\* A new connection satisfies the invariant.
LEMMA StoreInit == Init => StoreInv
<1> SUFFICES ASSUME Init PROVE StoreInv
    OBVIOUS
<1>1. RingInv
    BY InitInv
<1>2. Taken = 0 /\ Flushed = {} /\ batch = <<>> /\ threads = <<>>
    BY DEF Init, Taken, Flushed
<1>3. FlushedInOrder
    BY <1>2 DEF FlushedInOrder, InOrder
<1>4. KeysOf(batch) = {} /\ \A k \in Keys : Latest(k) = None /\ db[k] = None /\ im_index[k] = NoEntry
    BY DEF Init, KeysOf, Latest
<1>5. IndexInv /\ StoredInv
  <2>1. \A i \in 1 .. Len(batch) : FALSE
    BY <1>2
  <2> QED
    BY ONLY ZenonT(60), <1>4, <2>1 DEF IndexInv, StoredInv
<1>6. ReplyInv
    BY DEF Init, ReplyInv
<1> QED
    BY <1>1, <1>2, <1>3, <1>5, <1>6 DEF StoreInv

\* Every step of client, clerk, connection and persist threads keeps it.
LEMMA StoreNext == StoreInv /\ [Next]_vars => StoreInv'
BY NextInv, OrderKept, IndexKept, StoredKept, AnswersKept DEF StoreInv

\* StoreInv is an invariant of one connection of the hybrid frontend.
THEOREM StoreInvariant == Spec => []StoreInv
BY StoreInit, StoreNext, PTL DEF Spec

\* The writes are handed to persist_func without loss, repetition or exchange.
THEOREM WritesFlushedInOrder == Spec => []FlushedInOrder
<1>1. StoreInv => FlushedInOrder
    BY DEF StoreInv
<1> QED
    BY StoreInvariant, <1>1, PTL

\* A GET returns the last acknowledged write of its key (HybridClerk::Run, GET).
THEOREM GetIsCurrent == Spec => []GetSeesLastWrite
<1>1. StoreInv => GetSeesLastWrite
    BY ZenonT(60) DEF StoreInv, ReplyInv, Right, GetSeesLastWrite
<1> QED
    BY StoreInvariant, <1>1, PTL

=============================================================================
