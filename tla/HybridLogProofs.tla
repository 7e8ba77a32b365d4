-------------------------- MODULE HybridLogProofs --------------------------
(***************************************************************************)
(* Proofs about HybridRing: how completions are shared among clerk and     *)
(* persist threads, and what the log holds without BG_SYNC.                *)
(***************************************************************************)
EXTENDS HybridStoreProofs, FunctionTheorems, FiniteSetTheorems

\* The provers, and their time, for a leaf that names none.
USE SMTT(60), ZenonT(60), SMTT(90)

USE DEF CLIENT_DONE, CLERK_DONE, None, clientVars, netVars, clerkVars, storeVars,
        persistVars, histVars

-----------------------------------------------------------------------------
(* Completions                                                             *)

\* Places of a sequence are finite in number.
LEMMA PlacesFinite ==
    ASSUME NEW n \in Nat, NEW S \in SUBSET (1 .. n)
    PROVE  IsFiniteSet(S) /\ Cardinality(S) \in Nat
<1>1. IsFiniteSet(1 .. n)
    BY FS_Interval
<1>2. IsFiniteSet(S)
    BY ONLY ZenonT(60), <1>1, S \in SUBSET (1 .. n), FS_Subset
<1> QED
    BY <1>2, FS_CardinalityType

\* As many places behind the first one as there are in the rest of the sequence.
LEMMA PlacesShift ==
    ASSUME NEW n \in Nat, NEW S \in SUBSET (1 .. n), NEW T \in SUBSET (1 .. (n - 1)),
           \A i \in 1 .. (n - 1) : i \in T <=> i + 1 \in S
    PROVE  Cardinality(T) = Cardinality(S) - (IF 1 \in S THEN 1 ELSE 0)
<1> DEFINE f == [i \in T |-> i + 1]
<1>1. f \in [T -> S \ {1}]
    OBVIOUS
<1>2. \A i, j \in T : f[i] = f[j] => i = j
    OBVIOUS
<1>3. \A s \in S \ {1} : \E i \in T : f[i] = s
    <2> SUFFICES ASSUME NEW s \in S \ {1} PROVE \E i \in T : f[i] = s
        OBVIOUS
    <2>1. s - 1 \in 1 .. (n - 1) /\ (s - 1) + 1 = s
        OBVIOUS
    <2>2. s - 1 \in T
        BY <2>1
    <2> QED  BY <2>1, <2>2
<1>4. ExistsBijection(T, S \ {1})
    <2> HIDE DEF f
    <2>1. f \in Bijection(T, S \ {1})
        BY ONLY ZenonT(60), <1>1, <1>2, <1>3, Fun_IsBij
    <2> QED  BY <2>1 DEF ExistsBijection
<1>5. IsFiniteSet(S) /\ IsFiniteSet(T)
    <2>1. T \in SUBSET (1 .. n)
        OBVIOUS
    <2> QED  BY ONLY ZenonT(60), <2>1, PlacesFinite
<1>6. Cardinality(S \ {1}) = Cardinality(T)
    BY ONLY <1>4, <1>5, FS_Bijection
<1> QED
    BY ONLY <1>5, <1>6, FS_RemoveElement, FS_CardinalityType

\* Neither side of the balance changes.
LEMMA BalanceFrame ==
    ASSUME CompletionsBalanced, kpc' = "poll" <=> kpc = "poll", kpc' # "gone" => kpc # "gone",
           UNCHANGED <<cq, toClient, threads>>
    PROVE  CompletionsBalanced'
<1>1. Coming' = Coming /\ Pollers' = Pollers
    BY DEF Coming, Pollers
<1> QED
    BY <1>1 DEF CompletionsBalanced

\* A flush starts a thread that polls nothing yet.
LEMMA FlushBalance ==
    ASSUME TypeOK, CompletionsBalanced, NEW b, NEW len, Flush(b, len),
           kpc # "poll" /\ kpc # "gone", kpc' # "poll", UNCHANGED <<cq, toClient>>
    PROVE  CompletionsBalanced'
<1>1. /\ Len(threads) \in Nat /\ Len(threads') = Len(threads) + 1
      /\ threads'[Len(threads) + 1].st = "start"
      /\ \A t \in 1 .. Len(threads) : threads'[t] = threads[t]
    BY FlushThreads
<1>2. Pollers' = Pollers
    BY <1>1 DEF Pollers
<1>3. Coming' = Coming
    BY DEF Coming
<1> QED
    BY <1>2, <1>3 DEF CompletionsBalanced

\* What is signaled leaves one completion when it is placed.
LEMMA PlaceAtClientBalance ==
    ASSUME TypeOK, CompletionsBalanced, PlaceAtClient
    PROVE  CompletionsBalanced'
<1>1. /\ toClient \in Seq(ToClient) /\ toClient # <<>> /\ toClient' = Tail(toClient)
      /\ kpc' = kpc /\ threads' = threads /\ cq \in Nat
      /\ cq' = IF Head(toClient).kind \in Signaled THEN cq + 1 ELSE cq
    BY DEF PlaceAtClient, TypeOK
<1>2. /\ Len(toClient) >= 1 /\ Len(toClient') = Len(toClient) - 1 /\ Len(toClient) \in Nat
      /\ Head(toClient) = toClient[1]
      /\ \A i \in 1 .. (Len(toClient) - 1) : toClient'[i] = toClient[i + 1]
    BY <1>1, TailFacts
<1>3. Coming \in SUBSET (1 .. Len(toClient)) /\ Coming' \in SUBSET (1 .. (Len(toClient) - 1))
    BY <1>2 DEF Coming
<1>4. \A i \in 1 .. (Len(toClient) - 1) : i \in Coming' <=> i + 1 \in Coming
    BY <1>2 DEF Coming, Signaled
<1>5. 1 \in Coming <=> Head(toClient).kind \in Signaled
    BY <1>2 DEF Coming
<1>6. Cardinality(Coming') = Cardinality(Coming) - (IF 1 \in Coming THEN 1 ELSE 0)
    BY ONLY ZenonT(60), <1>2, <1>3, <1>4, PlacesShift
<1>7. Cardinality(Coming) \in Nat
    BY ONLY ZenonT(60), <1>2, <1>3, PlacesFinite
<1>8. cq' + Cardinality(Coming') = cq + Cardinality(Coming)
    BY ONLY <1>1, <1>5, <1>6, <1>7
<1>9. Pollers' = Pollers
    BY <1>1 DEF Pollers
<1> QED
    BY <1>1, <1>8, <1>9 DEF CompletionsBalanced

\* The header word of a reply is for the clerk's own poll.
LEMMA ReplyBalance ==
    ASSUME TypeOK, CompletionsBalanced, ClerkReply
    PROVE  CompletionsBalanced'
<1> DEFINE n == Len(toClient)
<1>1. /\ kpc = "reply" /\ kpc' = "poll" /\ toClient' = toClient \o << Reply(message), Hdr >>
      /\ UNCHANGED <<cq, threads>> /\ cq \in Nat
    BY DEF ClerkReply, TypeOK
<1>2. /\ Len(toClient') = n + 2 /\ n \in Nat
      /\ toClient'[n + 1].kind = "reply" /\ toClient'[n + 2].kind = "header"
      /\ \A i \in 1 .. n : toClient'[i] = toClient[i]
    <2>1. toClient \in Seq(ToClient) /\ message \in Replies \cup Requests
        BY DEF TypeOK
    <2>2. Reply(message) \in ToClient /\ Reply(message).kind = "reply" /\ Hdr \in ToClient
          /\ Hdr.kind = "header"
        BY <2>1, ToClientFacts, Kinds
    <2> QED  BY <1>1, <2>1, <2>2, ReplyFacts
<1> HIDE DEF n
<1>3. Coming' = Coming \cup {n + 2} /\ n + 2 \notin Coming
    BY <1>2 DEF Coming, Signaled, n
<1>4. IsFiniteSet(Coming) /\ Cardinality(Coming) \in Nat
    <2>1. Coming \in SUBSET (1 .. n)
        BY DEF Coming, n
    <2> QED  BY ONLY ZenonT(60), <1>2, <2>1, PlacesFinite
<1>5. Cardinality(Coming') = Cardinality(Coming) + 1
    BY ONLY <1>3, <1>4, FS_AddElement
<1>6. Pollers' = Pollers
    BY <1>1 DEF Pollers
<1>7. Cardinality(Pollers) \in Nat
    <2>1. Len(threads) \in Nat /\ Pollers \in SUBSET (1 .. Len(threads))
        BY DEF TypeOK, Pollers
    <2> QED  BY ONLY ZenonT(60), <2>1, PlacesFinite
<1> QED
    BY <1>1, <1>4, <1>5, <1>6, <1>7 DEF CompletionsBalanced

\* Whoever takes a completion polls no more.
LEMMA PollBalance ==
    ASSUME TypeOK, CompletionsBalanced, ClerkPoll
    PROVE  CompletionsBalanced'
<1>1. kpc = "poll" /\ kpc' = "spin" /\ cq > 0 /\ cq' = cq - 1 /\ UNCHANGED <<toClient, threads>>
    BY DEF ClerkPoll, TakeCompletion
<1>2. Coming' = Coming /\ Pollers' = Pollers
    BY <1>1 DEF Coming, Pollers
<1>3. Cardinality(Coming) \in Nat /\ Cardinality(Pollers) \in Nat /\ cq \in Nat
    <2>1. /\ Len(threads) \in Nat /\ Pollers \in SUBSET (1 .. Len(threads))
          /\ Len(toClient) \in Nat /\ Coming \in SUBSET (1 .. Len(toClient))
          /\ cq \in Nat
        BY DEF TypeOK, Pollers, Coming
    <2> QED  BY ONLY ZenonT(60), <2>1, PlacesFinite
<1> QED
    BY <1>1, <1>2, <1>3 DEF CompletionsBalanced

\* A thread that posts its tail word polls for one more completion, and one
\* that has taken a completion is done.
LEMMA PersistBalance ==
    ASSUME TypeOK, CompletionsBalanced, NEW t \in 1 .. Len(threads), PersistStep(t)
    PROVE  CompletionsBalanced'
<1>1. PICK s \in {"sync", "post", "poll", "done", "lost"} :
        /\ threads' = [threads EXCEPT ![t].st = s]
        /\ s = "sync" => threads[t].st = "start"
        /\ s = "post" => threads[t].st = "sync"
        /\ s = "poll" => threads[t].st = "post"
        /\ s = "done" => threads[t].st = "poll"
        /\ s = "lost" => kpc = "gone"
        /\ IF s = "poll" THEN \E x : toClient' = Append(toClient, TailWord(x))
                         ELSE UNCHANGED toClient
        /\ IF s = "done" THEN cq > 0 /\ cq' = cq - 1 ELSE UNCHANGED cq
    BY PersistMoves
<1>2. kpc' = kpc
    BY PersistMoves
<1>3. /\ Len(threads) \in Nat /\ Len(threads') = Len(threads) /\ threads'[t].st = s
      /\ \A u \in 1 .. Len(threads) : u # t => threads'[u] = threads[u]
    BY <1>1, ThreadMoves
<1>4. /\ IsFiniteSet(Coming) /\ Cardinality(Coming) \in Nat
      /\ IsFiniteSet(Pollers) /\ Cardinality(Pollers) \in Nat
      /\ cq \in Nat /\ Len(toClient) \in Nat /\ Len(toClient) + 1 \notin Coming
    <2>1. Len(toClient) \in Nat /\ cq \in Nat
        BY DEF TypeOK
    <2>2. Pollers \in SUBSET (1 .. Len(threads)) /\ Coming \in SUBSET (1 .. Len(toClient))
        BY ONLY ZenonT(60) DEF Pollers, Coming
    <2>3. Len(toClient) + 1 \notin Coming
        BY ONLY <2>1, <2>2, SMTT(60)
    <2> QED  BY ONLY ZenonT(60), <1>3, <2>1, <2>2, <2>3, PlacesFinite
<1>5. CASE s = "poll"
    <2>1. Coming' = Coming \cup {Len(toClient) + 1}
        <3>1. PICK x : toClient' = Append(toClient, TailWord(x))
            BY <1>1, <1>5
        <3>2. TailWord(x).kind = "tail"
            BY DEF TailWord
        <3>3. toClient \in Seq(ToClient \cup {TailWord(x)}) /\ TailWord(x) \in ToClient \cup {TailWord(x)}
            BY DEF TypeOK
        <3>4. /\ Len(toClient') = Len(toClient) + 1 /\ toClient'[Len(toClient) + 1].kind = "tail"
              /\ \A i \in 1 .. Len(toClient) : toClient'[i] = toClient[i]
            BY ONLY <3>1, <3>2, <3>3, AppendFacts
        <3> QED  BY <1>4, <3>4 DEF Coming, Signaled
    <2>2. Pollers' = Pollers \cup {t} /\ t \notin Pollers
        BY <1>1, <1>3, <1>5 DEF Pollers
    <2>3. /\ Cardinality(Coming') = Cardinality(Coming) + 1
          /\ Cardinality(Pollers') = Cardinality(Pollers) + 1
        BY ONLY ZenonT(60), <1>4, <2>1, <2>2, FS_AddElement
    <2> QED  BY <1>1, <1>2, <1>4, <1>5, <2>3 DEF CompletionsBalanced
<1>6. CASE s = "done"
    <2>1. Coming' = Coming
        BY <1>1, <1>6 DEF Coming
    <2>2. Pollers' = Pollers \ {t} /\ t \in Pollers
        BY <1>1, <1>3, <1>6 DEF Pollers
    <2>3. Cardinality(Pollers') = Cardinality(Pollers) - 1
        BY ONLY ZenonT(60), <1>4, <2>2, FS_RemoveElement
    <2>4. cq \in Nat /\ cq' = cq - 1 /\ Cardinality(Coming') = Cardinality(Coming)
        BY <1>1, <1>4, <1>6, <2>1
    <2> QED  BY ONLY <1>2, <1>4, <2>3, <2>4, CompletionsBalanced, SMTT(60) DEF CompletionsBalanced
<1>7. CASE s \in {"sync", "post"}
    <2>1. Coming' = Coming /\ cq' = cq
        BY <1>1, <1>7 DEF Coming
    <2>2. Pollers' = Pollers
        BY <1>1, <1>3, <1>7 DEF Pollers
    <2> QED  BY <1>2, <2>1, <2>2 DEF CompletionsBalanced
<1>8. CASE s = "lost"
    BY <1>1, <1>2, <1>8 DEF CompletionsBalanced
<1> QED
    BY <1>5, <1>6, <1>7, <1>8

\* Every step keeps the balance.
LEMMA BalanceKept ==
    ASSUME RingInv, CompletionsBalanced, [Next]_vars
    PROVE  CompletionsBalanced'
<1>1. TypeOK /\ HandshakeInv
    BY DEF RingInv
<1>2. CASE ClientStep
    <2>1. UNCHANGED <<toClient, cq, kpc, threads>>
        BY <1>2, ClientFrame
    <2> QED  BY <2>1, BalanceFrame
<1>3. CASE PlaceAtClerk
    BY <1>3, BalanceFrame DEF PlaceAtClerk
<1>4. CASE PlaceAtClient
    BY <1>1, <1>4, PlaceAtClientBalance
<1>5. CASE ClerkStep
    <2>1. CASE ClerkPut \/ ClerkGet \/ ClerkDelete \/ ClerkSync
        BY <2>1, BalanceFrame DEF ClerkPut, ClerkGet, ClerkDelete, ClerkSync, Woken
    <2>2. CASE ClerkPutAndFlush
        BY <1>1, <2>2, FlushBalance DEF ClerkPutAndFlush, Woken
    <2>3. CASE ClerkNop
        BY <1>1, <2>3, FlushBalance DEF ClerkNop, Woken
    <2>4. CASE ClerkClose
        <3>1. CASE batch_length > 0
            BY <1>1, <2>4, <3>1, FlushBalance DEF ClerkClose, Woken
        <3>2. CASE ~(batch_length > 0)
            BY <2>4, <3>2, BalanceFrame DEF ClerkClose, Woken
        <3> QED  BY <3>1, <3>2
    <2>5. CASE ClerkPersisted
        BY <2>5, BalanceFrame DEF ClerkPersisted
    <2>6. CASE ClerkGone
        BY <2>6 DEF ClerkGone, CompletionsBalanced
    <2> QED
        BY <1>1, <1>5, <2>1, <2>2, <2>3, <2>4, <2>5, <2>6, ReplyBalance, PollBalance DEF ClerkStep
<1>6. ASSUME NEW t \in 1 .. Len(threads), PersistStep(t)
      PROVE  CompletionsBalanced'
    BY <1>1, <1>6, PersistBalance
<1>7. CASE UNCHANGED vars
    BY <1>7, BalanceFrame DEF vars
<1> QED
    BY <1>2, <1>3, <1>4, <1>5, <1>6, <1>7 DEF Next

\* Nobody who polls out_cq waits for a completion that another has taken.
THEOREM NoCompletionMissing == Spec => []CompletionsBalanced
<1>1. Init => CompletionsBalanced
    <2> SUFFICES ASSUME Init PROVE CompletionsBalanced
        OBVIOUS
    <2>1. Coming = {} /\ Pollers = {} /\ cq = 0 /\ kpc = "spin"
        BY DEF Init, Coming, Pollers
    <2> QED  BY <2>1, FS_EmptySet DEF CompletionsBalanced
<1>2. RingInv /\ CompletionsBalanced /\ [Next]_vars => CompletionsBalanced'
    BY BalanceKept
<1> QED
    BY <1>1, <1>2, RingInvariant, PTL DEF Spec

-----------------------------------------------------------------------------
(* The log, without BG_SYNC                                                *)

\* The batches in the log up to synced are logged.
LEMMA LoggedIn ==
    ASSUME NEW i \in 1 .. synced, NEW j \in 1 .. Len(log[i])
    PROVE  log[i][j] \in Logged
BY DEF Logged

\* They are logged after a step, too.
LEMMA LoggedInNext ==
    ASSUME NEW i \in 1 .. synced', NEW j \in 1 .. Len(log'[i])
    PROVE  log'[i][j] \in Logged'
BY DEF Logged

\* The log only grows, and so does its synced part.
LEMMA LoggedGrows ==
    ASSUME TypeOK, synced <= Len(log), synced' \in Nat, synced' >= synced,
           \A i \in 1 .. Len(log) : log'[i] = log[i]
    PROVE  Logged \subseteq Logged'
<1> SUFFICES ASSUME NEW id \in Logged PROVE id \in Logged'
    OBVIOUS
<1>1. PICK i \in 1 .. synced : \E j \in 1 .. Len(log[i]) : id = log[i][j]
    BY ONLY id \in Logged DEF Logged
<1>2. PICK j \in 1 .. Len(log[i]) : id = log[i][j]
    BY ONLY <1>1
<1>3. i \in 1 .. synced' /\ i \in 1 .. Len(log)
    BY DEF TypeOK
<1>4. log'[i] = log[i]
    BY <1>3
<1> QED
    BY ONLY ZenonT(60), <1>2, <1>3, <1>4, LoggedInNext

\* When every thread is done, the ring, the calls and the clerk may go on.
LEMMA DoneLog ==
    ASSUME LogInv, \A t \in 1 .. Len(threads) : threads[t].st = "done",
           UNCHANGED <<threads, log, synced>>
    PROVE  LogInv'
<1>1. Logged' = Logged
    BY DEF Logged
<1> QED
    BY <1>1 DEF LogInv

\* Every thread is done while the clerk does not wait for one.
LEMMA ThreadsDone ==
    ASSUME LogInv, kpc \notin {"persist", "closing"}
    PROVE  \A t \in 1 .. Len(threads) : threads[t].st = "done"
BY DEF LogInv

\* The step of a word to the client.
LEMMA WordLog ==
    ASSUME LogInv, UNCHANGED <<threads, log, synced, ring, recs, kpc>>
    PROVE  LogInv'
<1>1. Logged' = Logged
    BY DEF Logged
<1> QED
    BY ZenonT(60), <1>1 DEF LogInv

\* A flush hands over records that are in the ring.
LEMMA FlushLog ==
    ASSUME TypeOK, LogInv, kpc = "spin", kpc' \in {"persist", "closing"},
           NEW b, NEW len, Flush(b, len), UNCHANGED <<ring, recs, log, synced>>,
           Len(b) \in Nat, Len(Copied(b)) = Len(b),
           \A i \in 1 .. Len(b) : /\ Copied(b)[i] = b[i].id
                                  /\ recs[b[i].id].pos = ktail + b[i].off
                                  /\ recs[b[i].id].len = b[i].len
    PROVE  LogInv'
<1> DEFINE n == Len(threads)
<1>1. /\ n \in Nat /\ Len(threads') = n + 1
      /\ threads'[n + 1].data = Copied(b) /\ threads'[n + 1].st = "start"
      /\ \A t \in 1 .. n : threads'[t] = threads[t]
    BY FlushThreads
<1>2. \A t \in 1 .. n : threads[t].st = "done"
    BY ThreadsDone
<1>3. Logged' = Logged
    BY DEF Logged
<1>4. ASSUME NEW t \in 1 .. n, NEW i \in 1 .. Len(threads[t].data)
      PROVE  threads[t].data[i] \in Logged
    BY <1>2 DEF LogInv
<1>5. ASSUME NEW i \in 1 .. Len(b)
      PROVE  ReadAt(ring, recs[b[i].id].pos, recs[b[i].id].len) = b[i].id
    <2>1. Copied(b)[i] = ReadAt(ring, ktail + b[i].off, b[i].len)
        BY ZenonT(60) DEF Copied
    <2> QED  BY <2>1
<1> HIDE DEF n
<1>6. ASSUME NEW t \in 1 .. (n + 1)
      PROVE  /\ threads'[t].st # "lost"
             /\ threads'[t].st # "done" => t = n + 1 /\ kpc' \in {"persist", "closing"}
             /\ threads'[t].st # "sync"
             /\ \A i \in 1 .. Len(threads'[t].data) :
                    IF threads'[t].st \in {"start", "sync"}
                    THEN ReadAt(ring', recs'[threads'[t].data[i]].pos, recs'[threads'[t].data[i]].len)
                            = threads'[t].data[i]
                    ELSE threads'[t].data[i] \in Logged'
    <2>1. CASE t \in 1 .. n
        BY ZenonT(60), <1>1, <1>2, <1>3, <1>4, <2>1
    <2>2. CASE t = n + 1
        <3>1. \A i \in 1 .. Len(b) : ReadAt(ring', recs'[b[i].id].pos, recs'[b[i].id].len) = b[i].id
            BY <1>5
        <3> QED  BY <1>1, <2>2, <3>1
    <2>3. t \in 1 .. n \/ t = n + 1
        BY <1>1
    <2> QED  BY ZenonT(60), <2>1, <2>2, <2>3
<1>7. synced' <= Len(log')
    BY ZenonT(60) DEF LogInv
<1> QED
    BY <1>1, <1>6, <1>7, ZenonT(60) DEF LogInv, ReadAt

\* A persist thread syncs its batch before it goes on: what it holds passes
\* from the ring to the log.
LEMMA PersistLog ==
    ASSUME TypeOK, LogInv, NEW t \in 1 .. Len(threads), PersistStep(t)
    PROVE  LogInv'
<1>1. UNCHANGED <<kpc, ring, recs>>
    BY PersistMoves
<1>2. PICK s \in {"sync", "post", "poll", "done", "lost"} :
        /\ threads' = [threads EXCEPT ![t].st = s]
        /\ s = "sync" => threads[t].st = "start"
        /\ s = "post" => threads[t].st = "sync"
        /\ s = "poll" => threads[t].st = "post"
        /\ s = "done" => threads[t].st = "poll"
        /\ s = "lost" => kpc = "gone" /\ threads[t].st # "done"
    BY PersistMoves
<1>3. /\ Len(threads) \in Nat /\ Len(threads') = Len(threads) /\ threads'[t].st = s
      /\ \A u \in 1 .. Len(threads) :
             threads'[u].data = threads[u].data /\ (u # t => threads'[u] = threads[u])
    BY <1>2, ThreadMoves
<1>4. /\ threads[t].st # "done" /\ t = Len(threads) /\ kpc \in {"persist", "closing"}
      /\ s # "lost"
      /\ \A u \in 1 .. Len(threads) : u # t => threads[u].st = "done"
    <2>1. threads[t].st # "done"
        BY <1>2
    <2>2. t = Len(threads) /\ kpc \in {"persist", "closing"}
        BY <2>1 DEF LogInv
    <2>3. s # "lost"
        BY <1>2, <2>2
    <2>4. \A u \in 1 .. Len(threads) : threads[u].st # "done" => u = Len(threads)
        BY DEF LogInv
    <2> QED  BY <2>1, <2>2, <2>3, <2>4
<1>5. /\ log \in Seq(Seq(Nat)) /\ synced \in Nat /\ synced <= Len(log)
      /\ threads[t].data \in Seq(Nat)
    BY ThreadFacts, ZenonT(60) DEF TypeOK, LogInv
<1>6. /\ s = "sync" => log' = Append(log, threads[t].data) /\ synced' = synced
      /\ s = "post" => log' = log /\ synced' = Len(log)
      /\ s \in {"poll", "done"} => log' = log /\ synced' = synced
    <2>1. \/ log' = Append(log, threads[t].data) /\ synced' = synced /\ threads[t].st = "start"
          \/ log' = log /\ synced' = Len(log) /\ threads[t].st = "sync"
          \/ log' = log /\ synced' = synced /\ threads[t].st = "post"
          \/ log' = log /\ synced' = synced /\ threads[t].st = "poll"
          \/ kpc = "gone"
        BY DEF PersistStep, PersistWrite, PersistSync, PersistPost, PersistPoll, PersistLost
    <2> QED  BY <1>2, <1>4, <2>1
<1>7. /\ synced' \in Nat /\ synced' >= synced /\ synced' <= Len(log')
      /\ \A i \in 1 .. Len(log) : log'[i] = log[i]
      /\ s = "sync" => Len(log') >= 1 /\ log'[Len(log')] = threads[t].data
    <2>1. CASE s = "sync"
        <3>1. log' = Append(log, threads[t].data) /\ synced' = synced
            BY <1>6, <2>1
        <3>2. /\ Len(log) \in Nat /\ Len(log') = Len(log) + 1
              /\ log'[Len(log) + 1] = threads[t].data
              /\ \A i \in 1 .. Len(log) : log'[i] = log[i]
            BY ONLY <1>5, <3>1, AppendFacts
        <3> QED  BY ONLY <1>5, <3>1, <3>2
    <2>2. CASE s \in {"post", "poll", "done"}
        BY <1>5, <1>6, <2>2
    <2> QED  BY <1>2, <1>4, <2>1, <2>2
<1>8. Logged \subseteq Logged'
    BY <1>5, <1>7, LoggedGrows
<1>9. ASSUME NEW i \in 1 .. Len(threads[t].data)
      PROVE  IF s \in {"start", "sync"}
             THEN ReadAt(ring, recs[threads[t].data[i]].pos, recs[threads[t].data[i]].len)
                      = threads[t].data[i]
             ELSE threads[t].data[i] \in Logged'
    <2>1. CASE s = "sync"
        BY <1>2, <2>1 DEF LogInv
    <2>2. CASE s = "post"
        <3>1. threads[t].st = "sync"
            BY <1>2, <2>2
        <3>2. Len(log) >= 1 /\ log[Len(log)] = threads[t].data
            BY <3>1 DEF LogInv
        <3>3. Len(log) \in 1 .. synced' /\ log' = log
            BY <1>5, <1>6, <2>2, <3>2
        <3>4. log'[Len(log)][i] \in Logged'
            BY ONLY ZenonT(60), <1>9, <3>2, <3>3, LoggedInNext
        <3> QED  BY ONLY <2>2, <3>2, <3>3, <3>4
    <2>3. CASE s \in {"poll", "done"}
        <3>1. threads[t].st \in {"post", "poll"}
            BY <1>2, <2>3
        <3>2. threads[t].data[i] \in Logged
            BY <3>1 DEF LogInv
        <3> QED  BY <1>8, <2>3, <3>2
    <2> QED  BY ZenonT(60), <1>2, <1>4, <2>1, <2>2, <2>3
<1>10. ASSUME NEW u \in 1 .. Len(threads), u # t, NEW i \in 1 .. Len(threads[u].data)
       PROVE  threads[u].data[i] \in Logged'
    <2>1. threads[u].data[i] \in Logged
        BY ZenonT(60), <1>4, <1>10 DEF LogInv
    <2> QED  BY <1>8, <2>1
<1>11. ASSUME NEW u \in 1 .. Len(threads)
       PROVE  /\ threads'[u].st # "lost"
              /\ threads'[u].st # "done" => u = Len(threads) /\ kpc' \in {"persist", "closing"}
              /\ threads'[u].st = "sync" => Len(log') >= 1 /\ log'[Len(log')] = threads'[u].data
              /\ \A i \in 1 .. Len(threads'[u].data) :
                     IF threads'[u].st \in {"start", "sync"}
                     THEN ReadAt(ring', recs'[threads'[u].data[i]].pos, recs'[threads'[u].data[i]].len)
                             = threads'[u].data[i]
                     ELSE threads'[u].data[i] \in Logged'
    <2>1. CASE u = t
        <3>1. threads'[u].data = threads[t].data /\ threads'[u].st = s
            BY <1>3, <2>1
        <3> QED  BY ONLY ZenonT(60), <1>1, <1>4, <1>7, <1>9, <2>1, <3>1
    <2>2. CASE u # t
        <3>1. threads'[u] = threads[u] /\ threads[u].st = "done"
            BY <1>3, <1>4, <2>2
        <3> QED  BY ONLY <1>10, <2>2, <3>1, SMTT(60)
    <2> QED  BY ZenonT(60), <2>1, <2>2
<1> QED
    BY <1>3, <1>7, <1>11, ZenonT(60) DEF LogInv, ReadAt

\* The records stay where they are while no record moves.
LEMMA PlaceFrame ==
    ASSUME PlaceInv, UNCHANGED <<batch, ktail, recs>>,
           cpc' = "write" => cpc = "write" /\ UNCHANGED <<buf_head, pend>>,
           kpc' \in {"closing", "recv", "gone"} => kpc \in {"closing", "recv", "gone"}
    PROVE  PlaceInv'
BY DEF PlaceInv

\* Ids of the batch are numbers of writes that the clerk has taken.
LEMMA BatchIds ==
    ASSUME FlushedInOrder, NEW i \in 1 .. Len(batch)
    PROVE  batch[i].id \in 1 .. Taken
BY ZenonT(60) DEF FlushedInOrder, InOrder

\* The client notes the place of the record it posts.
LEMMA PostPlace ==
    ASSUME StoreInv, PlaceInv, WriteInPlace \/ RewindAndWrite
    PROVE  PlaceInv'
<1>1. /\ RingInv /\ TypeOK /\ PositionInv /\ FlushedInOrder
      /\ cpc \in {"space", "rewind"}
    BY DEF StoreInv, RingInv, WriteInPlace, RewindAndWrite
<1>2. PICK pos \in Nat : PostWrite(pos)
    <2>1. buf_head \in Nat
        BY <1>1 DEF TypeOK
    <2> QED  BY <2>1, RingFacts DEF WriteInPlace, RewindAndWrite
<1>3. /\ UNCHANGED <<pend, kpc, batch, ktail>> /\ cpc' = "write" /\ buf_head' = pos + pend.len
      /\ recs' = Append(recs, [key |-> pend.key, len |-> pend.len, pos |-> pos])
    BY ZenonT(60), <1>2 DEF WriteInPlace, RewindAndWrite, PostWrite
<1>4. pend.len \in Nat
    BY <1>1 DEF TypeOK
<1>5. /\ Len(recs) \in Nat /\ Len(recs') = Len(recs) + 1
      /\ recs'[Len(recs) + 1].pos = pos /\ recs'[Len(recs) + 1].len = pend.len
      /\ \A i \in 1 .. Len(recs) : recs'[i] = recs[i]
    <2> DEFINE x == [key |-> pend.key, len |-> pend.len, pos |-> pos]
    <2>1. x.pos = pos /\ x.len = pend.len
        OBVIOUS
    <2>2. PICK T : recs \in Seq(T)
        BY <1>1 DEF TypeOK
    <2>3. recs' = Append(recs, x)
        BY <1>3
    <2> HIDE DEF x
    <2>4. recs \in Seq(T \cup {x}) /\ x \in T \cup {x}
        BY <2>2
    <2>5. /\ Len(recs) \in Nat /\ Len(recs') = Len(recs) + 1 /\ recs'[Len(recs) + 1] = x
          /\ \A i \in 1 .. Len(recs) : recs'[i] = recs[i]
        BY ONLY <2>3, <2>4, AppendFacts
    <2> QED  BY ONLY <2>1, <2>5
<1>6. \A i \in 1 .. Len(batch) : batch[i].id \in 1 .. Len(recs)
    <2>1. Taken = Len(recs)
        BY <1>1 DEF Taken
    <2> QED  BY <1>1, <2>1, BatchIds
<1>7. \A i \in 1 .. Len(batch') : /\ recs'[batch'[i].id].pos = ktail' + batch'[i].off
                                  /\ recs'[batch'[i].id].len = batch'[i].len
    BY ZenonT(60), <1>3, <1>5, <1>6 DEF PlaceInv
<1>8. recs'[Len(recs')].pos = buf_head' - pend'.len /\ recs'[Len(recs')].len = pend'.len
    BY <1>3, <1>4, <1>5
<1> QED
    BY <1>3, <1>7, <1>8, ZenonT(60) DEF PlaceInv

\* The clerk's end of the batch is where the client has put the record.
LEMMA JoinedPlace ==
    ASSUME RingInv, PlaceInv, Woken("PUT"), NEW i \in 1 .. Len(Joined)
    PROVE  /\ recs[Joined[i].id].pos = ktail + Joined[i].off
           /\ recs[Joined[i].id].len = Joined[i].len
<1>1. /\ Len(Joined) = Len(batch) + 1 /\ Len(batch) \in Nat
      /\ \A j \in 1 .. Len(batch) : Joined[j] = batch[j]
      /\ Joined[Len(batch) + 1].off = batch_length
      /\ Joined[Len(batch) + 1].len = pend.len /\ Joined[Len(batch) + 1].id = Len(recs)
    BY JoinedFacts
<1>2. cpc = "write" /\ ktail + batch_length = buf_head - pend.len
    BY PutFacts, WokenFacts DEF RingInv
<1>3. CASE i = Len(batch) + 1
    BY <1>1, <1>2, <1>3 DEF PlaceInv
<1>4. CASE i \in 1 .. Len(batch)
    BY <1>1, <1>4 DEF PlaceInv
<1> QED
    BY <1>1, <1>3, <1>4

\* Every step keeps the places.
LEMMA PlacesKept ==
    ASSUME InlineInv, [Next]_vars
    PROVE  PlaceInv'
<1>1. RingInv /\ TypeOK /\ HandshakeInv /\ BatchInv /\ PlaceInv /\ StoreInv
    BY DEF InlineInv, StoreInv, RingInv
<1>2. CASE ClientStep
    <2>1. UNCHANGED <<batch, ktail, kpc>>
        BY <1>2, ClientFrame
    <2>2. ASSUME cpc' # "write", recs' = recs
          PROVE  PlaceInv'
        BY <1>1, <2>1, <2>2, PlaceFrame
    <2>3. CASE WriteAcked \/ NopAcked \/ SimpleAcked \/ SendClose
        BY <2>2, <2>3 DEF WriteAcked, NopAcked, SimpleAcked, SendClose
    <2>4. ASSUME NEW k, NEW len, StartWrite(k, len)  PROVE PlaceInv'
        BY <2>2, <2>4 DEF StartWrite
    <2>5. ASSUME NEW op \in Simple, NEW k, SendSimple(op, k)  PROVE PlaceInv'
        BY <2>2, <2>5 DEF SendSimple, Simple
    <2> QED
        BY ONLY ZenonT(60), <1>1, <1>2, <2>3, <2>4, <2>5, PostPlace DEF ClientStep, Simple
<1>3. CASE PlaceAtClerk
    BY <1>1, <1>3, PlaceFrame DEF PlaceAtClerk
<1>4. CASE PlaceAtClient
    BY <1>1, <1>4, PlaceFrame DEF PlaceAtClient
<1>5. CASE ClerkGet \/ ClerkDelete \/ ClerkSync
    BY <1>1, <1>5, PlaceFrame DEF ClerkGet, ClerkDelete, ClerkSync
<1>6. CASE ClerkReply \/ ClerkPoll
    BY <1>1, <1>6, PlaceFrame DEF ClerkReply, ClerkPoll
<1>7. CASE ClerkPersisted \/ ClerkGone
    BY <1>1, <1>7, PlaceFrame DEF ClerkPersisted, ClerkGone
<1>8. CASE ClerkPut
    <2>1. Woken("PUT") /\ UNCHANGED <<clientVars, recs, ktail>> /\ batch' = Joined /\ kpc' = "reply"
        BY <1>8 DEF ClerkPut
    <2>2. \A i \in 1 .. Len(Joined) : /\ recs[Joined[i].id].pos = ktail + Joined[i].off
                                      /\ recs[Joined[i].id].len = Joined[i].len
        BY <1>1, <2>1, JoinedPlace
    <2> QED  BY ZenonT(60), <1>1, <2>1, <2>2 DEF PlaceInv
<1>9. ASSUME UNCHANGED <<clientVars, recs>>, batch' = <<>>
      PROVE  PlaceInv'
    BY <1>1, <1>9 DEF PlaceInv
<1>10. CASE ClerkPutAndFlush \/ ClerkNop
    BY <1>9, <1>10 DEF ClerkPutAndFlush, ClerkNop, Flush
<1>11. CASE ClerkClose
    <2>1. CASE batch_length > 0
        BY <1>9, <1>11, <2>1 DEF ClerkClose, Flush
    <2>2. CASE ~(batch_length > 0)
        <3>1. UNCHANGED <<clientVars, recs, batch>>
            BY <1>11, <2>2 DEF ClerkClose
        <3>2. batch = <<>>
            <4>1. batch \in Seq([key : Keys, off : Nat, len : Nat, id : Nat])
                BY <1>1, ZenonT(60) DEF TypeOK
            <4>2. ~(1 \in 1 .. Len(batch))
                <5>1. SUFFICES ASSUME 1 \in 1 .. Len(batch) PROVE FALSE
                    OBVIOUS
                <5>2. batch[1].len > 0 /\ batch[1].off + batch[1].len <= batch_length
                    BY <1>1, <5>1 DEF BatchInv
                <5>3. batch[1].off \in Nat /\ batch[1].len \in Nat /\ batch_length \in Nat
                    BY ONLY ZenonT(60), <1>1, <5>1, BatchTypes DEF TypeOK
                <5> QED  BY ONLY <2>2, <5>2, <5>3
            <4> QED  BY ONLY <4>1, <4>2
        <3> QED  BY <1>9, <3>1, <3>2
    <2> QED  BY <2>1, <2>2
<1>12. CASE ClerkStep
    BY <1>5, <1>6, <1>7, <1>8, <1>10, <1>11, <1>12 DEF ClerkStep
<1>13. ASSUME NEW t \in 1 .. Len(threads), PersistStep(t)
       PROVE  PlaceInv'
    <2>1. UNCHANGED <<clientVars, clerkVars, recs>>
        BY <1>13, PersistMoves
    <2> QED  BY <1>1, <2>1, PlaceFrame
<1>14. CASE UNCHANGED vars
    BY <1>1, <1>14, PlaceFrame DEF vars
<1> QED
    BY <1>2, <1>3, <1>4, <1>12, <1>13, <1>14 DEF Next

\* Every step keeps what the log has to hold, if the clerk persists itself.
LEMMA LogKept ==
    ASSUME BG_SYNC = FALSE, InlineInv, [Next]_vars
    PROVE  LogInv'
<1>1. RingInv /\ TypeOK /\ HandshakeInv /\ LogInv /\ PlaceInv
    BY DEF InlineInv, StoreInv, RingInv
<1>2. ASSUME kpc \notin {"persist", "closing"}, UNCHANGED <<threads, log, synced>>
      PROVE  LogInv'
    BY <1>1, <1>2, ThreadsDone, DoneLog
<1>3. CASE ClientStep
    <2>1. UNCHANGED <<threads, log, synced>> /\ kpc' = kpc
        BY <1>3, ClientFrame
    <2>2. CASE AtRest \/ Answered
        BY <1>2, <2>1, <2>2 DEF AtRest, Answered
    <2>3. CASE WriteInPlace \/ RewindAndWrite \/ SendClose
        BY ZenonT(60), <1>1, <2>2, <2>3, Phases DEF WriteInPlace, RewindAndWrite, SendClose
    <2>4. CASE NopAcked \/ WriteAcked \/ SimpleAcked
        BY ZenonT(60), <1>1, <2>2, <2>4, Phases DEF NopAcked, WriteAcked, SimpleAcked
    <2>5. ASSUME NEW k, NEW len, StartWrite(k, len)  PROVE LogInv'
        BY <1>1, <2>2, <2>5, Phases DEF StartWrite
    <2>6. ASSUME NEW op, NEW k, SendSimple(op, k)  PROVE LogInv'
        BY <1>1, <2>2, <2>6, Phases DEF SendSimple
    <2> QED
        BY ONLY ZenonT(60), <1>3, <2>3, <2>4, <2>5, <2>6 DEF ClientStep
<1>4. CASE PlaceAtClerk
    <2>1. UNCHANGED <<threads, log, synced>> /\ toClerk # <<>> /\ Head(toClerk).kind # "send"
        BY <1>4 DEF PlaceAtClerk
    <2>2. kpc \notin {"persist", "closing"}
        <3>1. CASE kpc = "persist"
            BY <1>1, <2>1, <3>1, Phases DEF Handled
        <3>2. CASE kpc = "closing"
            <4>1. toClerk = << SendMsg >>
                BY <1>1, <3>2, Phases DEF Closing
            <4> QED  BY <2>1, <4>1, Tuples, Kinds
        <3> QED  BY <3>1, <3>2
    <2> QED  BY <1>2, <2>1, <2>2
<1>5. CASE PlaceAtClient
    BY <1>1, <1>5, WordLog DEF PlaceAtClient
<1>6. CASE ClerkPut \/ ClerkGet \/ ClerkDelete \/ ClerkSync
    BY ZenonT(60), <1>2, <1>6 DEF ClerkPut, ClerkGet, ClerkDelete, ClerkSync, Woken
<1>7. CASE ClerkReply \/ ClerkPoll \/ ClerkGone
    BY ZenonT(60), <1>2, <1>7 DEF ClerkReply, ClerkPoll, ClerkGone
<1>8. CASE ClerkPersisted
    <2>1. UNCHANGED <<threads, log, synced>> /\ threads[Len(threads)].st = "done"
        BY ZenonT(60), <1>8 DEF ClerkPersisted
    <2>2. \A t \in 1 .. Len(threads) : threads[t].st = "done"
        BY ZenonT(60), <1>1, <2>1 DEF LogInv
    <2> QED  BY <1>1, <2>1, <2>2, DoneLog
<1>9. CASE ClerkPutAndFlush
    <2>1. /\ Woken("PUT") /\ kpc = "spin" /\ kpc' = "persist"
          /\ UNCHANGED <<ring, recs, log, synced>>
        BY <1>9 DEF ClerkPutAndFlush, Woken
    <2>2. PICK len : Flush(Joined, len)
        BY <1>9 DEF ClerkPutAndFlush
    <2>3. Len(Joined) \in Nat /\ Len(Copied(Joined)) = Len(Joined)
        BY <1>1, <2>1, JoinedFacts, JoinedCopied
    <2>4. \A i \in 1 .. Len(Joined) : /\ Copied(Joined)[i] = Joined[i].id
                                      /\ recs[Joined[i].id].pos = ktail + Joined[i].off
                                      /\ recs[Joined[i].id].len = Joined[i].len
        BY ZenonT(60), <1>1, <2>1, JoinedCopied, JoinedPlace
    <2> QED  BY ZenonT(60), <1>1, <2>1, <2>2, <2>3, <2>4, FlushLog
<1>10. ASSUME Flush(batch, batch_length), kpc = "spin", kpc' \in {"persist", "closing"},
              UNCHANGED <<ring, recs, log, synced>>
       PROVE  LogInv'
    <2>1. Len(batch) \in Nat /\ Len(Copied(batch)) = Len(batch)
        BY <1>1, BatchCopied DEF TypeOK
    <2>2. \A i \in 1 .. Len(batch) : /\ Copied(batch)[i] = batch[i].id
                                     /\ recs[batch[i].id].pos = ktail + batch[i].off
                                     /\ recs[batch[i].id].len = batch[i].len
        BY ZenonT(60), <1>1, BatchCopied DEF PlaceInv
    <2> QED  BY ZenonT(60), <1>1, <1>10, <2>1, <2>2, FlushLog
<1>11. CASE ClerkNop
    BY <1>10, <1>11 DEF ClerkNop, Woken
<1>12. CASE ClerkClose
    <2>1. CASE batch_length > 0
        BY <1>10, <1>12, <2>1 DEF ClerkClose, Woken
    <2>2. CASE ~(batch_length > 0)
        BY <1>2, <1>12, <2>2 DEF ClerkClose, Woken
    <2> QED  BY <2>1, <2>2
<1>13. CASE ClerkStep
    BY <1>6, <1>7, <1>8, <1>9, <1>11, <1>12, <1>13 DEF ClerkStep
<1>14. ASSUME NEW t \in 1 .. Len(threads), PersistStep(t)
       PROVE  LogInv'
    BY <1>1, <1>14, PersistLog
<1>15. CASE UNCHANGED vars
    BY <1>1, <1>15, WordLog DEF vars
<1> QED
    BY <1>3, <1>4, <1>5, <1>13, <1>14, <1>15 DEF Next

\* Where an acknowledged write is: in the log, or in the ring of a clerk that
\* is still there.
LEMMA AckedPlaces ==
    ASSUME InlineInv, NEW id \in Acked
    PROVE  \/ id \in Logged
           \/ kpc # "gone" /\ ReadAt(ring, recs[id].pos, recs[id].len) = id
<1>1. /\ RingInv /\ Taken \in Nat /\ FlushedInOrder /\ LogInv /\ PlaceInv
      /\ Len(recs) \in Nat
  <2>1. RingInv /\ Taken \in Nat /\ FlushedInOrder /\ LogInv /\ PlaceInv
    BY ZenonT(60) DEF InlineInv, StoreInv
  <2>2. Len(recs) \in Nat
    BY ONLY SMTT(60), <2>1 DEF RingInv, TypeOK
  <2> QED
    BY <2>1, <2>2
<1>2. id \in 1 .. Taken
    BY <1>1 DEF Acked, Taken
<1>3. CASE id \in Flushed
    <2>1. PICK t \in 1 .. Len(threads) : \E i \in 1 .. Len(threads[t].data) : id = threads[t].data[i]
        BY ONLY ZenonT(60), <1>3 DEF Flushed
    <2>2. PICK i \in 1 .. Len(threads[t].data) : id = threads[t].data[i]
        BY ONLY <2>1
    <2>3. CASE threads[t].st \in {"start", "sync"}
        <3>1. ReadAt(ring, recs[id].pos, recs[id].len) = id /\ kpc \in {"persist", "closing"}
            BY ZenonT(60), <1>1, <2>2, <2>3 DEF LogInv
        <3> QED  BY <3>1
    <2>4. CASE threads[t].st \notin {"start", "sync"}
        BY ZenonT(60), <1>1, <2>2, <2>4 DEF LogInv
    <2> QED  BY ZenonT(60), <2>3, <2>4
<1>4. CASE id \notin Flushed
    <2>1. id \in { batch[i].id : i \in 1 .. Len(batch) }
        BY <1>1, <1>2, <1>4, ZenonT(60) DEF FlushedInOrder, InOrder
    <2>2. PICK i \in 1 .. Len(batch) : id = batch[i].id
        BY ONLY <2>1
    <2>3. ReadAt(ring, recs[id].pos, recs[id].len) = id
        <3>1. recs[id].pos = ktail + batch[i].off /\ recs[id].len = batch[i].len
            BY ZenonT(60), <1>1, <2>2 DEF PlaceInv
        <3> QED  BY ZenonT(60), <1>1, <2>2, <3>1, BatchRead
    <2>4. kpc # "gone"
        BY <1>1, <2>2 DEF PlaceInv
    <2> QED  BY <2>3, <2>4
<1> QED
    BY <1>3, <1>4

\* Once the clerk is gone, an acknowledged write is in the log.
LEMMA GoneIsLogged ==
    ASSUME InlineInv, kpc = "gone"
    PROVE  Acked \subseteq Logged
BY AckedPlaces

\* InlineInv is an invariant of a connection of the build without BG_SYNC.
THEOREM InlineInvariant ==
    ASSUME BG_SYNC = FALSE
    PROVE  Spec => []InlineInv
<1>1. Init => InlineInv
    <2> SUFFICES ASSUME Init PROVE InlineInv
        OBVIOUS
    <2>1. StoreInv
        BY StoreInit
    <2>2. LogInv /\ PlaceInv
        BY DEF Init, LogInv, PlaceInv
    <2> QED  BY <2>1, <2>2 DEF InlineInv
<1>2. InlineInv /\ [Next]_vars => InlineInv'
    <2> SUFFICES ASSUME InlineInv, [Next]_vars PROVE InlineInv'
        OBVIOUS
    <2>1. StoreInv'
        BY StoreNext DEF InlineInv
    <2> QED  BY <2>1, LogKept, PlacesKept DEF InlineInv
<1> QED
    BY <1>1, <1>2, PTL DEF Spec

\* Without BG_SYNC an acknowledged write is always in the persistent ring of a
\* live clerk or in the synced log (SendWrite returns after persist_func).
THEOREM InlineWritesDurable ==
    ASSUME BG_SYNC = FALSE
    PROVE  Spec => []AckedIsDurable
<1>1. InlineInv => AckedIsDurable
    BY AckedPlaces DEF AckedIsDurable
<1> QED
    BY InlineInvariant, <1>1, PTL

\* Without BG_SYNC the log has every acknowledged write once the clerk is gone.
THEOREM InlineCloseLogsAll ==
    ASSUME BG_SYNC = FALSE
    PROVE  Spec => []ClosedIsLogged
<1>1. InlineInv => ClosedIsLogged
    BY ZenonT(60), GoneIsLogged DEF ClosedIsLogged
<1> QED
    BY InlineInvariant, <1>1, PTL

=============================================================================
