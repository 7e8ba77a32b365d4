-------------------------- MODULE CuckooLogProofs --------------------------
(***************************************************************************)
(* Proof about CuckooLog: for any number of threads, keys and writes, once *)
(* SetSync has returned every write that returned is durable.              *)
(***************************************************************************)
EXTENDS CuckooLog, TLAPS

USE SMTT(60), ZenonT(60), SMTT(90)

Places == {"idle", "insert", "write", "test", "fdatasync", "flushing", "return",
           "set", "setting", "armed"}

\* The part of the types that the argument needs: a write is within the file.
Placed ==
    /\ pos \in Nat /\ pc \in [Threads -> Places]
    /\ at \in [Threads -> Nat] /\ \A t \in Threads : at[t] <= pos
    /\ returned \subseteq 0 .. pos
    /\ snap \in [Threads -> SUBSET Nat] /\ dirty \subseteq Nat

\* The places that are loose, one by one.
LEMMA LooseIs ==
    ASSUME NEW p
    PROVE  p \in Loose <=> p \in dirty /\ (p \in returned \/ \E t \in Threads : pc[t] = "return" /\ at[t] = p)
BY DEF Loose

\* What a thread's move leaves of the places of the others.
LEMMA GoFacts ==
    ASSUME NEW t \in Threads, NEW from, NEW to \in Places, Placed, Go(t, from, to)
    PROVE  /\ pc[t] = from /\ pc'[t] = to /\ pc' \in [Threads -> Places]
           /\ \A u \in Threads : u # t => pc'[u] = pc[u]
BY DEF Go, Placed

\* Every step leaves the places in the file.
LEMMA PlacedStep ==
    ASSUME Placed, [Next]_vars
    PROVE  Placed'
<1> USE DEF Places
<1>1. ASSUME NEW t \in Threads, Put(t) \/ Insert(t) \/ Test(t) \/ SetSync(t) \/ SetSyncReturns(t)
      PROVE  Placed'
  <2>1. UNCHANGED <<pos, at, returned, snap, dirty>>
    BY <1>1 DEF Put, Insert, Test, SetSync, SetSyncReturns
  <2>2. pc' \in [Threads -> Places]
    BY <1>1 DEF Put, Insert, Test, SetSync, SetSyncReturns, Go, Placed
  <2>3. QED  BY <2>1, <2>2 DEF Placed
<1>2. ASSUME NEW t \in Threads, Write(t)
      PROVE  Placed'
  <2>1. /\ pos' = pos + 1 /\ at' = [at EXCEPT ![t] = pos + 1] /\ dirty' = dirty \cup {pos + 1}
        /\ UNCHANGED <<returned, snap>> /\ pc' = [pc EXCEPT ![t] = "test"]
    BY <1>2 DEF Write, Go
  <2>2. pos' \in Nat /\ at' \in [Threads -> Nat] /\ pc' \in [Threads -> Places]
    BY <2>1 DEF Placed
  <2>3. \A u \in Threads : at'[u] <= pos'
    BY <2>1 DEF Placed
  <2>4. returned' \subseteq 0 .. pos' /\ dirty' \subseteq Nat /\ snap' \in [Threads -> SUBSET Nat]
    BY <2>1 DEF Placed
  <2>5. QED  BY ONLY <2>2, <2>3, <2>4 DEF Placed
<1>3. ASSUME NEW t \in Threads, FdatasyncCall(t)
      PROVE  Placed'
    BY <1>3 DEF FdatasyncCall, Go, Placed
<1>4. ASSUME NEW t \in Threads, FdatasyncDone(t)
      PROVE  Placed'
    BY ZenonT(60), <1>4 DEF FdatasyncDone, Go, Placed
<1>5. ASSUME NEW t \in Threads, Return(t)
      PROVE  Placed'
  <2>1. /\ at' = [at EXCEPT ![t] = 0] /\ returned' = returned \cup {at[t]}
        /\ UNCHANGED <<pos, snap, dirty>> /\ pc' = [pc EXCEPT ![t] = "idle"]
    BY <1>5 DEF Return, Go
  <2>2. at' \in [Threads -> Nat] /\ pc' \in [Threads -> Places]
    BY <2>1 DEF Placed
  <2>3. \A u \in Threads : at'[u] <= pos
    BY <2>1 DEF Placed
  <2>4. at[t] \in 0 .. pos
    BY DEF Placed
  <2>5. QED  BY ZenonT(60), <2>1, <2>2, <2>3, <2>4 DEF Placed
<1>6. ASSUME NEW t \in Threads, NEW k \in Keys, Delete(t, k) \/ Get(t, k)
      PROVE  Placed'
    BY ZenonT(60), <1>6 DEF Delete, Get, Go, Placed
<1>7. ASSUME PowerLoss \/ Restart
      PROVE  Placed'
  <2>1. /\ pos' = 0 /\ returned' = {} /\ pc' = [t \in Threads |-> "idle"]
        /\ at' = [t \in Threads |-> 0] /\ snap' = [t \in Threads |-> {}]
    BY <1>7 DEF PowerLoss, Restart, Open
  <2>2. dirty' \subseteq Nat
    BY ZenonT(60), <1>7 DEF PowerLoss, Restart, Placed
  <2>3. snap' \in [Threads -> SUBSET Nat]
    BY <2>1
  <2>4. pc' \in [Threads -> Places] /\ at' \in [Threads -> Nat]
    BY <2>1
  <2>5. pos' \in Nat /\ returned' \subseteq 0 .. pos' /\ \A t \in Threads : at'[t] <= pos'
    BY <2>1
  <2>6. QED  BY ONLY <2>2, <2>3, <2>4, <2>5 DEF Placed
<1>8. ASSUME UNCHANGED vars
      PROVE  Placed'
    BY <1>8 DEF vars, threadVars, Placed
<1>9. QED
    BY <1>1, <1>2, <1>3, <1>4, <1>5, <1>6, <1>7, <1>8 DEF Next, Step

-----------------------------------------------------------------------------
\* A step that leaves the places, what is dirty and what has returned, and moves a
\* thread between places that SyncInv does not speak of.
LEMMA QuietStep ==
    ASSUME NEW t \in Threads, NEW from, NEW to \in {"idle", "insert", "write", "test", "fdatasync"},
           Placed, SyncInv, Go(t, from, to), from # "return",
           UNCHANGED <<at, returned, snap, dirty, sync_, armed>>
    PROVE  SyncInv'
<1>1. /\ pc[t] = from /\ pc'[t] = to
      /\ \A u \in Threads : u # t => pc'[u] = pc[u]
    BY GoFacts DEF Places
<1>2. Loose' = Loose
    BY <1>1 DEF Loose
<1>3. QED  BY <1>1, <1>2 DEF SyncInv

\* A write is behind all that is loose.
LEMMA WriteKeeps ==
    ASSUME NEW t \in Threads, Placed, SyncInv, Write(t)
    PROVE  SyncInv'
<1>1. /\ pc[t] = "write" /\ pc'[t] = "test" /\ pc' \in [Threads -> Places]
      /\ \A u \in Threads : u # t => pc'[u] = pc[u]
    BY GoFacts DEF Write, Places
<1>2. /\ dirty' = dirty \cup {pos + 1} /\ UNCHANGED <<returned, snap, sync_, armed>>
      /\ \A u \in Threads : u # t => at'[u] = at[u]
    BY DEF Write, Placed
<1>3. pos + 1 \notin returned /\ \A u \in Threads : at[u] # pos + 1
    BY DEF Placed
<1>4. Loose' = Loose
    BY <1>1, <1>2, <1>3 DEF Loose
<1>5. QED  BY <1>1, <1>2, <1>3, <1>4 DEF SyncInv

\* A write that finds sync_ unset returns with its place loose; nobody has been
\* told otherwise, and no SetSync has begun.
LEMMA TestKeeps ==
    ASSUME NEW t \in Threads, Placed, SyncInv, Test(t)
    PROVE  SyncInv'
<1>1. UNCHANGED <<at, returned, snap, dirty, sync_, armed>>
    BY DEF Test
<1>2. CASE sync_
  <2>1. Go(t, "test", "fdatasync")
    BY <1>2 DEF Test
  <2>2. QED  BY <1>1, <2>1, QuietStep
<1>3. CASE ~sync_
  <2>1. /\ pc[t] = "test" /\ pc'[t] = "return"
        /\ \A u \in Threads : u # t => pc'[u] = pc[u]
    BY <1>3, GoFacts DEF Test, Places
  <2>2. QED  BY <1>1, <1>3, <2>1 DEF SyncInv
<1>4. QED  BY <1>2, <1>3

\* fdatasync is called with everything that is loose.
LEMMA CallKeeps ==
    ASSUME NEW t \in Threads, Placed, SyncInv, FdatasyncCall(t)
    PROVE  SyncInv'
<1>1. /\ pc[t] \in {"fdatasync", "set"}
      /\ pc'[t] = (IF pc[t] = "set" THEN "setting" ELSE "flushing")
      /\ \A u \in Threads : u # t => pc'[u] = pc[u]
    BY DEF FdatasyncCall, Go, Placed
<1>2. /\ snap'[t] = dirty /\ UNCHANGED <<at, returned, dirty, sync_, armed>>
      /\ \A u \in Threads : u # t => snap'[u] = snap[u]
    BY DEF FdatasyncCall, Placed
<1>3. Loose' = Loose /\ Loose \subseteq dirty
    BY <1>1, <1>2 DEF Loose
<1>4. QED  BY <1>1, <1>2, <1>3 DEF SyncInv

\* What is loose after an fdatasync was loose before; its own write is not, and
\* after SetSync's nothing is.
LEMMA DoneKeeps ==
    ASSUME NEW t \in Threads, Placed, SyncInv, FdatasyncDone(t)
    PROVE  SyncInv'
<1>1. /\ pc[t] \in {"flushing", "setting"}
      /\ pc'[t] = (IF pc[t] = "setting" THEN "armed" ELSE "return")
      /\ \A u \in Threads : u # t => pc'[u] = pc[u]
    BY DEF FdatasyncDone, Go, Placed
<1>2. /\ dirty' = dirty \ snap[t] /\ UNCHANGED <<at, returned, sync_, armed>>
      /\ \A u \in Threads : u # t => snap'[u] = snap[u]
    BY DEF FdatasyncDone, Placed
<1>3. pc[t] = "flushing" => at[t] \notin dirty'
    BY <1>2 DEF SyncInv
<1>4. Loose' \subseteq Loose \ snap[t]
    BY <1>1, <1>2, <1>3 DEF Loose
<1>5. pc[t] = "setting" => Loose' = {}
    BY <1>4 DEF SyncInv
<1>6. QED  BY <1>1, <1>2, <1>4, <1>5 DEF SyncInv

\* A write returns: its place was counted already.
LEMMA ReturnKeeps ==
    ASSUME NEW t \in Threads, Placed, SyncInv, Return(t)
    PROVE  SyncInv'
<1>1. /\ pc[t] = "return" /\ pc'[t] = "idle"
      /\ \A u \in Threads : u # t => pc'[u] = pc[u]
    BY GoFacts DEF Return, Places
<1>2. /\ returned' = returned \cup {at[t]} /\ UNCHANGED <<dirty, snap, sync_, armed>>
      /\ \A u \in Threads : u # t => at'[u] = at[u]
    BY DEF Return, Placed
<1>3. Loose' = Loose
    BY <1>1, <1>2 DEF Loose
<1>4. QED  BY <1>1, <1>2, <1>3 DEF SyncInv

\* SetSync sets sync_, and returns when nothing is loose.
LEMMA SetSyncKeeps ==
    ASSUME NEW t \in Threads, Placed, SyncInv, SetSync(t) \/ SetSyncReturns(t)
    PROVE  SyncInv'
<1>1. /\ \/ pc[t] = "idle" /\ pc'[t] = "set" /\ sync_' = TRUE /\ armed' = armed
         \/ pc[t] = "armed" /\ pc'[t] = "idle" /\ sync_' = sync_ /\ armed' = TRUE
      /\ \A u \in Threads : u # t => pc'[u] = pc[u]
      /\ UNCHANGED <<at, returned, snap, dirty>>
    BY DEF SetSync, SetSyncReturns, Go, Placed
<1>2. Loose' = Loose
    BY <1>1 DEF Loose
<1>3. QED  BY <1>1, <1>2 DEF SyncInv

\* A server that starts has written nothing.
LEMMA OpenKeeps ==
    ASSUME Open
    PROVE  SyncInv'
<1>1. Loose' = {}
    BY DEF Open, Loose
<1>2. QED  BY <1>1 DEF Open, SyncInv

\* Every step keeps SyncInv.
LEMMA SyncStep ==
    ASSUME Placed, SyncInv, [Next]_vars
    PROVE  SyncInv'
<1>1. ASSUME NEW t \in Threads, Put(t)
      PROVE  SyncInv'
    BY <1>1, QuietStep DEF Put
<1>2. ASSUME NEW t \in Threads, Insert(t)
      PROVE  SyncInv'
    BY <1>2, QuietStep DEF Insert
<1>3. ASSUME NEW t \in Threads, NEW k \in Keys, Delete(t, k) \/ Get(t, k)
      PROVE  SyncInv'
    BY <1>3, QuietStep DEF Delete, Get
<1>4. ASSUME PowerLoss \/ Restart
      PROVE  SyncInv'
    BY <1>4, OpenKeeps DEF PowerLoss, Restart
<1>5. ASSUME UNCHANGED vars
      PROVE  SyncInv'
    BY <1>5 DEF vars, threadVars, SyncInv, Loose
<1>6. QED
    BY <1>1, <1>2, <1>3, <1>4, <1>5, WriteKeeps, TestKeeps, CallKeeps, DoneKeeps, ReturnKeeps,
       SetSyncKeeps DEF Next, Step

\* SetSync's order, the flag before the fdatasync, leaves nothing loose behind it.
THEOREM SyncInvariant == Spec => []SyncInv
<1>1. Init => Placed /\ SyncInv
    BY DEF Init, Placed, Places, SyncInv, Loose
<1>2. Placed /\ SyncInv /\ [Next]_vars => Placed' /\ SyncInv'
    BY PlacedStep, SyncStep
<1>3. QED  BY <1>1, <1>2, PTL DEF Spec

\* Once SetSync has returned, every write that returned is durable.
THEOREM DurableAfterSync == Spec => []SyncedDurable
<1>1. SyncInv => SyncedDurable
    BY DEF SyncInv, SyncedDurable, Loose
<1>2. QED  BY <1>1, SyncInvariant, PTL

=============================================================================
