-------------------------- MODULE LevelWriteProofs --------------------------
(***************************************************************************)
(* Proofs about LevelWrite: what writers are told, and that those who wait *)
(* for the background thread have work scheduled.                          *)
(***************************************************************************)
EXTENDS LevelWrite, TLAPS

\* The provers, and their time, for a leaf that names none.
USE SMTT(60), ZenonT(60), SMTT(90)

USE DEF clientVars, roomVars, memVars, logVars, bgVars, writeVars

\* The phases in which the first writer has a group.
Writing == {"log", "sync", "insert", "finish"}

\* The writers in the queue, and those another one has written for.
Queued == Leading \cup {"wait"}

-----------------------------------------------------------------------------
(* Entries, groups and the queue                                           *)

\* A writer is among the first n when it has one of the first n places.
LEMMA InFirst ==
    ASSUME NEW n, NEW v
    PROVE  v \in First(n) <=> \E i \in 1 .. n : v = writers_[i]
BY DEF First

\* The same after a step.
LEMMA InFirstNext ==
    ASSUME NEW i \in 1 .. Len(writers_')
    PROVE  writers_'[i] \in First(Len(writers_))'
BY DEF First

\* Two writers have no entry in common, nor has a writer two calls with the same one.
LEMMA EntryIs ==
    ASSUME NEW v, NEW w
    PROVE  (Entry(v) = Entry(w) => v = w) /\ Entry(v).w = v /\ Entry(v).n = calls[v]
BY DEF Entry

\* A batch has the entries of the writers that do not only force a switch.
LEMMA BatchIs ==
    ASSUME NEW g, NEW e
    PROVE  e \in Batch(g) <=> \E v \in g : kind[v] # "force" /\ e = Entry(v)
BY DEF Batch

\* The entry of a writer is in the batch of a group when the writer is in the
\* group and does not force a compaction.
LEMMA BatchOf ==
    ASSUME NEW g, NEW v
    PROVE  Entry(v) \in Batch(g) <=> v \in g /\ kind[v] # "force"
BY BatchIs, EntryIs

\* The entry of a call that was made.
LEMMA EntryType ==
    ASSUME Limits, TypeOK, NEW w \in Writers, calls[w] > 0
    PROVE  Entry(w) \in Ops
BY DEF Limits, TypeOK, Entry, Ops

\* No entry is the one that stands for ``no immutable memtable''.
LEMMA OpsNotNoImm ==
    ASSUME Limits
    PROVE  Ops \cap NoImm = {} /\ \A S \in SUBSET Ops : S # NoImm /\ S \ NoImm = S
<1>1. \A e \in Ops : e.n # 0
    BY DEF Ops, Limits
<1>2. \A e \in NoImm : e.n = 0
    BY DEF NoImm
<1>3. NoImm # {}
    BY ZenonT(60) DEF NoImm
<1> QED
    BY ONLY ZenonT(60), <1>1, <1>2, <1>3

\* What a SignalAll does to the phases, and to one of them.
LEMMA SignalType ==
    ASSUME NEW p \in [Writers -> Phases]
    PROVE  SignalBg(p) \in [Writers -> Phases]
BY DEF SignalBg, Phases, Leading

\* Who waits for the background thread goes on after its SignalAll.
LEMMA Signalled ==
    ASSUME NEW p \in [Writers -> Phases], NEW w \in Writers
    PROVE  /\ SignalBg(p)[w] = CASE p[w] = "bgwait" -> "room" [] p[w] = "immwait" -> "imm" [] OTHER -> p[w]
           /\ SignalBg(p)[w] \notin {"bgwait", "immwait"}
           /\ p[w] \notin {"bgwait", "immwait"} => SignalBg(p)[w] = p[w]
           /\ SignalBg(p)[w] \in Leading <=> p[w] \in Leading
           /\ \A s \in Phases \ {"room", "imm", "bgwait", "immwait"} : SignalBg(p)[w] = s <=> p[w] = s
BY DEF SignalBg, Phases, Leading

\* The first of the queue is the one that leads; it is alone in that.
LEMMA LeaderFirst ==
    ASSUME TypeOK, QueueInv, NEW w \in Writers, pc[w] \in Leading
    PROVE  Len(writers_) > 0 /\ Len(writers_) \in Nat /\ w = writers_[1]
<1>1. PICK i \in 1 .. Len(writers_) : w = writers_[i]
    BY InFirst DEF QueueInv
<1>2. pc[w] # "wait"
    BY DEF Leading
<1>3. i = 1
    BY <1>1, <1>2 DEF QueueInv
<1> QED
    BY <1>1, <1>3 DEF TypeOK

\* The places of the queue, one by one.
LEMMA QueueFacts ==
    ASSUME TypeOK, QueueInv
    PROVE  /\ Len(writers_) \in Nat /\ DOMAIN writers_ = 1 .. Len(writers_)
           /\ group \in Nat /\ group <= Len(writers_)
           /\ \A i \in 1 .. Len(writers_) : writers_[i] \in Writers
           /\ \A i, j \in 1 .. Len(writers_) : writers_[i] = writers_[j] => i = j
           /\ \A i \in 1 .. Len(writers_) : pc[writers_[i]] \in Queued
BY DEF TypeOK, QueueInv, Queued, Leading

-----------------------------------------------------------------------------
(* Types                                                                   *)

\* The entries of writers in a call.
LEMMA BatchType ==
    ASSUME Limits, TypeOK, NEW g \in SUBSET Writers, \A v \in g : calls[v] > 0
    PROVE  Batch(g) \in SUBSET Ops
<1> SUFFICES ASSUME NEW e \in Batch(g) PROVE e \in Ops
    OBVIOUS
<1>1. PICK v \in g : e = Entry(v)
    BY BatchIs
<1> QED
    BY <1>1, EntryType

\* The batch of BuildBatchGroup holds entries of calls that were made.
LEMMA GroupType ==
    ASSUME Limits, TypeOK, QueueInv
    PROVE  Batch(First(group)) \in SUBSET Ops
<1>1. \A v \in First(group) : v \in Writers /\ pc[v] # "idle"
  <2> SUFFICES ASSUME NEW v \in First(group) PROVE v \in Writers /\ pc[v] # "idle"
    OBVIOUS
  <2>1. PICK i \in 1 .. group : v = writers_[i]
    BY InFirst
  <2> QED
    BY <2>1, QueueFacts DEF Queued, Leading
<1>2. First(group) \in SUBSET Writers /\ \A v \in First(group) : calls[v] > 0
    BY <1>1 DEF QueueInv
<1> QED
    BY ONLY <1>2, BatchType, Limits, TypeOK, ZenonT(60)

\* The end of Write keeps the types of what it changes.
LEMMA FinishType ==
    ASSUME Limits, TypeOK, QueueInv, NEW w \in Writers, pc[w] # "idle",
           NEW n \in 1 .. Len(writers_), NEW ok \in BOOLEAN, NEW p \in [Writers -> Phases],
           Finish(w, n, ok, p)
    PROVE  /\ pc' \in [Writers -> Phases] /\ status' \in [Writers -> BOOLEAN]
           /\ writers_' \in Seq(Writers) /\ group' \in 0 .. Len(writers_')
           /\ acked' \in SUBSET Ops /\ failed' \in SUBSET Ops
<1>1. pc' \in [Writers -> Phases]
  <2>1. After(w, ok) \in Phases /\ "done" \in Phases /\ "room" \in Phases
    BY DEF After, Phases, Leading
  <2>2. \A v \in Writers : p[v] \in Phases
    OBVIOUS
  <2> QED
    BY <2>1, <2>2 DEF Finish
<1>2. status' \in [Writers -> BOOLEAN]
    BY DEF Finish, TypeOK
<1>3. writers_' \in Seq(Writers) /\ Len(writers_') \in Nat
  <2>1. writers_ \in Seq(Writers) /\ Len(writers_) \in Nat /\ n + 1 \in 1 .. Len(writers_) + 1
    BY DEF TypeOK
  <2>2. writers_' = SubSeq(writers_, n + 1, Len(writers_))
    BY DEF Finish, Rest
  <2> QED
    BY ONLY <2>1, <2>2, SMTT(60)
<1>4. group' \in 0 .. Len(writers_')
    BY <1>3 DEF Finish
<1>5. Batch({w}) \in SUBSET Ops
  <2>1. {w} \in SUBSET Writers /\ \A v \in {w} : calls[v] > 0
    BY DEF QueueInv
  <2> QED
    BY ONLY <2>1, BatchType, Limits, TypeOK, ZenonT(60)
<1>6. acked' \in SUBSET Ops /\ failed' \in SUBSET Ops
    BY <1>5, ZenonT(60) DEF Finish, Return, TypeOK
<1> QED
    BY ONLY ZenonT(60), <1>1, <1>2, <1>3, <1>4, <1>6

-----------------------------------------------------------------------------
(* The end of Write                                                        *)

\* The six ways in which a call of Write ends for the writer that leads.
Finishes(w) ==
    \/ RoomError(w) \/ RoomSwitchFails(w) \/ RoomNothing(w)
    \/ AddRecordFails(w) \/ SyncFails(w) \/ FinishWrite(w)

\* What they have in common: for the first n, which are the group if there is one,
\* the call ends with ok when their entries are in the memtable or there are none.
Ends(w, n, ok, p) ==
    /\ Finish(w, n, ok, p) /\ p \in {pc, SignalBg(pc)}
    /\ pc[w] \in Leading /\ n \in 1 .. Len(writers_) /\ ok \in BOOLEAN
    /\ n = IF pc[w] \in Writing THEN group ELSE 1
    /\ IF ok THEN pc[w] = "finish" \/ (pc[w] = "room" /\ kind[w] = "force") ELSE pc[w] # "finish"
    /\ UNCHANGED <<calls, kind, roomVars, memVars, logVars, tables, l0, inputs, bg>>
    /\ bg_error' \in {bg_error, TRUE}

\* Every action that ends a group has the form of Ends.
LEMMA FinishesIs ==
    ASSUME TypeOK, QueueInv, NEW w \in Writers, Finishes(w)
    PROVE  \E n, ok, p : Ends(w, n, ok, p)
<1>1. CASE RoomError(w)
  <2>1. pc[w] = "room" /\ pc[w] \in Leading /\ pc[w] \notin Writing
    BY <1>1 DEF RoomError, Leading, Writing
  <2>2. 1 \in 1 .. Len(writers_)
    BY <2>1, LeaderFirst
  <2>3. Ends(w, 1, FALSE, pc)
    BY <1>1, <2>1, <2>2, ZenonT(60) DEF RoomError, Ends
  <2> QED
    BY <2>3, ZenonT(60)
<1>2. CASE RoomSwitchFails(w)
  <2>1. pc[w] = "room" /\ pc[w] \in Leading /\ pc[w] \notin Writing
    BY <1>2 DEF RoomSwitchFails, NeedsSwitch, Leading, Writing
  <2>2. 1 \in 1 .. Len(writers_)
    BY <2>1, LeaderFirst
  <2>3. Ends(w, 1, FALSE, pc)
    BY <1>2, <2>1, <2>2, ZenonT(60) DEF RoomSwitchFails, Ends
  <2> QED
    BY <2>3, ZenonT(60)
<1>3. CASE RoomNothing(w)
  <2>1. pc[w] = "room" /\ pc[w] \in Leading /\ pc[w] \notin Writing
    BY <1>3 DEF RoomNothing, HasRoom, Leading, Writing
  <2>2. 1 \in 1 .. Len(writers_)
    BY <2>1, LeaderFirst
  <2>3. Ends(w, 1, TRUE, pc)
    BY <1>3, <2>1, <2>2, ZenonT(60) DEF RoomNothing, Ends
  <2> QED
    BY <2>3, ZenonT(60)
<1>4. CASE AddRecordFails(w)
  <2>1. pc[w] = "log" /\ pc[w] \in Leading /\ pc[w] \in Writing
    BY <1>4 DEF AddRecordFails, Leading, Writing
  <2>2. group \in 1 .. Len(writers_)
    BY <2>1, QueueFacts DEF QueueInv
  <2>3. Ends(w, group, FALSE, pc)
    BY <1>4, <2>1, <2>2, ZenonT(60) DEF AddRecordFails, Ends
  <2> QED
    BY <2>3, ZenonT(60)
<1>5. CASE SyncFails(w)
  <2>1. pc[w] = "sync" /\ pc[w] \in Leading /\ pc[w] \in Writing
    BY <1>5 DEF SyncFails, Leading, Writing
  <2>2. group \in 1 .. Len(writers_)
    BY <2>1, QueueFacts DEF QueueInv
  <2>3. Ends(w, group, FALSE, IF bg_error THEN pc ELSE SignalBg(pc))
    BY <1>5, <2>1, <2>2, ZenonT(60) DEF SyncFails, Ends
  <2> QED
    BY <2>3, ZenonT(60)
<1>6. CASE FinishWrite(w)
  <2>1. pc[w] = "finish" /\ pc[w] \in Leading /\ pc[w] \in Writing
    BY <1>6 DEF FinishWrite, Leading, Writing
  <2>2. group \in 1 .. Len(writers_)
    BY <2>1, QueueFacts DEF QueueInv
  <2>3. Ends(w, group, TRUE, pc)
    BY <1>6, <2>1, <2>2, ZenonT(60) DEF FinishWrite, Ends
  <2> QED
    BY <2>3, ZenonT(60)
<1> QED
    BY <1>1, <1>2, <1>3, <1>4, <1>5, <1>6 DEF Finishes

\* The types after the end of Write.
LEMMA EndsType ==
    ASSUME Limits, TypeOK, QueueInv, NEW w \in Writers, NEW n, NEW ok, NEW p, Ends(w, n, ok, p)
    PROVE  TypeOK'
<1>1. Finish(w, n, ok, p) /\ pc[w] # "idle" /\ n \in 1 .. Len(writers_) /\ ok \in BOOLEAN
    BY ZenonT(60) DEF Ends, Leading
<1>2. p \in [Writers -> Phases]
    BY SignalType, ZenonT(60) DEF Ends, TypeOK
<1>3. /\ pc' \in [Writers -> Phases] /\ status' \in [Writers -> BOOLEAN]
      /\ writers_' \in Seq(Writers) /\ group' \in 0 .. Len(writers_')
      /\ acked' \in SUBSET Ops /\ failed' \in SUBSET Ops
    BY ONLY <1>1, <1>2, Limits, TypeOK, QueueInv, w \in Writers, FinishType, ZenonT(60)
<1>4. /\ UNCHANGED <<calls, kind, allow_delay, force, mem, imm, full, log, synced, tables, l0, inputs, bg>>
      /\ bg_error' \in {bg_error, TRUE}
    BY ZenonT(60) DEF Ends
<1>5. bg_error' \in BOOLEAN
    BY <1>4, ZenonT(60) DEF TypeOK
<1>6. HasImm' = HasImm
    BY <1>4 DEF HasImm
<1> QED
    BY ONLY <1>3, <1>4, <1>5, <1>6, TypeOK, ZenonT(60) DEF TypeOK

\* The steps of the writer that leads, other than the end of Write.
Leads(w) ==
    \/ RoomDelay(w) \/ RoomWait(w) \/ RoomSwitch(w) \/ BuildBatchGroup(w)
    \/ AddRecord(w) \/ Sync(w) \/ InsertInto(w)

\* The steps of the front writer keep the types.
LEMMA LeadsType ==
    ASSUME Limits, TypeOK, QueueInv, NEW w \in Writers, Leads(w)
    PROVE  TypeOK'
<1> USE DEF Phases, Leading, HasImm
<1>1. CASE RoomDelay(w)
    BY <1>1 DEF RoomDelay, TypeOK
<1>2. CASE RoomWait(w)
    BY <1>2 DEF RoomWait, TypeOK
<1>3. CASE RoomSwitch(w)
  <2>1. bg' \in {"none", "scheduled", "flush", "compact", "compactflush"}
    BY <1>3 DEF RoomSwitch, TypeOK, Scheduled
  <2> QED
    BY <1>3, <2>1, ZenonT(60) DEF RoomSwitch, TypeOK
<1>4. CASE BuildBatchGroup(w)
  <2>1. group' \in 0 .. Len(writers_)
    BY <1>4 DEF BuildBatchGroup, GroupOf
  <2> QED
    BY <1>4, <2>1 DEF BuildBatchGroup, TypeOK
<1>5. CASE AddRecord(w)
    BY <1>5, GroupType DEF AddRecord, TypeOK
<1>6. CASE Sync(w)
    BY <1>6 DEF Sync, TypeOK
<1>7. CASE InsertInto(w)
    BY <1>7, GroupType, ZenonT(60) DEF InsertInto, TypeOK
<1> QED
    BY <1>1, <1>2, <1>3, <1>4, <1>5, <1>6, <1>7 DEF Leads

\* The steps of a writer out of the queue.
LEMMA CallType ==
    ASSUME Limits, TypeOK, NEW w \in Writers, NEW k \in Kinds, Call(w, k)
    PROVE  TypeOK'
<1> USE DEF Phases, Leading, HasImm
<1>1. /\ writers_' \in Seq(Writers) /\ Len(writers_) \in Nat /\ Len(writers_') = Len(writers_) + 1
      /\ group' = group
    BY DEF Call, TypeOK
<1>2. calls' \in [Writers -> 0 .. MaxCalls]
    BY DEF Call, TypeOK, Limits
<1>3. group' \in 0 .. Len(writers_')
    BY <1>1 DEF TypeOK
<1> QED
    BY <1>1, <1>2, <1>3 DEF Call, EnterRoom, TypeOK

\* So do the writers who are not in the queue.
LEMMA AwayType ==
    ASSUME Limits, TypeOK, QueueInv, NEW w \in Writers, Done(w) \/ WaitImm(w)
    PROVE  TypeOK'
<1> USE DEF Phases, Leading, HasImm
<1>1. CASE Done(w)
  <2>1. {w} \in SUBSET Writers /\ \A v \in {w} : calls[v] > 0
    BY <1>1 DEF QueueInv, Done
  <2>2. Batch({w}) \in SUBSET Ops
    BY ONLY <2>1, BatchType, Limits, TypeOK, ZenonT(60)
  <2> QED
    BY <1>1, <2>2, ZenonT(60) DEF Done, Return, After, TypeOK
<1>2. CASE WaitImm(w)
    BY <1>2 DEF WaitImm, TypeOK
<1> QED
    BY <1>1, <1>2

\* The steps of the background thread.
LEMMA BackgroundType ==
    ASSUME Limits, TypeOK, WorkInv, Background
    PROVE  TypeOK'
<1> USE DEF HasImm, Scheduled
<1>1. SignalBg(pc) \in [Writers -> Phases]
    BY SignalType, ZenonT(60) DEF TypeOK
<1>2. CASE BgStart
    BY <1>1, <1>2 DEF BgStart, BgEnd, TypeOK
<1>3. CASE FlushEnd
  <2>1. imm \in SUBSET Ops
    BY <1>3 DEF FlushEnd, WorkInv, TypeOK
  <2>2. l0' \in {l0, l0 + 1} /\ inputs' = inputs
    BY <1>3 DEF FlushEnd
  <2>3. l0' \in Nat /\ inputs' \in 0 .. l0'
    BY <2>2 DEF TypeOK
  <2> QED
    BY <1>1, <1>3, <2>1, <2>3 DEF FlushEnd, BgEnd, TypeOK
<1>4. CASE FlushFails
    BY <1>1, <1>4 DEF FlushFails, BgEnd, TypeOK
<1>5. CASE CompactFlush
    BY <1>5 DEF CompactFlush, TypeOK
<1>6. CASE CompactEnd
    BY <1>1, <1>6 DEF CompactEnd, BgEnd, TypeOK
<1>7. CASE CompactFails
    BY <1>1, <1>7 DEF CompactFails, BgEnd, TypeOK
<1> QED
    BY <1>2, <1>3, <1>4, <1>5, <1>6, <1>7 DEF Background

-----------------------------------------------------------------------------
(* The queue                                                               *)

\* A step after which the same writers lead, wait and are out of the queue.
LEMMA QueueSame ==
    ASSUME TypeOK, QueueInv, UNCHANGED <<writers_, calls>>,
           \A v \in Writers : /\ pc'[v] \in Leading <=> pc[v] \in Leading
                              /\ pc'[v] = "wait" <=> pc[v] = "wait"
                              /\ pc[v] = "idle" => pc'[v] = "idle"
                              /\ pc'[v] \in Writing => group' > 0
    PROVE  QueueInv'
<1>1. writers_' = writers_ /\ First(Len(writers_))' = First(Len(writers_))
    BY DEF First
<1>2. \A i, j \in 1 .. Len(writers_') : writers_'[i] = writers_'[j] => i = j
    BY <1>1 DEF QueueInv
<1>3. \A i \in 1 .. Len(writers_') :
        IF i = 1 THEN pc'[writers_'[i]] \in Leading ELSE pc'[writers_'[i]] = "wait"
    BY <1>1, QueueFacts DEF QueueInv
<1>4. \A v \in Writers : pc'[v] \in Leading \cup {"wait"} => v \in First(Len(writers_))'
    BY <1>1 DEF QueueInv
<1>5. \A v \in Writers : pc'[v] # "idle" => calls'[v] > 0
    BY DEF QueueInv
<1> QED
    BY <1>2, <1>3, <1>4, <1>5 DEF QueueInv, Writing

\* The writer that leads goes on to the phase s of its own call.
LEMMA LeadsFrame ==
    ASSUME TypeOK, QueueInv, NEW w \in Writers, Leads(w)
    PROVE  /\ UNCHANGED <<status, clientVars, writers_>>
           /\ pc[w] \in Leading /\ pc'[w] \in Leading
           /\ \A v \in Writers : v # w => pc'[v] = pc[v]
           /\ pc[w] \in Writing => group' = group
           /\ pc[w] \notin Writing /\ pc'[w] \in Writing => group' > 0
<1> USE DEF Leading, Writing, TypeOK
<1>1. CASE RoomDelay(w)
    BY <1>1 DEF RoomDelay
<1>2. CASE RoomWait(w)
    BY <1>2 DEF RoomWait, NeedsSwitch
<1>3. CASE RoomSwitch(w)
    BY <1>3 DEF RoomSwitch, NeedsSwitch
<1>4. CASE BuildBatchGroup(w)
  <2>1. group' > 0
    BY <1>4 DEF BuildBatchGroup, GroupOf
  <2> QED
    BY <1>4, <2>1 DEF BuildBatchGroup, HasRoom
<1>5. CASE AddRecord(w)
    BY <1>5 DEF AddRecord
<1>6. CASE Sync(w)
    BY <1>6 DEF Sync
<1>7. CASE InsertInto(w)
    BY <1>7 DEF InsertInto
<1> QED
    BY <1>1, <1>2, <1>3, <1>4, <1>5, <1>6, <1>7 DEF Leads

\* The front writer keeps its place until it ends its group.
LEMMA LeadsQueue ==
    ASSUME TypeOK, QueueInv, NEW w \in Writers, Leads(w)
    PROVE  QueueInv'
<1>1. /\ UNCHANGED <<writers_, calls>>
      /\ pc[w] \in Leading /\ pc'[w] \in Leading
      /\ \A v \in Writers : v # w => pc'[v] = pc[v]
      /\ pc[w] \in Writing => group' = group
      /\ pc[w] \notin Writing /\ pc'[w] \in Writing => group' > 0
    BY LeadsFrame
<1>2. \A v \in Writers : pc[v] \in Writing => v = w /\ group > 0
  <2>1. ASSUME NEW v \in Writers, pc[v] \in Writing PROVE v = w
    BY <1>1, <2>1, LeaderFirst DEF Writing, Leading
  <2> QED
    BY <2>1 DEF QueueInv, Writing
<1>3. \A v \in Writers : pc'[v] \in Writing => group' > 0
    BY <1>1, <1>2
<1>4. \A v \in Writers : /\ pc'[v] \in Leading <=> pc[v] \in Leading
                         /\ pc'[v] = "wait" <=> pc[v] = "wait"
                         /\ pc[v] = "idle" => pc'[v] = "idle"
    BY <1>1 DEF Leading
<1> QED
    BY ONLY <1>1, <1>3, <1>4, TypeOK, QueueInv, QueueSame, ZenonT(60)

\* A writer outside the queue leaves it alone.
LEMMA AwayQueue ==
    ASSUME TypeOK, QueueInv, NEW w \in Writers, Done(w) \/ WaitImm(w)
    PROVE  QueueInv'
<1>1. /\ UNCHANGED <<writers_, calls, group>>
      /\ pc[w] \in {"done", "imm"} /\ pc'[w] \in {"idle", "imm", "immwait"}
      /\ \A v \in Writers : v # w => pc'[v] = pc[v]
    BY DEF Done, WaitImm, After, TypeOK
<1>2. \A v \in Writers : /\ pc'[v] \in Leading <=> pc[v] \in Leading
                         /\ pc'[v] = "wait" <=> pc[v] = "wait"
                         /\ pc[v] = "idle" => pc'[v] = "idle"
                         /\ pc'[v] \in Writing => group' > 0
    BY <1>1 DEF Leading, Writing, QueueInv
<1> QED
    BY ONLY <1>1, <1>2, TypeOK, QueueInv, QueueSame, ZenonT(60)

\* What the background thread does to the writers: nothing, or a SignalAll.
LEMMA BackgroundFrame ==
    ASSUME Background
    PROVE  /\ pc' \in {pc, SignalBg(pc)}
           /\ UNCHANGED <<status, calls, kind, acked, failed, allow_delay, force, writers_, group,
                          mem, full, log, synced>>
BY ZenonT(60) DEF Background, BgStart, FlushEnd, FlushFails, CompactFlush, CompactEnd, CompactFails, BgEnd

\* The background thread leaves the queue alone.
LEMMA BackgroundQueue ==
    ASSUME TypeOK, QueueInv, Background
    PROVE  QueueInv'
<1>1. pc' \in {pc, SignalBg(pc)} /\ UNCHANGED <<writers_, calls, group>>
    BY BackgroundFrame
<1>2. ASSUME NEW v \in Writers
      PROVE  /\ pc'[v] \in Leading <=> pc[v] \in Leading
             /\ pc'[v] = "wait" <=> pc[v] = "wait"
             /\ pc[v] = "idle" => pc'[v] = "idle"
             /\ pc'[v] \in Writing => pc[v] \in Writing
  <2>1. CASE pc' = pc
    BY <2>1
  <2>2. CASE pc' = SignalBg(pc)
    BY <2>2, Signalled DEF TypeOK, Phases, Leading, Writing
  <2> QED
    BY <1>1, <2>1, <2>2
<1>3. \A v \in Writers : pc'[v] \in Writing => group' > 0
    BY <1>1, <1>2 DEF QueueInv, Writing
<1> QED
    BY ONLY <1>1, <1>2, <1>3, TypeOK, QueueInv, QueueSame, ZenonT(60)

\* A new writer has the last place, and leads if it is the first.
LEMMA CallQueue ==
    ASSUME TypeOK, QueueInv, NEW w \in Writers, NEW k \in Kinds, Call(w, k)
    PROVE  QueueInv'
<1>1. /\ Len(writers_) \in Nat /\ Len(writers_') = Len(writers_) + 1
      /\ writers_'[Len(writers_) + 1] = w
      /\ \A i \in 1 .. Len(writers_) : writers_'[i] = writers_[i]
      /\ DOMAIN writers_' = 1 .. Len(writers_')
      /\ writers_ = <<>> <=> Len(writers_) = 0
    BY DEF Call, TypeOK
<1>2. /\ pc[w] = "idle" /\ \A v \in Writers : v # w => pc'[v] = pc[v] /\ calls'[v] = calls[v]
      /\ pc'[w] = IF writers_ = <<>> THEN "room" ELSE "wait"
      /\ calls'[w] > 0 /\ group' = group
    BY DEF Call, TypeOK
<1>3. \A i \in 1 .. Len(writers_) : writers_[i] # w /\ pc'[writers_[i]] = pc[writers_[i]]
    BY <1>2, QueueFacts DEF Queued, Leading
<1>4. \A i, j \in 1 .. Len(writers_') : writers_'[i] = writers_'[j] => i = j
  <2>1. ASSUME NEW i \in 1 .. Len(writers_) + 1, NEW j \in 1 .. Len(writers_) + 1,
               writers_'[i] = writers_'[j]
        PROVE  i = j
    BY <1>1, <1>3, <2>1, QueueFacts
  <2> QED
    BY <1>1, <2>1
<1>5. ASSUME NEW i \in 1 .. Len(writers_')
      PROVE  IF i = 1 THEN pc'[writers_'[i]] \in Leading ELSE pc'[writers_'[i]] = "wait"
  <2>1. CASE i = Len(writers_) + 1
    BY <1>1, <1>2, <2>1 DEF Leading
  <2>2. CASE i \in 1 .. Len(writers_)
    BY <1>1, <1>3, <2>2 DEF QueueInv
  <2> QED
    BY <1>1, <2>1, <2>2
<1>6. ASSUME NEW v \in Writers, pc'[v] \in Leading \cup {"wait"}
      PROVE  v \in First(Len(writers_))'
  <2>1. CASE v = w
    BY <1>1, <2>1 DEF First
  <2>2. CASE v # w
    <3>1. PICK i \in 1 .. Len(writers_) : v = writers_[i]
      BY <1>2, <1>6, <2>2, InFirst DEF QueueInv
    <3> QED
      BY <1>1, <3>1 DEF First
  <2> QED
    BY <2>1, <2>2
<1>7. \A v \in Writers : pc'[v] \in Writing => group' > 0
    BY <1>2 DEF QueueInv, Writing
<1>8. \A v \in Writers : pc'[v] # "idle" => calls'[v] > 0
    BY <1>2 DEF QueueInv
<1> QED
    BY ONLY <1>4, <1>5, <1>6, <1>7, <1>8, ZenonT(60) DEF QueueInv, Writing

\* The cases of a phase after the end of Write: of the writer a, of the others in
\* its group F, of those it notifies, and of the rest.
LEMMA EndPhases ==
    ASSUME NEW W, NEW a \in W, NEW x, NEW F, NEW N, NEW p, NEW q, a \in F, F \cap N = {},
           q = [v \in W |-> CASE v = a -> x [] v \in F \ {a} -> "done"
                              [] v \in N -> "room" [] OTHER -> p[v]]
    PROVE  /\ q[a] = x
           /\ \A v \in W \ {a} : v \in F => q[v] = "done"
           /\ \A v \in W \ {a} : v \in N => q[v] = "room"
           /\ \A v \in W \ {a} : v \notin F \cup N => q[v] = p[v]
OBVIOUS

\* The queue and the phases after the end of Write, place by place.
LEMMA EndsFrame ==
    ASSUME TypeOK, QueueInv, NEW w \in Writers, NEW n, NEW ok, NEW p, Ends(w, n, ok, p)
    PROVE  /\ n \in 1 .. Len(writers_) /\ Len(writers_') = Len(writers_) - n
           /\ \A i \in 1 .. Len(writers_) - n : writers_'[i] = writers_[i + n]
           /\ w = writers_[1] /\ group' = 0
           /\ pc'[w] = After(w, ok)
           /\ \A i \in 2 .. n : pc'[writers_[i]] = "done"
           /\ n < Len(writers_) => pc'[writers_[n + 1]] = "room"
           /\ \A i \in n + 2 .. Len(writers_) : pc'[writers_[i]] = "wait"
           /\ \A v \in Writers \ First(Len(writers_)) :
                  pc'[v] = pc[v] \/ (pc[v] = "immwait" /\ pc'[v] = "imm")
<1>1. n \in 1 .. Len(writers_) /\ w = writers_[1] /\ Len(writers_) \in Nat
    BY LeaderFirst DEF Ends
<1>2. Len(writers_') = Len(writers_) - n /\ \A i \in 1 .. Len(writers_) - n : writers_'[i] = writers_[i + n]
  <2>1. writers_' = SubSeq(writers_, n + 1, Len(writers_)) /\ writers_ \in Seq(Writers)
    BY DEF Ends, Finish, Rest, TypeOK
  <2> QED
    BY ONLY <1>1, <2>1, SMTT(60)
<1>3. \A i \in 1 .. n : writers_[i] \in First(n)
    BY InFirst
<1>4. \A i \in n + 1 .. Len(writers_) : writers_[i] \notin First(n)
    BY <1>1, InFirst, QueueFacts
<1>5. \A i \in 1 .. Len(writers_) : writers_[i] \in Notify(n) <=> i = n + 1
  <2>1. \A v : v \in Notify(n) <=> \E j \in {n + 1} \cap 1 .. Len(writers_) : v = writers_[j]
    BY DEF Notify
  <2> QED
    BY <1>1, <2>1, QueueFacts
<1>6. \A v \in Writers \ First(Len(writers_)) : v \notin First(n) /\ v \notin Notify(n) /\ v # w
    BY <1>1, InFirst DEF Notify
<1>7. /\ group' = 0 /\ pc'[w] = After(w, ok)
      /\ \A v \in Writers \ {w} :
             /\ v \in First(n) => pc'[v] = "done"
             /\ v \in Notify(n) => pc'[v] = "room"
             /\ v \notin First(n) \cup Notify(n) => pc'[v] = p[v]
  <2>1. pc' = [v \in Writers |-> CASE v = w -> After(w, ok)
                                 [] v \in First(n) \ {w} -> "done"
                                 [] v \in Notify(n) -> "room"
                                 [] OTHER -> p[v]] /\ group' = 0
    BY DEF Ends, Finish
  <2>2. w \in First(n)
    BY <1>1, <1>3
  <2>3. First(n) \cap Notify(n) = {}
    BY <1>1, <1>4 DEF Notify
  <2> QED
    BY ONLY <2>1, <2>2, <2>3, w \in Writers, EndPhases, ZenonT(60)
<1>8. \A i \in 2 .. Len(writers_) : writers_[i] \in Writers /\ writers_[i] # w /\ pc[writers_[i]] = "wait"
    BY <1>1, QueueFacts DEF QueueInv
<1>9. \A v \in Writers : pc[v] = "wait" => p[v] = "wait"
  <2> SUFFICES ASSUME NEW v \in Writers, pc[v] = "wait" PROVE p[v] = "wait"
    OBVIOUS
  <2>1. p \in {pc, SignalBg(pc)} /\ pc \in [Writers -> Phases]
    BY DEF Ends, TypeOK
  <2>2. SignalBg(pc)[v] = pc[v]
    BY <2>1, Signalled
  <2> QED
    BY <2>1, <2>2
<1>10. ASSUME NEW v \in Writers \ First(Len(writers_))
       PROVE  p[v] = pc[v] \/ (pc[v] = "immwait" /\ p[v] = "imm")
  <2>1. pc[v] # "bgwait"
    BY DEF QueueInv, Leading
  <2>2. p \in {pc, SignalBg(pc)} /\ pc \in [Writers -> Phases]
    BY DEF Ends, TypeOK
  <2>3. SignalBg(pc)[v] = pc[v] \/ (pc[v] = "immwait" /\ SignalBg(pc)[v] = "imm")
    BY <2>1, <2>2, Signalled
  <2> QED
    BY <2>2, <2>3
<1>11. \A i \in 2 .. n : i \in 1 .. n /\ i \in 2 .. Len(writers_)
    BY <1>1
<1>12. \A i \in 2 .. n : pc'[writers_[i]] = "done"
    BY ONLY <1>3, <1>7, <1>8, <1>11, ZenonT(60)
<1>13. n < Len(writers_) => pc'[writers_[n + 1]] = "room"
  <2> SUFFICES ASSUME n < Len(writers_) PROVE pc'[writers_[n + 1]] = "room"
    OBVIOUS
  <2>1. n + 1 \in 2 .. Len(writers_) /\ n + 1 \in n + 1 .. Len(writers_) /\ n + 1 \in 1 .. Len(writers_)
    BY <1>1
  <2> QED
    BY ONLY <1>4, <1>5, <1>7, <1>8, <2>1, ZenonT(60)
<1>14. ASSUME NEW i \in n + 2 .. Len(writers_) PROVE pc'[writers_[i]] = "wait"
  <2>1. i \in 2 .. Len(writers_) /\ i \in n + 1 .. Len(writers_) /\ i \in 1 .. Len(writers_) /\ i # n + 1
    BY <1>1
  <2> QED
    BY ONLY <1>4, <1>5, <1>7, <1>8, <1>9, <2>1, ZenonT(60)
<1>15. \A v \in Writers \ First(Len(writers_)) :
           pc'[v] = pc[v] \/ (pc[v] = "immwait" /\ pc'[v] = "imm")
    BY <1>6, <1>7, <1>10
<1> QED
    BY ONLY <1>1, <1>2, <1>7, <1>12, <1>13, <1>14, <1>15, ZenonT(60)

\* The pop up to last_writer leaves the rest of the queue, its new front notified.
LEMMA EndsQueue ==
    ASSUME TypeOK, TypeOK', QueueInv, NEW w \in Writers, NEW n, NEW ok, NEW p, Ends(w, n, ok, p)
    PROVE  QueueInv'
<1>1. /\ n \in 1 .. Len(writers_) /\ Len(writers_) \in Nat /\ Len(writers_') = Len(writers_) - n
      /\ \A i \in 1 .. Len(writers_) - n : writers_'[i] = writers_[i + n]
      /\ w = writers_[1]
      /\ \A i \in 2 .. n : pc'[writers_[i]] = "done"
      /\ n < Len(writers_) => pc'[writers_[n + 1]] = "room"
      /\ \A i \in n + 2 .. Len(writers_) : pc'[writers_[i]] = "wait"
    BY EndsFrame, QueueFacts
<1>2. pc'[w] \in {"idle", "imm"} /\ UNCHANGED calls
    BY EndsFrame, ZenonT(60) DEF After, Ends
<1>3. \A v \in Writers \ First(Len(writers_)) :
          pc'[v] = pc[v] \/ (pc[v] = "immwait" /\ pc'[v] = "imm")
    BY EndsFrame
<1>4. \A i, j \in 1 .. Len(writers_') : writers_'[i] = writers_'[j] => i = j
  <2>2. ASSUME NEW i \in 1 .. Len(writers_'), NEW j \in 1 .. Len(writers_'), writers_'[i] = writers_'[j]
        PROVE  i = j
    BY <1>1, <2>2, QueueFacts
  <2> QED
    BY <2>2
<1>5. ASSUME NEW i \in 1 .. Len(writers_')
      PROVE  IF i = 1 THEN pc'[writers_'[i]] \in Leading ELSE pc'[writers_'[i]] = "wait"
  <2>1. CASE i = 1
    BY <1>1, <2>1 DEF Leading
  <2>2. CASE i # 1
    BY <1>1, <2>2
  <2> QED
    BY <2>1, <2>2
<1>6. ASSUME NEW v \in Writers
      PROVE  /\ pc'[v] \in Leading \cup {"wait"} => v \in First(Len(writers_))'
             /\ pc'[v] \notin Writing /\ (pc'[v] # "idle" => calls'[v] > 0)
  <2>1. CASE v \notin First(Len(writers_))
    <3>1. pc[v] \notin Leading \cup {"wait"}
      BY <2>1 DEF QueueInv
    <3> QED
      BY <1>2, <1>3, <2>1, <3>1 DEF Leading, Writing, QueueInv
  <2>2. CASE v \in First(Len(writers_))
    <3>1. PICK i \in 1 .. Len(writers_) : v = writers_[i]
      BY <2>2, InFirst
    <3>2. pc[v] # "idle"
      BY <3>1, QueueFacts DEF Queued, Leading
    <3>3. pc'[v] \notin Writing /\ calls'[v] > 0
      <4>1. i = 1 \/ i \in 2 .. n \/ i = n + 1 \/ i \in n + 2 .. Len(writers_)
        BY <1>1
      <4>2. pc'[v] \notin Writing
        BY <1>1, <1>2, <3>1, <4>1 DEF Writing
      <4> QED
        BY <1>2, <3>2, <4>2 DEF QueueInv
    <3>4. CASE i <= n
      BY <1>1, <1>2, <3>1, <3>3, <3>4 DEF Leading
    <3>5. CASE i > n
      <4> DEFINE j == i - n
      <4>0. j \in 1 .. Len(writers_') /\ j \in 1 .. Len(writers_) - n /\ j + n = i
        BY ONLY <1>1, <3>5, i \in 1 .. Len(writers_), SMTT(60)
      <4> HIDE DEF j
      <4>1. j \in 1 .. Len(writers_') /\ v = writers_'[j]
        BY ONLY <1>1, <3>1, <4>0, ZenonT(60)
      <4>2. v \in First(Len(writers_))'
        BY ONLY <4>1, InFirstNext, ZenonT(60)
      <4> QED
        BY <3>3, <4>2
    <3> QED
      BY <1>1, <3>4, <3>5
  <2> QED
    BY <2>1, <2>2
<1> QED
    BY ONLY <1>4, <1>5, <1>6, ZenonT(60) DEF QueueInv, Writing

-----------------------------------------------------------------------------
(* The background thread has work                                          *)

\* A step of a writer that keeps the immutable memtable and the files of level 0, and
\* after which nobody waits who did not wait before.
LEMMA WorkSame ==
    ASSUME WorkInv, WaitersHaveWork, UNCHANGED <<imm, l0, bg>>, bg_error' \in {bg_error, TRUE},
           \A v \in Writers : pc'[v] \in {"bgwait", "immwait"} =>
               bg # "none" \/ \E u \in Writers : pc[u] \in {"bgwait", "immwait"}
    PROVE  WorkInv' /\ WaitersHaveWork'
<1>1. WaitersHaveWork'
    BY ZenonT(60) DEF WaitersHaveWork
<1>2. WorkInv'
    BY ZenonT(60) DEF WorkInv, HasImm
<1> QED
    BY <1>1, <1>2

\* The end of a group schedules nothing and makes nobody wait.
LEMMA EndsWork ==
    ASSUME TypeOK, QueueInv, WorkInv, WaitersHaveWork, NEW w \in Writers, NEW n, NEW ok, NEW p,
           Ends(w, n, ok, p)
    PROVE  WorkInv' /\ WaitersHaveWork'
<1>1. UNCHANGED <<imm, l0, bg>> /\ bg_error' \in {bg_error, TRUE}
    BY ZenonT(60) DEF Ends
<1>2. ASSUME NEW v \in Writers, pc'[v] \in {"bgwait", "immwait"} PROVE pc[v] \in {"bgwait", "immwait"}
  <2>1. CASE v \in First(Len(writers_))
    <3>1. PICK i \in 1 .. Len(writers_) : v = writers_[i]
      BY <2>1, InFirst
    <3>2. n \in 1 .. Len(writers_) /\ Len(writers_) \in Nat
      BY EndsFrame, QueueFacts
    <3>3. i = 1 \/ i \in 2 .. n \/ i = n + 1 \/ i \in n + 2 .. Len(writers_)
      BY <3>2
    <3>4. pc'[w] \in {"idle", "imm"} /\ w = writers_[1]
      BY EndsFrame, ZenonT(60) DEF After
    <3>5. /\ \A j \in 2 .. n : pc'[writers_[j]] = "done"
          /\ n < Len(writers_) => pc'[writers_[n + 1]] = "room"
          /\ \A j \in n + 2 .. Len(writers_) : pc'[writers_[j]] = "wait"
      BY EndsFrame, ZenonT(60)
    <3> QED
      BY ONLY <1>2, <3>1, <3>2, <3>3, <3>4, <3>5, SMTT(60)
  <2>2. CASE v \notin First(Len(writers_))
    BY <1>2, <2>2, EndsFrame
  <2> QED
    BY <2>1, <2>2
<1> QED
    BY ONLY <1>1, <1>2, WorkInv, WaitersHaveWork, WorkSame, ZenonT(60)

\* A new call does not wait for the background thread yet.
LEMMA CallWork ==
    ASSUME TypeOK, WorkInv, WaitersHaveWork, NEW w \in Writers, NEW k \in Kinds, Call(w, k)
    PROVE  WorkInv' /\ WaitersHaveWork'
<1>1. UNCHANGED <<imm, l0, bg>> /\ bg_error' = bg_error
    BY ZenonT(60) DEF Call
<1>2. \A v \in Writers : pc'[v] \in {"bgwait", "immwait"} => pc[v] \in {"bgwait", "immwait"}
    BY DEF Call, TypeOK
<1> QED
    BY ONLY <1>1, <1>2, WorkInv, WaitersHaveWork, WorkSame, ZenonT(60)

\* A writer goes to wait only while there is something for the background thread to do.
LEMMA LeadsWork ==
    ASSUME Limits, TypeOK, WorkInv, WaitersHaveWork, NEW w \in Writers, Leads(w)
    PROVE  WorkInv' /\ WaitersHaveWork'
<1>1. CASE RoomSwitch(w)
  <2>1. bg' # "none" /\ l0' = l0 /\ bg_error' = bg_error
    BY <1>1 DEF RoomSwitch, Scheduled
  <2>2. ~HasImm /\ imm' = mem /\ mem \in SUBSET Ops
    BY <1>1 DEF RoomSwitch, MustWait, TypeOK
  <2>3. HasImm'
    BY <2>2, OpsNotNoImm DEF HasImm
  <2> QED
    BY <2>1, <2>3 DEF WorkInv, WaitersHaveWork
<1>2. CASE RoomWait(w)
  <2>1. UNCHANGED <<imm, l0, bg>> /\ bg_error' = bg_error
    BY <1>2, ZenonT(60) DEF RoomWait
  <2>2. ~bg_error /\ (HasImm \/ l0 >= kL0_StopWritesTrigger)
    BY <1>2 DEF RoomWait, NeedsSwitch, MustWait
  <2>3. l0 >= kL0_StopWritesTrigger => l0 >= kL0_CompactionTrigger
    BY DEF Limits, TypeOK
  <2>4. bg # "none"
    BY <2>2, <2>3 DEF WorkInv
  <2> QED
    BY ONLY <2>1, <2>4, WorkInv, WaitersHaveWork, WorkSame, ZenonT(60)
<1>3. CASE RoomDelay(w) \/ BuildBatchGroup(w) \/ AddRecord(w) \/ Sync(w) \/ InsertInto(w)
  <2>1. UNCHANGED <<imm, l0, bg>> /\ bg_error' = bg_error
    BY <1>3, ZenonT(60) DEF RoomDelay, BuildBatchGroup, AddRecord, Sync, InsertInto
  <2>2. \A v \in Writers : pc'[v] \in {"bgwait", "immwait"} => pc[v] \in {"bgwait", "immwait"}
    BY <1>3, ZenonT(60) DEF RoomDelay, BuildBatchGroup, AddRecord, Sync, InsertInto, TypeOK
  <2> QED
    BY ONLY <2>1, <2>2, WorkInv, WaitersHaveWork, WorkSame, ZenonT(60)
<1> QED
    BY <1>1, <1>2, <1>3 DEF Leads

\* Outside the queue, only the wait of CompactMemTable begins, and it has an
\* immutable memtable to wait for.
LEMMA AwayWork ==
    ASSUME TypeOK, WorkInv, WaitersHaveWork, NEW w \in Writers, Done(w) \/ WaitImm(w)
    PROVE  WorkInv' /\ WaitersHaveWork'
<1>1. UNCHANGED <<imm, l0, bg>> /\ bg_error' = bg_error
    BY ZenonT(60) DEF Done, WaitImm
<1>2. CASE Done(w)
  <2>1. \A v \in Writers : pc'[v] \in {"bgwait", "immwait"} => pc[v] \in {"bgwait", "immwait"}
    BY <1>2 DEF Done, After, TypeOK
  <2> QED
    BY ONLY <1>1, <2>1, WorkInv, WaitersHaveWork, WorkSame, ZenonT(60)
<1>3. CASE WaitImm(w)
  <2>1. \A v \in Writers : pc'[v] \in {"bgwait", "immwait"} =>
            pc[v] \in {"bgwait", "immwait"} \/ (HasImm /\ ~bg_error)
    BY <1>3 DEF WaitImm, TypeOK
  <2>2. HasImm /\ ~bg_error => bg # "none"
    BY DEF WorkInv
  <2> QED
    BY ONLY <1>1, <2>1, <2>2, WorkInv, WaitersHaveWork, WorkSame, ZenonT(60)
<1> QED
    BY <1>2, <1>3

\* The background thread schedules itself again, and wakes those who wait for it.
LEMMA BackgroundWork ==
    ASSUME Limits, TypeOK, WorkInv, WaitersHaveWork, Background
    PROVE  WorkInv' /\ WaitersHaveWork'
<1>1. SignalBg(pc) = pc' => WaitersHaveWork'
  <2>1. \A v \in Writers : SignalBg(pc)[v] \notin {"bgwait", "immwait"}
    BY Signalled DEF TypeOK
  <2> QED
    BY <2>1 DEF WaitersHaveWork
<1>2. bg' # "none" => WaitersHaveWork'
    BY DEF WaitersHaveWork
<1> USE DEF HasImm, Scheduled, WorkInv, BgEnd
<1>3. CASE BgStart
    BY <1>1, <1>2, <1>3 DEF BgStart
<1>4. CASE FlushEnd
    BY <1>1, <1>2, <1>4 DEF FlushEnd
<1>5. CASE FlushFails
    BY <1>1, <1>2, <1>5 DEF FlushFails
<1>6. CASE CompactFlush
    BY <1>1, <1>2, <1>6 DEF CompactFlush
<1>7. CASE CompactEnd
    BY <1>1, <1>2, <1>7 DEF CompactEnd
<1>8. CASE CompactFails
    BY <1>1, <1>2, <1>8 DEF CompactFails
<1> QED
    BY <1>3, <1>4, <1>5, <1>6, <1>7, <1>8 DEF Background

-----------------------------------------------------------------------------
(* What happens to the entries                                             *)

\* The invariants about entries.
EntryInv == Reported /\ SyncDurable /\ MadeInv /\ PendingInv /\ SyncInv

\* No two writers lead.
LEMMA OneLeads ==
    ASSUME TypeOK, QueueInv, NEW u \in Writers, NEW v \in Writers, pc[u] \in Leading, pc[v] \in Leading
    PROVE  u = v
BY LeaderFirst

\* The entries of a group stay those of the group while it is written.
LEMMA GroupSame ==
    ASSUME UNCHANGED <<writers_, calls, kind, group>>
    PROVE  First(group)' = First(group) /\ Batch(First(group))' = Batch(First(group))
BY ZenonT(60) DEF First, Batch, Entry

\* A step that loses no entry, reports none, and adds none of a call not yet made.
LEMMA NothingLost ==
    ASSUME EntryInv, UNCHANGED <<calls, kind, acked, failed>>,
           Applied \subseteq Applied', synced \cup tables \subseteq synced' \cup tables',
           failed \cap Applied' = {},
           \A e \in (log \cup synced \cup Applied)' : e.n <= calls[e.w]
    PROVE  Reported' /\ SyncDurable' /\ MadeInv'
<1>1. Reported'
    BY DEF EntryInv, Reported
<1>2. SyncDurable'
  <2>1. \A v \in Writers : Entry(v)' = Entry(v)
    BY DEF Entry
  <2> QED
    BY <2>1 DEF EntryInv, SyncDurable
<1>3. MadeInv'
  <2>1. \A e \in acked \cup failed : e.n <= calls[e.w]
    BY DEF EntryInv, MadeInv, Known
  <2>2. Known' = acked \cup failed \cup log' \cup synced' \cup Applied'
    BY DEF Known
  <2> QED
    BY <2>1, <2>2 DEF MadeInv
<1> QED
    BY <1>1, <1>2, <1>3

\* A memtable that becomes the immutable one, or is written to a table, is as applied
\* as before.
LEMMA SwitchApplied ==
    ASSUME Limits, TypeOK, ~HasImm, imm' = mem, mem' = {}, UNCHANGED tables
    PROVE  Applied' = Applied
<1>1. mem \ NoImm = mem /\ imm \ NoImm = {}
    BY OpsNotNoImm DEF TypeOK, HasImm
<1> QED
    BY <1>1 DEF Applied

\* A flush moves the entries of the immutable memtable and loses none.
LEMMA FlushApplied ==
    ASSUME Limits, TypeOK, HasImm, tables' = tables \cup imm, imm' = NoImm, UNCHANGED mem
    PROVE  Applied' = Applied
<1>1. imm \ NoImm = imm
    BY OpsNotNoImm DEF TypeOK
<1> QED
    BY <1>1 DEF Applied

\* What the steps of the background thread mean for the entries: nothing.
LEMMA BackgroundApplied ==
    ASSUME Limits, TypeOK, WorkInv, Background
    PROVE  Applied' = Applied /\ tables \subseteq tables'
<1>1. CASE FlushEnd
  <2>1. HasImm /\ tables' = tables \cup imm /\ imm' = NoImm /\ UNCHANGED mem
    BY <1>1, ZenonT(60) DEF FlushEnd, WorkInv, writeVars
  <2> QED
    BY <2>1, FlushApplied
<1>2. CASE BgStart \/ FlushFails \/ CompactFlush \/ CompactEnd \/ CompactFails
  <2>1. UNCHANGED <<mem, imm, tables>>
    BY <1>2, ZenonT(60) DEF BgStart, FlushFails, CompactFlush, CompactEnd, CompactFails, writeVars
  <2> QED
    BY <2>1 DEF Applied
<1> QED
    BY <1>1, <1>2 DEF Background

\* The background thread keeps what is known of the entries.
LEMMA BackgroundEntries ==
    ASSUME Limits, TypeOK, QueueInv, WorkInv, EntryInv, Background
    PROVE  EntryInv'
<1>1. /\ pc' \in {pc, SignalBg(pc)} /\ Applied' = Applied /\ tables \subseteq tables'
      /\ UNCHANGED <<calls, kind, acked, failed, status, writers_, group, log, synced>>
    BY BackgroundFrame, BackgroundApplied
<1>2. Reported' /\ SyncDurable' /\ MadeInv'
  <2>1. /\ Applied \subseteq Applied' /\ synced \cup tables \subseteq synced' \cup tables'
        /\ failed \cap Applied' = {}
    BY <1>1 DEF EntryInv, Reported
  <2>2. \A e \in (log \cup synced \cup Applied)' : e.n <= calls[e.w]
    BY <1>1 DEF EntryInv, MadeInv, Known
  <2> QED
    BY ONLY <1>1, <2>1, <2>2, EntryInv, NothingLost, ZenonT(60)
<1>3. ASSUME NEW v \in Writers
      PROVE  /\ pc'[v] \in Leading \cup {"wait"} => pc[v] \in Leading \cup {"wait"}
             /\ \A s \in Writing \cup {"done"} : pc'[v] = s <=> pc[v] = s
             /\ Entry(v)' = Entry(v)
  <2>1. Entry(v)' = Entry(v)
    BY <1>1 DEF Entry
  <2>2. pc \in [Writers -> Phases] /\ Writing \cup {"done"} \subseteq Phases \ {"room", "imm", "bgwait", "immwait"}
    BY DEF TypeOK, Writing, Phases, Leading
  <2>3. CASE pc' = pc
    BY <2>1, <2>3
  <2>4. CASE pc' = SignalBg(pc)
    BY <2>1, <2>2, <2>4, Signalled DEF Phases
  <2> QED
    BY <1>1, <2>3, <2>4
<1>4. First(group)' = First(group) /\ Batch(First(group))' = Batch(First(group))
    BY <1>1, GroupSame
<1>5. PendingInv'
    BY <1>1, <1>3, <1>4 DEF EntryInv, PendingInv, Writing
<1>6. SyncInv'
    BY <1>1, <1>3, <1>4 DEF EntryInv, SyncInv, Writing
<1> QED
    BY <1>2, <1>5, <1>6 DEF EntryInv

\* A step of the leader that leaves the memtables as they are: no call that waits is
\* applied before it, and none after it.
LEMMA LeaderPending ==
    ASSUME TypeOK, QueueInv, EntryInv, NEW w \in Writers, pc[w] \in Leading, pc[w] # "finish",
           pc'[w] \in Leading, pc'[w] # "finish", \A v \in Writers : v # w => pc'[v] = pc[v],
           UNCHANGED <<calls, kind, acked, failed, status>>, Applied' = Applied
    PROVE  PendingInv'
<1>1. \A v \in Writers : pc[v] # "finish"
    BY OneLeads DEF Leading
<1>2. \A v \in Writers : pc[v] \in Leading \cup {"wait"} => Entry(v) \notin Applied
    BY <1>1 DEF EntryInv, PendingInv
<1>3. \A v \in Writers : Entry(v)' = Entry(v) /\ (pc'[v] \in Leading \cup {"wait"} => pc[v] \in Leading \cup {"wait"})
    BY DEF Entry
<1>4. \A v \in Writers : pc'[v] # "finish" /\ (pc'[v] = "done" => pc[v] = "done")
    BY <1>1 DEF Leading
<1> QED
    BY ZenonT(60), <1>2, <1>3, <1>4 DEF EntryInv, PendingInv

\* BuildBatchGroup, AddRecord and Sync: what is in the log and synced.
LEMMA BuildEntries ==
    ASSUME TypeOK, QueueInv, EntryInv, NEW w \in Writers, BuildBatchGroup(w)
    PROVE  SyncInv'
<1>1. /\ pc[w] = "room" /\ pc' = [pc EXCEPT ![w] = "log"] /\ group' \in GroupOf(w)
      /\ UNCHANGED <<calls, kind, status, writers_, synced>>
    BY ZenonT(60) DEF BuildBatchGroup, HasRoom
<1>2. kind[w] # "sync" => \A v \in First(group)' : kind[v] # "sync"
  <2> SUFFICES ASSUME kind[w] # "sync", NEW v \in First(group)' PROVE kind[v] # "sync"
    OBVIOUS
  <2>1. PICK i \in 1 .. group' : v = writers_[i]
    BY <1>1 DEF First
  <2>2. kind[writers_[i]] = "sync" => kind[w] = "sync"
    BY <1>1, <2>1 DEF GroupOf
  <2> QED
    BY <2>1, <2>2
<1>3. \A v \in Writers : v # w => pc[v] \notin Writing
    BY <1>1, OneLeads DEF Leading, Writing
<1>4. \A v \in Writers : /\ pc'[v] \in Writing => v = w /\ pc'[v] = "log"
                         /\ pc'[v] = "done" => pc[v] = "done"
                         /\ Entry(v)' = Entry(v)
    BY <1>1, <1>3 DEF TypeOK, Writing, Entry
<1> QED
    BY ZenonT(60), <1>1, <1>2, <1>4 DEF EntryInv, SyncInv, Writing

\* The log: AddRecord, Sync and InsertInto keep the synced calls durable.
LEMMA LogEntries ==
    ASSUME TypeOK, QueueInv, EntryInv, NEW w \in Writers, AddRecord(w) \/ Sync(w) \/ InsertInto(w)
    PROVE  SyncInv'
<1>1. UNCHANGED <<calls, kind, status, writers_, group>> /\ synced \subseteq synced'
    BY ZenonT(60) DEF AddRecord, Sync, InsertInto
<1>2. First(group)' = First(group) /\ Batch(First(group))' = Batch(First(group))
    BY <1>1, GroupSame
<1>3. /\ pc[w] \in Writing /\ \A v \in Writers : v # w => pc'[v] = pc[v]
      /\ pc'[w] = "sync" => pc[w] = "log" /\ log' = log \cup Batch(First(group))
      /\ pc'[w] = "insert" => (pc[w] = "log" /\ kind[w] # "sync") \/ (pc[w] = "sync" /\ synced' = synced \cup log)
      /\ pc'[w] = "finish" => pc[w] = "insert"
      /\ pc'[w] \in {"sync", "insert", "finish"}
  <2>1. CASE AddRecord(w)
    BY <2>1 DEF AddRecord, TypeOK, Writing
  <2>2. CASE Sync(w)
    BY <2>2 DEF Sync, TypeOK, Writing
  <2>3. CASE InsertInto(w)
    BY <2>3 DEF InsertInto, TypeOK, Writing
  <2> QED
    BY ZenonT(60), <2>1, <2>2, <2>3
<1>4. \A v \in Writers : v # w => pc[v] \notin Writing
    BY ZenonT(60), <1>3, OneLeads DEF Leading, Writing
<1>5. \A v \in Writers : Entry(v)' = Entry(v)
    BY <1>1 DEF Entry
<1>6. ASSUME NEW v \in Writers
      PROVE  /\ pc'[v] \in Writing /\ kind'[v] # "sync" => \A u \in First(group)' : kind'[u] # "sync"
             /\ pc'[v] = "sync" => Batch(First(group))' \subseteq log'
             /\ pc'[v] \in {"insert", "finish"} /\ kind'[v] = "sync" => Batch(First(group))' \subseteq synced'
             /\ pc'[v] = "done" /\ kind'[v] = "sync" /\ status'[v] => Entry(v)' \in synced'
  <2>1. CASE v = w
    BY ZenonT(60), <1>1, <1>2, <1>3, <2>1 DEF EntryInv, SyncInv, Writing
  <2>2. CASE v # w
    BY ZenonT(60), <1>1, <1>3, <1>4, <1>5, <2>2 DEF EntryInv, SyncInv, Writing
  <2> QED
    BY ZenonT(60), <2>1, <2>2
<1> QED
    BY ONLY <1>6, ZenonT(60) DEF SyncInv, Writing

\* MakeRoomForWrite keeps the synced calls durable.
LEMMA RoomEntries ==
    ASSUME TypeOK, QueueInv, EntryInv, NEW w \in Writers, RoomDelay(w) \/ RoomWait(w) \/ RoomSwitch(w)
    PROVE  SyncInv'
<1>1. UNCHANGED <<calls, kind, status, synced>> /\ pc[w] = "room"
    BY ZenonT(60) DEF RoomDelay, RoomWait, RoomSwitch, NeedsSwitch
<1>2. pc'[w] \in {"room", "bgwait"} /\ \A v \in Writers : v # w => pc'[v] = pc[v]
    BY ZenonT(60) DEF RoomDelay, RoomWait, RoomSwitch, NeedsSwitch, TypeOK
<1>3. \A v \in Writers : v # w => pc[v] \notin Writing
    BY <1>1, OneLeads DEF Leading, Writing
<1>4. \A v \in Writers : /\ pc'[v] \notin Writing
                         /\ pc'[v] = "done" => pc[v] = "done"
                         /\ Entry(v)' = Entry(v)
    BY <1>1, <1>2, <1>3 DEF Writing, Entry
<1> QED
    BY ZenonT(60), <1>1, <1>4 DEF EntryInv, SyncInv, Writing

\* The group is in the memtable, and nobody else.
LEMMA InsertEntries ==
    ASSUME Limits, TypeOK, QueueInv, EntryInv, NEW w \in Writers, InsertInto(w)
    PROVE  Reported' /\ SyncDurable' /\ MadeInv' /\ PendingInv'
<1>1. /\ pc[w] = "insert" /\ pc' = [pc EXCEPT ![w] = "finish"] /\ mem' = mem \cup Batch(First(group))
      /\ UNCHANGED <<calls, kind, acked, failed, status, writers_, group, imm, log, synced, tables>>
    BY ZenonT(60) DEF InsertInto
<1>2. Applied' = Applied \cup Batch(First(group))
    BY <1>1 DEF Applied
<1>3. First(group)' = First(group) /\ Batch(First(group))' = Batch(First(group))
    BY <1>1, GroupSame
<1>4. \A v \in First(group) : v \in Writers /\ pc[v] \in Leading \cup {"wait"}
    BY InFirst, QueueFacts DEF Queued
<1>5. \A e \in Batch(First(group)) : e \notin acked \cup failed /\ e.n <= calls[e.w]
  <2> SUFFICES ASSUME NEW e \in Batch(First(group)) PROVE e \notin acked \cup failed /\ e.n <= calls[e.w]
    OBVIOUS
  <2>1. PICK v \in First(group) : e = Entry(v)
    BY BatchIs
  <2>2. e \notin acked \cup failed
    BY ZenonT(60), <1>4, <2>1 DEF EntryInv, PendingInv
  <2>3. e.n = calls[v] /\ e.w = v /\ calls[v] \in Nat
    BY <1>4, <2>1, EntryIs DEF TypeOK
  <2> QED
    BY <2>2, <2>3
<1>6. Reported' /\ SyncDurable' /\ MadeInv'
  <2>1. /\ Applied \subseteq Applied' /\ synced \cup tables \subseteq synced' \cup tables'
        /\ failed \cap Applied' = {}
    BY ZenonT(60), <1>1, <1>2, <1>5 DEF EntryInv, Reported
  <2>2. \A e \in (log \cup synced \cup Applied)' : e.n <= calls[e.w]
    BY <1>1, <1>2, <1>5 DEF EntryInv, MadeInv, Known
  <2> QED
    BY ONLY <1>1, <2>1, <2>2, EntryInv, NothingLost, ZenonT(60)
<1>7. ASSUME NEW v \in Writers
      PROVE  /\ pc'[v] \in Leading \cup {"wait", "done"} => Entry(v)' \notin (acked \cup failed)'
             /\ pc'[v] \in Leading \cup {"wait"} /\ Entry(v)' \in Applied' =>
                  v \in First(group)' /\ \E u \in Writers : pc'[u] = "finish"
             /\ pc'[v] = "finish" => Batch(First(group))' \subseteq Applied'
             /\ pc'[v] = "done" /\ kind'[v] # "force" => (Entry(v)' \in Applied' <=> status'[v])
  <2>1. Entry(v)' = Entry(v) /\ pc'[w] = "finish"
    BY <1>1 DEF Entry, TypeOK
  <2>2. \A u \in Writers : pc[u] # "finish"
    BY <1>1, OneLeads DEF Leading
  <2>3. /\ pc'[v] \in Leading \cup {"wait", "done"} => pc[v] \in Leading \cup {"wait", "done"}
        /\ pc'[v] \in Leading \cup {"wait"} => pc[v] \in Leading \cup {"wait"}
        /\ pc'[v] = "done" => pc[v] = "done"
    BY <1>1 DEF TypeOK, Leading
  <2>4. Entry(v) \in Batch(First(group)) => v \in First(group)
    BY BatchOf
  <2>5. pc'[v] \in Leading \cup {"wait", "done"} => Entry(v)' \notin (acked \cup failed)'
    BY ZenonT(60), <1>1, <2>1, <2>3 DEF EntryInv, PendingInv
  <2>6. pc'[v] \in Leading \cup {"wait"} /\ Entry(v)' \in Applied' => v \in First(group)'
    BY ZenonT(60), <1>2, <1>3, <2>1, <2>2, <2>3, <2>4 DEF EntryInv, PendingInv
  <2>7. pc[v] = "done" => v \notin First(group)
    BY <1>4 DEF Leading
  <2>8. pc'[v] = "done" /\ kind'[v] # "force" => (Entry(v)' \in Applied' <=> status'[v])
    BY ZenonT(60), <1>1, <1>2, <2>1, <2>3, <2>4, <2>7 DEF EntryInv, PendingInv
  <2> QED
    BY ZenonT(60), <1>2, <1>3, <2>1, <2>5, <2>6, <2>8
<1>8. PendingInv'
    BY ONLY <1>7, ZenonT(60) DEF PendingInv
<1> QED
    BY <1>6, <1>8

\* The front writer keeps what is known of the entries.
LEMMA LeadsEntries ==
    ASSUME Limits, TypeOK, QueueInv, EntryInv, NEW w \in Writers, Leads(w)
    PROVE  EntryInv'
<1>1. CASE InsertInto(w)
    BY <1>1, InsertEntries, LogEntries DEF EntryInv
<1>2. CASE ~InsertInto(w)
  <2>1. /\ pc[w] \in Leading /\ pc'[w] \in Leading /\ \A v \in Writers : v # w => pc'[v] = pc[v]
        /\ UNCHANGED <<status, calls, kind, acked, failed>>
    BY LeadsFrame
  <2>2. pc[w] # "finish" /\ pc'[w] # "finish"
    BY <1>2, ZenonT(60) DEF Leads, RoomDelay, RoomWait, RoomSwitch, NeedsSwitch, BuildBatchGroup, HasRoom, AddRecord,
                Sync, TypeOK
  <2>3. Applied' = Applied /\ tables' = tables /\ synced \subseteq synced'
    <3>1. CASE RoomSwitch(w)
      <4>1. ~HasImm /\ imm' = mem /\ mem' = {} /\ UNCHANGED <<tables, synced>>
        BY <3>1, ZenonT(60) DEF RoomSwitch, MustWait
      <4> QED
        BY <4>1, SwitchApplied
    <3>2. CASE RoomDelay(w) \/ RoomWait(w) \/ BuildBatchGroup(w) \/ AddRecord(w) \/ Sync(w)
      <4>1. UNCHANGED <<mem, imm, tables>> /\ synced \subseteq synced'
        BY <3>2, ZenonT(60) DEF RoomDelay, RoomWait, BuildBatchGroup, AddRecord, Sync
      <4> QED
        BY <4>1 DEF Applied
    <3> QED
      BY <1>2, <3>1, <3>2 DEF Leads
  <2>4. \A e \in (log \cup synced \cup Applied)' : e.n <= calls[e.w]
    <3>1. log' \cup synced' \subseteq log \cup synced \cup Batch(First(group))
      BY <1>2, ZenonT(60) DEF Leads, RoomSwitch, RoomDelay, RoomWait, BuildBatchGroup, AddRecord, Sync
    <3>2. \A e \in Batch(First(group)) : e.n <= calls[e.w]
      <4> SUFFICES ASSUME NEW e \in Batch(First(group)) PROVE e.n <= calls[e.w]
        BY ZenonT(60)
      <4>1. PICK v \in First(group) : e = Entry(v)
        BY BatchIs
      <4>2. v \in Writers
        BY <4>1, InFirst, QueueFacts
      <4> QED
        BY <4>1, <4>2, EntryIs DEF TypeOK
    <3> QED
      BY <2>3, <3>1, <3>2 DEF EntryInv, MadeInv, Known
  <2>5. Reported' /\ SyncDurable' /\ MadeInv'
    <3>1. /\ Applied \subseteq Applied' /\ synced \cup tables \subseteq synced' \cup tables'
          /\ failed \cap Applied' = {}
      BY <2>3 DEF EntryInv, Reported
    <3> QED
      BY ONLY <2>1, <2>4, <3>1, EntryInv, NothingLost, ZenonT(60)
  <2>6. PendingInv'
    BY ONLY <2>1, <2>2, <2>3, TypeOK, QueueInv, EntryInv, w \in Writers, LeaderPending, ZenonT(60)
  <2>7. SyncInv'
    BY <1>2, BuildEntries, LogEntries, RoomEntries DEF Leads
  <2> QED
    BY <2>5, <2>6, <2>7 DEF EntryInv
<1> QED
    BY <1>1, <1>2

\* A call that returns is reported as it went; the others are as they were.
LEMMA ReturnReports ==
    ASSUME Limits, TypeOK, EntryInv, NEW w \in Writers, NEW ok \in BOOLEAN, Return({w}, ok),
           kind[w] # "force" => (Entry(w) \in Applied <=> ok),
           kind[w] = "sync" /\ ok => Entry(w) \in synced,
           UNCHANGED <<calls, kind, mem, imm, tables, log, synced>>
    PROVE  /\ Reported' /\ SyncDurable' /\ MadeInv' /\ Applied' = Applied
           /\ (acked \cup failed)' \subseteq acked \cup failed \cup {Entry(w)}
           /\ \A v \in Writers : Entry(v)' = Entry(v)
<1>1. Applied' = Applied /\ \A v \in Writers : Entry(v)' = Entry(v)
    BY DEF Applied, Entry
<1>2. Batch({w}) = IF kind[w] # "force" THEN {Entry(w)} ELSE {}
    BY DEF Batch
<1>3. /\ acked' = IF ok THEN acked \cup Batch({w}) ELSE acked
      /\ failed' = IF ok THEN failed ELSE failed \cup Batch({w})
    BY DEF Return
<1>4. Reported'
    BY <1>1, <1>2, <1>3 DEF EntryInv, Reported
<1>5. (acked \cup failed)' \subseteq acked \cup failed \cup {Entry(w)}
    BY <1>2, <1>3
<1>6. SyncDurable'
  <2> SUFFICES ASSUME NEW v \in Writers, kind[v] = "sync", Entry(v) \in acked'
               PROVE  Entry(v) \in synced \cup tables
    BY <1>1 DEF SyncDurable
  <2>1. CASE Entry(v) \in acked
    BY <2>1 DEF EntryInv, SyncDurable
  <2>2. CASE Entry(v) \notin acked
    <3>1. ok /\ Entry(v) = Entry(w)
      BY <1>2, <1>3, <2>2
    <3>2. v = w
      BY <3>1, EntryIs
    <3> QED
      BY <3>1, <3>2
  <2> QED
    BY <2>1, <2>2
<1>7. MadeInv'
  <2>1. Known' \subseteq Known \cup {Entry(w)}
    BY <1>1, <1>5 DEF Known
  <2>2. Entry(w).n <= calls[Entry(w).w]
    BY EntryIs DEF TypeOK
  <2> QED
    BY <2>1, <2>2 DEF EntryInv, MadeInv
<1> QED
    BY <1>1, <1>4, <1>5, <1>6, <1>7

\* A follower that returns reports the status that its leader set.
LEMMA DoneEntries ==
    ASSUME Limits, TypeOK, QueueInv, EntryInv, NEW w \in Writers, Done(w)
    PROVE  EntryInv'
<1>1. /\ pc[w] = "done" /\ Return({w}, status[w]) /\ status[w] \in BOOLEAN
      /\ UNCHANGED <<calls, kind, status, writers_, group, mem, imm, tables, log, synced>>
    BY DEF Done, TypeOK
<1>2. /\ kind[w] # "force" => (Entry(w) \in Applied <=> status[w])
      /\ kind[w] = "sync" /\ status[w] => Entry(w) \in synced
    BY ZenonT(60), <1>1 DEF EntryInv, PendingInv, SyncInv
<1>3. /\ Reported' /\ SyncDurable' /\ MadeInv' /\ Applied' = Applied
      /\ (acked \cup failed)' \subseteq acked \cup failed \cup {Entry(w)}
      /\ \A v \in Writers : Entry(v)' = Entry(v)
    BY ONLY <1>1, <1>2, Limits, TypeOK, EntryInv, w \in Writers, ReturnReports, ZenonT(60)
<1>4. pc'[w] \in {"idle", "imm"} /\ \A v \in Writers : v # w => pc'[v] = pc[v]
    BY DEF Done, After, TypeOK
<1>5. First(group)' = First(group) /\ Batch(First(group))' = Batch(First(group))
    BY ZenonT(60), <1>1, GroupSame
<1>6. \A v \in Writers : pc'[v] \in Leading \cup {"wait", "done"} => v # w /\ pc'[v] = pc[v] /\ Entry(v) # Entry(w)
    BY ZenonT(60), <1>4, EntryIs DEF Leading
<1>7. pc[w] # "finish" /\ \A v \in Writers : v # w => pc'[v] = pc[v]
    BY <1>1, <1>4
<1>8. PendingInv'
    BY ZenonT(60), <1>1, <1>3, <1>5, <1>6, <1>7 DEF EntryInv, PendingInv, Leading
<1>9. SyncInv'
    BY ZenonT(60), <1>1, <1>3, <1>4, <1>5 DEF EntryInv, SyncInv
<1> QED
    BY <1>3, <1>8, <1>9 DEF EntryInv

\* The wait of CompactMemTable reports nothing.
LEMMA WaitImmEntries ==
    ASSUME Limits, TypeOK, QueueInv, EntryInv, NEW w \in Writers, WaitImm(w)
    PROVE  EntryInv'
<1>1. /\ pc[w] = "imm" /\ UNCHANGED <<calls, kind, acked, failed, writers_, group, mem, imm, tables, log, synced>>
    BY ZenonT(60) DEF WaitImm
<1>2. /\ pc'[w] \in {"idle", "immwait"}
      /\ \A v \in Writers : v # w => pc'[v] = pc[v] /\ status'[v] = status[v]
    BY DEF WaitImm, TypeOK
<1>3. Applied' = Applied /\ \A v \in Writers : Entry(v)' = Entry(v)
    BY ZenonT(60), <1>1 DEF Applied, Entry
<1>4. First(group)' = First(group) /\ Batch(First(group))' = Batch(First(group))
    BY <1>1, GroupSame
<1>5. Reported' /\ SyncDurable' /\ MadeInv'
  <2>1. /\ Applied \subseteq Applied' /\ synced \cup tables \subseteq synced' \cup tables'
        /\ failed \cap Applied' = {}
    BY <1>1, <1>3 DEF EntryInv, Reported
  <2>2. \A e \in (log \cup synced \cup Applied)' : e.n <= calls[e.w]
    BY <1>1, <1>3 DEF EntryInv, MadeInv, Known
  <2> QED
    BY ONLY <1>1, <2>1, <2>2, EntryInv, NothingLost, ZenonT(60)
<1>6. PendingInv'
    BY ZenonT(60), <1>1, <1>2, <1>3, <1>4 DEF EntryInv, PendingInv, Leading
<1>7. SyncInv'
    BY ZenonT(60), <1>1, <1>2, <1>3, <1>4 DEF EntryInv, SyncInv
<1> QED
    BY <1>5, <1>6, <1>7 DEF EntryInv

\* The entry of a new call is in none of the places where entries are.
LEMMA CallEntries ==
    ASSUME Limits, TypeOK, QueueInv, EntryInv, NEW w \in Writers, NEW k \in Kinds, Call(w, k)
    PROVE  EntryInv'
<1>1. /\ pc[w] = "idle" /\ pc'[w] \in {"room", "wait"}
      /\ \A v \in Writers : v # w => pc'[v] = pc[v] /\ calls'[v] = calls[v] /\ kind'[v] = kind[v]
      /\ calls'[w] = calls[w] + 1
    BY DEF Call, TypeOK
<1>2. /\ UNCHANGED <<acked, failed, status, group, mem, imm, tables, log, synced>>
      /\ writers_' = Append(writers_, w)
    BY ZenonT(60) DEF Call
<1>3. Applied' = Applied /\ \A v \in Writers : v # w => Entry(v)' = Entry(v)
    BY ZenonT(60), <1>1, <1>2 DEF Applied, Entry
<1>4. Known' = Known
    BY <1>2, <1>3 DEF Known
<1>5. Entry(w)' \notin Known
  <2>1. Entry(w)'.n = calls[w] + 1 /\ Entry(w)'.w = w /\ calls[w] \in Nat
    BY ONLY SMTT(60), TypeOK, <1>1 DEF Entry, TypeOK
  <2>2. \A e \in Known : e.n <= calls[e.w]
    BY DEF EntryInv, MadeInv
  <2> QED
    BY <2>1, <2>2
<1>6. MadeInv'
  <2>1. ASSUME NEW e \in Known PROVE e.n <= calls'[e.w]
    <3>1. e \in Ops
      <4>1. Known \subseteq Ops
        BY OpsNotNoImm DEF Known, Applied, TypeOK, HasImm
      <4> QED
        BY <4>1
    <3>2. e.w \in Writers /\ e.n \in Nat /\ calls[e.w] \in Nat /\ e.n <= calls[e.w]
      BY <3>1 DEF Ops, Limits, TypeOK, EntryInv, MadeInv
    <3> QED
      BY <1>1, <3>2
  <2> QED
    BY <1>4, <2>1 DEF MadeInv
<1>7. Reported'
    BY <1>2, <1>3 DEF EntryInv, Reported
<1>8. Entry(w)' \notin acked \cup failed \cup Applied
    BY <1>5 DEF Known
<1>9. SyncDurable'
    BY ZenonT(60), <1>1, <1>2, <1>3, <1>8 DEF EntryInv, SyncDurable
<1>10. \A v \in First(group) : v # w /\ v \in Writers
    BY <1>1, InFirst, QueueFacts DEF Queued, Leading
<1>11. First(group)' = First(group)
  <2>1. group' = group /\ \A i \in 1 .. group : writers_'[i] = writers_[i]
    <3>1. group' = group /\ writers_' = Append(writers_, w) /\ writers_ \in Seq(Writers)
      BY <1>2 DEF TypeOK
    <3>2. group \in Nat /\ group <= Len(writers_) /\ Len(writers_) \in Nat
      BY QueueFacts
    <3> QED
      BY ONLY <3>1, <3>2, w \in Writers, SMTT(60)
  <2> QED
    BY <2>1 DEF First
<1>12. \A e \in Batch(First(group))' : e \in Batch(First(group))
  <2> SUFFICES ASSUME NEW e \in Batch(First(group))' PROVE e \in Batch(First(group))
    OBVIOUS
  <2>1. PICK v \in First(group) : kind'[v] # "force" /\ e = Entry(v)'
    BY <1>11 DEF Batch
  <2> QED
    BY <1>1, <1>3, <1>10, <2>1 DEF Batch
<1>13. PendingInv'
  <2> SUFFICES ASSUME NEW v \in Writers
               PROVE  /\ pc'[v] \in Leading \cup {"wait", "done"} => Entry(v)' \notin (acked \cup failed)'
                      /\ pc'[v] \in Leading \cup {"wait"} /\ Entry(v)' \in Applied' =>
                           v \in First(group)' /\ \E u \in Writers : pc'[u] = "finish"
                      /\ pc'[v] = "finish" => Batch(First(group))' \subseteq Applied'
                      /\ pc'[v] = "done" /\ kind'[v] # "force" => (Entry(v)' \in Applied' <=> status'[v])
    BY ZenonT(60) DEF PendingInv
  <2>1. CASE v = w
    BY ZenonT(60), <1>1, <1>2, <1>3, <1>8, <2>1
  <2>2. CASE v # w
    <3>1. \A u \in Writers : pc[u] = "finish" => pc'[u] = "finish"
      BY <1>1
    <3> QED
      BY ZenonT(60), <1>1, <1>2, <1>3, <1>11, <1>12, <2>2, <3>1 DEF EntryInv, PendingInv
  <2> QED
    BY ZenonT(60), <2>1, <2>2
<1>14. SyncInv'
  <2> SUFFICES ASSUME NEW v \in Writers
               PROVE  /\ pc'[v] \in Writing /\ kind'[v] # "sync" => \A u \in First(group)' : kind'[u] # "sync"
                      /\ pc'[v] = "sync" => Batch(First(group))' \subseteq log'
                      /\ pc'[v] \in {"insert", "finish"} /\ kind'[v] = "sync" =>
                           Batch(First(group))' \subseteq synced'
                      /\ pc'[v] = "done" /\ kind'[v] = "sync" /\ status'[v] => Entry(v)' \in synced'
    BY ZenonT(60) DEF SyncInv, Writing
  <2>1. CASE v = w
    BY ZenonT(60), <1>1, <2>1 DEF Writing
  <2>2. CASE v # w
    BY ZenonT(60), <1>1, <1>2, <1>3, <1>10, <1>11, <1>12, <2>2 DEF EntryInv, SyncInv, Writing
  <2> QED
    BY ZenonT(60), <2>1, <2>2
<1> QED
    BY <1>6, <1>7, <1>9, <1>13, <1>14 DEF EntryInv

\* Every writer of the group is told what became of its entry.
LEMMA EndsEntries ==
    ASSUME Limits, TypeOK, QueueInv, EntryInv, NEW w \in Writers, NEW n, NEW ok, NEW p, Ends(w, n, ok, p)
    PROVE  EntryInv'
<1>1. /\ Return({w}, ok) /\ ok \in BOOLEAN /\ pc[w] \in Leading
      /\ UNCHANGED <<calls, kind, mem, imm, tables, log, synced>>
      /\ n = IF pc[w] \in Writing THEN group ELSE 1
      /\ IF ok THEN pc[w] = "finish" \/ (pc[w] = "room" /\ kind[w] = "force") ELSE pc[w] # "finish"
      /\ status' = [v \in Writers |-> IF v \in First(n) THEN ok ELSE status[v]]
    BY ZenonT(60) DEF Ends, Finish
<1>2. n \in 1 .. Len(writers_) /\ w = writers_[1] /\ Len(writers_) \in Nat
    BY ZenonT(60), EndsFrame, QueueFacts
<1>3. \A u \in Writers : pc[u] = "finish" => u = w
    BY ZenonT(60), <1>1, OneLeads DEF Leading
\* What the leader knows of the others in the group.
<1>4. ASSUME NEW v \in First(n)
      PROVE  /\ v \in Writers /\ pc[v] \in Leading \cup {"wait"}
             /\ kind[v] # "force" => (Entry(v) \in Applied <=> ok)
             /\ kind[v] = "sync" /\ ok => Entry(v) \in synced
  <2>1. PICK i \in 1 .. n : v = writers_[i]
    BY InFirst
  <2>2. v \in Writers /\ pc[v] \in Leading \cup {"wait"}
    <3>1. i \in 1 .. Len(writers_)
      BY <1>2
    <3> QED
      BY ZenonT(60), <2>1, <3>1, QueueFacts DEF Queued
  <2>3. CASE ok /\ pc[w] = "finish"
    <3>1. n = group /\ Batch(First(group)) \subseteq Applied
      BY ZenonT(60), <1>1, <2>3 DEF EntryInv, PendingInv, Writing
    <3>2. kind[v] = "sync" => kind[w] = "sync" /\ Batch(First(group)) \subseteq synced
      BY ZenonT(60), <2>3, <3>1 DEF EntryInv, SyncInv
    <3>3. kind[v] # "force" => Entry(v) \in Batch(First(group))
      BY <3>1, BatchOf
    <3> QED
      BY ZenonT(60), <2>2, <2>3, <3>1, <3>2, <3>3
  <2>4. CASE ok /\ pc[w] # "finish"
    <3>1. v = w /\ kind[w] = "force"
      BY <1>1, <1>2, <2>1, <2>4 DEF Writing
    <3> QED
      BY <2>2, <3>1
  <2>5. CASE ~ok
    <3>1. Entry(v) \notin Applied
      BY ZenonT(60), <1>1, <1>3, <2>2, <2>5 DEF EntryInv, PendingInv
    <3> QED
      BY ZenonT(60), <2>2, <2>5, <3>1
  <2> QED
    BY ZenonT(60), <2>3, <2>4, <2>5
<1>5. w \in First(n)
    BY <1>2, InFirst
<1>6. /\ Reported' /\ SyncDurable' /\ MadeInv' /\ Applied' = Applied
      /\ (acked \cup failed)' \subseteq acked \cup failed \cup {Entry(w)}
      /\ \A v \in Writers : Entry(v)' = Entry(v)
    BY ONLY <1>1, <1>4, <1>5, Limits, TypeOK, EntryInv, w \in Writers, ReturnReports, ZenonT(60)
\* The phases after the step.
<1>7. ASSUME NEW v \in Writers
      PROVE  /\ pc'[v] \notin Writing
             /\ pc'[v] = "done" => v # w /\ (v \in First(n) \/ (v \notin First(n) /\ pc[v] = "done"))
             /\ pc'[v] \in Leading \cup {"wait"} =>
                  v # w /\ v \notin First(n) /\ pc[v] \in Leading \cup {"wait"}
  <2>1. pc'[w] \in {"idle", "imm"}
    BY EndsFrame, ZenonT(60) DEF After
  <2>2. CASE v \in First(Len(writers_))
    <3>1. PICK i \in 1 .. Len(writers_) : v = writers_[i]
      BY <2>2, InFirst
    <3>2. i = 1 \/ i \in 2 .. n \/ i = n + 1 \/ i \in n + 2 .. Len(writers_)
      BY <1>2
    <3>3. /\ \A j \in 2 .. n : pc'[writers_[j]] = "done"
          /\ n < Len(writers_) => pc'[writers_[n + 1]] = "room"
          /\ \A j \in n + 2 .. Len(writers_) : pc'[writers_[j]] = "wait"
      BY EndsFrame, ZenonT(60)
    <3>4. pc[v] \in Leading \cup {"wait"}
      BY <3>1, QueueFacts DEF Queued
    <3>5. v \in First(n) <=> i <= n
      BY <1>2, <3>1, InFirst, QueueFacts
    <3>6. v = w <=> i = 1
      BY <1>2, <3>1, QueueFacts
    <3>7. CASE i = 1
      BY <2>1, <3>6, <3>7 DEF Leading, Writing
    <3>8. CASE i \in 2 .. n
      <4>1. pc'[v] = "done" /\ v \in First(n) /\ v # w
        BY ONLY <1>2, <3>1, <3>3, <3>5, <3>6, <3>8, SMTT(60)
      <4> QED
        BY ZenonT(60), <4>1 DEF Leading, Writing
    <3>9. CASE i = n + 1 \/ i \in n + 2 .. Len(writers_)
      <4>1. pc'[v] \in {"room", "wait"} /\ v \notin First(n) /\ v # w
        BY ONLY <1>2, <3>1, <3>3, <3>5, <3>6, <3>9, i \in 1 .. Len(writers_), SMTT(60)
      <4> QED
        BY <3>4, <4>1 DEF Writing
    <3> QED
      BY ZenonT(60), <3>2, <3>7, <3>8, <3>9
  <2>3. CASE v \notin First(Len(writers_))
    <3>1. pc'[v] = pc[v] \/ (pc[v] = "immwait" /\ pc'[v] = "imm")
      BY ZenonT(60), <2>3, EndsFrame
    <3>2. pc[v] \notin Leading \cup {"wait"}
      BY ZenonT(60), <2>3 DEF QueueInv
    <3>3. v \notin First(n) /\ v # w
      BY <1>1, <1>2, <2>3, <3>2, InFirst
    <3> QED
      BY <3>1, <3>2, <3>3 DEF Leading, Writing
  <2> QED
    BY ZenonT(60), <2>2, <2>3
<1>8. \A v \in Writers : v # w => Entry(v) # Entry(w)
    BY EntryIs
<1>9. \A v \in Writers : status'[v] = IF v \in First(n) THEN ok ELSE status[v]
    BY ZenonT(60), <1>1
<1>10. PendingInv'
  <2> SUFFICES ASSUME NEW v \in Writers
               PROVE  /\ pc'[v] \in Leading \cup {"wait", "done"} => Entry(v)' \notin (acked \cup failed)'
                      /\ ~(pc'[v] \in Leading \cup {"wait"} /\ Entry(v)' \in Applied')
                      /\ pc'[v] # "finish"
                      /\ pc'[v] = "done" /\ kind'[v] # "force" => (Entry(v)' \in Applied' <=> status'[v])
    BY ZenonT(60) DEF PendingInv
  <2>1. pc'[v] \in Leading \cup {"wait", "done"} => Entry(v)' \notin (acked \cup failed)'
    <3> SUFFICES ASSUME pc'[v] \in Leading \cup {"wait", "done"} PROVE Entry(v) \notin acked \cup failed \cup {Entry(w)}
      BY <1>6
    <3>1. v # w /\ pc[v] \in Leading \cup {"wait", "done"}
      BY ZenonT(60), <1>4, <1>7
    <3> QED
      BY ZenonT(60), <1>8, <3>1 DEF EntryInv, PendingInv
  <2>2. ~(pc'[v] \in Leading \cup {"wait"} /\ Entry(v)' \in Applied')
    <3> SUFFICES ASSUME pc'[v] \in Leading \cup {"wait"}, Entry(v) \in Applied PROVE FALSE
      BY <1>6
    <3>1. v \notin First(n) /\ pc[v] \in Leading \cup {"wait"}
      BY ZenonT(60), <1>7
    <3>2. v \in First(group) /\ pc[w] = "finish"
      BY ZenonT(60), <1>3, <3>1 DEF EntryInv, PendingInv
    <3> QED
      BY ZenonT(60), <1>1, <3>1, <3>2 DEF Writing
  <2>3. pc'[v] = "done" /\ kind'[v] # "force" => (Entry(v)' \in Applied' <=> status'[v])
    BY ZenonT(60), <1>1, <1>4, <1>6, <1>7, <1>9 DEF EntryInv, PendingInv
  <2>4. pc'[v] # "finish"
    BY ZenonT(60), <1>7 DEF Writing
  <2> QED
    BY ZenonT(60), <2>1, <2>2, <2>3, <2>4
<1>11. SyncInv'
  <2> SUFFICES ASSUME NEW v \in Writers
               PROVE  /\ pc'[v] \notin Writing
                      /\ pc'[v] = "done" /\ kind'[v] = "sync" /\ status'[v] => Entry(v)' \in synced'
    BY ZenonT(60) DEF SyncInv, Writing
  <2>1. pc'[v] = "done" /\ kind'[v] = "sync" /\ status'[v] => Entry(v)' \in synced'
    BY ZenonT(60), <1>1, <1>4, <1>6, <1>7, <1>9 DEF EntryInv, SyncInv
  <2> QED
    BY ZenonT(60), <1>7, <2>1
<1> QED
    BY <1>6, <1>10, <1>11 DEF EntryInv

-----------------------------------------------------------------------------
(* The theorems                                                            *)

\* A database that was just opened has no writers and nothing to do.
LEMMA WriteInit ==
    ASSUME Limits, Init
    PROVE  WriteInv
<1>1. TypeOK /\ Applied = {}
  <2>1. /\ pc \in [Writers -> Phases] /\ calls \in [Writers -> 0 .. MaxCalls]
        /\ kind \in [Writers -> Kinds \cup {"async"}] /\ status \in [Writers -> BOOLEAN]
        /\ allow_delay \in [Writers -> BOOLEAN] /\ force \in [Writers -> BOOLEAN]
    BY DEF Init, Phases, Limits
  <2>3. writers_ \in Seq(Writers) /\ group \in 0 .. Len(writers_) /\ l0 \in Nat /\ inputs \in 0 .. l0
    BY DEF Init
  <2>4. ~HasImm /\ {} \in SUBSET Ops
    BY DEF Init, HasImm
  <2>5. TypeOK
    BY ONLY <2>1, <2>3, <2>4, Init, ZenonT(60) DEF Init, TypeOK
  <2>2. Applied = {}
    BY DEF Init, Applied
  <2> QED
    BY <2>2, <2>5
<1>2. QueueInv
    BY DEF Init, QueueInv, Leading
<1>3. Reported /\ SyncDurable /\ MadeInv
    BY <1>1 DEF Init, Reported, SyncDurable, MadeInv, Known
<1>4. PendingInv /\ SyncInv
    BY <1>1 DEF Init, PendingInv, SyncInv, Leading
<1>5. WorkInv /\ WaitersHaveWork
  <2>1. HasImm = FALSE
    BY DEF Init, HasImm
  <2>2. WaitersHaveWork
    BY DEF Init, WaitersHaveWork
  <2>3. WorkInv
    BY <2>1, Limits DEF Init, WorkInv, Limits
  <2> QED
    BY <2>2, <2>3
<1> QED
    BY <1>1, <1>2, <1>3, <1>4, <1>5 DEF WriteInv, WritesReported

\* Every step is one of the kinds treated above.
LEMMA StepKinds ==
    ASSUME Next
    PROVE  \/ \E w \in Writers, k \in Kinds : Call(w, k)
           \/ \E w \in Writers : Leads(w) \/ Finishes(w) \/ Done(w) \/ WaitImm(w)
           \/ Background
BY ZenonT(60) DEF Next, Step, Room, Log, Leads, Finishes

\* Every step of writers and background thread keeps the invariant.
LEMMA WriteNext ==
    ASSUME Limits, WriteInv, [Next]_vars
    PROVE  WriteInv'
<1>1. TypeOK /\ QueueInv /\ EntryInv /\ WorkInv /\ WaitersHaveWork
    BY DEF WriteInv, WritesReported, EntryInv
<1>2. SUFFICES TypeOK' /\ QueueInv' /\ EntryInv' /\ WorkInv' /\ WaitersHaveWork'
    BY DEF WriteInv, WritesReported, EntryInv
<1>3. ASSUME NEW w \in Writers, NEW k \in Kinds, Call(w, k)
      PROVE  TypeOK' /\ QueueInv' /\ EntryInv' /\ WorkInv' /\ WaitersHaveWork'
    BY <1>1, <1>3, CallType, CallQueue, CallEntries, CallWork
<1>4. ASSUME NEW w \in Writers, Leads(w)
      PROVE  TypeOK' /\ QueueInv' /\ EntryInv' /\ WorkInv' /\ WaitersHaveWork'
    BY <1>1, <1>4, LeadsType, LeadsQueue, LeadsEntries, LeadsWork
<1>5. ASSUME NEW w \in Writers, Finishes(w)
      PROVE  TypeOK' /\ QueueInv' /\ EntryInv' /\ WorkInv' /\ WaitersHaveWork'
  <2>1. PICK n, ok, p : Ends(w, n, ok, p)
    BY <1>1, <1>5, FinishesIs
  <2>2. TypeOK'
    BY <1>1, <2>1, EndsType
  <2> QED
    BY <1>1, <2>1, <2>2, EndsQueue, EndsEntries, EndsWork
<1>6. ASSUME NEW w \in Writers, Done(w) \/ WaitImm(w)
      PROVE  TypeOK' /\ QueueInv' /\ EntryInv' /\ WorkInv' /\ WaitersHaveWork'
    BY <1>1, <1>6, AwayType, AwayQueue, AwayWork, DoneEntries, WaitImmEntries
<1>7. CASE Background
    BY <1>1, <1>7, BackgroundType, BackgroundQueue, BackgroundEntries, BackgroundWork
<1>8. CASE UNCHANGED vars
  <2>1. TypeOK'
    BY <1>1, <1>8, ZenonT(60) DEF vars, TypeOK, HasImm
  <2>5. QueueInv'
    BY ZenonT(60), <1>1, <1>8, QueueSame DEF vars, QueueInv, Writing
  <2>2. Reported' /\ SyncDurable' /\ MadeInv'
    BY <1>1, <1>8, ZenonT(60) DEF vars, EntryInv, Reported, SyncDurable, MadeInv, Known, Applied, Entry
  <2>3. PendingInv' /\ SyncInv'
    <3>1. UNCHANGED <<pc, writers_, calls, kind, group, acked, failed, status, mem, imm, tables, log, synced>>
      BY <1>8, ZenonT(60) DEF vars
    <3>2. /\ First(group)' = First(group) /\ Batch(First(group))' = Batch(First(group))
          /\ Applied' = Applied /\ \A v : Entry(v)' = Entry(v)
      BY <3>1, GroupSame, ZenonT(60) DEF Applied, Entry
    <3> QED
      BY ZenonT(60), <1>1, <3>1, <3>2 DEF EntryInv, PendingInv, SyncInv
  <2>4. WorkInv' /\ WaitersHaveWork'
    BY <1>1, <1>8, ZenonT(60) DEF vars, WorkInv, WaitersHaveWork, HasImm
  <2> QED
    BY <2>1, <2>2, <2>3, <2>4, <2>5 DEF EntryInv
<1> QED
    BY <1>3, <1>4, <1>5, <1>6, <1>7, <1>8, StepKinds, ZenonT(60)

\* The inductive invariant of DBImpl::Write and BackgroundCall, for any number of
\* writers and calls, with and without files that fail.
THEOREM WriteInvariant ==
    ASSUME Limits
    PROVE  Spec => []WriteInv
<1>1. Init => WriteInv
    BY WriteInit
<1>2. WriteInv /\ [Next]_vars => WriteInv'
    BY WriteNext
<1> QED
    BY <1>1, <1>2, PTL DEF Spec

\* Every writer is told what became of its entry, whoever wrote it (Write's loop over
\* the group sets ready->status), and a synchronous one that is told ok is on disk.
THEOREM WritersToldTruth ==
    ASSUME Limits
    PROVE  Spec => []WritesReported
<1>1. WriteInv => WritesReported
    BY DEF WriteInv
<1> QED
    BY WriteInvariant, <1>1, PTL

\* Whoever waits for background_work_finished_signal_ has work scheduled
\* (MakeRoomForWrite and TEST_CompactMemTable wait only after MaybeScheduleCompaction).
THEOREM WaitsEndWithWork ==
    ASSUME Limits
    PROVE  Spec => []WaitersHaveWork
<1>1. WriteInv => WaitersHaveWork
    BY DEF WriteInv
<1> QED
    BY WriteInvariant, <1>1, PTL

=============================================================================
