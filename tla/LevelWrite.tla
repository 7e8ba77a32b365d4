----------------------------- MODULE LevelWrite -----------------------------
(***************************************************************************)
(* DBImpl::Write: writers queue up, the first one makes room in the        *)
(* memtable, writes the log for itself and those behind it, and wakes them;*)
(* the background thread writes memtables to tables and compacts level 0.  *)
(*                                                                         *)
(* Every action is a stretch of code under mutex_, or one call made        *)
(* without it.  A condition variable wakes those it is signalled for only. *)
(***************************************************************************)
EXTENDS Integers, Sequences

CONSTANTS
    Writers,                \* calling threads
    Kinds,                  \* of calls: "async", "sync", and "force" (TEST_CompactMemTable)
    kL0_CompactionTrigger, kL0_SlowdownWritesTrigger, kL0_StopWritesTrigger,
    Failing,                \* files may fail
    MaxCalls                \* bound: calls of a writer

\* The limits of level 0 (config in dbformat.h): writers are not stopped before
\* a compaction is due.
Limits ==
    /\ MaxCalls \in Nat
    /\ kL0_CompactionTrigger \in Nat \ {0} /\ kL0_StopWritesTrigger \in Nat
    /\ kL0_CompactionTrigger <= kL0_StopWritesTrigger

VARIABLES
    pc, calls, kind,        \* of a writer; calls: how many it has made
    allow_delay, force,     \* MakeRoomForWrite's, of a writer
    status,                 \* of a writer's call, TRUE: ok
    writers_,               \* the queue
    group,                  \* how many of the queue the first one writes for
    mem, imm, full,         \* entries; imm = NoImm: there is none; full: over write_buffer_size
    log, synced, tables,    \* entries in the current log, in synced parts of logs, in tables
    l0, inputs,             \* files of level 0, and of those in compaction
    bg, bg_error,
    acked, failed           \* entries of calls that returned

clientVars == <<calls, kind, acked, failed>>
roomVars == <<allow_delay, force>>
memVars == <<mem, imm, full>>
logVars == <<log, synced>>
bgVars == <<tables, l0, inputs, bg, bg_error>>
vars == <<pc, status, clientVars, roomVars, writers_, group, memVars, logVars, bgVars>>

Ops == [w : Writers, n : 1 .. MaxCalls]
NoImm == {[w |-> "none", n |-> 0]}
HasImm == imm # NoImm
Applied == mem \cup (imm \ NoImm) \cup tables
Entry(w) == [w |-> w, n |-> calls[w]]
\* The first n writers of the queue.
First(n) == {writers_[i] : i \in 1 .. n}
\* The entries of the writers g: a call of kind "force" has no batch.
Batch(g) == {Entry(w) : w \in {v \in g : kind[v] # "force"}}

\* MaybeScheduleCompaction, given the state it is called in.
Scheduled(b, hasImm, files, err) ==
    IF b = "none" /\ ~err /\ (hasImm \/ files >= kL0_CompactionTrigger) THEN "scheduled" ELSE b

\* SignalAll of background_work_finished_signal_.
SignalBg(p) == [w \in Writers |-> CASE p[w] = "bgwait" -> "room"
                                    [] p[w] = "immwait" -> "imm"
                                    [] OTHER -> p[w]]

Init ==
    /\ pc = [w \in Writers |-> "idle"] /\ calls = [w \in Writers |-> 0]
    /\ kind = [w \in Writers |-> "async"]
    /\ allow_delay = [w \in Writers |-> FALSE] /\ force = [w \in Writers |-> FALSE]
    /\ status = [w \in Writers |-> TRUE]
    /\ writers_ = <<>> /\ group = 0
    /\ mem = {} /\ imm = NoImm /\ full = FALSE
    /\ log = {} /\ synced = {} /\ tables = {}
    /\ l0 = 0 /\ inputs = 0 /\ bg = "none" /\ bg_error = FALSE
    /\ acked = {} /\ failed = {}

-----------------------------------------------------------------------------
(* Write                                                                   *)

\* The start of MakeRoomForWrite.
EnterRoom(w, k) ==
    /\ allow_delay' = [allow_delay EXCEPT ![w] = k # "force"]
    /\ force' = [force EXCEPT ![w] = k = "force"]

Call(w, k) ==
    /\ pc[w] = "idle" /\ calls[w] < MaxCalls
    /\ calls' = [calls EXCEPT ![w] = @ + 1] /\ kind' = [kind EXCEPT ![w] = k]
    /\ writers_' = Append(writers_, w)
    /\ pc' = [pc EXCEPT ![w] = IF writers_ = <<>> THEN "room" ELSE "wait"]
    /\ EnterRoom(w, k)
    /\ UNCHANGED <<status, group, memVars, logVars, bgVars, acked, failed>>

\* The end of a call: TEST_CompactMemTable goes on to wait for imm_.
After(w, ok) == IF kind[w] = "force" /\ ok THEN "imm" ELSE "idle"
Return(W, ok) ==
    /\ acked' = IF ok THEN acked \cup Batch(W) ELSE acked
    /\ failed' = IF ok THEN failed ELSE failed \cup Batch(W)

\* The queue without its first n writers, and the new head, to be notified.
Rest(n) == SubSeq(writers_, n + 1, Len(writers_))
Notify(n) == {writers_[i] : i \in {n + 1} \cap 1 .. Len(writers_)}

\* The end of Write: the first n writers are done, the next one is first.
\* p is pc, after a SignalAll if there was one.
Finish(w, n, ok, p) ==
    /\ writers_' = Rest(n) /\ group' = 0
    /\ status' = [v \in Writers |-> IF v \in First(n) THEN ok ELSE status[v]]
    /\ Return({w}, ok)
    /\ pc' = [v \in Writers |-> CASE v = w -> After(w, ok)
                                  [] v \in First(n) \ {w} -> "done"
                                  [] v \in Notify(n) -> "room"
                                  [] OTHER -> p[v]]

\* A writer another one wrote for.
Done(w) ==
    /\ pc[w] = "done"
    /\ pc' = [pc EXCEPT ![w] = After(w, status[w])]
    /\ Return({w}, status[w])
    /\ UNCHANGED <<status, calls, kind, roomVars, writers_, group, memVars, logVars, bgVars>>

-----------------------------------------------------------------------------
(* MakeRoomForWrite: one turn of its loop                                  *)

RoomError(w) ==
    /\ pc[w] = "room" /\ bg_error
    /\ Finish(w, 1, FALSE, pc)
    /\ UNCHANGED <<calls, kind, roomVars, memVars, logVars, bgVars>>

Delayed(w) == allow_delay[w] /\ l0 >= kL0_SlowdownWritesTrigger

RoomDelay(w) ==
    /\ pc[w] = "room" /\ ~bg_error /\ Delayed(w)
    /\ allow_delay' = [allow_delay EXCEPT ![w] = FALSE]
    /\ UNCHANGED <<pc, status, clientVars, force, writers_, group, memVars, logVars, bgVars>>

NeedsSwitch(w) == pc[w] = "room" /\ ~bg_error /\ ~Delayed(w) /\ (force[w] \/ full)

MustWait == HasImm \/ l0 >= kL0_StopWritesTrigger

RoomWait(w) ==
    /\ NeedsSwitch(w) /\ MustWait
    /\ pc' = [pc EXCEPT ![w] = "bgwait"]
    /\ UNCHANGED <<status, clientVars, roomVars, writers_, group, memVars, logVars, bgVars>>

\* Mutant: the compaction is left to someone else.
RoomSwitchUnscheduled(w) ==
    /\ NeedsSwitch(w) /\ ~MustWait
    /\ log' = {} /\ imm' = mem /\ mem' = {} /\ full' = FALSE
    /\ force' = [force EXCEPT ![w] = FALSE]
    /\ UNCHANGED <<pc, status, clientVars, allow_delay, writers_, group, synced, bgVars>>
\* A new log and a new memtable.
RoomSwitch(w) ==
    /\ NeedsSwitch(w) /\ ~MustWait
    /\ log' = {} /\ imm' = mem /\ mem' = {} /\ full' = FALSE
    /\ force' = [force EXCEPT ![w] = FALSE]
    /\ bg' = Scheduled(bg, TRUE, l0, FALSE)
    /\ UNCHANGED <<pc, status, clientVars, allow_delay, writers_, group, synced, tables, l0, inputs, bg_error>>

\* The new log cannot be created.
RoomSwitchFails(w) ==
    /\ Failing /\ NeedsSwitch(w) /\ ~MustWait
    /\ Finish(w, 1, FALSE, pc)
    /\ UNCHANGED <<calls, kind, roomVars, memVars, logVars, bgVars>>

HasRoom(w) == pc[w] = "room" /\ ~bg_error /\ ~Delayed(w) /\ ~force[w] /\ ~full

\* A call without a batch has nothing to write.
RoomNothing(w) ==
    /\ HasRoom(w) /\ kind[w] = "force"
    /\ Finish(w, 1, TRUE, pc)
    /\ UNCHANGED <<calls, kind, roomVars, memVars, logVars, bgVars>>

\* Mutant: a synchronous write joins one that is not.
GroupOfAny(first) == {n \in 1 .. Len(writers_) : n = Len(writers_) \/ kind[writers_[n + 1]] # "force"}

\* BuildBatchGroup: how many of the queue the group may have.  It ends at a
\* synchronous write behind one that is not, or before a batch too big for it.
GroupOf(first) ==
    {n \in 1 .. Len(writers_) :
        /\ \A i \in 1 .. n : kind[writers_[i]] = "sync" => kind[first] = "sync"
        /\ n = Len(writers_) \/ kind[writers_[n + 1]] # "force"}

BuildBatchGroup(w) ==
    /\ HasRoom(w) /\ kind[w] # "force"
    /\ group' \in GroupOf(w)
    /\ pc' = [pc EXCEPT ![w] = "log"]
    /\ UNCHANGED <<status, clientVars, roomVars, writers_, memVars, logVars, bgVars>>

-----------------------------------------------------------------------------
(* The log and the memtable, without mutex_                                *)

AddRecord(w) ==
    /\ pc[w] = "log"
    /\ log' = log \cup Batch(First(group))
    /\ pc' = [pc EXCEPT ![w] = IF kind[w] = "sync" THEN "sync" ELSE "insert"]
    /\ UNCHANGED <<status, clientVars, roomVars, writers_, group, memVars, synced, bgVars>>

AddRecordFails(w) ==
    /\ Failing /\ pc[w] = "log"
    /\ Finish(w, group, FALSE, pc)
    /\ UNCHANGED <<calls, kind, roomVars, memVars, logVars, bgVars>>

Sync(w) ==
    /\ pc[w] = "sync"
    /\ synced' = synced \cup log
    /\ pc' = [pc EXCEPT ![w] = "insert"]
    /\ UNCHANGED <<status, clientVars, roomVars, writers_, group, memVars, log, bgVars>>

\* RecordBackgroundError: all later writes fail.
SyncFails(w) ==
    /\ Failing /\ pc[w] = "sync"
    /\ bg_error' = TRUE
    /\ Finish(w, group, FALSE, IF bg_error THEN pc ELSE SignalBg(pc))
    /\ UNCHANGED <<calls, kind, roomVars, memVars, logVars, tables, l0, inputs, bg>>

InsertInto(w) ==
    /\ pc[w] = "insert"
    /\ mem' = mem \cup Batch(First(group))
    /\ full' \in {full, TRUE}
    /\ pc' = [pc EXCEPT ![w] = "finish"]
    /\ UNCHANGED <<status, clientVars, roomVars, writers_, group, imm, logVars, bgVars>>

FinishWrite(w) ==
    /\ pc[w] = "finish"
    /\ Finish(w, group, TRUE, pc)
    /\ UNCHANGED <<calls, kind, roomVars, memVars, logVars, bgVars>>

\* TEST_CompactMemTable after its Write.
WaitImm(w) ==
    /\ pc[w] = "imm"
    /\ pc' = [pc EXCEPT ![w] = IF HasImm /\ ~bg_error THEN "immwait" ELSE "idle"]
    /\ status' = [status EXCEPT ![w] = ~HasImm]
    /\ UNCHANGED <<clientVars, roomVars, writers_, group, memVars, logVars, bgVars>>

-----------------------------------------------------------------------------
(* The background thread                                                   *)

writeVars == <<status, clientVars, roomVars, writers_, group, mem, full, logVars>>

\* The end of BackgroundCall, with i: is there an immutable memtable still.
BgEnd(hasImm, files, err) ==
    /\ bg' = Scheduled("none", hasImm, files, err)
    /\ pc' = SignalBg(pc)

\* BackgroundCall: the memtable first, then level 0.
BgStart ==
    /\ bg = "scheduled"
    /\ IF bg_error
       THEN BgEnd(HasImm, l0, TRUE) /\ inputs' = inputs
       ELSE /\ bg' = IF HasImm THEN "flush" ELSE "compact"
            /\ inputs' = IF HasImm THEN 0 ELSE l0
            /\ pc' = pc
    /\ UNCHANGED <<writeVars, imm, tables, l0, bg_error>>

\* CompactMemTable: the table is in level 0, or in a deeper one; an empty memtable
\* makes no table.
FlushEnd ==
    /\ bg \in {"flush", "compactflush"}
    /\ tables' = tables \cup imm /\ imm' = NoImm
    /\ l0' \in {l0} \cup {l0 + 1 : e \in imm}
    /\ IF bg = "flush" THEN BgEnd(FALSE, l0', bg_error)
       ELSE bg' = "compact" /\ pc' = SignalBg(pc)
    /\ UNCHANGED <<writeVars, inputs, bg_error>>

FlushFails ==
    /\ Failing /\ bg \in {"flush", "compactflush"}
    /\ bg_error' = TRUE
    /\ IF bg = "flush" THEN BgEnd(TRUE, l0, TRUE)
       ELSE bg' = "compact" /\ pc' = SignalBg(pc)
    /\ UNCHANGED <<writeVars, imm, tables, l0, inputs>>

\* DoCompactionWork: ``Prioritize immutable compaction work''.
CompactFlush ==
    /\ bg = "compact" /\ HasImm
    /\ bg' = "compactflush"
    /\ UNCHANGED <<pc, writeVars, imm, tables, l0, inputs, bg_error>>

CompactEnd ==
    /\ bg = "compact"
    /\ l0' = l0 - inputs /\ inputs' = 0
    /\ BgEnd(HasImm, l0', bg_error)
    /\ UNCHANGED <<writeVars, imm, tables, bg_error>>

CompactFails ==
    /\ Failing /\ bg = "compact"
    /\ bg_error' = TRUE /\ inputs' = 0
    /\ BgEnd(HasImm, l0, TRUE)
    /\ UNCHANGED <<writeVars, imm, tables, l0>>

-----------------------------------------------------------------------------
Room(w) == \/ RoomError(w) \/ RoomDelay(w) \/ RoomWait(w) \/ RoomSwitch(w)
           \/ RoomSwitchFails(w) \/ RoomNothing(w) \/ BuildBatchGroup(w)
Log(w) == \/ AddRecord(w) \/ AddRecordFails(w) \/ Sync(w) \/ SyncFails(w)
          \/ InsertInto(w) \/ FinishWrite(w)
Step(w) == Room(w) \/ Log(w) \/ Done(w) \/ WaitImm(w)
Background == BgStart \/ FlushEnd \/ FlushFails \/ CompactFlush \/ CompactEnd \/ CompactFails

Next ==
    \/ \E w \in Writers, k \in Kinds : Call(w, k)
    \/ \E w \in Writers : Step(w)
    \/ Background

Spec == Init /\ [][Next]_vars

-----------------------------------------------------------------------------
Leading == {"room", "bgwait", "log", "sync", "insert", "finish"}
Phases == Leading \cup {"idle", "wait", "done", "imm", "immwait"}

TypeOK ==
    /\ pc \in [Writers -> Phases]
    /\ calls \in [Writers -> 0 .. MaxCalls] /\ kind \in [Writers -> Kinds \cup {"async"}]
    /\ allow_delay \in [Writers -> BOOLEAN] /\ force \in [Writers -> BOOLEAN]
    /\ status \in [Writers -> BOOLEAN]
    /\ writers_ \in Seq(Writers) /\ group \in 0 .. Len(writers_)
    /\ mem \in SUBSET Ops /\ (HasImm => imm \in SUBSET Ops) /\ full \in BOOLEAN
    /\ log \in SUBSET Ops /\ synced \in SUBSET Ops /\ tables \in SUBSET Ops
    /\ acked \in SUBSET Ops /\ failed \in SUBSET Ops
    /\ l0 \in Nat /\ inputs \in 0 .. l0
    /\ bg \in {"none", "scheduled", "flush", "compact", "compactflush"}
    /\ bg_error \in BOOLEAN

\* What a call that returned reports is what happened: an acknowledged entry can be
\* read, one reported as failed cannot (Finish gives every writer of the group the
\* status of the one that wrote).
Reported == acked \subseteq Applied /\ failed \cap Applied = {}

\* A synchronous write is on disk when it returns, also when another writer wrote
\* it: ``Do not include a sync write into a batch handled by a non-sync write''.
SyncDurable ==
    \A w \in Writers : kind[w] = "sync" /\ Entry(w) \in acked =>
        Entry(w) \in synced \cup tables

\* Every writer learns what became of its own entries, whoever wrote them for it,
\* and a synchronous one that was told it is done has them on disk.
WritesReported == TypeOK /\ Reported /\ SyncDurable

\* Nobody waits for a background thread that has nothing to do: a writer that sleeps
\* on background_work_finished_signal_ has work scheduled.
WaitersHaveWork ==
    (\E w \in Writers : pc[w] \in {"bgwait", "immwait"}) => bg # "none"

-----------------------------------------------------------------------------
(* What the proofs need besides                                            *)

\* The first of the queue is in MakeRoomForWrite or writes, the others wait; a
\* writer that is not in the queue does neither.
QueueInv ==
    /\ \A i, j \in 1 .. Len(writers_) : writers_[i] = writers_[j] => i = j
    /\ \A i \in 1 .. Len(writers_) :
         IF i = 1 THEN pc[writers_[i]] \in Leading ELSE pc[writers_[i]] = "wait"
    /\ \A w \in Writers : pc[w] \in Leading \cup {"wait"} => w \in First(Len(writers_))
    /\ \A w \in Writers : pc[w] \in {"log", "sync", "insert", "finish"} => group > 0
    /\ \A w \in Writers : pc[w] # "idle" => calls[w] > 0

\* The entries there are belong to calls that were made.
Known == acked \cup failed \cup log \cup synced \cup Applied
MadeInv == \A e \in Known : e.n <= calls[e.w]

\* A call that has not returned is in neither report.  It is applied when the writer
\* that writes for it has inserted its group, and when it was told so.
PendingInv ==
    \A w \in Writers :
        /\ pc[w] \in Leading \cup {"wait", "done"} => Entry(w) \notin acked \cup failed
        /\ pc[w] \in Leading \cup {"wait"} /\ Entry(w) \in Applied =>
             w \in First(group) /\ \E v \in Writers : pc[v] = "finish"
        /\ pc[w] = "finish" => Batch(First(group)) \subseteq Applied
        /\ pc[w] = "done" /\ kind[w] # "force" => (Entry(w) \in Applied <=> status[w])

\* A group with a synchronous write in it is synchronous, and goes through the log
\* and its Sync before it is in the memtable.
SyncInv ==
    \A w \in Writers :
        /\ pc[w] \in {"log", "sync", "insert", "finish"} /\ kind[w] # "sync" =>
             \A v \in First(group) : kind[v] # "sync"
        /\ pc[w] = "sync" => Batch(First(group)) \subseteq log
        /\ pc[w] \in {"insert", "finish"} /\ kind[w] = "sync" => Batch(First(group)) \subseteq synced
        /\ pc[w] = "done" /\ kind[w] = "sync" /\ status[w] => Entry(w) \in synced

\* The background thread has work whenever there is some, unless it gave up.
WorkInv ==
    /\ ~bg_error /\ (HasImm \/ l0 >= kL0_CompactionTrigger) => bg # "none"
    /\ bg \in {"flush", "compactflush"} => HasImm

\* The inductive invariant of the writers and the background thread.
WriteInv == WritesReported /\ QueueInv /\ MadeInv /\ PendingInv /\ SyncInv /\ WorkInv /\ WaitersHaveWork

=============================================================================
