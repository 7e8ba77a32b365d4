----------------------------- MODULE LevelTree -----------------------------
(***************************************************************************)
(* The tables of LevelDB: memtables are written to a level, a background   *)
(* compaction merges files of a level into the next while writers, readers *)
(* and memtable compactions go on.                                         *)
(*                                                                         *)
(* An entry is its sequence number; hist gives its key and type.  Sizes    *)
(* are left open: every test that compares bytes is a choice.              *)
(***************************************************************************)
EXTENDS Integers, SequencesExt

CONSTANTS
    Keys,                   \* user keys, numbers
    kNumLevels, kMaxMemCompactLevel, kL0_CompactionTrigger,
    Workload,               \* bound: the sequences of writes [key, del]
    MaxSnapshots,           \* bound: snapshots held
    Compactions             \* those that happen: of levels over their "size", "manual" ones

VARIABLES
    hist,                   \* sequence number -> [key, del]
    mem, imm,               \* entries of the memtables
    files,                  \* level -> set of [number, entries] of the current version
    next_file_number,       \* of the files memtables are written to
    compact_pointer,        \* level -> largest entry of its last compaction, 0: none
    snapshots,              \* sequence numbers
    compact                 \* the compaction in progress, or NoCompaction

vars == <<hist, mem, imm, files, next_file_number, compact_pointer, snapshots, compact>>

Levels == 0 .. kNumLevels - 1
NoCompaction == [level |-> -1]
LastSequence == Len(hist)
Key(e) == hist[e].key

\* InternalKeyComparator: by user key, then by decreasing sequence number.
Less(a, b) == Key(a) < Key(b) \/ (Key(a) = Key(b) /\ a > b)
FirstOf(S) == CHOOSE a \in S : \A b \in S : a = b \/ Less(a, b)
LastOf(S) == CHOOSE a \in S : \A b \in S : a = b \/ Less(b, a)
smallest(f) == FirstOf(f.entries)
largest(f) == LastOf(f.entries)
Entries(F) == UNION {f.entries : f \in F}

-----------------------------------------------------------------------------
(* Version                                                                 *)

Overlaps(f, lo, hi) == Key(largest(f)) >= lo /\ Key(smallest(f)) <= hi
Covers(f, k) == Overlaps(f, k, k)
OverlapInLevel(level, lo, hi) == \E f \in files[level] : Overlaps(f, lo, hi)

\* GetOverlappingInputs: in level 0 the range grows with the files found.
RECURSIVE Grow(_, _, _)
Grow(F, lo, hi) ==
    LET O == {f \in F : Overlaps(f, lo, hi)}
        K == {lo, hi} \cup {Key(e) : e \in Entries(O)}
    IN  IF Min(K) = lo /\ Max(K) = hi THEN O ELSE Grow(F, Min(K), Max(K))

GetOverlappingInputs(level, lo, hi) ==
    IF level = 0 THEN Grow(files[0], lo, hi) ELSE {f \in files[level] : Overlaps(f, lo, hi)}

\* The levels a new table may be put at: as deep as no level above has the range,
\* and no deeper where the level after the next has much of it.
PickLevelForMemTableOutput(lo, hi) ==
    IF OverlapInLevel(0, lo, hi) THEN {0}
    ELSE {l \in 0 .. kMaxMemCompactLevel :
            /\ \A i \in 1 .. l : ~OverlapInLevel(i, lo, hi)
            /\ \/ l = kMaxMemCompactLevel \/ OverlapInLevel(l + 1, lo, hi)
               \/ l + 2 < kNumLevels /\ OverlapInLevel(l + 2, lo, hi)}

\* The newest entry of k up to sequence number seq in S, 0 if there is none.
Newest(S, k, seq) == Max({0} \cup {e \in S : Key(e) = k /\ e <= seq})

\* ForEachOverlapping and FindFile in a level above 0: the first file whose
\* largest key is not before <<k, seq>>.
LevelGet(level, k, seq) ==
    LET After == {f \in files[level] : Key(largest(f)) > k \/ (Key(largest(f)) = k /\ largest(f) <= seq)}
        f == CHOOSE g \in After : smallest(g) = FirstOf({smallest(h) : h \in After})
    IN  IF After = {} \/ k < Key(smallest(f)) THEN 0 ELSE Newest(f.entries, k, seq)

\* Get: memtables, level 0 from the newest file, the other levels; the first that
\* has an entry decides.
RECURSIVE LowerLevels(_, _, _)
LowerLevels(level, k, seq) ==
    IF level = kNumLevels THEN 0
    ELSE LET e == LevelGet(level, k, seq) IN IF e > 0 THEN e ELSE LowerLevels(level + 1, k, seq)
Get(k, seq) ==
    LET L0 == {f \in files[0] : Covers(f, k) /\ Newest(f.entries, k, seq) > 0}
        f == CHOOSE g \in L0 : \A h \in L0 : h.number <= g.number
    IN  CASE Newest(mem, k, seq) > 0 -> Newest(mem, k, seq)
          [] Newest(imm, k, seq) > 0 -> Newest(imm, k, seq)
          [] L0 # {} -> Newest(f.entries, k, seq)
          [] OTHER -> LowerLevels(1, k, seq)

-----------------------------------------------------------------------------
(* The inputs of a compaction                                              *)

\* AddBoundaryInputs: a user key in two files of a level is compacted in both.
RECURSIVE AddBoundary(_, _, _)
AddBoundary(F, C, e) ==
    LET B == {f \in F : Less(e, smallest(f)) /\ Key(smallest(f)) = Key(e)}
        b == CHOOSE f \in B : smallest(f) = FirstOf({smallest(g) : g \in B})
    IN  IF B = {} THEN C ELSE AddBoundary(F, C \cup {b}, largest(b))
AddBoundaryInputs(level, C) == IF C = {} THEN C ELSE AddBoundary(files[level], C, LastOf(Entries(C)))

InRange(level, F) == GetOverlappingInputs(level, Key(FirstOf(Entries(F))), Key(LastOf(Entries(F))))

\* Mutant: the next level is not looked at.
SetupNoParents(level, picked) == {<<AddBoundaryInputs(level, picked), {}>>}
\* SetupOtherInputs: the choices of <<inputs 0, inputs 1>>, with or without the
\* files of this level that do not add any of the next.
SetupOtherInputs(level, picked) ==
    LET in0 == AddBoundaryInputs(level, picked)
        in1 == InRange(level + 1, in0)
        expanded0 == AddBoundaryInputs(level, InRange(level, in0 \cup in1))
        expanded1 == InRange(level + 1, expanded0)
    IN  IF in1 # {} /\ Cardinality(expanded0) > Cardinality(in0)
              /\ Cardinality(expanded1) = Cardinality(in1)
        THEN {<<in0, in1>>, <<expanded0, expanded1>>}
        ELSE {<<in0, in1>>}

\* PickCompaction: the first file after compact_pointer, or the first of all.
PickFile(level) ==
    LET After == {f \in files[level] :
                    compact_pointer[level] = 0 \/ Less(compact_pointer[level], largest(f))}
        From == IF After = {} THEN files[level] ELSE After
        S == {f \in From : smallest(f) = FirstOf({smallest(g) : g \in From})}
        f == CHOOSE g \in S : \A h \in S : g.number <= h.number
    IN  IF level = 0 THEN InRange(0, {f}) ELSE {f}

\* DoCompactionWork keeps, of the entries of its inputs, those some snapshot may
\* need.
smallest_snapshot == IF snapshots = {} THEN LastSequence ELSE Min(snapshots)
IsBaseLevelForKey(level, k) == \A l \in level + 2 .. kNumLevels - 1 : ~OverlapInLevel(l, k, k)
\* Mutant: a deletion is dropped although a deeper level has the key.
DropEarly(level, S, e) ==
    \/ \E n \in S : Key(n) = Key(e) /\ n > e /\ n <= smallest_snapshot
    \/ hist[e].del /\ e <= smallest_snapshot
Drop(level, S, e) ==
    \/ \E n \in S : Key(n) = Key(e) /\ n > e /\ n <= smallest_snapshot
    \/ hist[e].del /\ e <= smallest_snapshot /\ IsBaseLevelForKey(level, Key(e))
Survivors(level, S) == SetToSortSeq({e \in S : ~Drop(level, S, e)}, Less)

-----------------------------------------------------------------------------
(* DBImpl                                                                  *)

Init ==
    /\ hist = <<>> /\ mem = {} /\ imm = {}
    /\ files = [l \in Levels |-> {}]
    /\ next_file_number = 1
    /\ compact_pointer = [l \in Levels |-> 0]
    /\ snapshots = {}
    /\ compact = NoCompaction

Write ==
    /\ \E w \in Workload :
        /\ LastSequence < Len(w) /\ IsPrefix(hist, w)
        /\ hist' = Append(hist, w[LastSequence + 1])
    /\ mem' = mem \cup {LastSequence + 1}
    /\ UNCHANGED <<imm, files, next_file_number, compact_pointer, snapshots, compact>>

\* MakeRoomForWrite: the memtable is full.
SwitchMem ==
    /\ mem # {} /\ imm = {}
    /\ imm' = mem /\ mem' = {}
    /\ UNCHANGED <<hist, files, next_file_number, compact_pointer, snapshots, compact>>

\* CompactMemTable, by the background thread on its own or between two keys of a
\* compaction.
CompactMemTable ==
    /\ imm # {}
    /\ \E level \in PickLevelForMemTableOutput(Key(FirstOf(imm)), Key(LastOf(imm))) :
        files' = [files EXCEPT ![level] = @ \cup {[number |-> next_file_number, entries |-> imm]}]
    /\ next_file_number' = next_file_number + 1
    /\ imm' = {}
    /\ UNCHANGED <<hist, mem, compact_pointer, snapshots, compact>>

GetSnapshot ==
    /\ Cardinality(snapshots) < MaxSnapshots
    /\ snapshots' = snapshots \cup {LastSequence}
    /\ UNCHANGED <<hist, mem, imm, files, next_file_number, compact_pointer, compact>>

ReleaseSnapshot(s) ==
    /\ s \in snapshots
    /\ snapshots' = snapshots \ {s}
    /\ UNCHANGED <<hist, mem, imm, files, next_file_number, compact_pointer, compact>>

\* SetupOtherInputs moves compact_pointer before the work is done.
StartCompaction(level, in) ==
    /\ compact_pointer' = [compact_pointer EXCEPT ![level] = LastOf(Entries(in[1]))]
    /\ compact' = [level |-> level, inputs |-> in,
                   out |-> Survivors(level, Entries(in[1] \cup in[2]))]
    /\ UNCHANGED <<hist, mem, imm, files, next_file_number, snapshots>>

\* IsTrivialMove: the one input goes to the next level as it is.
TrivialMove(level, f) ==
    /\ compact_pointer' = [compact_pointer EXCEPT ![level] = largest(f)]
    /\ files' = [files EXCEPT ![level] = @ \ {f}, ![level + 1] = @ \cup {f}]
    /\ UNCHANGED <<hist, mem, imm, next_file_number, snapshots, compact>>

Idle == compact = NoCompaction /\ imm = {}
NeedsCompaction(level) ==
    /\ files[level] # {}
    /\ level = 0 => Cardinality(files[0]) >= kL0_CompactionTrigger

SizeCompaction(level) ==
    /\ "size" \in Compactions /\ Idle /\ NeedsCompaction(level)
    /\ \E in \in SetupOtherInputs(level, PickFile(level)) :
        LET trivial == Cardinality(in[1]) = 1 /\ in[2] = {}
            grandparents == level + 2 < kNumLevels /\ InRange(level + 2, in[1]) # {}
        IN  \/ trivial /\ TrivialMove(level, CHOOSE f \in in[1] : TRUE)
            \/ (trivial => grandparents) /\ StartCompaction(level, in)

\* TEST_CompactRange: above level 0 a first part of the files in the range.
ManualCompaction(level, lo, hi) ==
    /\ "manual" \in Compactions /\ Idle /\ lo <= hi
    /\ LET F == GetOverlappingInputs(level, lo, hi)
       IN  \E picked \in SUBSET F \ {{}} :
            /\ level = 0 => picked = F
            /\ \A f \in picked, g \in F \ picked : Less(smallest(f), smallest(g))
            /\ \E in \in SetupOtherInputs(level, picked) : StartCompaction(level, in)

\* The outputs: the survivors, cut after the entries at `cuts'.  Below level 0
\* nothing looks at the number of a file.
Outputs(cuts) ==
    LET ends == cuts \cup {Len(compact.out)}
        from(c) == Max({0} \cup {d \in ends : d < c})
    IN  {[number |-> 0, entries |-> {compact.out[j] : j \in from(c) + 1 .. c}] : c \in ends}

\* InstallCompactionResults
FinishCompaction ==
    /\ compact # NoCompaction
    /\ LET level == compact.level
       IN  \E cuts \in SUBSET (1 .. Len(compact.out) - 1) :
            files' = [files EXCEPT ![level] = @ \ compact.inputs[1],
                                   ![level + 1] = (@ \ compact.inputs[2])
                                       \cup (IF compact.out = <<>> THEN {} ELSE Outputs(cuts))]
    /\ compact' = NoCompaction
    /\ UNCHANGED <<hist, mem, imm, next_file_number, compact_pointer, snapshots>>

Next ==
    \/ Write \/ SwitchMem \/ CompactMemTable \/ GetSnapshot
    \/ \E s \in snapshots : ReleaseSnapshot(s)
    \/ \E level \in 0 .. kNumLevels - 2 : SizeCompaction(level)
    \/ \E level \in 0 .. kNumLevels - 2, lo, hi \in Keys : ManualCompaction(level, lo, hi)
    \/ FinishCompaction

Spec == Init /\ [][Next]_vars

-----------------------------------------------------------------------------
TypeOK ==
    /\ \E w \in Workload : IsPrefix(hist, w)
    /\ \A l \in Levels : \A f \in files[l] :
         f.entries # {} /\ f.entries \subseteq 1 .. LastSequence /\ f.number < next_file_number
    /\ mem \cup imm \cup snapshots \subseteq 0 .. LastSequence

\* What a reader at sequence number s must see of k.
Visible(e) == IF e = 0 \/ hist[e].del THEN 0 ELSE e
\* A read at the latest sequence number or at a snapshot returns the last write up
\* to it, wherever flushes and compactions have put the entries (Get, and the
\* entries DoCompactionWork drops).
ReadsLatest ==
    \A k \in Keys, s \in snapshots \cup {LastSequence} :
        Visible(Get(k, s)) = Visible(Newest(1 .. LastSequence, k, s))

\* Files of a level above 0 do not overlap (assert(vset_->icmp_.Compare(...) < 0)
\* in MaybeAddFile, and the check in SaveTo).
Disjoint ==
    \A l \in Levels \ {0} : \A f, g \in files[l] :
        f # g => Less(largest(f), smallest(g)) \/ Less(largest(g), smallest(f))

\* Of a key, a level never has an entry older than one of a deeper level, and no
\* file of level 0 one older than an entry of an older file: DoCompactionWork's
\* ``data in lower levels will have larger sequence numbers''.
NewerAbove ==
    /\ \A l, m \in Levels : l < m =>
         \A e \in Entries(files[l]), d \in Entries(files[m]) : Key(e) = Key(d) => e > d
    /\ \A f, g \in files[0] : f.number < g.number =>
         \A e \in g.entries, d \in f.entries : Key(e) = Key(d) => e > d
=============================================================================
