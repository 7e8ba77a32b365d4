------------------------------ MODULE LevelLog ------------------------------
(***************************************************************************)
(* The log files of LevelDB: log::Writer cuts records into blocks,         *)
(* log::Reader puts them together again after a crash that left a prefix   *)
(* of the file, and the next incarnation starts a new file or, with        *)
(* reuse_logs, appends to the one it has read.                             *)
(*                                                                         *)
(* A byte of the file is <<record, fragment, type, length, i>>, the i-th   *)
(* byte of a physical record, or Zero.  A checksum fits iff all bytes are  *)
(* of one physical record.                                                 *)
(***************************************************************************)
EXTENDS Integers, SequencesExt

CONSTANTS
    kBlockSize, kHeaderSize,
    Lengths,       \* lengths of records
    MaxRecords,    \* bound: records written
    MaxCrashes,    \* bound: crashes
    Reuse,         \* options.reuse_logs
    Strict,        \* the reader is that of VersionSet::Recover (MANIFEST)
    Failing        \* Append may fail

VARIABLES
    file,          \* what the file system has of the file
    dest_size,     \* block_offset_ plus the blocks before it: where the writer thinks it is
    durable,       \* length of the part that survives a crash of the machine
    lens,          \* lengths of the records
    done,          \* records whose AddRecord returned OK and that are not known lost
    synced,        \* those that were followed by Sync, or are in a table
    tables,        \* records in tables, written when a log is given up
    must,          \* records that the last crash may not lose
    recovered,     \* records the last recovery found
    state,         \* "open", "crashed", "corrupt"
    crashes

vars == <<file, dest_size, durable, lens, done, synced, tables, must, recovered, state, crashes>>

Zero == <<0, 0, "zero", 0, 0>>
Zeros(n) == [i \in 1 .. n |-> Zero]
Lesser(a, b) == IF a < b THEN a ELSE b
Physical(r, k, type, length) ==
    [i \in 1 .. kHeaderSize + length |-> <<r, k, type, length, i>>]

-----------------------------------------------------------------------------
(* AddRecord, the k-th fragment first, from block offset off               *)

RECURSIVE Fragments(_, _, _, _)
Fragments(r, left, off, k) ==
    LET leftover == kBlockSize - off
        trailer == IF leftover < kHeaderSize THEN Zeros(leftover) ELSE <<>>
        start == IF leftover < kHeaderSize THEN 0 ELSE off
        length == Lesser(left, kBlockSize - start - kHeaderSize)
        end == left = length
        type == CASE k = 1 /\ end -> "full" [] k = 1 -> "first"
                  [] end -> "last" [] OTHER -> "middle"
    IN  trailer \o Physical(r, k, type, length) \o
        (IF end THEN <<>> ELSE Fragments(r, left - length, start + kHeaderSize + length, k + 1))

Bytes(r, length, off) == Fragments(r, length, off % kBlockSize, 1)
UpTo(bytes, k) == SelectSeq(bytes, LAMBDA b : b[2] <= k)

-----------------------------------------------------------------------------
(* ReadRecord                                                              *)

IsHeader(b, p) == b[p][5] = 1 /\ \A i \in 0 .. kHeaderSize - 1 : b[p + i] = [b[p] EXCEPT ![5] = i + 1]
Fits(b, p) == \A i \in 0 .. kHeaderSize + b[p][4] - 1 : b[p + i] = [b[p] EXCEPT ![5] = i + 1]

Bad == <<0, 0, "bad", 0>>

\* ReadPhysicalRecord on the rest of a block.  A length past the end, a bad
\* checksum or a header of other bytes drop the rest of the block; at the end of
\* the file a record that is cut off is no error.  (A header of other bytes may
\* also have a length past the end of the file: the records found are the same.)
RECURSIVE PhysicalRecords(_, _, _)
PhysicalRecords(b, p, eof) ==
    CASE Len(b) - p + 1 < kHeaderSize -> <<>>
      [] ~IsHeader(b, p) -> <<Bad>>
      [] kHeaderSize + b[p][4] > Len(b) - p + 1 -> IF eof THEN <<>> ELSE <<Bad>>
      [] ~Fits(b, p) -> <<Bad>>
      [] OTHER -> <<SubSeq(b[p], 1, 4)>> \o PhysicalRecords(b, p + kHeaderSize + b[p][4], eof)

\* file_->Read(kBlockSize): a short read sets eof_.
Block(f, n) == SubSeq(f, (n - 1) * kBlockSize + 1, Lesser(n * kBlockSize, Len(f)))
AllPhysical(f) ==
    FlattenSeq([n \in 1 .. Len(f) \div kBlockSize + 1 |->
        PhysicalRecords(Block(f, n), 1, Len(Block(f, n)) < kBlockSize)])

\* One turn of ReadRecord's loop; s.scratch is the fragmented record being read,
\* s.bad that a corruption was reported.
Assemble(s, p) ==
    LET frag == <<p[1], p[2], p[4]>>
        In == s.scratch # <<>>
        Partial == \E i \in DOMAIN s.scratch : s.scratch[i][3] > 0
    IN  CASE p[3] = "full" ->
               [out |-> Append(s.out, <<frag>>), scratch |-> <<>>, bad |-> s.bad \/ Partial]
          [] p[3] = "first" -> [s EXCEPT !.scratch = <<frag>>, !.bad = @ \/ Partial]
          [] p[3] = "middle" ->
               IF In THEN [s EXCEPT !.scratch = Append(@, frag)] ELSE [s EXCEPT !.bad = TRUE]
          [] p[3] = "last" ->
               IF In THEN [s EXCEPT !.out = Append(@, Append(s.scratch, frag)), !.scratch = <<>>]
               ELSE [s EXCEPT !.bad = TRUE]
          [] OTHER -> [s EXCEPT !.scratch = <<>>, !.bad = TRUE]

ReadAll(f) ==
    FoldLeft(Assemble, [out |-> <<>>, scratch |-> <<>>, bad |-> FALSE], AllPhysical(f))
Ids(out) == [i \in DOMAIN out |-> out[i][1][1]]

-----------------------------------------------------------------------------
next == Len(lens) + 1
Ready == state = "open" /\ next <= MaxRecords

\* Mutant: the data are not synchronised.
AddRecordUnsynced(length, sync) ==
    /\ Ready
    /\ file' = file \o Bytes(next, length, dest_size)
    /\ dest_size' = dest_size + Len(file') - Len(file)
    /\ lens' = Append(lens, length) /\ done' = done \cup {next}
    /\ synced' = IF sync THEN synced \cup {next} ELSE synced
    /\ UNCHANGED <<durable, tables, must, recovered, state, crashes>>

\* AddRecord, and Sync for a synchronous write.
AddRecord(length, sync) ==
    /\ Ready
    /\ file' = file \o Bytes(next, length, dest_size)
    /\ dest_size' = dest_size + Len(file') - Len(file)
    /\ lens' = Append(lens, length) /\ done' = done \cup {next}
    /\ IF sync THEN durable' = Len(file') /\ synced' = synced \cup {next}
       ELSE UNCHANGED <<durable, synced>>
    /\ UNCHANGED <<tables, must, recovered, state, crashes>>

\* Append or Flush fails at the k-th fragment: part of it may be in the file, the
\* writer counts all of it and the database goes on.
AddRecordFails(length) ==
    /\ Failing /\ Ready
    /\ LET bytes == Bytes(next, length, dest_size) IN
       \E k \in {bytes[i][2] : i \in DOMAIN bytes} \ {0} :
          /\ \E n \in Len(UpTo(bytes, k - 1)) .. Len(UpTo(bytes, k)) :
                file' = file \o SubSeq(bytes, 1, n)
          /\ dest_size' = dest_size + Len(UpTo(bytes, k))
    /\ lens' = Append(lens, length)
    /\ UNCHANGED <<durable, done, synced, tables, must, recovered, state, crashes>>

Crashing == state = "open" /\ crashes < MaxCrashes /\ state' = "crashed" /\ crashes' = crashes + 1

\* The process is killed, perhaps between two fragments of an AddRecord, each of
\* which is flushed by one write.
Die(length) ==
    /\ Crashing
    /\ LET bytes == Bytes(next, length, dest_size) IN
       \E k \in {0} \cup {bytes[i][2] : i \in DOMAIN bytes} :
          /\ k > 0 => Ready
          /\ file' = IF k > 0 THEN file \o UpTo(bytes, k) ELSE file
          /\ lens' = IF k > 0 THEN Append(lens, length) ELSE lens
    /\ must' = done
    /\ UNCHANGED <<dest_size, durable, done, synced, tables, recovered>>

\* The machine stops: some prefix of the file survives.
MachineCrash ==
    /\ Crashing
    /\ \E n \in durable .. Len(file) : file' = SubSeq(file, 1, n)
    /\ must' = synced
    /\ UNCHANGED <<dest_size, durable, lens, done, synced, tables, recovered>>

\* Recover: the records found go to the memtable.  The file is used further, or
\* the memtable becomes a table and a new file is begun.
Recover ==
    /\ state = "crashed"
    /\ LET r == ReadAll(file)
           found == ToSet(Ids(r.out))
       IN  IF Strict /\ r.bad
           THEN /\ state' = "corrupt"
                /\ UNCHANGED <<file, dest_size, durable, done, synced, tables, recovered>>
           ELSE /\ state' = "open" /\ recovered' = Ids(r.out) /\ done' = tables \cup found
                /\ IF Reuse
                   THEN dest_size' = Len(file) /\ UNCHANGED <<file, durable, synced, tables>>
                   ELSE /\ file' = <<>> /\ dest_size' = 0 /\ durable' = 0
                        /\ tables' = tables \cup found /\ synced' = tables'
    /\ UNCHANGED <<lens, must, crashes>>

Init ==
    /\ file = <<>> /\ dest_size = 0 /\ durable = 0 /\ lens = <<>>
    /\ done = {} /\ synced = {} /\ tables = {} /\ must = {} /\ recovered = <<>>
    /\ state = "open" /\ crashes = 0

Next ==
    \/ \E length \in Lengths :
          (\E sync \in BOOLEAN : AddRecord(length, sync)) \/ AddRecordFails(length) \/ Die(length)
    \/ MachineCrash \/ Recover
Spec == Init /\ [][Next]_vars

-----------------------------------------------------------------------------
TypeOK ==
    /\ dest_size \in Nat /\ durable \in 0 .. Len(file) /\ lens \in Seq(Lengths)
    /\ tables \subseteq synced /\ synced \cup done \subseteq 1 .. Len(lens)
    /\ state \in {"open", "crashed", "corrupt"} /\ crashes \in 0 .. MaxCrashes

\* A record that ReadRecord returns has all bytes of one record that was added,
\* and no other: fragments of two records are never put together.
Intact ==
    state = "crashed" =>
        \A r \in ToSet(ReadAll(file).out) :
            LET id == r[1][1] IN
            /\ \A k \in DOMAIN r : r[k][1] = id /\ r[k][2] = k
            /\ FoldLeft(LAMBDA sum, frag : sum + frag[3], 0, r) = lens[id]

\* The physical record that has byte p of block b is all in the block.
InPlace(b, p) ==
    LET s == p - b[p][5] + 1
        e == s + kHeaderSize + b[p][4] - 1
    IN  b[p] # Zero /\ s >= 1 /\ e <= Len(b) /\ \A i \in s .. e : b[i] = [b[p] EXCEPT ![5] = i - s + 1]

\* Records with a byte that has, in its block, a piece of a physical record or
\* padding before it.
Buried(f) ==
    UNION {LET b == Block(f, n) IN
           {b[p][1] : p \in {x \in 1 .. Len(b) : \E q \in 1 .. x : ~InPlace(b, q)}} :
           n \in 1 .. Len(f) \div kBlockSize + 1}

\* A log that was written on after a crash, or after a write that failed, loses of
\* what the next crash may not lose only what lies behind a piece of a record in
\* its block; and records are found once, in the order they were added.
OnlyBuriedLost ==
    state = "crashed" =>
        LET ids == Ids(ReadAll(file).out) IN
        /\ must \subseteq tables \cup ToSet(ids) \cup Buried(file)
        /\ \A i \in 2 .. Len(ids) : ids[i - 1] < ids[i]

\* After a crash of the process no completed write is lost, after one of the
\* machine no synchronous one.
Survive == state = "open" => must \subseteq tables \cup ToSet(recovered)

\* VersionSet::Recover does not take the traces of a crash for a corruption.
Opens == state # "corrupt"
=============================================================================
