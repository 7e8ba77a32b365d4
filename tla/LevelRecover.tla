---------------------------- MODULE LevelRecover ----------------------------
(***************************************************************************)
(* LevelDB's files: logs, tables and the MANIFEST, through memtable        *)
(* switches, flushes, compactions, the removal of obsolete files, crashes  *)
(* at any step, and recovery.                                              *)
(*                                                                         *)
(* Files appear and disappear in the order of the calls; their data        *)
(* survives a crash of the process, and one of the machine once synced     *)
(* (LevelLog has the bytes).  What a compaction drops is in LevelTree.     *)
(***************************************************************************)
EXTENDS Integers, SequencesExt

CONSTANTS
    reuse_logs,
    Failing,                \* writes to the MANIFEST may fail
    Crashes,                \* those that happen: of the "process", of the "machine"
    MaxWrites, MaxCrashes, MaxCompactions, MaxFiles     \* bounds

VARIABLES
    logs,                   \* number -> [data: entries in order, synced: how many]
    tables,                 \* number -> entries; a table is synced before it is used
    manifest, msynced,      \* the edits in the file CURRENT names, and how many are synced
    up,                     \* "down", "recovered" (Recover is done), "run"
    mem, imm,               \* entries; NoImm: none
    logfile_number, log_number, next_file_number, last_sequence,
    current,                \* tables of the current version
    readers,                \* versions held by readers
    flush, compact,         \* the work of the background thread
    todelete,               \* files RemoveObsoleteFiles has left to delete
    bg_error,
    acked,                  \* entries of writes that returned and no crash may have lost
    writes, crashes, compactions

disk == <<logs, tables, manifest, msynced>>
numbers == <<logfile_number, log_number, next_file_number, last_sequence>>
bounds == <<crashes, compactions>>
background == <<flush, compact, todelete, bg_error>>
vars == <<disk, up, mem, imm, numbers, current, readers, background, acked, writes, bounds>>

\* An entry: id tells it from all others, seq is its sequence number.
NoImm == {[id |-> 0, seq |-> 0, sync |-> FALSE]}
NoWork == [state |-> "none"]

With(f, n, v) == [m \in DOMAIN f \cup {n} |-> IF m = n THEN v ELSE f[m]]
Without(f, S) == [m \in DOMAIN f \ S |-> f[m]]

\* Builder::Apply over the edits.
VersionOf(edits) == FoldLeft(LAMBDA v, e : (v \ e.del) \cup e.add, {}, edits)
Contents(V) == UNION {tables[n] : n \in V \cap DOMAIN tables}

\* LogAndApply's record.
Edit(logn, add, del) ==
    [log |-> logn, add |-> add, del |-> del, next |-> next_file_number, last |-> last_sequence]

Init ==     \* NewDB
    /\ logs = <<>> /\ tables = <<>>
    /\ manifest = <<[log |-> 0, add |-> {}, del |-> {}, next |-> 2, last |-> 0]>> /\ msynced = 1
    /\ up = "down" /\ mem = {} /\ imm = NoImm
    /\ logfile_number = 0 /\ log_number = 0 /\ next_file_number = 2 /\ last_sequence = 0
    /\ current = {} /\ readers = {} /\ flush = NoWork /\ compact = NoWork
    /\ todelete = {} /\ bg_error = FALSE /\ acked = {} /\ writes = 0 /\ crashes = 0 /\ compactions = 0

-----------------------------------------------------------------------------
(* Writes                                                                  *)

Write(sync) ==
    /\ up = "run" /\ ~bg_error /\ writes < MaxWrites
    /\ LET e == [id |-> writes + 1, seq |-> last_sequence + 1, sync |-> sync]
           data == Append(logs[logfile_number].data, e)
       IN  /\ logs' = [logs EXCEPT ![logfile_number] =
                        [data |-> data, synced |-> IF sync THEN Len(data) ELSE @.synced]]
           /\ mem' = mem \cup {e} /\ acked' = acked \cup {e}
    /\ last_sequence' = last_sequence + 1 /\ writes' = writes + 1
    /\ UNCHANGED <<tables, manifest, msynced, up, imm, logfile_number, log_number, next_file_number,
                   current, readers, background, bounds>>

\* MakeRoomForWrite: a new log, a new memtable.  The old log is not synced.
SwitchMem ==
    /\ up = "run" /\ ~bg_error /\ imm = NoImm /\ mem # {}
    /\ logs' = With(logs, next_file_number, [data |-> <<>>, synced |-> 0])
    /\ logfile_number' = next_file_number /\ next_file_number' = next_file_number + 1
    /\ imm' = mem /\ mem' = {}
    /\ UNCHANGED <<tables, manifest, msynced, up, log_number, last_sequence, current, readers,
                   background, acked, writes, bounds>>

\* A Get or an iterator takes a reference on the current version.
Ref == /\ up = "run" /\ readers = {} /\ readers' = {current}
       /\ UNCHANGED <<disk, up, mem, imm, numbers, current, background, acked, writes, bounds>>
Unref == /\ up = "run" /\ readers # {} /\ readers' = {}
         /\ UNCHANGED <<disk, up, mem, imm, numbers, current, background, acked, writes, bounds>>

-----------------------------------------------------------------------------
(* The background thread                                                   *)

Idle == up = "run" /\ todelete = {} /\ flush = NoWork

\* pending_outputs_ and AddLiveFiles.
Live(v, pending) == v \cup pending \cup UNION readers
pending_outputs == IF compact = NoWork THEN {} ELSE {compact.number}

\* RemoveObsoleteFiles, first part: under the mutex.
ObsoleteFiles(logn, live) ==
    {<<"log", n>> : n \in {m \in DOMAIN logs : m < logn}}
        \cup {<<"table", n>> : n \in DOMAIN tables \ live}

\* Second part, without it: the files go one by one.
RemoveFile ==
    /\ up = "run"
    /\ \E x \in todelete :
        /\ todelete' = todelete \ {x}
        /\ logs' = IF x[1] = "log" THEN Without(logs, {x[2]}) ELSE logs
        /\ tables' = IF x[1] = "table" THEN Without(tables, {x[2]}) ELSE tables
    /\ UNCHANGED <<manifest, msynced, up, mem, imm, numbers, current, readers, flush, compact, bg_error, acked, writes, bounds>>

\* CompactMemTable: the table, by itself or within a compaction.
FlushBuild ==
    /\ Idle /\ imm # NoImm /\ compact.state # "logged" /\ next_file_number <= MaxFiles
    /\ compact = NoWork => ~bg_error
    /\ tables' = With(tables, next_file_number, imm)
    /\ flush' = [state |-> "built", number |-> next_file_number]
    /\ next_file_number' = next_file_number + 1
    /\ UNCHANGED <<logs, manifest, msynced, up, mem, imm, logfile_number, log_number, last_sequence,
                   current, readers, compact, todelete, bg_error, acked, writes, bounds>>

\* LogAndApply, first part: the record is appended to the MANIFEST, and synced.
FlushLog ==
    /\ up = "run" /\ flush.state = "built"
    /\ manifest' = Append(manifest, Edit(logfile_number, {flush.number}, {}))
    /\ flush' = [flush EXCEPT !.state = "logged"]
    /\ UNCHANGED <<logs, tables, msynced, up, mem, imm, numbers, current, readers, compact, todelete,
                   bg_error, acked, writes, bounds>>

Logging == "logged" \in {flush.state, compact.state}

SyncManifest ==
    /\ Logging /\ msynced < Len(manifest)
    /\ msynced' = Len(manifest)
    /\ UNCHANGED <<logs, tables, manifest, up, mem, imm, numbers, current, readers, background, acked, writes, bounds>>

\* After a background error nothing is removed.
RemoveObsoleteFiles(logn, live, err) == IF err THEN {} ELSE ObsoleteFiles(logn, live)

\* The second part of LogAndApply, and the files that have become obsolete.
FlushInstall ==
    /\ up = "run" /\ flush.state = "logged" /\ msynced = Len(manifest)
    /\ current' = current \cup {flush.number}
    /\ log_number' = Last(manifest).log
    /\ imm' = NoImm /\ flush' = NoWork
    /\ todelete' = RemoveObsoleteFiles(log_number', Live(current', pending_outputs), bg_error)
    /\ UNCHANGED <<disk, up, mem, logfile_number, next_file_number, last_sequence, readers, compact,
                   bg_error, acked, writes, bounds>>

\* DoCompactionWork, up to its output.
CompactWork ==
    /\ Idle /\ ~bg_error /\ imm = NoImm /\ compact = NoWork /\ compactions < MaxCompactions
    /\ \E inputs \in SUBSET current \ {{}} :
        /\ compact' = [state |-> "work", number |-> next_file_number, inputs |-> inputs]
        /\ tables' = With(tables, next_file_number, Contents(inputs))
    /\ next_file_number' = next_file_number + 1
    /\ compactions' = compactions + 1
    /\ UNCHANGED <<logs, manifest, msynced, up, mem, imm, logfile_number, log_number, last_sequence,
                   current, readers, flush, todelete, bg_error, acked, writes, crashes>>

\* InstallCompactionResults
CompactLog ==
    /\ Idle /\ compact.state = "work"
    /\ manifest' = Append(manifest, Edit(log_number, {compact.number}, compact.inputs))
    /\ compact' = [compact EXCEPT !.state = "logged"]
    /\ UNCHANGED <<logs, tables, msynced, up, mem, imm, numbers, current, readers, flush, todelete,
                   bg_error, acked, writes, bounds>>

CompactInstall ==
    /\ up = "run" /\ compact.state = "logged" /\ msynced = Len(manifest)
    /\ current' = (current \ compact.inputs) \cup {compact.number}
    /\ compact' = NoWork
    /\ todelete' = RemoveObsoleteFiles(log_number, Live(current', {}), bg_error)
    /\ UNCHANGED <<disk, up, mem, imm, numbers, readers, flush, bg_error, acked, writes, bounds>>

\* The append or the sync fails.  CleanupCompaction gives up the outputs of a
\* compaction; a memtable stays, and within a compaction is tried again.
LogFails ==
    /\ Failing /\ up = "run" /\ Logging /\ msynced < Len(manifest)
    /\ manifest' \in {manifest, Front(manifest)}
    /\ bg_error' = TRUE /\ flush' = NoWork
    /\ compact' = IF compact.state = "logged" THEN NoWork ELSE compact
    /\ todelete' = IF compact.state = "logged"
                   THEN RemoveObsoleteFiles(log_number, Live(current, {}), TRUE) ELSE {}
    /\ UNCHANGED <<logs, tables, msynced, up, mem, imm, numbers, current, readers, acked, writes, bounds>>

-----------------------------------------------------------------------------
(* Crashes and recovery                                                    *)

Stopped ==
    /\ up # "down" /\ crashes < MaxCrashes
    /\ up' = "down" /\ crashes' = crashes + 1
    /\ mem' = {} /\ imm' = NoImm /\ current' = {} /\ readers' = {}
    /\ flush' = NoWork /\ compact' = NoWork /\ todelete' = {} /\ bg_error' = FALSE
    /\ logfile_number' = 0 /\ log_number' = 0 /\ next_file_number' = 0 /\ last_sequence' = 0
    /\ UNCHANGED <<tables, writes, compactions>>

ProcessCrash == "process" \in Crashes /\ Stopped /\ UNCHANGED <<logs, manifest, msynced, acked>>

Data(l) == ToSet(l.data)
Synced(l) == ToSet(SubSeq(l.data, 1, l.synced))
\* What recovery finds with the edits m when kept[n] is left of log n.
Recoverable(m, kept) == Contents(VersionOf(m)) \cup UNION {kept[n] : n \in {k \in DOMAIN logs : k >= Last(m).log}}

\* Some logs lose what was not synced; the MANIFEST may keep an edit that was not.
MachineCrash ==
    /\ "machine" \in Crashes /\ Stopped
    /\ \E lost \in SUBSET DOMAIN logs, k \in msynced .. Len(manifest) :
        LET kept == [n \in DOMAIN logs |-> IF n \in lost THEN Synced(logs[n]) ELSE Data(logs[n])]
        IN  /\ logs' = [n \in DOMAIN logs |->
                         IF n \in lost THEN [logs[n] EXCEPT !.data = SubSeq(@, 1, logs[n].synced)] ELSE logs[n]]
            /\ manifest' = SubSeq(manifest, 1, k) /\ msynced' = k
            /\ acked' = {e \in acked : e.sync \/ e \in Recoverable(SubSeq(manifest, 1, k), kept)}

\* RecoverLogFile: the log becomes a table, or if it is the last one the memtable.
RecoverLogFile(acc, n) ==
    LET entries == Data(logs[n])
        table == n # acc.keep /\ entries # {}
    IN  [acc EXCEPT !.tables = IF table THEN With(@, acc.next, entries) ELSE @,
                    !.add = IF table THEN @ \cup {acc.next} ELSE @,
                    !.mem = IF n = acc.keep THEN entries ELSE @,
                    !.next = Max({IF table THEN @ + 1 ELSE @, n + 1}),
                    !.last = Max({@} \cup {e.seq : e \in entries})]

\* Mutant: the logs are those above the MANIFEST's.
LogsAfter == {n \in DOMAIN logs : n > Last(manifest).log}
LogsToRecover == {n \in DOMAIN logs : n >= Last(manifest).log}

\* DB::Open up to its LogAndApply.  keep: the log that is written on, 0: none.
Recover ==
    /\ up = "down" /\ VersionOf(manifest) \subseteq DOMAIN tables
    /\ \E keep \in {0} \cup {n \in LogsToRecover : reuse_logs /\ n = Max(LogsToRecover)},
          fresh \in {TRUE, ~reuse_logs} :
        LET acc == FoldLeft(RecoverLogFile,
                            [tables |-> tables, add |-> {}, mem |-> {}, keep |-> keep,
                             next |-> Last(manifest).next + 1, last |-> Last(manifest).last],
                            SetToSortSeq(LogsToRecover, <))
        IN  /\ tables' = acc.tables /\ mem' = acc.mem /\ last_sequence' = acc.last
            /\ logfile_number' = IF keep > 0 THEN keep ELSE acc.next
            /\ next_file_number' = IF keep > 0 THEN acc.next ELSE acc.next + 1
            /\ logs' = IF keep > 0 THEN logs ELSE With(logs, acc.next, [data |-> <<>>, synced |-> 0])
            /\ flush' = [state |-> "recover", add |-> acc.add, fresh |-> fresh]
    /\ current' = VersionOf(manifest) /\ log_number' = Last(manifest).log
    /\ up' = "recovered"
    /\ UNCHANGED <<manifest, msynced, imm, readers, compact, todelete, bg_error, acked, writes, bounds>>

\* The edit is saved if there is something in it, or in a new MANIFEST.
SaveManifest ==
    /\ up = "recovered" /\ (flush.fresh \/ flush.add # {})
    /\ LET e == Edit(logfile_number, flush.add, {})
       IN  manifest' = IF flush.fresh THEN <<[e EXCEPT !.add = @ \cup current]>> ELSE Append(manifest, e)
    /\ msynced' = IF flush.fresh THEN 1 ELSE msynced
    /\ current' = current \cup flush.add /\ log_number' = logfile_number
    /\ flush' = [state |-> "logged", add |-> {}, fresh |-> FALSE]
    /\ UNCHANGED <<logs, tables, up, mem, imm, logfile_number, next_file_number, last_sequence, readers,
                   compact, todelete, bg_error, acked, writes, bounds>>

OpenEnd ==
    /\ up = "recovered" /\ ~flush.fresh /\ flush.add = {}
    /\ flush.state = "logged" => msynced = Len(manifest)
    /\ up' = "run" /\ flush' = NoWork
    /\ todelete' = RemoveObsoleteFiles(log_number, Live(current, {}), bg_error)
    /\ UNCHANGED <<disk, mem, imm, numbers, current, readers, compact, bg_error, acked, writes, bounds>>

Next ==
    \/ \E sync \in BOOLEAN : Write(sync)
    \/ SwitchMem \/ Ref \/ Unref \/ RemoveFile
    \/ FlushBuild \/ FlushLog \/ SyncManifest \/ FlushInstall
    \/ CompactWork \/ CompactLog \/ CompactInstall \/ LogFails
    \/ ProcessCrash \/ MachineCrash \/ Recover \/ SaveManifest \/ OpenEnd

Spec == Init /\ [][Next]_vars

-----------------------------------------------------------------------------
TypeOK ==
    /\ msynced \in 1 .. Len(manifest)
    /\ \A n \in DOMAIN logs : logs[n].synced \in 0 .. Len(logs[n].data)
    /\ up = "run" => logfile_number \in DOMAIN logs

\* The edits a crash of the machine may leave in the MANIFEST.
Manifests == {SubSeq(manifest, 1, k) : k \in msynced .. Len(manifest)}

\* A write that returned survives a crash of the process, whatever the background
\* thread was doing: its entry is in a table of the MANIFEST or in a log that
\* recovery reads (log_number, RemoveObsoleteFiles).
ProcessSafe == acked \subseteq Recoverable(manifest, [n \in DOMAIN logs |-> Data(logs[n])])

\* A synchronous write survives a crash of the machine, and so do the tables of the
\* MANIFEST the crash leaves.
MachineSafe ==
    \A m \in Manifests :
        /\ VersionOf(m) \subseteq DOMAIN tables
        /\ {e \in acked : e.sync} \subseteq Recoverable(m, [n \in DOMAIN logs |-> Synced(logs[n])])

\* After recovery, and ever after, a read finds every write that returned.
AckedVisible == up = "run" => acked \subseteq mem \cup imm \cup Contents(current)

=============================================================================
