----------------------------- MODULE MCLevelDB -----------------------------
(***************************************************************************)
(* LevelDB for TLC: LevelWrite, LevelTree, LevelLog and LevelRecover, each *)
(* in the configurations below.  conf is the one a behaviour is about; the *)
(* specifications share no state.  In the behaviours about another one     *)
(* LevelWrite stays in its initial state, and the variables of the others  *)
(* are None.                                                               *)
(***************************************************************************)
EXTENDS LevelWrite

VARIABLES
    conf,
    hist, mem_, imm_, files, next_file_number, compact_pointer, snapshots, compact,
    file, dest_size, durable, lens, done, synced_, tables_, must, recovered, state,
    crashes, logs, manifest, msynced, up, logfile_number, log_number, last_sequence,
    current, readers, flush, todelete, bg_error_, acked_, writes, compactions

notTree == <<file, dest_size, durable, lens, done, synced_, tables_, must,
             recovered, state, crashes, logs, manifest, msynced, up, logfile_number,
             log_number, last_sequence, current, readers, flush, todelete,
             bg_error_, acked_, writes, compactions, vars>>
notLog == <<hist, mem_, imm_, files, next_file_number, compact_pointer, snapshots,
            compact, logs, manifest, msynced, up, logfile_number, log_number,
            last_sequence, current, readers, flush, todelete, bg_error_, acked_,
            writes, compactions, vars>>
notRecover == <<hist, files, compact_pointer, snapshots, file, dest_size, durable,
                lens, done, synced_, must, recovered, state, vars>>
notWrite == <<hist, mem_, imm_, files, next_file_number, compact_pointer, snapshots,
              compact, file, dest_size, durable, lens, done, synced_, tables_, must,
              recovered, state, crashes, logs, manifest, msynced, up,
              logfile_number, log_number, last_sequence, current, readers, flush,
              todelete, bg_error_, acked_, writes, compactions>>

None == "none"

-----------------------------------------------------------------------------
(* LevelTree: overwrites of two keys with a snapshot, by compactions of    *)
(* full levels; writes and deletes of three, by manual compactions too     *)

Overwrites == [1 .. 4 -> [key : {1, 2}, del : {FALSE}]]
Deletions == [1 .. 3 -> [key : {1, 2, 3}, del : BOOLEAN]]

Snapshot == INSTANCE LevelTree WITH Keys <- {1, 2}, kNumLevels <- 3, kMaxMemCompactLevel <- 1,
    kL0_CompactionTrigger <- 2, Workload <- Overwrites, MaxSnapshots <- 1,
    Compactions <- {"size"},
    mem <- mem_, imm <- imm_
Deletes == INSTANCE LevelTree WITH Keys <- {1, 2, 3}, kNumLevels <- 4, kMaxMemCompactLevel <- 2,
    kL0_CompactionTrigger <- 2, Workload <- Deletions, MaxSnapshots <- 0,
    Compactions <- {"size", "manual"},
    mem <- mem_, imm <- imm_

TreeInit ==
    /\ file = None /\ dest_size = None /\ durable = None /\ lens = None /\ done = None
    /\ synced_ = None /\ tables_ = None /\ must = None /\ recovered = None
    /\ state = None /\ crashes = None /\ logs = None /\ manifest = None
    /\ msynced = None /\ up = None /\ logfile_number = None /\ log_number = None
    /\ last_sequence = None /\ current = None /\ readers = None /\ flush = None
    /\ todelete = None /\ bg_error_ = None /\ acked_ = None /\ writes = None
    /\ compactions = None
    /\ Init
    /\ \/ conf = "snapshot" /\ Snapshot!Init
       \/ conf = "deletes" /\ Deletes!Init

TreeNext ==
    /\ \/ conf = "snapshot" /\ Snapshot!Next
       \/ conf = "deletes" /\ Deletes!Next
    /\ UNCHANGED notTree

-----------------------------------------------------------------------------
(* LevelLog: records that fill blocks in all ways, with crashes; a log that *)
(* is written on after a restart and read again, with writes that fail     *)

Fresh == INSTANCE LevelLog WITH kBlockSize <- 7, kHeaderSize <- 2, Lengths <- {1, 2, 5, 12},
    MaxRecords <- 3, MaxCrashes <- 2, Reuse <- FALSE, Strict <- TRUE, Failing <- FALSE,
    synced <- synced_, tables <- tables_
Reused == INSTANCE LevelLog WITH kBlockSize <- 7, kHeaderSize <- 2, Lengths <- {1, 5},
    MaxRecords <- 3, MaxCrashes <- 2, Reuse <- TRUE, Strict <- FALSE, Failing <- TRUE,
    synced <- synced_, tables <- tables_

LogInit ==
    /\ hist = None /\ mem_ = None /\ imm_ = None /\ files = None
    /\ next_file_number = None /\ compact_pointer = None /\ snapshots = None
    /\ compact = None /\ logs = None /\ manifest = None /\ msynced = None /\ up = None
    /\ logfile_number = None /\ log_number = None /\ last_sequence = None
    /\ current = None /\ readers = None /\ flush = None /\ todelete = None
    /\ bg_error_ = None /\ acked_ = None /\ writes = None /\ compactions = None
    /\ Init
    /\ conf \in {"fresh", "reused"} /\ Fresh!Init

LogNext ==
    /\ \/ conf = "fresh" /\ Fresh!Next
       \/ conf = "reused" /\ Reused!Next
    /\ UNCHANGED notLog

-----------------------------------------------------------------------------
(* LevelWrite: three writers, with every limit of level 0 at one file (the *)
(* constants of the configuration file)                                    *)

ASSUME CrowdLimits == Limits

WriteInit ==
    /\ hist = None /\ mem_ = None /\ imm_ = None /\ files = None
    /\ next_file_number = None /\ compact_pointer = None /\ snapshots = None
    /\ compact = None /\ file = None /\ dest_size = None /\ durable = None
    /\ lens = None /\ done = None /\ synced_ = None /\ tables_ = None /\ must = None
    /\ recovered = None /\ state = None /\ crashes = None /\ logs = None
    /\ manifest = None /\ msynced = None /\ up = None /\ logfile_number = None
    /\ log_number = None /\ last_sequence = None /\ current = None /\ readers = None
    /\ flush = None /\ todelete = None /\ bg_error_ = None /\ acked_ = None
    /\ writes = None /\ compactions = None
    /\ conf = "crowd" /\ Init

WriteNext == conf = "crowd" /\ Next /\ UNCHANGED notWrite

-----------------------------------------------------------------------------
(* LevelRecover: a crash of the process or the machine, with a MANIFEST    *)
(* that may fail; two ends of the process, with logs that are used again   *)

Renewed == INSTANCE LevelRecover WITH reuse_logs <- FALSE, Failing <- TRUE,
    Crashes <- {"process", "machine"}, MaxWrites <- 2, MaxCrashes <- 1, MaxCompactions <- 1,
    MaxFiles <- 12,
    mem <- mem_, imm <- imm_, tables <- tables_, bg_error <- bg_error_, acked <- acked_
Continued == INSTANCE LevelRecover WITH reuse_logs <- TRUE, Failing <- FALSE,
    Crashes <- {"process"}, MaxWrites <- 2, MaxCrashes <- 2, MaxCompactions <- 0, MaxFiles <- 8,
    mem <- mem_, imm <- imm_, tables <- tables_, bg_error <- bg_error_, acked <- acked_

RecoverInit ==
    /\ hist = None /\ files = None /\ compact_pointer = None /\ snapshots = None
    /\ file = None /\ dest_size = None /\ durable = None /\ lens = None /\ done = None
    /\ synced_ = None /\ must = None /\ recovered = None /\ state = None
    /\ Init
    /\ conf \in {"renewed", "continued"} /\ Renewed!Init

RecoverNext ==
    /\ \/ conf = "renewed" /\ Renewed!Next
       \/ conf = "continued" /\ Continued!Next
    /\ UNCHANGED notRecover

-----------------------------------------------------------------------------
MCInit == TreeInit \/ LogInit \/ WriteInit \/ RecoverInit
MCNext == UNCHANGED conf /\ (TreeNext \/ LogNext \/ WriteNext \/ RecoverNext)
MCSpec == MCInit /\ [][MCNext]_<<conf, notWrite, vars>>

\* A read, now or at a snapshot, finds the newest write of its key, wherever
\* flushes and compactions have moved it, and no deletion it should not see.
ReadsLatest ==
    /\ conf = "snapshot" => Snapshot!ReadsLatest
    /\ conf = "deletes" => Deletes!ReadsLatest

\* Type correctness, and the order on which Get relies: files of a level above 0
\* have no key in common, and no level has an entry older than a deeper one's.
LevelsOrdered ==
    /\ conf = "snapshot" => Snapshot!TypeOK /\ Snapshot!Disjoint /\ Snapshot!NewerAbove
    /\ conf = "deletes" => Deletes!TypeOK /\ Deletes!Disjoint /\ Deletes!NewerAbove

\* A log reader returns records as they were written.  When a log is not written
\* on after a crash it returns all that the crash may not have lost, and reports
\* no corruption; otherwise it loses only what lies behind a piece of a record.
LogRecovers ==
    /\ conf = "fresh" => Fresh!TypeOK /\ Fresh!Intact /\ Fresh!Survive /\ Fresh!Opens
    /\ conf = "reused" => Reused!TypeOK /\ Reused!Intact /\ Reused!OnlyBuriedLost

\* At every moment a crash, of the process or of the machine, leaves a directory
\* with the writes that must survive it, and after recovery a read finds them.
CrashSafe ==
    /\ conf = "renewed" =>
         Renewed!TypeOK /\ Renewed!ProcessSafe /\ Renewed!AckedVisible /\ Renewed!MachineSafe
    /\ conf = "continued" =>
         Continued!TypeOK /\ Continued!ProcessSafe /\ Continued!AckedVisible
=============================================================================
