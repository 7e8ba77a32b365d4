---------------------------- MODULE MCDatabases ----------------------------
(***************************************************************************)
(* The databases behind the frontends for TLC: CuckooLog, the table with a *)
(* log file, and Bitcask, each in the configurations below.  conf is the   *)
(* one a behaviour is about; the two specifications share no state, and    *)
(* the variables of the other one stay None (armed is FALSE: nobody has    *)
(* been told that a file is synced).                                       *)
(***************************************************************************)
EXTENDS CuckooLog, TLC

VARIABLES
    conf,
    entries, buf, offset, idx, key, result, lock, file_num, hash_table, data_files, index_files,
    proc, replayed, crashes, recs, acked, last, seen     \* Bitcask's, with pc and file

logVars == <<table, pos, dirty, sync_, batch, id, at, snap, ops, returned, armed, down>>
caskVars == <<entries, buf, offset, idx, key, result, lock, file_num, hash_table, data_files,
              index_files, proc, replayed, crashes, recs, acked, last, seen>>
mcVars == <<conf, pc, file, logVars, caskVars>>

None == "none"

-----------------------------------------------------------------------------
(* CuckooLog: clients with keys of their own, one of which puts batches    *)
(* with a key twice (the constants of the configuration file); three       *)
(* threads that put one key                                                *)

OwnKeys == "t1" :> {<<"a">>, <<"b", "a", "b">>} @@ "t2" :> {<<"c">>}
OneEach == "t1" :> {<<"a">>} @@ "t2" :> {<<"a">>} @@ "t3" :> {<<"a">>}

SharedKey == INSTANCE CuckooLog WITH
    Threads <- {"t1", "t2", "t3"}, Keys <- {"a"}, Batches <- OneEach

LogInit ==
    /\ entries = None /\ buf = None /\ offset = None /\ idx = None /\ key = None
    /\ result = None /\ lock = None /\ file_num = None /\ hash_table = None
    /\ data_files = None /\ index_files = None /\ proc = None /\ replayed = None
    /\ crashes = None /\ recs = None /\ acked = None /\ last = None /\ seen = None
    /\ \/ conf = "own keys" /\ Init
       \/ conf = "shared key" /\ SharedKey!Init

LogNext ==
    \/ conf = "own keys" /\ Next
    \/ conf = "shared key" /\ SharedKey!Next

-----------------------------------------------------------------------------
(* Bitcask: one thread and a crash, with batches; index files that are     *)
(* replayed side by side after two crashes, with short writes; the leader  *)
(* of a group beside a reader; two writers that fill the data files        *)

OneSlot == [k \in {"a", "b"} |-> 0]
OwnSlot == [k \in {"a", "b"} |-> IF k = "a" THEN 0 ELSE 1]

Serial == INSTANCE Bitcask WITH Clients <- {"t1"}, Writers <- {"t1"}, Keys <- {"a", "b"},
    Sizes <- {1, 2}, MaxBatch <- 2, SEGMENT_SIZE <- 3, Slots <- {0}, Slot <- OneSlot,
    Synced <- FALSE, PowerFails <- FALSE, ShortWrites <- FALSE,
    MaxPuts <- 3, MaxCrashes <- 1, MaxFiles <- 1
Replay == INSTANCE Bitcask WITH Clients <- {"t1"}, Writers <- {"t1"}, Keys <- {"a", "b"},
    Sizes <- {1, 2}, MaxBatch <- 1, SEGMENT_SIZE <- 2, Slots <- {0, 1}, Slot <- OwnSlot,
    Synced <- FALSE, PowerFails <- FALSE, ShortWrites <- TRUE,
    MaxPuts <- 2, MaxCrashes <- 2, MaxFiles <- 3
Leader == INSTANCE Bitcask WITH Clients <- {"t1", "t2"}, Writers <- {"t1"}, Keys <- {"a", "b"},
    Sizes <- {1, 2}, MaxBatch <- 2, SEGMENT_SIZE <- 100, Slots <- {0}, Slot <- OneSlot,
    Synced <- TRUE, PowerFails <- FALSE, ShortWrites <- FALSE,
    MaxPuts <- 2, MaxCrashes <- 0, MaxFiles <- 1
Clerks == INSTANCE Bitcask WITH Clients <- {"t1", "t2"}, Writers <- {"t1", "t2"}, Keys <- {"a"},
    Sizes <- {2}, MaxBatch <- 1, SEGMENT_SIZE <- 2, Slots <- {0}, Slot <- OneSlot,
    Synced <- FALSE, PowerFails <- FALSE, ShortWrites <- FALSE,
    MaxPuts <- 3, MaxCrashes <- 0, MaxFiles <- 1

CaskInit ==
    /\ table = None /\ pos = None /\ dirty = None /\ sync_ = None /\ batch = None /\ id = None
    /\ at = None /\ snap = None /\ ops = None /\ returned = None /\ armed = FALSE /\ down = None
    /\ \/ conf = "serial" /\ Serial!Init
       \/ conf = "replay" /\ Replay!Init
       \/ conf = "leader" /\ Leader!Init
       \/ conf = "clerks" /\ Clerks!Init

CaskNext ==
    \/ conf = "serial" /\ Serial!Next
    \/ conf = "replay" /\ Replay!Next
    \/ conf = "leader" /\ Leader!Next
    \/ conf = "clerks" /\ Clerks!Next

-----------------------------------------------------------------------------
MCInit == LogInit \/ CaskInit
MCNext ==
    /\ UNCHANGED conf
    /\ \/ LogNext /\ UNCHANGED caskVars
       \/ CaskNext /\ UNCHANGED logVars

\* The fairness of Bitcask's FairSpec, for the clerks: threads of the server run.
MCSpec ==
    /\ MCInit /\ [][MCNext]_mcVars
    /\ \A c \in {"t1", "t2"} :
        SF_mcVars(conf = "clerks" /\ Clerks!PutStep(c) /\ UNCHANGED <<conf, logVars>>)

\* A key that the process has put has an Index into a file, and there the record
\* put last, whole; a get beside the leader returns a record current during the
\* call.  With two writers this fails, since pwrite appends in an order of its
\* own; the files that the table names are there even then.
TableMatches ==
    /\ conf = "serial" => Serial!TypeOK /\ Serial!TableMatches
    /\ conf = "replay" => Replay!TypeOK /\ Replay!TableMatches
    /\ conf = "leader" => Leader!TypeOK /\ Leader!TableMatches /\ Leader!ReadBack
    /\ conf = "clerks" => Clerks!FileIndexValid

\* A put that has returned is not lost when the process ends: the table that
\* Recover builds has the place of its record or of a later one (AppendIndex,
\* IndexCallback).
PutsSurvive ==
    /\ conf = "serial" => Serial!PutsSurvive
    /\ conf = "replay" => Replay!PutsSurvive

\* A get of a key that is in the table returns a record put for the key, also when
\* the database has been opened again (what dbimpl_test.cc rereads).
RereadValue == conf = "replay" => Replay!RereadValue

\* A put comes to an end, whatever other threads do with global_lock_ (TryLock).
PutReturns ==
    \A c \in {"t1", "t2"} :
        (conf = "clerks" /\ pc[c] = "lock")
            ~> (conf = "clerks" /\ (pc[c] = "idle" \/ proc # "open"))

\* With one writer of a key at a time, the log and the table of the CuckooDB
\* adapter agree on every key that no thread is writing.
MCLogMatchesTable == conf = "own keys" => TypeOK /\ LogMatchesTable
=============================================================================
