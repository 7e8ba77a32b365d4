------------------------------ MODULE RedisAof ------------------------------
(***************************************************************************)
(* The append only file of Redis while the server runs: the buffer, its    *)
(* writes and fsyncs under the policies of appendfsync, the bio thread,    *)
(* rewrites in the background, appendonly switched on and off, shutdown.   *)
(*                                                                         *)
(* Commands are numbered in the order of their execution; command k is the *)
(* bytes 2k-1 and 2k of the stream, so that a write may end within one.    *)
(* Files after crashes are in RedisManifest.                               *)
(***************************************************************************)
EXTENDS Integers, SequencesExt

CONSTANTS
    aof_fsync,              \* "always", "everysec" or "no"
    aof_no_fsync_on_rewrite,
    appendonly,             \* the configuration at start
    Failing,                \* calls that may fail: "write", "ftruncate", "fsync", "open", "fork"
    MaxCommands, MaxRewrites, MaxSwitches   \* bounds

VARIABLES
    server,                 \* struct redisServer, the bio jobs and the files
    replied,                \* commands whose replies were sent
    rewrites, switches

vars == <<server, replied, rewrites, switches>>

Hole == 0                   \* a byte nobody wrote
Bytes(a, b) == [i \in 1 .. 2 * (b - a) |-> 2 * a + i]       \* commands a+1 .. b
NoFile == 0                 \* aof_fd = -1
NoChild == -1

\* An open file: pos is where the next write goes if it was not opened with O_APPEND.
NewFile(append) == [data |-> <<>>, synced |-> 0, pos |-> 0, append |-> append]

aofOpenIfNeededOnServerStart == NewFile(TRUE)

\* An empty dataset.
Init ==
    /\ server = [
        state |-> IF appendonly THEN "on" ELSE "off", up |-> TRUE, clean |-> FALSE,
        aof_buf |-> <<>>, aof_fd |-> IF appendonly THEN 1 ELSE NoFile, temp |-> NoFile,
        files |-> IF appendonly THEN <<aofOpenIfNeededOnServerStart>> ELSE <<>>,
        base |-> 0, incrs |-> IF appendonly THEN <<1>> ELSE <<>>,
        last_incr_size |-> 0, current_size |-> 0, fsync_offset |-> 0,
        due |-> FALSE,              \* unixtime > aof_last_fsync
        postponed |-> 0,            \* aof_flush_postponed_start: not set, less than 2 s ago, longer
        write_ok |-> TRUE, bio_ok |-> TRUE,
        offset |-> 0, pending |-> 0, fsynced |-> IF appendonly THEN 0 ELSE -1,
        child |-> NoChild,          \* the commands the child's snapshot has
        scheduled |-> FALSE, jobs |-> <<>>]
    /\ replied = 0 /\ rewrites = 0 /\ switches = 0

-----------------------------------------------------------------------------
(* flushAppendOnlyFile: the set of states it may end in                    *)

\* write(2) of the bytes b.
Put(f, b) ==
    LET at == IF f.append THEN Len(f.data) ELSE f.pos
        data == f.data \o [i \in 1 .. at - Len(f.data) |-> Hole] \o b
    IN  [f EXCEPT !.data = data, !.pos = Len(data)]
Truncate(f, n) == [f EXCEPT !.data = SubSeq(@, 1, n), !.synced = IF @ > n THEN n ELSE @]
Fsync(s, id) == [s EXCEPT !.files[id].synced = Len(s.files[id].data)]

aofFsyncInProgress(s) == \E i \in DOMAIN s.jobs : s.jobs[i].type = "fsync"
BioJob(s, type) == [s EXCEPT !.jobs = Append(@, [type |-> type, fd |-> s.aof_fd, offset |-> s.offset, done |-> FALSE])]
Exit(s) == [s EXCEPT !.up = FALSE]

\* The part after the label try_fsync.
try_fsync(s, sync_in_progress) ==
    IF aof_no_fsync_on_rewrite /\ s.child # NoChild THEN {s}
    ELSE IF aof_fsync = "always"
    THEN {[Fsync(s, s.aof_fd) EXCEPT !.fsync_offset = s.current_size, !.due = FALSE, !.pending = s.offset]}
            \cup (IF "fsync" \in Failing THEN {Exit(s)} ELSE {})
    ELSE IF aof_fsync = "everysec" /\ s.due
    THEN IF sync_in_progress THEN {[s EXCEPT !.due = FALSE]}
         ELSE {[BioJob(s, "fsync") EXCEPT !.fsync_offset = s.current_size, !.due = FALSE]}
    ELSE {s}

\* nwritten bytes reached the file and stay there: 0 stands for -1, too.
WriteError(s, nwritten) ==
    IF aof_fsync = "always" THEN Exit(s)
    ELSE [s EXCEPT !.write_ok = FALSE, !.current_size = @ + nwritten, !.last_incr_size = @ + nwritten,
                   !.aof_buf = SubSeq(@, nwritten + 1, Len(@))]

\* A short write is undone, or what was written leaves the buffer.
ShortWrite(s, n) ==
    LET written == [s EXCEPT !.files[s.aof_fd] = Put(@, SubSeq(s.aof_buf, 1, n))]
    IN  {WriteError([written EXCEPT !.files[s.aof_fd] = Truncate(@, s.last_incr_size)], 0)}
            \cup (IF "ftruncate" \in Failing THEN {WriteError(written, n)} ELSE {})

aofWrite(s, sync_in_progress) ==
    LET n == Len(s.aof_buf)
        errors == IF s.aof_fd = NoFile \/ "write" \in Failing THEN {WriteError(s, 0)} ELSE {}
        short == IF s.aof_fd # NoFile /\ "write" \in Failing THEN UNION {ShortWrite(s, m) : m \in 1 .. n - 1} ELSE {}
    IN  errors \cup short \cup
        IF s.aof_fd = NoFile THEN {}
        ELSE try_fsync([s EXCEPT !.files[s.aof_fd] = Put(@, s.aof_buf), !.write_ok = TRUE, !.aof_buf = <<>>,
                                 !.current_size = @ + n, !.last_incr_size = @ + n],
                       sync_in_progress)

flushAppendOnlyFile(s, force) ==
    LET in_progress == aof_fsync = "everysec" /\ aofFsyncInProgress(s)
    IN  IF s.aof_buf = <<>>
        THEN IF aof_fsync = "everysec" /\ s.fsync_offset # s.current_size /\ s.due /\ ~in_progress
             THEN try_fsync(s, FALSE) ELSE {s}
        ELSE IF in_progress /\ ~force /\ s.postponed < 2
        THEN {[s EXCEPT !.postponed = 1]}
        ELSE aofWrite([s EXCEPT !.postponed = 0], in_progress)

-----------------------------------------------------------------------------
(* Commands and the event loop                                             *)

writeCommandsDeniedByDiskError(s) == s.state # "off" /\ ~(s.write_ok /\ s.bio_ok)

feedAppendOnlyFile(s) == s.state = "on" \/ (s.state = "wait" /\ s.child # NoChild)

Command ==
    /\ server.up /\ server.offset < MaxCommands /\ ~writeCommandsDeniedByDiskError(server)
    /\ server' = [server EXCEPT !.offset = @ + 1,
                    !.aof_buf = IF feedAppendOnlyFile(server) THEN @ \o Bytes(server.offset, server.offset + 1) ELSE @]
    /\ UNCHANGED <<replied, rewrites, switches>>

updateFsynced(s) == IF s.state = "on" /\ s.fsynced # -1 THEN [s EXCEPT !.fsynced = s.pending] ELSE s

\* Mutant: replies are sent before the file is written.
beforeSleepRepliesFirst ==
    /\ server.up
    /\ \E s \in IF server.state # "off" THEN flushAppendOnlyFile(server, FALSE) ELSE {server} :
        server' = IF s.up THEN updateFsynced(s) ELSE s
    /\ replied' = server.offset
    /\ UNCHANGED <<rewrites, switches>>
\* The file, then the offset for WAITAOF, then the replies.
beforeSleep ==
    /\ server.up
    /\ \E s \in IF server.state # "off" THEN flushAppendOnlyFile(server, FALSE) ELSE {server} :
        /\ server' = IF s.up THEN updateFsynced(s) ELSE s
        /\ replied' = IF s.up THEN server.offset ELSE replied
    /\ UNCHANGED <<rewrites, switches>>

\* serverCron: a flush that was put off, or that failed.
serverCron ==
    /\ server.up /\ server.state # "off" /\ (server.postponed > 0 \/ ~server.write_ok)
    /\ server' \in flushAppendOnlyFile(server, FALSE)
    /\ UNCHANGED <<replied, rewrites, switches>>

\* A second passes.
Tick ==
    /\ server.up /\ (~server.due \/ server.postponed = 1)
    /\ \E p \in IF server.postponed = 1 THEN {1, 2} ELSE {server.postponed} :
        server' = [server EXCEPT !.due = TRUE, !.postponed = p]
    /\ server' # server
    /\ UNCHANGED <<replied, rewrites, switches>>

-----------------------------------------------------------------------------
(* The bio thread                                                          *)

\* fsync and its result; fsync of a descriptor that was closed counts as done.
bioFsync ==
    /\ server.up /\ server.jobs # <<>> /\ ~server.jobs[1].done
    /\ LET job == server.jobs[1]
           done == [server EXCEPT !.jobs[1].done = TRUE]
           ok == [done EXCEPT !.bio_ok = TRUE, !.pending = job.offset]
       IN  \/ server' = IF job.fd = NoFile THEN ok ELSE Fsync(ok, job.fd)
           \/ "fsync" \in Failing /\ job.fd # NoFile /\ server' = [done EXCEPT !.bio_ok = FALSE]
    /\ UNCHANGED <<replied, rewrites, switches>>

\* The job counts as in progress until it is taken from the queue.
bioDone ==
    /\ server.up /\ server.jobs # <<>> /\ server.jobs[1].done
    /\ server' = [server EXCEPT !.jobs = Tail(@)]
    /\ UNCHANGED <<replied, rewrites, switches>>

-----------------------------------------------------------------------------
(* Rewrites                                                                *)

\* Mutant: the old file is closed without a last fsync.
openNewIncrUnsynced(s) ==
    LET id == Len(s.files) + 1
    IN  IF s.state = "off" THEN s
        ELSE [s EXCEPT
                !.files = Append(@, NewFile(FALSE)), !.aof_fd = id, !.last_incr_size = 0,
                !.temp = IF s.state = "wait" THEN id ELSE @,
                !.incrs = IF s.state = "on" THEN Append(@, id) ELSE @,
                !.fsync_offset = IF s.aof_fd # NoFile THEN s.current_size ELSE @,
                !.due = s.aof_fd = NoFile /\ @]

\* A new file, for the manifest or until the first rewrite is done a temporary one.
openNewIncrAofForAppend(s) ==
    LET id == Len(s.files) + 1
        t == IF s.aof_fd # NoFile
             THEN [BioJob(s, "close") EXCEPT !.fsync_offset = s.current_size, !.due = FALSE]
             ELSE s
    IN  IF s.state = "off" THEN s
        ELSE [t EXCEPT
                !.files = Append(@, NewFile(FALSE)), !.aof_fd = id, !.last_incr_size = 0,
                !.temp = IF s.state = "wait" THEN id ELSE @,
                !.incrs = IF s.state = "on" THEN Append(@, id) ELSE @]

\* The directory or the new file cannot be opened, or fork fails: then the new
\* file is in use and there is no child.
rewriteAppendOnlyFileBackground(s) ==
    LET flushed == flushAppendOnlyFile(s, TRUE)
        opened == {IF t.up THEN openNewIncrAofForAppend(t) ELSE t : t \in flushed}
    IN  {IF t.up THEN [t EXCEPT !.child = t.offset, !.scheduled = FALSE] ELSE t : t \in opened}
            \cup (IF "open" \in Failing THEN {s} \cup flushed ELSE {})
            \cup (IF "fork" \in Failing THEN opened ELSE {})

\* BGREWRITEAOF, or serverCron: the files have grown or a rewrite is scheduled.
bgrewriteaof ==
    /\ server.up /\ server.child = NoChild /\ rewrites < MaxRewrites
    /\ rewrites' = rewrites + 1
    /\ server' \in rewriteAppendOnlyFileBackground(server)
    /\ UNCHANGED <<replied, switches>>

\* Mutant: all incremental files stay.
rewriteKeepsIncrs(s) == [s EXCEPT !.base = s.child, !.temp = NoFile, !.child = NoChild]
\* The new base, and of the incremental files the last if one is open.
rewriteDone(s) ==
    LET incrs == IF s.state = "wait" THEN Append(s.incrs, s.temp) ELSE s.incrs
        t == [s EXCEPT !.base = s.child, !.incrs = IF s.aof_fd # NoFile THEN <<Last(incrs)>> ELSE <<>>,
                       !.temp = IF s.state = "wait" THEN NoFile ELSE @, !.child = NoChild]
        u == IF s.aof_fd = NoFile THEN t
             ELSE [t EXCEPT !.current_size = 2 * s.child + s.last_incr_size,
                            !.fsync_offset = 2 * s.child + s.last_incr_size, !.due = FALSE]
    IN  IF s.state = "wait" THEN [u EXCEPT !.state = "on", !.fsynced = s.pending] ELSE u

\* The child failed, or there is no temporary file to rename.
rewriteFailed(s) ==
    IF s.state = "wait"
    THEN [s EXCEPT !.child = NoChild, !.aof_buf = <<>>, !.temp = NoFile, !.scheduled = TRUE]
    ELSE [s EXCEPT !.child = NoChild]

backgroundRewriteDoneHandler ==
    /\ server.up /\ server.child # NoChild
    /\ \/ server' = IF server.state = "wait" /\ server.temp = NoFile THEN rewriteFailed(server) ELSE rewriteDone(server)
       \/ server' = rewriteFailed(server)
    /\ UNCHANGED <<replied, rewrites, switches>>

-----------------------------------------------------------------------------
(* CONFIG SET appendonly, SHUTDOWN                                         *)

\* Jobs for a descriptor that is closed here find it closed.
Close(s) ==
    [s EXCEPT !.aof_fd = NoFile,
              !.jobs = [i \in DOMAIN @ |-> IF @[i].type = "fsync" THEN [@[i] EXCEPT !.fd = NoFile] ELSE @[i]]]

FlushAndFsync(s) ==
    LET T == flushAppendOnlyFile(s, TRUE)
    IN  {IF t.up /\ t.aof_fd # NoFile
         THEN [Fsync(t, t.aof_fd) EXCEPT !.fsync_offset = t.current_size, !.due = FALSE] ELSE t : t \in T}
            \cup (IF "fsync" \in Failing THEN T ELSE {})

stopAppendOnly ==
    /\ server.up /\ server.state # "off" /\ switches < MaxSwitches
    /\ switches' = switches + 1
    /\ \E t \in FlushAndFsync(server) :
        server' = IF t.up THEN [Close(t) EXCEPT !.state = "off", !.scheduled = FALSE, !.last_incr_size = 0,
                                    !.fsynced = -1, !.pending = 0, !.child = NoChild, !.aof_buf = <<>>]
                  ELSE t
    /\ UNCHANGED <<replied, rewrites>>

bioDrainWorker(s) == s.jobs = <<>>

\* Within a transaction the rewrite is only scheduled.
startAppendOnly(in_exec) ==
    /\ server.up /\ server.state = "off" /\ switches < MaxSwitches /\ bioDrainWorker(server)
    /\ in_exec \/ rewrites < MaxRewrites
    /\ switches' = switches + 1
    /\ rewrites' = IF in_exec THEN rewrites ELSE rewrites + 1
    /\ LET s == [server EXCEPT !.pending = server.offset, !.fsynced = 0, !.state = "wait"]
       IN  \E t \in IF in_exec THEN {[s EXCEPT !.scheduled = TRUE]}
                    ELSE rewriteAppendOnlyFileBackground([s EXCEPT !.child = NoChild]) :
            server' = IF ~t.up THEN t
                      ELSE IF ~in_exec /\ t.child = NoChild THEN [t EXCEPT !.state = "off"]
                      ELSE [t EXCEPT !.due = FALSE, !.bio_ok = TRUE, !.write_ok = TRUE]
    /\ UNCHANGED replied

\* finishShutdown: refused while the first rewrite runs.
shutdown ==
    /\ server.up /\ ~(server.state = "wait" /\ server.child # NoChild)
    /\ LET s == [server EXCEPT !.child = NoChild]
       IN  \E t \in IF s.state # "off" THEN FlushAndFsync(s) ELSE {s} :
            server' = [t EXCEPT !.up = FALSE, !.clean = t.up]
    /\ UNCHANGED <<replied, rewrites, switches>>

Next ==
    \/ Command \/ beforeSleep \/ serverCron \/ Tick
    \/ bioFsync \/ bioDone
    \/ bgrewriteaof \/ backgroundRewriteDoneHandler
    \/ stopAppendOnly \/ (\E in_exec \in BOOLEAN : startAppendOnly(in_exec)) \/ shutdown

Spec == Init /\ [][Next]_vars

-----------------------------------------------------------------------------
TypeOK ==
    /\ server.state \in {"on", "off", "wait"}
    /\ server.aof_fd \in {NoFile} \cup DOMAIN server.files
    /\ ToSet(server.incrs) \subseteq DOMAIN server.files
    /\ server.pending \in 0 .. server.offset /\ server.fsynced \in -1 .. server.offset
    /\ \A i \in DOMAIN server.files : server.files[i].synced \in 0 .. Len(server.files[i].data)
    /\ replied \in 0 .. server.offset

Files(D(_)) == Bytes(0, server.base) \o FlattenSeq([i \in DOMAIN server.incrs |-> D(server.files[server.incrs[i]])])
Loaded == Files(LAMBDA f : f.data)
Durable(k) == 1 .. 2 * k \subseteq ToSet(Files(LAMBDA f : SubSeq(f.data, 1, f.synced)))

\* The base, the incremental files of the manifest and the buffer are the commands
\* executed, each once and in order: loading them rebuilds the dataset
\* (flushAppendOnlyFile, openNewIncrAofForAppend, backgroundRewriteDoneHandler).
Rebuilds == server.up /\ server.state = "on" => Loaded \o server.aof_buf = Bytes(0, server.offset)

\* With appendfsync always, a command whose reply was sent is on disk: beforeSleep
\* syncs before it replies and flushAppendOnlyFile exits when it cannot.
RepliedDurable == server.state = "on" => Durable(replied)

\* What WAITAOF answers is true: everything up to fsynced_reploff is on disk.
FsyncedTrue == server.fsynced # -1 => Durable(server.fsynced)

=============================================================================
