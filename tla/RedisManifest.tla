---------------------------- MODULE RedisManifest ----------------------------
(***************************************************************************)
(* The files of the append only file of Redis over crashes: base,          *)
(* incremental and history files, the manifest that names them, and what   *)
(* a restart makes of them.  The process may stop between any two calls    *)
(* that change a directory.  When the machine stops, the directory is in   *)
(* a state it had since it was last synced, in their order, and files lose *)
(* what was not synced, possibly within a command.                         *)
(*                                                                         *)
(* The buffer, errors of writes and the bio thread are in RedisAof.        *)
(***************************************************************************)
EXTENDS Integers, SequencesExt

CONSTANTS
    aof_fsync,              \* "always" or "everysec"
    Upgrade,                \* the first start finds a file of an old version
    Failing,                \* calls that may fail: "manifest" (up to its rename), "dirsync", "rename", "fork", "child"
    Machine,                \* the machine may stop, too
    MaxCommands, MaxRewrites, MaxSwitches, MaxCrashes, MaxFailures    \* bounds

VARIABLES
    inodes,                 \* contents of files, also of those without a name
    dir,                    \* the directory: files by name, and the manifest
    dirs,                   \* what the directory may be after a crash of the machine
    server,                 \* struct redisServer
    pc,                     \* where the main thread is
    data,                   \* the dataset: the commands it is made of
    acked,                  \* the dataset as of the last replies
    count                   \* commands, rewrites, switches, crashes and failed calls so far

vars == <<inodes, dir, dirs, server, pc, data, acked, count>>

\* File names; seq is 0 for temporary files and those of the old version.
Name(kind, seq) == [kind |-> kind, seq |-> seq]
TempBase == Name("tempbase", 0)
TempIncr == Name("tempincr", 0)
Old == Name("old", 0)           \* aof_filename beside the directory ...
OldBase == Name("oldbase", 0)   \* ... and in it
NoName == Name("none", 0)
NoFd == 0
NoChild == <<0>>

NoManifest == [base |-> NoName, incrs |-> <<>>, hist |-> {}, base_seq |-> 0, incr_seq |-> 0]
Files(am) == ToSet(am.incrs) \cup (IF am.base = NoName THEN {} ELSE {am.base})

\* Fully synced content, or an empty new file.
Inode(cmds) == [cmds |-> cmds, synced |-> Len(cmds), torn |-> FALSE]

At(at, then) == [at |-> at, then |-> then]
Stopped == [am |-> NoManifest, temp_am |-> NoManifest, state |-> "off", fd |-> NoFd, buffered |-> FALSE, child |-> NoChild, jobs |-> {}]

Init ==
    /\ inodes = IF Upgrade THEN <<Inode(<<1>>)>> ELSE <<>>
    /\ dir = [files |-> IF Upgrade THEN [n \in {Old} |-> 1] ELSE <<>>, manifest |-> NoManifest]
    /\ dirs = {dir}
    /\ server = Stopped
    /\ pc = At("down", "")
    /\ data = <<>>
    /\ acked = IF Upgrade THEN <<1>> ELSE <<>>
    /\ count = [commands |-> IF Upgrade THEN 1 ELSE 0, rewrites |-> 0, switches |-> 0, crashes |-> 0, failures |-> 0]

-----------------------------------------------------------------------------
(* Directories                                                             *)

Link(d, n, i) == [d EXCEPT !.files = [m \in DOMAIN @ \cup {n} |-> IF m = n THEN i ELSE @[m]]]
Unlink(d, N) == [d EXCEPT !.files = [m \in DOMAIN @ \ N |-> @[m]]]
Rename(d, n, m) == Link(Unlink(d, {n}), m, d.files[n])

SetDir(d) == dir' = d /\ dirs' = IF Machine THEN dirs \cup {d} ELSE {d}
NewInode(cmds) == inodes' = Append(inodes, Inode(cmds))
Next_inode == Len(inodes) + 1
KeepDir == UNCHANGED <<dir, dirs>>
Fails(call) ==
    /\ call \in Failing /\ count.failures < MaxFailures
    /\ count' = [count EXCEPT !.failures = @ + 1]
KeepData == UNCHANGED <<data, acked>>

-----------------------------------------------------------------------------
(* writeAofManifestFile, called by persistAofManifest: the temporary file, *)
(* its rename, then the directory                                          *)

ManifestRename ==
    /\ pc.at = "persist"
    /\ \/ SetDir([dir EXCEPT !.manifest = server.temp_am]) /\ pc' = At("sync", pc.then) /\ UNCHANGED count
       \/ Fails("manifest") /\ pc' = At("failed", pc.then) /\ KeepDir
    /\ UNCHANGED <<inodes, server>> /\ KeepData

ManifestSync ==
    /\ pc.at = "sync"
    /\ \/ dirs' = {dir} /\ pc' = At("ok", pc.then) /\ UNCHANGED count
       \/ Fails("dirsync") /\ pc' = At("failed", pc.then) /\ UNCHANGED dirs
    /\ UNCHANGED <<inodes, dir, server>> /\ KeepData

-----------------------------------------------------------------------------
(* Commands                                                                *)

Idle == pc.at = "run"
Feeding == server.state = "on" \/ (server.state = "wait" /\ server.child # NoChild)

\* A command and the write of it.
Command ==
    /\ Idle /\ count.commands < MaxCommands
    /\ LET c == count.commands + 1
       IN  /\ data' = Append(data, c)
           /\ inodes' = IF Feeding THEN [inodes EXCEPT ![server.fd].cmds = Append(@, c)] ELSE inodes
           /\ count' = [count EXCEPT !.commands = c]
    /\ server' = [server EXCEPT !.buffered = Feeding]
    /\ UNCHANGED <<pc, acked>> /\ KeepDir

Synced(i) == [inodes EXCEPT ![i].synced = Len(inodes[i].cmds)]

\* Mutant: replies without fsync.
FlushUnsynced ==
    /\ Idle /\ server.buffered
    /\ server' = [server EXCEPT !.buffered = FALSE]
    /\ acked' = IF server.state = "on" THEN data ELSE acked
    /\ UNCHANGED <<inodes, pc, data, count>> /\ KeepDir
\* The fsync of flushAppendOnlyFile, if there was something to write, and the replies.
Flush ==
    /\ Idle /\ server.buffered
    /\ server' = [server EXCEPT !.buffered = FALSE]
    /\ inodes' = IF aof_fsync = "always" THEN Synced(server.fd) ELSE inodes
    /\ acked' = IF server.state = "on" THEN data ELSE acked
    /\ UNCHANGED <<pc, data, count>> /\ KeepDir

\* The bio thread.
Background ==
    /\ pc.at \notin {"down", "dead"}
    /\ \/ \E i \in server.jobs : inodes' = Synced(i) /\ server' = [server EXCEPT !.jobs = @ \ {i}]
       \/ aof_fsync = "everysec" /\ server.fd # NoFd /\ inodes' = Synced(server.fd) /\ UNCHANGED server
    /\ UNCHANGED <<pc, count>> /\ KeepDir /\ KeepData

-----------------------------------------------------------------------------
(* Rewrites                                                                *)

getNewIncrAofName(am) == Name("incr", am.incr_seq + 1)
AddIncr(am) == [am EXCEPT !.incr_seq = @ + 1, !.incrs = Append(@, getNewIncrAofName(am))]
Fork(s) == [s EXCEPT !.child = data]

\* rewriteAppendOnlyFileBackground and openNewIncrAofForAppend.  What is in the
\* buffer is written and synced first.
RewriteStart ==
    /\ Idle /\ ~server.buffered /\ server.child = NoChild /\ count.rewrites < MaxRewrites
    /\ count' = [count EXCEPT !.rewrites = @ + 1]
    /\ CASE server.state = "on" ->
              /\ NewInode(<<>>) /\ SetDir(Link(dir, getNewIncrAofName(server.am), Next_inode))
              /\ server' = [server EXCEPT !.temp_am = AddIncr(server.am)]
              /\ pc' = At("persist", "open")
         [] server.state = "wait" ->
              /\ NewInode(<<>>) /\ SetDir(Link(dir, TempIncr, Next_inode))
              /\ server' = Fork([server EXCEPT !.fd = Next_inode])
              /\ UNCHANGED pc
         [] server.state = "off" -> server' = Fork(server) /\ UNCHANGED <<inodes, pc>> /\ KeepDir
    /\ KeepData

OpenEnd ==
    /\ pc.then = "open" /\ pc.at \in {"ok", "failed"}
    /\ pc' = At("run", "")
    /\ LET opened == [server EXCEPT !.am = server.temp_am, !.jobs = @ \cup {server.fd},
                                    !.fd = dir.files[Last(server.temp_am.incrs)]]
       IN  \/ pc.at = "failed" /\ UNCHANGED <<server, count>>
           \/ pc.at = "ok" /\ server' = Fork(opened) /\ UNCHANGED count
           \/ pc.at = "ok" /\ server' = opened /\ Fails("fork")
    /\ UNCHANGED inodes /\ KeepDir /\ KeepData

\* The part of backgroundRewriteDoneHandler after the label cleanup.
Cleanup(d) ==
    /\ SetDir(Unlink(d, IF server.state = "wait" THEN {TempBase, TempIncr} ELSE {TempBase}))
    /\ server' = [server EXCEPT !.child = NoChild]
    /\ pc' = At("run", "")

\* getNewBaseFileNameAndMarkPreAsHistory
NewBase(am) ==
    [am EXCEPT !.base = Name("base", am.base_seq + 1), !.base_seq = @ + 1,
               !.hist = IF am.base = NoName THEN @ ELSE @ \cup {am.base}]
markRewrittenIncrAofAsHistory(am) ==
    LET kept == IF server.fd # NoFd THEN <<Last(am.incrs)>> ELSE <<>>
    IN  [am EXCEPT !.incrs = kept, !.hist = @ \cup (ToSet(am.incrs) \ ToSet(kept))]

\* The child ends: its file is there, or not.
RewriteDone ==
    /\ Idle /\ server.child # NoChild
    /\ \/ /\ NewInode(server.child) /\ SetDir(Link(dir, TempBase, Next_inode))
          /\ pc' = At("renamebase", "")
          /\ server' = [server EXCEPT !.temp_am = NewBase(server.am)]
          /\ UNCHANGED count
       \/ Fails("child") /\ Cleanup(dir) /\ UNCHANGED inodes
    /\ KeepData

\* Mutant: the old files are removed before the new manifest is written.
RenameBaseHistory ==
    /\ pc.at = "renamebase"
    /\ LET marked == [server EXCEPT !.temp_am = markRewrittenIncrAofAsHistory(@)]
       IN  /\ SetDir(Unlink(Rename(dir, TempBase, server.temp_am.base), marked.temp_am.hist))
           /\ IF server.state = "wait" THEN pc' = At("renameincr", "") /\ UNCHANGED server
              ELSE pc' = At("persist", "done") /\ server' = marked
    /\ UNCHANGED <<inodes, count>> /\ KeepData
RenameBase ==
    /\ pc.at = "renamebase"
    /\ LET marked == [server EXCEPT !.temp_am = markRewrittenIncrAofAsHistory(@)]
       IN  \/ /\ SetDir(Rename(dir, TempBase, server.temp_am.base))
              /\ IF server.state = "wait" THEN pc' = At("renameincr", "") /\ UNCHANGED server
                 ELSE pc' = At("persist", "done") /\ server' = marked
              /\ UNCHANGED count
           \/ Fails("rename") /\ Cleanup(dir)
    /\ UNCHANGED inodes /\ KeepData

RenameIncr ==
    /\ pc.at = "renameincr"
    /\ \/ /\ SetDir(Rename(dir, TempIncr, getNewIncrAofName(server.temp_am)))
          /\ server' = [server EXCEPT !.temp_am = markRewrittenIncrAofAsHistory(AddIncr(@))]
          /\ pc' = At("persist", "done") /\ UNCHANGED count
       \/ Fails("rename") /\ Cleanup(Unlink(dir, {server.temp_am.base}))
    /\ UNCHANGED inodes /\ KeepData

\* After the manifest: what is new is taken back, or the server goes over to it.
DoneEnd ==
    /\ pc.then = "done"
    /\ \/ /\ pc.at = "failed"
          /\ Cleanup(Unlink(dir, {server.temp_am.base}
                                    \cup (IF server.state = "wait" THEN {Last(server.temp_am.incrs)} ELSE {})))
       \/ /\ pc.at = "ok"
          /\ server' = [server EXCEPT !.am = server.temp_am, !.child = NoChild,
                                      !.state = IF @ = "wait" THEN "on" ELSE @]
          /\ pc' = At("history", "")
          /\ KeepDir
    /\ UNCHANGED <<inodes, count>> /\ KeepData

\* aofDelHistoryFiles, one file after the other; an error of the manifest is ignored.
DelHistory ==
    /\ pc.at = "history"
    /\ IF server.am.hist = {} THEN pc' = At("run", "") /\ KeepDir /\ UNCHANGED server
       ELSE LET am == [server.am EXCEPT !.hist = {}]
                rest == DOMAIN dir.files \cap server.am.hist
            IN  IF rest # {}
                THEN (\E f \in rest : SetDir(Unlink(dir, {f}))) /\ UNCHANGED <<server, pc>>
                ELSE pc' = At("persist", "history") /\ server' = [server EXCEPT !.am = am, !.temp_am = am] /\ KeepDir
    /\ UNCHANGED <<inodes, count>> /\ KeepData

HistoryEnd ==
    /\ pc.then = "history" /\ pc.at \in {"ok", "failed"}
    /\ pc' = At("run", "")
    /\ UNCHANGED <<inodes, server, count>> /\ KeepDir /\ KeepData

-----------------------------------------------------------------------------
(* CONFIG SET appendonly                                                   *)

\* Nothing is promised until the file is on again.
stopAppendOnly ==
    /\ Idle /\ server.state # "off" /\ count.switches < MaxSwitches
    /\ count' = [count EXCEPT !.switches = @ + 1]
    /\ inodes' = Synced(server.fd)
    /\ server' = [server EXCEPT !.state = "off", !.fd = NoFd, !.buffered = FALSE, !.child = NoChild]
    /\ acked' = <<>>
    /\ UNCHANGED <<pc, data>> /\ KeepDir

startAppendOnly ==
    /\ Idle /\ server.state = "off" /\ server.jobs = {} /\ count.switches < MaxSwitches
    /\ count' = [count EXCEPT !.switches = @ + 1]
    /\ NewInode(<<>>) /\ SetDir(Link(dir, TempIncr, Next_inode))
    /\ server' = Fork([server EXCEPT !.state = "wait", !.fd = Next_inode])
    /\ UNCHANGED pc /\ KeepData

-----------------------------------------------------------------------------
(* Crashes and the start                                                   *)

Crash ==
    /\ pc.at \notin {"down", "dead"} /\ count.crashes < MaxCrashes
    /\ count' = [count EXCEPT !.crashes = @ + 1]
    /\ pc' = At("down", "") /\ server' = Stopped /\ data' = <<>>
    /\ acked' = IF server.state = "on" THEN acked ELSE <<>>

ProcessCrash == Crash /\ UNCHANGED inodes /\ KeepDir

\* What a file may be afterwards.
Remains(i) ==
    {Inode(SubSeq(inodes[i].cmds, 1, n)) : n \in inodes[i].synced .. Len(inodes[i].cmds)}
        \cup {[Inode(SubSeq(inodes[i].cmds, 1, n)) EXCEPT !.torn = TRUE] : n \in inodes[i].synced .. Len(inodes[i].cmds) - 1}

MachineCrash ==
    /\ Machine /\ Crash
    /\ \E d \in dirs :
        LET cut == {i \in Range(d.files) : inodes[i].synced < Len(inodes[i].cmds)}
        IN  /\ dir' = d /\ dirs' = {d}
            /\ \E f \in [cut -> UNION {Remains(i) : i \in cut}] :
                /\ \A i \in cut : f[i] \in Remains(i)
                /\ inodes' = [i \in DOMAIN inodes |-> IF i \in cut THEN f[i]
                                                    ELSE IF i \in Range(d.files) THEN inodes[i] ELSE Inode(<<>>)]

Exit == pc' = At("down", "") /\ server' = Stopped /\ data' = <<>> /\ UNCHANGED acked

UpgradeNeeded(am) ==
    /\ Old \in DOMAIN dir.files
    /\ \/ Files(am) = {}
       \/ Files(am) = {OldBase} /\ OldBase \notin DOMAIN dir.files

Content(n) == inodes[dir.files[n]]
Order(am) == (IF am.base = NoName THEN <<>> ELSE <<am.base>>) \o am.incrs

\* loadAppendOnlyFiles, with aof-load-truncated: only the last file may be cut.
CanLoad(am) ==
    /\ Files(am) \subseteq DOMAIN dir.files
    /\ \A i \in DOMAIN Order(am) : Content(Order(am)[i]).torn => i = Len(Order(am))
Loaded(am) == FlattenSeq([i \in DOMAIN Order(am) |-> Content(Order(am)[i]).cmds])

\* aofLoadManifestFromFile: the numbers are those of the base and of the last
\* incremental file that are listed as such.
LoadManifest(am) ==
    [am EXCEPT !.base_seq = IF am.base = OldBase THEN 1 ELSE am.base.seq,
               !.incr_seq = IF am.incrs = <<>> THEN 0 ELSE Last(am.incrs).seq]

\* aofLoadManifestFromDisk and loadDataFromDisk
Load ==
    /\ pc.at = "down"
    /\ LET am == LoadManifest(dir.manifest)
       IN  IF UpgradeNeeded(am)
           THEN /\ server' = [server EXCEPT !.temp_am = [am EXCEPT !.base = OldBase, !.base_seq = 1]]
                /\ pc' = At("persist", "upgrade") /\ UNCHANGED <<inodes, data>>
           ELSE IF CanLoad(am)
           THEN /\ server' = [server EXCEPT !.am = am, !.state = "on"]
                /\ pc' = At("base", "")
                /\ data' = Loaded(am)
                /\ inodes' = IF Files(am) = {} THEN inodes
                             ELSE [inodes EXCEPT ![dir.files[Last(Order(am))]].torn = FALSE]
           ELSE pc' = At("dead", "") /\ UNCHANGED <<inodes, server, data>>
    /\ UNCHANGED <<acked, count>> /\ KeepDir

\* aofUpgradePrepare: the old file moves into the directory and is loaded, or exit.
UpgradeEnd ==
    /\ pc.then = "upgrade"
    /\ \/ pc.at = "ok" /\ SetDir(Rename(dir, Old, OldBase)) /\ UNCHANGED count
       \/ pc.at = "ok" /\ Fails("rename") /\ KeepDir
       \/ pc.at = "failed" /\ KeepDir /\ UNCHANGED count
    /\ Exit
    /\ UNCHANGED inodes

\* aofOpenIfNeededOnServerStart: a base if there is nothing, the last incremental
\* file, the manifest.
OpenBase ==
    /\ pc.at = "base" /\ pc' = At("incr", "")
    /\ IF Files(server.am) # {} THEN UNCHANGED <<inodes, server>> /\ KeepDir
       ELSE LET am == NewBase(server.am)
            IN  server' = [server EXCEPT !.am = am] /\ NewInode(data) /\ SetDir(Link(dir, am.base, Next_inode))
    /\ UNCHANGED count /\ KeepData

OpenIncr ==
    /\ pc.at = "incr"
    /\ LET am == IF server.am.incrs = <<>> THEN AddIncr(server.am) ELSE server.am
           name == Last(am.incrs)
           there == name \in DOMAIN dir.files
       IN  /\ server' = [server EXCEPT !.am = am, !.temp_am = am, !.fd = IF there THEN dir.files[name] ELSE Next_inode]
           /\ IF there THEN UNCHANGED inodes /\ KeepDir ELSE NewInode(<<>>) /\ SetDir(Link(dir, name, Next_inode))
           /\ pc' = IF Files(am) # Files(dir.manifest) THEN At("persist", "start") ELSE At("history", "")
    /\ UNCHANGED count /\ KeepData

StartEnd ==
    /\ pc.then = "start" /\ pc.at \in {"ok", "failed"}
    /\ IF pc.at = "ok" THEN pc' = At("history", "") /\ UNCHANGED server /\ KeepData ELSE Exit
    /\ UNCHANGED <<inodes, count>> /\ KeepDir

Next ==
    \/ ManifestRename \/ ManifestSync
    \/ Command \/ Flush \/ Background
    \/ RewriteStart \/ OpenEnd \/ RewriteDone \/ RenameBase \/ RenameIncr \/ DoneEnd \/ DelHistory \/ HistoryEnd
    \/ stopAppendOnly \/ startAppendOnly
    \/ ProcessCrash \/ MachineCrash \/ Load \/ UpgradeEnd \/ OpenBase \/ OpenIncr \/ StartEnd

Spec == Init /\ [][Next]_vars

-----------------------------------------------------------------------------
\* Files are where names say, and a running server writes to the last
\* incremental file of its manifest.
TypeOK ==
    /\ dir \in dirs /\ server.fd \in {NoFd} \cup DOMAIN inodes
    /\ \A d \in dirs : \A n \in DOMAIN d.files : d.files[n] \in DOMAIN inodes
    /\ server.state = "on" /\ Idle => server.am.incrs # <<>> /\ server.fd = dir.files[Last(server.am.incrs)]

\* Whatever stops when, the next start succeeds: the manifest names no file that is
\* missing, and none but the last is cut (loadAppendOnlyFiles exits otherwise).
Restartable == pc.at # "dead"

\* A server that runs has every command it replied to, in their order, whatever
\* stopped in between: rewrites and the start lose none, apply none twice.
AckedThere == Idle /\ server.state = "on" => IsPrefix(acked, data)

=============================================================================
