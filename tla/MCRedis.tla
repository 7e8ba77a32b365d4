------------------------------ MODULE MCRedis ------------------------------
(***************************************************************************)
(* The append only file of Redis for TLC: RedisAof and RedisManifest, each *)
(* in the configurations below.  conf is the one a behaviour is about; the *)
(* two specifications share no state, and the variables of the other one   *)
(* stay None.                                                              *)
(***************************************************************************)
EXTENDS Integers

VARIABLES
    conf,
    server,                                         \* of either specification
    replied, rewrites, switches,                    \* RedisAof's
    inodes, dir, dirs, pc, data, acked, count       \* RedisManifest's

aofVars == <<replied, rewrites, switches>>
fileVars == <<inodes, dir, dirs, pc, data, acked, count>>
vars == <<conf, server, aofVars, fileVars>>

None == "none"

-----------------------------------------------------------------------------
(* RedisAof: with errors under both policies, rewrites, and switches       *)

Calls == {"write", "ftruncate", "fsync"}
Starts == {"open", "fork"}
Always   == INSTANCE RedisAof WITH aof_fsync <- "always", aof_no_fsync_on_rewrite <- FALSE,
                appendonly <- TRUE, Failing <- Calls \cup Starts, MaxCommands <- 3, MaxRewrites <- 2, MaxSwitches <- 0
Rewrites == INSTANCE RedisAof WITH aof_fsync <- "everysec", aof_no_fsync_on_rewrite <- FALSE,
                appendonly <- TRUE, Failing <- Starts, MaxCommands <- 3, MaxRewrites <- 2, MaxSwitches <- 0
Switches == INSTANCE RedisAof WITH aof_fsync <- "everysec", aof_no_fsync_on_rewrite <- FALSE,
                appendonly <- TRUE, Failing <- Starts, MaxCommands <- 2, MaxRewrites <- 2, MaxSwitches <- 2
Errors   == INSTANCE RedisAof WITH aof_fsync <- "everysec", aof_no_fsync_on_rewrite <- FALSE,
                appendonly <- TRUE, Failing <- Calls, MaxCommands <- 3, MaxRewrites <- 0, MaxSwitches <- 0

AofInit ==
    /\ inodes = None /\ dir = None /\ dirs = None /\ pc = None
    /\ data = None /\ acked = None /\ count = None
    /\ conf \in {"always", "rewrites", "switches", "errors"}
    /\ Always!Init

AofNext ==
    \/ conf = "always" /\ Always!Next
    \/ conf = "rewrites" /\ Rewrites!Next
    \/ conf = "switches" /\ Switches!Next
    \/ conf = "errors" /\ Errors!Next

-----------------------------------------------------------------------------
(* RedisManifest: crashes of process and machine under always, and with    *)
(* switches; several crashes of the process under everysec; an upgrade     *)

Stops == INSTANCE RedisManifest WITH aof_fsync <- "always", Upgrade <- FALSE, Machine <- TRUE,
              Failing <- {"manifest", "rename", "fork", "child"},
              MaxCommands <- 2, MaxRewrites <- 2, MaxSwitches <- 0, MaxCrashes <- 1, MaxFailures <- 1
Switched == INSTANCE RedisManifest WITH aof_fsync <- "always", Upgrade <- FALSE, Machine <- TRUE,
              Failing <- {"manifest", "rename", "child"},
              MaxCommands <- 2, MaxRewrites <- 1, MaxSwitches <- 2, MaxCrashes <- 1, MaxFailures <- 1
Process == INSTANCE RedisManifest WITH aof_fsync <- "everysec", Upgrade <- FALSE, Machine <- FALSE,
              Failing <- {"manifest", "rename", "fork", "child"},
              MaxCommands <- 2, MaxRewrites <- 2, MaxSwitches <- 0, MaxCrashes <- 2, MaxFailures <- 1
OldVersion == INSTANCE RedisManifest WITH aof_fsync <- "always", Upgrade <- TRUE, Machine <- FALSE,
              Failing <- {"manifest", "dirsync", "rename"},
              MaxCommands <- 3, MaxRewrites <- 0, MaxSwitches <- 0, MaxCrashes <- 2, MaxFailures <- 2

FilesInit ==
    /\ replied = None /\ rewrites = None /\ switches = None
    /\ \/ conf \in {"machine", "switched", "process"} /\ Stops!Init
       \/ conf = "upgrade" /\ OldVersion!Init

FilesNext ==
    \/ conf = "machine" /\ Stops!Next
    \/ conf = "switched" /\ Switched!Next
    \/ conf = "process" /\ Process!Next
    \/ conf = "upgrade" /\ OldVersion!Next

-----------------------------------------------------------------------------
Init == AofInit \/ FilesInit
Next ==
    /\ UNCHANGED conf
    /\ \/ AofNext /\ UNCHANGED fileVars
       \/ FilesNext /\ UNCHANGED aofVars
Spec == Init /\ [][Next]_vars

\* The files and the buffer have the commands executed, each once and in order,
\* whatever rewrites, switches and errors of the file have done to them.
Rebuilds ==
    /\ conf = "always" => Always!Rebuilds
    /\ conf = "rewrites" => Rewrites!TypeOK /\ Rewrites!Rebuilds
    /\ conf = "switches" => Switches!TypeOK /\ Switches!Rebuilds
    /\ conf = "errors" => Errors!TypeOK /\ Errors!Rebuilds

\* What WAITAOF answers is true: everything up to fsynced_reploff is on disk.
FsyncedTrue == conf \in {"always", "rewrites", "switches", "errors"} => Rewrites!FsyncedTrue

\* With appendfsync always, a command whose reply was sent is on disk.
RepliedDurable == conf = "always" => Always!TypeOK /\ Always!RepliedDurable

\* Whatever stops when, the next start succeeds: the manifest names no file that
\* is missing, and none but the last is cut (loadAppendOnlyFiles).  Not claimed of
\* several crashes of the process: a name of the history may be used again.
Restartable ==
    /\ conf = "machine" => Stops!TypeOK /\ Stops!Restartable
    /\ conf = "switched" => Switched!Restartable
    /\ conf = "upgrade" => OldVersion!Restartable

\* A server that runs has every command it replied to, in their order, whatever
\* stopped in between.
AckedThere ==
    /\ conf = "machine" => Stops!AckedThere
    /\ conf = "switched" => Switched!AckedThere
    /\ conf = "process" => Process!AckedThere
    /\ conf = "upgrade" => OldVersion!AckedThere
=============================================================================
