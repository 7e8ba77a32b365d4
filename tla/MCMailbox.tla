----------------------------- MODULE MCMailbox -----------------------------
(***************************************************************************)
(* Mailbox for TLC: the pmem frontend with one client, whose ring comes    *)
(* round, and with two; the sync frontend over a database that syncs.      *)
(***************************************************************************)
EXTENDS Mailbox

CONSTANT Loner   \* the client that calls when one does

VARIABLE frontend

PmemFrontend == INSTANCE Mailbox WITH MaxCalls <- 2, MaxPuts <- 2
SyncFrontend ==
    INSTANCE Mailbox WITH Pmem <- FALSE, Synced <- TRUE, Failing <- FALSE, Lens <- {1},
                          MaxCalls <- 3, MaxPuts <- 2

MCInit ==
    \/ frontend = "ring" /\ Init
    \/ frontend = "pmem" /\ PmemFrontend!Init
    \/ frontend = "sync" /\ SyncFrontend!Init

MCStep(c) ==
    \/ frontend = "ring" /\ Step(c)
    \/ frontend = "pmem" /\ PmemFrontend!Step(c)
    \/ frontend = "sync" /\ SyncFrontend!Step(c)

MCNext ==
    /\ \/ frontend = "ring" /\ Next /\ \A c \in Clients \ {Loner} : cpc'[c] = "idle"
       \/ frontend = "pmem" /\ PmemFrontend!Next
       \/ frontend = "sync" /\ SyncFrontend!Next
    /\ UNCHANGED frontend

\* Spinning threads are scheduled and posted writes are placed.
MCSpec ==
    /\ MCInit /\ [][MCNext]_<<frontend, vars>>
    /\ \A c \in Clients : WF_<<frontend, vars>>(MCStep(c) /\ UNCHANGED frontend)

=============================================================================
