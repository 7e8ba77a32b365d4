--------------------------- MODULE MCConnections ---------------------------
(***************************************************************************)
(* Connections of a server for TLC: Connect, which sets them up, and       *)
(* HybridServer, whose clerks then share an index and the controller       *)
(* memory, each in the configurations below.  conf is the one a behaviour  *)
(* is about; the two specifications share no state, and the variables of   *)
(* the other one stay None.                                                *)
(***************************************************************************)
EXTENDS Integers

CONSTANTS c1, c2, c3, c4

VARIABLES
    conf,
    lpc, pc,                                                     \* of either specification
    backlog, cur, clerks, inbox, remote, qp, cpc, wire, tries, request,  \* Connect's
    lconn, lslot, lbits, bitmap, ring, cbits, count, batch, mem, im_index, db, key, idx, result,
    raced, recs, last, seen                                             \* HybridServer's

setupVars == <<backlog, cur, clerks, inbox, remote, qp, cpc, wire, tries, request>>
serverVars == <<lconn, lslot, lbits, bitmap, ring, cbits, count, batch, mem, im_index, db, key,
                idx, result, raced, recs, last, seen>>
vars == <<conf, lpc, pc, setupVars, serverVars>>

None == "none"

-----------------------------------------------------------------------------
(* Connect: with clients that end, calls that fail and writes that are     *)
(* given up; and with none of them                                         *)

Clients == {c1, c2}
Faulty == INSTANCE Connect WITH retry_cnt <- 2, Prompt <- FALSE, Dying <- TRUE, Failing <- TRUE
Quiet  == INSTANCE Connect WITH retry_cnt <- 7, Prompt <- TRUE, Dying <- FALSE, Failing <- FALSE

SetupInit ==
    /\ lconn = None /\ lslot = None /\ lbits = None /\ bitmap = None /\ ring = None
    /\ cbits = None /\ count = None /\ batch = None /\ mem = None /\ im_index = None /\ db = None
    /\ key = None /\ idx = None /\ result = None /\ recs = None /\ last = None /\ seen = None
    /\ raced = None /\ conf \in {"faulty", "quiet"}
    /\ Quiet!Init

SetupNext ==
    \/ conf = "faulty" /\ Faulty!Next
    \/ conf = "quiet" /\ Quiet!Next

-----------------------------------------------------------------------------
(* HybridServer: two clients, whose rings go round, with a key of one and  *)
(* one of both; four that come and go, with two slots for them             *)

Shared == INSTANCE HybridServer WITH Conns <- {c1, c2}, Keys <- {"k1", "k2"},
              KeysOf <- [c \in {c1, c2} |-> IF c = c1 THEN {"k1", "k2"} ELSE {"k2"}],
              Cells <- 2, Batch <- 2, Slots <- 1, Bits <- 2, Closers <- {c1, c2}, MaxPuts <- 4
Slotted == INSTANCE HybridServer WITH Conns <- {c1, c2, c3, c4}, Keys <- {"k1"},
              KeysOf <- [c \in {c1, c2, c3, c4} |-> {}],
              Cells <- 1, Batch <- 1, Slots <- 2, Bits <- 3,
              Closers <- {c1, c2, c3, c4}, MaxPuts <- 0

ServerInit ==
    /\ backlog = None /\ cur = None /\ clerks = None /\ inbox = None /\ remote = None
    /\ qp = None /\ cpc = None /\ wire = None /\ tries = None /\ request = None
    /\ \/ conf = "shared" /\ Shared!Init
       \/ conf = "slots" /\ Slotted!Init

ServerNext ==
    \/ conf = "shared" /\ Shared!Next
    \/ conf = "slots" /\ Slotted!Next

-----------------------------------------------------------------------------
Init == SetupInit \/ ServerInit
Next ==
    /\ UNCHANGED conf
    /\ \/ SetupNext /\ UNCHANGED serverVars
       \/ ServerNext /\ UNCHANGED setupVars

\* Quiet!Fairness: threads run and the network delivers.
Spec ==
    /\ Init /\ [][Next]_vars
    /\ \A c \in Clients :
        /\ WF_vars(conf = "quiet" /\ Quiet!ClientStep(c) /\ UNCHANGED <<conf, serverVars>>)
        /\ WF_vars(conf = "quiet" /\ Quiet!Network(c) /\ UNCHANGED <<conf, serverVars>>)
        /\ WF_vars(conf = "quiet" /\ Quiet!Serve(c) /\ UNCHANGED <<conf, serverVars>>)
    /\ WF_vars(conf = "quiet" /\ Quiet!Listen /\ UNCHANGED <<conf, serverVars>>)

\* Every clerk is connected to the client whose socket it was given, and each end
\* of a connection that can carry data knows the other (default_connect).
EndsMatch ==
    /\ conf = "faulty" => Faulty!TypeOK /\ Faulty!EndsMatch
    /\ conf = "quiet" => Quiet!TypeOK /\ Quiet!EndsMatch

\* A client that connects has its first request served, also when it posts it
\* before the server's queue pair is ready (retry_cnt of the adapter).
FirstCallServed ==
    \A c \in Clients :
        (conf = "quiet" /\ cpc[c] = "connect") ~> (conf = "quiet" /\ cpc[c] = "served")

\* No two clients write to one ring, and bitmap_ has the bits of the slots in use
\* and no other, until a store to bitmap_ overwrites another one: choosing a slot,
\* setting its bit and clearing that of another may meet in every order.
RingsApart ==
    /\ conf = "shared" => Shared!TypeOK /\ Shared!RingsApart
    /\ conf = "slots" => Slotted!TypeOK /\ Slotted!RingsApart /\ Slotted!BitmapExact

\* An entry of im_index_ leads to the record for which it was made while the
\* connection of that record is open, and a GET returns a record of its key; for a
\* key with one writer one that the key had at some moment of the call, whether it
\* is in a ring, in the database, or on its way from one to the other.
GetCurrent == conf = "shared" => Shared!IndexLive /\ Shared!GetCurrent
=============================================================================
