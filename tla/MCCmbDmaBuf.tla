---------------------------- MODULE MCCmbDmaBuf ----------------------------
(***************************************************************************)
(* CmbDmaBuf for TLC.  conf says which of three instances a behaviour is   *)
(* about: a server beside a program of cpuaccess (the constants of the     *)
(* configuration file), two such programs, and a server with two contexts  *)
(* whose calls do not fail.  A behaviour is followed up to the first time  *)
(* that the calls of two contexts meet on an object.                       *)
(***************************************************************************)
EXTENDS CmbDmaBuf

CONSTANTS a, b, o1, o2, r1, r2

VARIABLE conf

OneTool == [c \in {a, "t"} |-> IF c = "t" THEN "tool" ELSE "server"]

Tools == INSTANCE CmbDmaBuf WITH
    Ctxs <- {a, b}, Procs <- {"tool", "other tool"}, Nics <- {},
    Owner <- [c \in {a, b} |-> IF c = a THEN "tool" ELSE "other tool"],
    Crashing <- FALSE, Removing <- FALSE

Ends == INSTANCE CmbDmaBuf WITH
    Ctxs <- {a, b}, Objs <- {o1}, Procs <- {"server"}, Nics <- {"server"},
    Owner <- [c \in {a, b} |-> "server"], Failing <- FALSE, Removing <- FALSE

\* No two calls of attach and detach have met on an object.
Apart == met = {}

MCInit ==
    \/ conf = "both" /\ Init
    \/ conf = "tools" /\ Tools!Init
    \/ conf = "server" /\ Ends!Init

MCNext ==
    /\ UNCHANGED conf /\ Apart
    /\ \/ conf = "both" /\ Next
       \/ conf = "tools" /\ Tools!Next
       \/ conf = "server" /\ Ends!Next

mcVars == <<conf, vars>>

\* The fairness of FairSpec, for the server: the kernel completes what it began.
MCSpec ==
    /\ MCInit /\ [][MCNext]_mcVars
    /\ \A c \in {a, b} :
        /\ WF_mcVars(conf = "server" /\ Apart /\ oops = "none" /\ Ends!Kernel(c) /\ UNCHANGED conf)
        /\ WF_mcVars(/\ conf = "server" /\ Apart /\ oops = "none" /\ Ends!Dying(c)
                     /\ Ends!Munmap(c) \/ Ends!Dereg(c)
                     /\ UNCHANGED conf)
    /\ WF_mcVars(conf = "server" /\ Apart /\ oops = "none" /\ Ends!CloseFd("server") /\ UNCHANGED conf)

\* Every region in use has one owner, the submission queue or an object with an
\* attachment; no region is lost and none has two owners, as long as attach and
\* detach of two contexts have not met: nothing keeps them apart, and what they
\* read and then write is one counter and one address.
MCRegionOwned ==
    Apart => /\ conf = "both" => TypeOK /\ RegionOwned
             /\ conf = "tools" => Tools!RegionOwned
             /\ conf = "server" => Ends!RegionOwned

\* What a context of a server has mapped, and what the adapter writes to, are the
\* pages of its own object, and what it holds is counted in the references to it,
\* as long as no calls have met.  Two tools break it: they share the importer.
MCMappingValid ==
    Apart => /\ conf = "both" => MappingValid /\ RefsMatch
             /\ conf = "server" => Ends!MappingValid /\ Ends!RefsMatch

\* nvme_cmb_object_release finds no attachment and no memory, unless two tools
\* share the importer or calls have met.
MCReleaseClean ==
    [][\A o \in DOMAIN life : conf # "tools" /\ life[o] = "live" /\ life'[o] = "freed" =>
          attachments[o] = 0 /\ addr[o] = NoRegion]_mcVars

\* A server that ends, also in the middle of something, gives back its memory,
\* unless the calls of two of its contexts have met.
MCMemoryReturned ==
    (conf = "server" /\ "server" \in dying /\ fd["server"] = o1)
        ~> (conf = "server" /\ (~Apart \/ (life[o1] = "freed" /\ addr[o1] = NoRegion)))
=============================================================================
