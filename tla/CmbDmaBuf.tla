----------------------------- MODULE CmbDmaBuf -----------------------------
(***************************************************************************)
(* Processes that use controller memory through CmbExport.  A process of   *)
(* Nics is a server: its contexts register the dma-buf with the network    *)
(* adapter (register_write_buf) and their destructor undoes it.  The other *)
(* processes are the programs of cpuaccess, with one context each, which   *)
(* attach through /dev/importer: one set of global variables for them all. *)
(***************************************************************************)
EXTENDS CmbExport

CONSTANTS
    Procs, Nics,
    Owner,      \* context: its process
    Crashing,   \* a process may be killed
    Removing    \* the device may be removed

ASSUME UsersAssumption ==
    /\ Nics \subseteq Procs /\ Owner \in [Ctxs -> Procs]
    /\ Crashing \in BOOLEAN /\ Removing \in BOOLEAN

Null == "NULL"
Err == "ERR_PTR"

VARIABLES
    fd,         \* process: object of its dmabuf_fd
    dying,      \* processes that end
    st,         \* context: place
    vma, pte, mr,    \* context: mapping, the pages in it, the pages of the adapter
    gbuf, gatt, gtab, gdev    \* importer.c: dmabuf, attachment, table, dev

userVars == <<fd, dying, st, vma, pte, mr>>
impVars  == <<gbuf, gatt, gtab, gdev>>
vars == <<exportVars, userVars, impVars>>

IsNic(c) == Owner[c] \in Nics
Of(p) == {c \in Ctxs : Owner[c] = p}
Dying(c) == Owner[c] \in dying
Go(c, from, to) == st[c] = from /\ st' = [st EXCEPT ![c] = to]
Idle(c) == xpc' = [xpc EXCEPT ![c] = "idle"] /\ arg' = [arg EXCEPT ![c] = NoObj]

-----------------------------------------------------------------------------
(* Processes                                                               *)

\* mapcmb
MapCmbFd(p) ==
    /\ fd[p] = NoObj /\ p \notin dying
    /\ \E o \in Objs : AllocUserCmb(o) /\ fd' = [fd EXCEPT ![p] = o]
    /\ UNCHANGED <<poolVars, callVars, oops, dying, st, vma, pte, mr, impVars>>

MapCmbFdFails(p) ==
    /\ fd[p] = NoObj /\ p \notin dying /\ AllocUserCmbFails
    /\ UNCHANGED <<poolVars, refVars, callVars, userVars, impVars>>

\* Its end, by itself or not; calls under way are completed.
End(p) ==
    /\ fd[p] # NoObj /\ p \notin dying
    /\ ~Crashing => \A c \in Of(p) : st[c] = "start"
    /\ dying' = dying \cup {p}
    /\ UNCHANGED <<exportVars, fd, st, vma, pte, mr, impVars>>

CloseFd(p) ==
    /\ p \in dying /\ \A c \in Of(p) : st[c] = "start"
    /\ Put(fd[p], 0)
    /\ fd' = [fd EXCEPT ![p] = NoObj] /\ dying' = dying \ {p}
    /\ UNCHANGED <<poolVars, callVars, oops, st, vma, pte, mr, impVars>>

Remove == Removing /\ ReleaseCmb /\ UNCHANGED <<userVars, impVars>>
Queue == (AllocSq \/ FreeQueue) /\ UNCHANGED <<userVars, impVars>>

-----------------------------------------------------------------------------
(* Attaching: ibv_reg_dmabuf_mr and importer_attach_cmb                    *)

\* dma_buf_get.  A server registers from Listen alone, one context at a time.
BufGet(c) ==
    /\ fd[Owner[c]] # NoObj /\ ~Dying(c) /\ Go(c, "start", "attach")
    /\ \A d \in Of(Owner[c]) : st[d] \notin {"attach", "attaching"}
    /\ Get(fd[Owner[c]], 0)
    /\ gbuf' = IF IsNic(c) THEN gbuf ELSE fd[Owner[c]]
    /\ gdev' = (IF IsNic(c) THEN gdev ELSE TRUE)
    /\ UNCHANGED <<poolVars, callVars, oops, fd, dying, vma, pte, mr, gatt, gtab>>

BufAttach(c) ==
    LET o == IF IsNic(c) THEN fd[Owner[c]] ELSE gbuf IN
    /\ o \in Objs /\ Go(c, "attach", "attaching")
    /\ Attach(c, o) \/ AttachNoMem(c, o)
    /\ UNCHANGED <<poolVars, refVars, oops, fd, dying, vma, pte, mr, impVars>>

\* Another process has put the buffer meanwhile.
BufAttachNull(c) ==
    /\ st[c] = "attach" /\ ~IsNic(c) /\ gbuf = Null
    /\ oops' = "importer"
    /\ UNCHANGED <<poolVars, refVars, callVars, userVars, impVars>>

\* nvme_cmb_map_attach failed: the reference is dropped, and a program exits.
BufAttachFailed(c) ==
    /\ Go(c, "attaching", "start") /\ xpc[c] = "enomem"
    /\ Idle(c)
    /\ IF IsNic(c)
       THEN Put(arg[c], 0) /\ UNCHANGED <<impVars, dying>>
       ELSE /\ IF gbuf \in Objs THEN Put(gbuf, 0) ELSE UNCHANGED refVars
            /\ gatt' = Err /\ gdev' = FALSE /\ gbuf' = Null /\ UNCHANGED gtab
            /\ dying' = dying \cup {Owner[c]}
    /\ UNCHANGED <<poolVars, oops, attachments, addr, tmp, met, fd, vma, pte, mr>>

\* nvme_cmb_map_dma_buf: the address the adapter will use.
BufMap(c) ==
    /\ Go(c, "attaching", "registered") /\ xpc[c] = "attached"
    /\ mr' = [mr EXCEPT ![c] = addr[arg[c]]]
    /\ IF IsNic(c) THEN UNCHANGED <<gatt, gtab>> ELSE gatt' = arg[c] /\ gtab' = arg[c]
    /\ UNCHANGED <<exportVars, fd, dying, vma, pte, gbuf, gdev>>

\* sg_alloc_table fails: detach at once.
BufMapFails(c) ==
    /\ Failing /\ Go(c, "attaching", "undo") /\ xpc[c] = "attached"
    /\ Detach(c, arg[c])
    /\ IF IsNic(c) THEN UNCHANGED <<gatt, gtab>> ELSE gatt' = arg[c] /\ gtab' = Err
    /\ UNCHANGED <<poolVars, refVars, oops, fd, dying, vma, pte, mr, gbuf, gdev>>

-----------------------------------------------------------------------------
(* Mapping                                                                 *)

Mmap(c) ==
    /\ ~Dying(c) /\ Go(c, "registered", "run")
    /\ Get(fd[Owner[c]], 1)
    /\ vma' = [vma EXCEPT ![c] = TRUE]
    /\ UNCHANGED <<poolVars, callVars, oops, fd, dying, pte, mr, impVars>>

\* nvme_cmb_fault: all pages at the first access; a signal when there are none.
Fault(c) ==
    LET r == addr[fd[Owner[c]]] IN
    /\ st[c] = "run" /\ vma[c] /\ pte[c] = NoRegion /\ ~Dying(c)
    /\ pte' = [pte EXCEPT ![c] = r]
    /\ dying' = IF r = NoRegion THEN dying \cup {Owner[c]} ELSE dying
    /\ UNCHANGED <<exportVars, fd, st, vma, mr, impVars>>

\* The destructor of a server's context unmaps last, the programs and the end of
\* a process unmap first.
Munmap(c) ==
    /\ vma[c]
    /\ \/ IsNic(c) /\ Go(c, "unmap", "start")
       \/ ~IsNic(c) /\ Go(c, "run", "detach")
       \/ IsNic(c) /\ Dying(c) /\ Go(c, "run", "registered")
    /\ Put(fd[Owner[c]], 1)
    /\ vma' = [vma EXCEPT ![c] = FALSE] /\ pte' = [pte EXCEPT ![c] = NoRegion]
    /\ UNCHANGED <<poolVars, callVars, oops, fd, dying, mr, impVars>>

-----------------------------------------------------------------------------
(* Detaching: ibv_dereg_mr and importer_detach_cmb                         *)

\* The end of a process deregisters one context after the other, once the calls of
\* its threads are over.
Dereg(c) ==
    /\ IsNic(c)
    /\ Dying(c) => \A d \in Of(Owner[c]) \ {c} : st[d] \notin {"attach", "attaching", "undo"}
    /\ Go(c, IF Dying(c) THEN "registered" ELSE "run", "undo")
    /\ Detach(c, fd[Owner[c]]) /\ mr' = [mr EXCEPT ![c] = NoRegion]
    /\ UNCHANGED <<poolVars, refVars, oops, fd, dying, vma, pte, impVars>>

\* Of whatever the globals hold; the descriptor is not looked at.
ImporterDetach(c) ==
    /\ ~IsNic(c) /\ ~Dying(c) /\ st[c] = "detach"
    /\ mr' = [mr EXCEPT ![c] = NoRegion]
    /\ \/ /\ gtab = Null
          /\ Go(c, "detach", "start") /\ Idle(c) /\ dying' = dying \cup {Owner[c]}
          /\ UNCHANGED <<attachments, addr, tmp, met, oops, gtab>>
       \/ /\ gtab # Null /\ gatt \in Objs
          /\ Go(c, "detach", "undo") /\ Detach(c, gatt)
          /\ gtab' = Null /\ UNCHANGED <<dying, oops>>
       \/ /\ gtab # Null /\ gatt \notin Objs
          /\ oops' = "importer" /\ UNCHANGED <<callVars, dying, gtab, st>>
    /\ UNCHANGED <<poolVars, refVars, fd, vma, pte, gbuf, gatt, gdev>>

\* The rest of either, and of a failed attach.
Detached(c) ==
    /\ Go(c, "undo", IF vma[c] THEN "unmap" ELSE "start") /\ xpc[c] = "detached"
    /\ Idle(c)
    /\ IF IsNic(c)
       THEN Put(arg[c], 0) /\ UNCHANGED <<impVars, oops, dying>>
       ELSE /\ IF gbuf \in Objs THEN Put(gbuf, 0) ELSE UNCHANGED refVars
            /\ oops' = IF gdev THEN oops ELSE "importer"
            /\ gatt' = Null /\ gdev' = FALSE /\ gbuf' = Null /\ UNCHANGED gtab
            /\ dying' = dying \cup {Owner[c]}
    /\ UNCHANGED <<poolVars, attachments, addr, tmp, met, fd, vma, pte, mr>>

\* A program that is killed detaches nothing: the importer has no release.
Abandon(c) ==
    /\ ~IsNic(c) /\ Dying(c) /\ st[c] \in {"registered", "detach"}
    /\ st' = [st EXCEPT ![c] = "start"] /\ mr' = [mr EXCEPT ![c] = NoRegion]
    /\ Idle(c)
    /\ UNCHANGED <<poolVars, refVars, oops, attachments, addr, tmp, met, fd, dying, vma, pte, impVars>>

-----------------------------------------------------------------------------
Init ==
    /\ ExportInit
    /\ fd = [p \in Procs |-> NoObj] /\ dying = {}
    /\ st = [c \in Ctxs |-> "start"] /\ vma = [c \in Ctxs |-> FALSE]
    /\ pte = [c \in Ctxs |-> NoRegion] /\ mr = [c \in Ctxs |-> NoRegion]
    /\ gbuf = Null /\ gatt = Null /\ gtab = Null /\ gdev = FALSE

Kernel(c) ==
    \/ (CallStep(c) \/ CallOnFreed(c)) /\ UNCHANGED <<userVars, impVars>>
    \/ BufAttach(c) \/ BufAttachNull(c) \/ BufAttachFailed(c)
    \/ BufMap(c) \/ BufMapFails(c) \/ Detached(c)

User(c) == BufGet(c) \/ Mmap(c) \/ Fault(c) \/ Munmap(c) \/ Dereg(c) \/ ImporterDetach(c)

Next ==
    /\ oops = "none"
    /\ \/ \E c \in Ctxs : Kernel(c) \/ User(c) \/ Abandon(c)
       \/ \E p \in Procs : MapCmbFd(p) \/ MapCmbFdFails(p) \/ End(p) \/ CloseFd(p)
       \/ Queue \/ Remove

Spec == Init /\ [][Next]_vars

\* The kernel completes the calls of a process and the clean-up at its end.
Fairness ==
    /\ \A c \in Ctxs : /\ WF_vars(oops = "none" /\ Kernel(c))
                       /\ WF_vars(oops = "none" /\ Dying(c) /\ (Munmap(c) \/ Dereg(c)))
    /\ \A p \in Procs : WF_vars(oops = "none" /\ CloseFd(p))
FairSpec == Spec /\ Fairness

-----------------------------------------------------------------------------
Mappings(o) == Cardinality({c \in Ctxs : vma[c] /\ fd[Owner[c]] = o})

\* The contexts of servers that have the buffer from dma_buf_get, the importer,
\* and the open descriptors.
Holders(o) ==
    Cardinality({c \in Ctxs : IsNic(c) /\ fd[Owner[c]] = o /\ st[c] \notin {"start", "unmap"}})
    + (IF gbuf = o THEN 1 ELSE 0) + Cardinality({p \in Procs : fd[p] = o})

\* A region is the object's between its allocation and nvme_free_cmb.
Owns(o) == addr[o] # NoRegion /\ \A c \in Ctxs : xpc[c] = "clear" => arg[c] # o

\* Type correctness.
TypeOK ==
    /\ cmb_pool \in {"NULL", "live", "destroyed"} /\ used \subseteq Regions
    /\ sq_cmds \in Regions \cup {NoRegion, Host}
    /\ life \in [Objs -> {"unused", "live", "freed"}]
    /\ refcount \in [Objs -> 0 .. 1 + Cardinality(Ctxs)]
    /\ f_count \in [Objs -> Int] /\ \A o \in Objs : f_count[o] >= -1
    /\ attachments \in [Objs -> 0 .. Cardinality(Ctxs)]
    /\ addr \in [Objs -> Regions \cup {NoRegion}]
    /\ fd \in [Procs -> Objs \cup {NoObj}] /\ dying \subseteq Procs
    /\ vma \in [Ctxs -> BOOLEAN] /\ pte \in [Ctxs -> Regions \cup {NoRegion}]
    /\ mr \in [Ctxs -> Regions \cup {NoRegion}]
    /\ gbuf \in Objs \cup {Null} /\ gatt \in Objs \cup {Null, Err}
    /\ gtab \in Objs \cup {Null, Err} /\ gdev \in BOOLEAN

\* Every region in use has one owner, the submission queue or an object with an
\* attachment; no region is lost and none has two owners.
RegionOwned ==
    /\ used = {addr[o] : o \in {x \in Objs : Owns(x)}} \cup ({sq_cmds} \cap Regions)
    /\ \A o \in Objs : Owns(o) => /\ addr[o] # sq_cmds
                                  /\ \A x \in Objs \ {o} : Owns(x) => addr[x] # addr[o]
    /\ \A o \in Objs : (\A c \in Ctxs : InCall(c) => arg[c] # o) =>
                         (attachments[o] > 0) = (addr[o] # NoRegion)

\* What a context in use has mapped, and what the adapter writes to, are the pages
\* of its own object: they are never given back, or to another, behind its back.
MappingValid ==
    \A c \in Ctxs :
        /\ st[c] = "run" /\ pte[c] # NoRegion =>
              pte[c] \in used /\ pte[c] = addr[fd[Owner[c]]]
        /\ IsNic(c) /\ mr[c] # NoRegion => mr[c] \in used /\ mr[c] = addr[fd[Owner[c]]]

\* An object outlives its mappings, and the buffer every one who has it.
RefsMatch ==
    \A o \in Objs : life[o] = "live" =>
        /\ refcount[o] = 1 + Mappings(o)
        /\ f_count[o] >= Holders(o) + Mappings(o)

=============================================================================
