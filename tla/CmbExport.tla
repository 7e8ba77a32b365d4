----------------------------- MODULE CmbExport -----------------------------
(***************************************************************************)
(* The patched NVMe driver: controller memory (CMB) in a pool, handed out  *)
(* to submission queues and, as dma-buf objects, to user space.  A region  *)
(* is what one allocation takes.  A context is a caller of the exporter:   *)
(* attach and detach run in steps, since neither the object nor its        *)
(* callers have a lock and the calls of two contexts can meet.             *)
(***************************************************************************)
EXTENDS Integers, FiniteSets

CONSTANTS
    Ctxs, Objs, Regions,
    Failing     \* allocations of kernel memory and descriptors may fail

ASSUME ExportAssumption == Failing \in BOOLEAN

NoRegion == "NULL"
NoObj == "no object"
Host == "host memory"

VARIABLES
    cmb_pool,   \* "NULL", "live", or "destroyed" with the pointer kept
    used,       \* regions the pool has given out
    sq_cmds,    \* where the commands of the submission queue are
    life, refcount, attachments, addr,   \* object: its fields
    f_count,    \* object: references to the file of its dma-buf
    xpc, arg, tmp,   \* context: step in attach or detach, object, attachments read
    met,        \* history: objects on which two of these calls have met
    oops        \* "none", or what the kernel stopped at

poolVars == <<cmb_pool, used, sq_cmds>>
refVars  == <<life, refcount, f_count>>
callVars == <<attachments, addr, xpc, arg, tmp, met>>
exportVars == <<poolVars, refVars, callVars, oops>>

-----------------------------------------------------------------------------
(* The pool and the queue                                                  *)

\* nvme_map_cmb: without the mapping or the pool cmb_pool stays NULL.
MapCmb == IF Failing THEN {"live", "NULL"} ELSE {"live"}

\* nvme_alloc_cmb: a result r, or NULL.
AllocCmb(r) ==
    IF cmb_pool = "NULL" \/ used = Regions THEN r = NoRegion ELSE r \in Regions \ used

\* nvme_alloc_sq_cmds: in the CMB when it has room, else in host memory.
AllocSq ==
    /\ sq_cmds = NoRegion /\ cmb_pool # "destroyed"
    /\ \E r \in Regions \cup {NoRegion} :
          /\ AllocCmb(r)
          /\ sq_cmds' = IF r = NoRegion THEN Host ELSE r
          /\ used' = used \cup ({r} \ {NoRegion})
    /\ UNCHANGED <<cmb_pool, refVars, callVars, oops>>

FreeQueue ==
    /\ sq_cmds # NoRegion
    /\ sq_cmds' = NoRegion /\ used' = used \ {sq_cmds}
    /\ UNCHANGED <<cmb_pool, refVars, callVars, oops>>

\* nvme_release_cmb, once the queues are gone: a pool that is missing or in use
\* stops the kernel in gen_pool_destroy; cmb_pool is kept.
ReleaseCmb ==
    /\ sq_cmds = NoRegion /\ cmb_pool # "destroyed"
    /\ IF cmb_pool = "NULL" \/ used # {}
       THEN oops' = "gen_pool_destroy" /\ UNCHANGED cmb_pool
       ELSE cmb_pool' = "destroyed" /\ UNCHANGED oops
    /\ UNCHANGED <<used, sq_cmds, refVars, callVars>>

-----------------------------------------------------------------------------
(* References                                                              *)

\* nvme_pci_alloc_user_cmb: an object, and the file descriptor of its buffer.
AllocUserCmb(o) ==
    /\ life[o] = "unused"
    /\ life' = [life EXCEPT ![o] = "live"]
    /\ refcount' = [refcount EXCEPT ![o] = 1] /\ f_count' = [f_count EXCEPT ![o] = 1]

\* When dma_buf_export or dma_buf_fd fails the object puts a buffer that does not
\* exist, or whose release then puts the object that has just been freed.
AllocUserCmbFails == Failing /\ oops' \in {"dma_buf_put", "freed object"}

\* dma_buf_get; with objectRef 1 it is nvme_cmb_dmabuf_mmap.
Get(o, objectRef) ==
    /\ f_count' = [f_count EXCEPT ![o] = @ + 1]
    /\ refcount' = [refcount EXCEPT ![o] = @ + objectRef]
    /\ UNCHANGED life

\* Mutant: the release of the buffer keeps the object.
PutKeeps(o, objectRef) ==
    /\ f_count' = [f_count EXCEPT ![o] = @ - 1]
    /\ refcount' = [refcount EXCEPT ![o] = @ - objectRef]
    /\ UNCHANGED life

\* dma_buf_put; with objectRef 1 it is nvme_cmb_vm_close and the end of the mapping.
\* The last reference to the buffer releases the object, whose release puts the
\* buffer once more.
Put(o, objectRef) ==
    LET last  == f_count[o] = 1
        freed == last /\ refcount[o] - objectRef = 1
    IN  /\ f_count' = [f_count EXCEPT ![o] = @ - (IF freed THEN 2 ELSE 1)]
        /\ refcount' = [refcount EXCEPT ![o] = @ - objectRef - (IF last THEN 1 ELSE 0)]
        /\ life' = [life EXCEPT ![o] = IF freed THEN "freed" ELSE @]

-----------------------------------------------------------------------------
(* nvme_cmb_map_attach and nvme_cmb_map_detach                             *)

Step(c, from, to) == xpc[c] = from /\ xpc' = [xpc EXCEPT ![c] = to]
InCall(c) == xpc[c] \in {"alloc", "load", "inc", "dec", "free", "clear"}
Enter(c, o) ==
    met' = IF \E d \in Ctxs \ {c} : InCall(d) /\ arg[d] = o THEN met \cup {o} ELSE met

Attach(c, o) ==
    /\ Step(c, "idle", IF attachments[o] = 0 THEN "alloc" ELSE "load")
    /\ Enter(c, o) /\ arg' = [arg EXCEPT ![c] = o]
    /\ UNCHANGED <<attachments, addr, tmp>>

\* No memory for the attachment.
AttachNoMem(c, o) ==
    /\ Failing /\ Step(c, "idle", "enomem") /\ arg' = [arg EXCEPT ![c] = o]
    /\ UNCHANGED <<attachments, addr, tmp, met>>

Alloc(c) ==
    /\ xpc[c] = "alloc"
    /\ IF cmb_pool = "destroyed"
       THEN oops' = "destroyed pool" /\ UNCHANGED <<used, callVars>>
       ELSE \E r \in Regions \cup {NoRegion} :
               /\ AllocCmb(r)
               /\ addr' = [addr EXCEPT ![arg[c]] = r]
               /\ used' = used \cup ({r} \ {NoRegion})
               /\ xpc' = [xpc EXCEPT ![c] = IF r = NoRegion THEN "enomem" ELSE "load"]
               /\ UNCHANGED <<attachments, arg, tmp, met, oops>>
    /\ UNCHANGED <<cmb_pool, sq_cmds, refVars>>

Load(c) ==
    /\ Step(c, "load", "inc") /\ tmp' = [tmp EXCEPT ![c] = attachments[arg[c]]]
    /\ UNCHANGED <<poolVars, refVars, oops, attachments, addr, arg, met>>

Inc(c) ==
    /\ Step(c, "inc", "attached")
    /\ attachments' = [attachments EXCEPT ![arg[c]] = tmp[c] + 1]
    /\ UNCHANGED <<poolVars, refVars, oops, addr, arg, tmp, met>>

Detach(c, o) ==
    /\ xpc' = [xpc EXCEPT ![c] = "dec"] /\ arg' = [arg EXCEPT ![c] = o]
    /\ Enter(c, o) /\ tmp' = [tmp EXCEPT ![c] = attachments[o]]
    /\ UNCHANGED <<attachments, addr>>

\* Mutant: the region is given back by every detach.
DecFrees(c) ==
    /\ Step(c, "dec", "free")
    /\ attachments' = [attachments EXCEPT ![arg[c]] = tmp[c] - 1]
    /\ UNCHANGED <<poolVars, refVars, oops, addr, arg, tmp, met>>

\* Mutant: the region is kept when the last attachment goes.
DecKeeps(c) ==
    /\ Step(c, "dec", "detached")
    /\ attachments' = [attachments EXCEPT ![arg[c]] = tmp[c] - 1]
    /\ UNCHANGED <<poolVars, refVars, oops, addr, arg, tmp, met>>

Dec(c) ==
    /\ Step(c, "dec", IF tmp[c] = 1 THEN "free" ELSE "detached")
    /\ attachments' = [attachments EXCEPT ![arg[c]] = tmp[c] - 1]
    /\ UNCHANGED <<poolVars, refVars, oops, addr, arg, tmp, met>>

\* nvme_free_cmb: to a pool that is there and gave the region out.
Free(c) ==
    /\ xpc[c] = "free"
    /\ IF cmb_pool = "destroyed"
       THEN oops' = "destroyed pool" /\ UNCHANGED <<used, xpc>>
       ELSE IF addr[arg[c]] \notin used
       THEN oops' = "gen_pool_free" /\ UNCHANGED <<used, xpc>>
       ELSE /\ used' = used \ {addr[arg[c]]}
            /\ xpc' = [xpc EXCEPT ![c] = "clear"] /\ UNCHANGED oops
    /\ UNCHANGED <<cmb_pool, sq_cmds, refVars, attachments, addr, arg, tmp, met>>

Clear(c) ==
    /\ Step(c, "clear", "detached") /\ addr' = [addr EXCEPT ![arg[c]] = NoRegion]
    /\ UNCHANGED <<poolVars, refVars, oops, attachments, arg, tmp, met>>

\* The steps inside a call; its start and its result are the importer's.
CallStep(c) ==
    /\ InCall(c) /\ life[arg[c]] = "live"
    /\ Alloc(c) \/ Load(c) \/ Inc(c) \/ Dec(c) \/ Free(c) \/ Clear(c)

\* The object was freed under the call.
CallOnFreed(c) ==
    /\ InCall(c) /\ life[arg[c]] = "freed" /\ oops' = "freed object"
    /\ UNCHANGED <<poolVars, refVars, callVars>>

ExportInit ==
    /\ cmb_pool \in MapCmb /\ used = {} /\ sq_cmds = NoRegion /\ oops = "none"
    /\ life = [o \in Objs |-> "unused"] /\ refcount = [o \in Objs |-> 0]
    /\ attachments = [o \in Objs |-> 0] /\ addr = [o \in Objs |-> NoRegion]
    /\ f_count = [o \in Objs |-> 0] /\ met = {}
    /\ xpc = [c \in Ctxs |-> "idle"] /\ arg = [c \in Ctxs |-> NoObj]
    /\ tmp = [c \in Ctxs |-> 0]

=============================================================================
