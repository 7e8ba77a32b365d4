----------------------------- MODULE RemotePath -----------------------------
(***************************************************************************)
(* The four remote persistence paths of logdirect/remotepath: one client   *)
(* writes records to one server.  On the direct paths, 1 (RDMA_PMR) and 2  *)
(* (RDMA_PMEM), the record is written into persistent memory and the server *)
(* only waits for the end.  On the others, 3 (RDMA_SSD) and 4 (RDMA_PMR0), *)
(* it is written into memory, and the server makes it persistent and       *)
(* answers.  A record is a number, in as many parts as its write has       *)
(* packets.  What survives a loss of power is `stored'.                    *)
(***************************************************************************)
EXTENDS Naturals, Sequences

CONSTANTS
    Paths,      \* the paths in use, of 1 .. 4
    Packets,    \* path -> packets of a write: gLength / path_mtu, rounded up
    Cached,     \* direct paths on which the network card writes to the processor's cache
    MaxWrites   \* bound: records

ASSUME PathAssumption ==
    /\ Paths \subseteq 1 .. 4 /\ Packets \in [Paths -> Nat \ {0}]
    /\ Cached \subseteq Paths \cap {1, 2} /\ MaxWrites \in Nat

VARIABLES
    path,
    cpc, sent, returned, cheader,   \* client: place, records written, returned, header word
    wire,       \* packets on their way to the server
    reply,      \* SERVER_FLAG is on its way to the client
    spc, header, buf,   \* server: place, header word and record in its buffer
    staged,     \* record that was written but not yet flushed
    stored      \* records that are persistent: a file, or the one place

clientVars == <<cpc, sent, returned, cheader>>
serverVars == <<spc, staged>>
vars == <<path, clientVars, wire, reply, spc, header, buf, staged, stored>>

END_FLAG    == "END"
SERVER_FLAG == "SERVER"
CLIENT_FLAG == "CLIENT"
Zero        == "ZERO"
NoWord      == "NOTHING"   \* a packet without the header word

Direct == path \in {1, 2}
Parts  == 1 .. Packets[path]
Whole(v) == [i \in Parts |-> v]

\* A copy that was made while its packets arrived: each part but the first is of
\* record v or of the one before.
Copied(s, v) == s[1] = v /\ \A i \in Parts : s[i] = v \/ s[i] + 1 = v

-----------------------------------------------------------------------------
(* Client                                                                  *)

\* The packets of a record, of which the first begins with the header word,
\* unless the record is placed behind the word.
Message(word, v) ==
    [i \in Parts |-> [word |-> IF i = 1 /\ ~Direct THEN word ELSE NoWord, part |-> i, val |-> v]]

\* The word alone.
EndPacket == [word |-> END_FLAG, part |-> 0, val |-> 0]

\* A direct record is copied behind the word, the others over it.
Write ==
    /\ cpc = "idle" /\ sent < MaxWrites
    /\ sent' = sent + 1
    /\ wire' = Message(CLIENT_FLAG, sent + 1)
    /\ cheader' = IF Direct THEN cheader ELSE CLIENT_FLAG
    /\ cpc' = "posted"
    /\ UNCHANGED <<path, returned, reply, spc, header, buf, staged, stored>>

\* poll_one_completion.  A direct write is then done.
Complete ==
    /\ cpc = "posted" /\ wire = <<>>
    /\ IF Direct THEN cpc' = "idle" /\ returned' = sent
                 ELSE cpc' = "wait" /\ UNCHANGED returned
    /\ UNCHANGED <<path, sent, cheader, wire, reply, spc, header, buf, staged, stored>>

\* Mutant: a write returns with its completion.
ReturnAtOnce ==
    /\ cpc = "wait"
    /\ cpc' = "idle" /\ returned' = sent
    /\ UNCHANGED <<path, sent, cheader, wire, reply, spc, header, buf, staged, stored>>

Return ==
    /\ cpc = "wait" /\ cheader = SERVER_FLAG
    /\ cpc' = "idle" /\ returned' = sent
    /\ UNCHANGED <<path, sent, cheader, wire, reply, spc, header, buf, staged, stored>>

\* On the direct paths only the word is written, otherwise the whole buffer.
Close ==
    /\ cpc = "idle"
    /\ wire' = IF Direct THEN <<EndPacket>> ELSE Message(END_FLAG, sent)
    /\ cheader' = END_FLAG
    /\ cpc' = "closing"
    /\ UNCHANGED <<path, sent, returned, reply, spc, header, buf, staged, stored>>

Closed ==
    /\ cpc = "closing" /\ wire = <<>>
    /\ cpc' = "closed"
    /\ UNCHANGED <<path, sent, returned, cheader, wire, reply, spc, header, buf, staged, stored>>

-----------------------------------------------------------------------------
(* Network                                                                 *)

\* A packet is placed.  On the direct paths the buffer is persistent, unless
\* the processor's cache holds what was written.
Deliver ==
    LET p == Head(wire)
        b == IF p.part \in Parts THEN [buf EXCEPT ![p.part] = p.val] ELSE buf
    IN
    /\ wire # <<>>
    /\ wire' = Tail(wire)
    /\ buf' = b
    /\ header' = IF p.word # NoWord THEN p.word ELSE header
    /\ stored' = IF Direct /\ path \notin Cached THEN <<b>> ELSE stored
    /\ UNCHANGED <<path, clientVars, reply, serverVars>>

\* The cache writes its lines back, in its own time.
Evict ==
    /\ path \in Cached /\ stored # <<buf>>
    /\ stored' = <<buf>>
    /\ UNCHANGED <<path, clientVars, wire, reply, spc, header, buf, staged>>

DeliverReply ==
    /\ reply
    /\ reply' = FALSE /\ cheader' = SERVER_FLAG
    /\ UNCHANGED <<path, cpc, sent, returned, wire, spc, header, buf, staged, stored>>

-----------------------------------------------------------------------------
(* Server                                                                  *)

\* Run clears the word on the direct paths, when the client is connected.
Start ==
    /\ spc = "start"
    /\ header' = IF Direct THEN Zero ELSE header
    /\ spc' = "poll"
    /\ UNCHANGED <<path, clientVars, wire, reply, buf, staged, stored>>

Finish ==
    /\ spc = "poll" /\ header = END_FLAG
    /\ spc' = "done"
    /\ UNCHANGED <<path, clientVars, wire, reply, header, buf, staged, stored>>

\* Mutant: any word but zero is taken for a request.
TakeAnyWord ==
    /\ spc = "poll" /\ ~Direct /\ header # Zero
    /\ staged' = buf
    /\ spc' = "flush"
    /\ UNCHANGED <<path, clientVars, wire, reply, header, buf, stored>>

\* write to the file, or memcpy to the controller's memory.  The word is in the
\* first packet: the others may arrive while their bytes are copied.
Take ==
    /\ spc = "poll" /\ ~Direct /\ header = CLIENT_FLAG
    /\ staged' \in [Parts -> 0 .. sent]
    /\ \A i \in Parts : \/ staged'[i] = buf[i]
                        \/ \E j \in DOMAIN wire : wire[j].part = i /\ wire[j].val = staged'[i]
    /\ spc' = "flush"
    /\ UNCHANGED <<path, clientVars, wire, reply, header, buf, stored>>

\* fdatasync, or clflush: the file grows, the controller's memory is one place.
Flush ==
    /\ spc = "flush"
    /\ stored' = IF path = 3 THEN Append(stored, staged) ELSE <<staged>>
    /\ spc' = "reply"
    /\ UNCHANGED <<path, clientVars, wire, reply, header, buf, staged>>

\* Mutant: the word is changed in the server's buffer only.
ReplyNotPosted ==
    /\ spc = "reply"
    /\ header' = SERVER_FLAG /\ spc' = "sent"
    /\ UNCHANGED <<path, clientVars, wire, reply, buf, staged, stored>>

Reply ==
    /\ spc = "reply"
    /\ header' = SERVER_FLAG /\ reply' = TRUE
    /\ spc' = "sent"
    /\ UNCHANGED <<path, clientVars, wire, buf, staged, stored>>

Replied ==
    /\ spc = "sent" /\ ~reply
    /\ spc' = "poll"
    /\ UNCHANGED <<path, clientVars, wire, reply, header, buf, staged, stored>>

-----------------------------------------------------------------------------
\* Memory of the server's process is new; persistent memory has the word that an
\* earlier client left.
Init ==
    /\ path \in Paths
    /\ cpc = "idle" /\ sent = 0 /\ returned = 0 /\ cheader = Zero
    /\ wire = <<>> /\ reply = FALSE
    /\ spc = "start" /\ header \in (IF Direct THEN {Zero, END_FLAG} ELSE {Zero}) /\ buf = Whole(0)
    /\ staged = Whole(0)
    /\ stored = IF path = 3 THEN <<>> ELSE <<Whole(0)>>

Client == Write \/ Complete \/ Return \/ Close \/ Closed
Network == Deliver \/ Evict \/ DeliverReply
Server == Start \/ Finish \/ Take \/ Flush \/ Reply \/ Replied
Next == Client \/ Network \/ Server

Spec == Init /\ [][Next]_vars

\* The threads run, and what was posted is delivered; the client need not write.
Fairness ==
    /\ WF_vars(Complete \/ Return \/ Closed) /\ WF_vars(Server)
    /\ WF_vars(Deliver) /\ WF_vars(DeliverReply)
FairSpec == Spec /\ Fairness

-----------------------------------------------------------------------------
\* Type correctness of both ends and the network.
TypeOK ==
    /\ path \in Paths
    /\ cpc \in {"idle", "posted", "wait", "closing", "closed"}
    /\ sent \in 0 .. MaxWrites /\ returned \in 0 .. MaxWrites
    /\ cheader \in {Zero, CLIENT_FLAG, SERVER_FLAG, END_FLAG}
    /\ wire \in Seq([word : {NoWord, CLIENT_FLAG, END_FLAG}, part : Nat, val : 0 .. MaxWrites])
    /\ reply \in BOOLEAN
    /\ spc \in {"start", "poll", "flush", "reply", "sent", "done"}
    /\ header \in {Zero, CLIENT_FLAG, SERVER_FLAG, END_FLAG}
    /\ buf \in [Parts -> 0 .. MaxWrites] /\ staged \in [Parts -> 0 .. MaxWrites]
    /\ stored \in Seq([Parts -> 0 .. MaxWrites])

\* The file keeps all records; elsewhere the next Write uses the same place.
Persistent(v) ==
    IF path = 3 THEN v \in DOMAIN stored /\ Copied(stored[v], v)
    ELSE /\ Len(stored) = 1
         /\ IF Direct THEN stored[1] = Whole(v) ELSE Copied(stored[1], v)

\* A record whose Write returned is in the server's memory, whole, and unless the
\* processor's cache holds it (nothing in the code writes it back) persistent.
\* On a served path what is persistent is the copy the server made: whole when a
\* write is one packet, and else with the end of the record before wherever
\* copying was ahead of the network.
AckedPersistent ==
    \A v \in 1 .. returned :
        /\ path = 3 \/ (v = sent /\ path \notin Cached) => Persistent(v)
        /\ v = sent => buf = Whole(v)

\* The file has one record for each Write that returned, and at most one more, of
\* the Write in progress: no step serves a Write twice.
FileInOrder == path = 3 => /\ Len(stored) \in {returned, returned + 1}
                           /\ Len(stored) <= sent

\* The server stays until the client closes, whatever an earlier client left in
\* the word.
ServerStays == spc = "done" => cpc \in {"closing", "closed"}

\* The first n records are persistent: all of them in the file, or the last in
\* its place.
Kept(n) ==
    IF path = 3 THEN Len(stored) = n /\ \A v \in 1 .. n : Copied(stored[v], v)
                ELSE Len(stored) = 1 /\ Copied(stored[1], n)

\* On a direct path the place holds the packets that have arrived, in order, of
\* the record in progress, and the server never touches it.
DirectPhase ==
    /\ spc \in {"start", "poll", "done"} /\ cpc # "wait"
    /\ path \notin Cached => stored = <<buf>>
    /\ (spc = "done" \/ (spc = "poll" /\ header = END_FLAG)) => cpc \in {"closing", "closed"}
    /\ IF cpc = "posted"
       THEN /\ sent = returned + 1
            /\ \E k \in 0 .. Packets[path] :
                /\ Len(wire) = Packets[path] - k
                /\ \A i \in 1 .. Len(wire) : wire[i] = [word |-> NoWord, part |-> k + i, val |-> sent]
                /\ \A j \in 1 .. k : buf[j] = sent
       ELSE /\ sent = returned /\ buf = Whole(sent)
            /\ (wire = <<>> \/ (cpc = "closing" /\ wire = <<EndPacket>>))

Awaiting == cpc \in {"posted", "wait"}

\* All but the first k packets of a message are on their way.
Rest(word, k) ==
    /\ Len(wire) = Packets[path] - k
    /\ \A i \in 1 .. Len(wire) :
          wire[i] = [word |-> IF k + i = 1 THEN word ELSE NoWord, part |-> k + i, val |-> sent]

\* The first k parts of the record in progress are in the buffer, before the end
\* of the one that was there.
Arrived(k) == \A i \in Parts : buf[i] = IF i <= k THEN sent ELSE returned

\* From its first packet on a record may be copied, persistent, or answered, and
\* the two header words say which.
Progress(k) ==
    \/ /\ k = 0 /\ header \in {Zero, SERVER_FLAG} /\ ~reply /\ cheader = CLIENT_FLAG
       /\ spc \in {"start", "poll", "sent"} /\ Kept(returned)
    \/ /\ k > 0 /\ header = CLIENT_FLAG /\ ~reply /\ cheader = CLIENT_FLAG
       /\ \/ spc \in {"start", "poll", "sent"} /\ Kept(returned)
          \/ spc = "flush" /\ Copied(staged, sent) /\ Kept(returned)
          \/ spc = "reply" /\ Kept(sent)
    \/ /\ k > 0 /\ header = SERVER_FLAG /\ Kept(sent)
       /\ \/ spc = "sent" /\ reply /\ cheader = CLIENT_FLAG
          \/ spc \in {"sent", "poll"} /\ ~reply /\ cheader = SERVER_FLAG

\* What a served path holds while a Write is in progress, and else.
ServedPhase ==
    IF Awaiting
    THEN /\ sent = returned + 1
         /\ \E k \in 0 .. Packets[path] :
            /\ Rest(CLIENT_FLAG, k) /\ Arrived(k) /\ Progress(k)
            /\ cpc = "wait" => k = Packets[path]
    ELSE /\ sent = returned /\ buf = Whole(sent) /\ Kept(sent) /\ ~reply /\ header # CLIENT_FLAG
         /\ spc \in {"start", "poll", "sent", "done"}
         /\ wire = <<>> \/ (cpc = "closing" /\ \E k \in 0 .. Packets[path] : Rest(END_FLAG, k))
         /\ spc = "done" => cpc \in {"closing", "closed"}
         /\ header = END_FLAG => cpc \in {"closing", "closed"}

\* At each moment of a Write the client's word, the packets, the server's word and
\* its buffer fit together: none is served before it arrived, or served twice.
PhaseInv == IF Direct THEN DirectPhase ELSE ServedPhase

\* Every Write returns.
WriteReturns == cpc \in {"posted", "wait"} ~> cpc = "idle"

\* After Close the server ends: with the flag on its way it will see it, unless
\* Run of a direct path has yet to begin and clears the word (path.h:79).
ServerEnds == cpc = "closing" /\ wire # <<>> /\ (Direct => spc # "start") ~> spc = "done"

=============================================================================
