-------------------------- MODULE HybridRingProofs --------------------------
(***************************************************************************)
(* Proofs about HybridRing: client and clerk agree on every position of    *)
(* the ring, for any ring, batch and record sizes.                         *)
(***************************************************************************)
EXTENDS HybridRing, TLAPS

\* The provers, and their time, for a leaf that names none.
USE SMTT(60), ZenonT(60), SMTT(90)

USE DEF CLIENT_DONE, CLERK_DONE, None, clientVars, netVars, clerkVars, storeVars,
        persistVars, histVars

-----------------------------------------------------------------------------
(* Messages and sequences                                                  *)

\* Short tuples as the queues of posted writes hold them.
LEMMA Tuples ==
    ASSUME NEW a, NEW b, NEW c
    PROVE  /\ Head(<<a>>) = a /\ Tail(<<a>>) = <<>> /\ <<a>> # <<>>
           /\ Head(<<a, b>>) = a /\ Tail(<<a, b>>) = <<b>> /\ <<a, b>> # <<>>
           /\ Head(<<a, b, c>>) = a /\ Tail(<<a, b, c>>) = <<b, c>> /\ <<a, b, c>> # <<>>
           /\ <<>> \o <<a, b>> = <<a, b>> /\ <<>> \o <<a, b, c>> = <<a, b, c>>
OBVIOUS

\* The kinds of the writes posted to the clerk, and their fields.
LEMMA Kinds ==
    /\ Hdr.kind = "header" /\ SendMsg.kind = "send"
    /\ \A op, k, len, id :
        LET m == Meta(op, k, len, id) IN
        m.kind = "meta" /\ m.op = op /\ m.key = k /\ m.len = len /\ m.id = id
    /\ \A pos, len, id :
        LET m == Record(pos, len, id) IN
        m.kind = "record" /\ m.pos = pos /\ m.len = len /\ m.id = id
BY DEF Hdr, SendMsg, Meta, Record

\* The writes posted to the client, and their fields.
LEMMA ToClientFacts ==
    /\ Hdr \in ToClient
    /\ \A rep \in Replies \cup Requests : Reply(rep) \in ToClient /\ Reply(rep).kind = "reply"
    /\ \A t \in Nat : TailWord(t) \in ToClient /\ TailWord(t).kind = "tail"
    /\ \A m \in ToClient :
        /\ m.kind \in {"reply", "header", "tail"}
        /\ m.kind = "reply" => m.rep \in Replies \cup Requests
        /\ m.kind = "tail" => m.tail \in Nat
<1>1. \A rep \in Replies \cup Requests : Reply(rep) \in ToClient /\ Reply(rep).kind = "reply"
    BY DEF Reply, ToClient
<1>2. \A t \in Nat : TailWord(t) \in ToClient /\ TailWord(t).kind = "tail"
    BY DEF TailWord, ToClient
<1>3. ASSUME NEW m \in ToClient
      PROVE  /\ m.kind \in {"reply", "header", "tail"}
             /\ m.kind = "reply" => m.rep \in Replies \cup Requests
             /\ m.kind = "tail" => m.tail \in Nat
    BY DEF ToClient, Hdr
<1> QED
    BY <1>1, <1>2, <1>3 DEF ToClient

\* Constants have their types; requests and replies are told apart by nothing
\* the proof needs.
LEMMA ConstantTypes ==
    /\ Ok \in Replies /\ NoAnswer \in Replies
    /\ NoPend \in [key : Keys \cup {NoKey}, len : Nat]
    /\ NoEntry \in [pos : Nat, len : Nat] /\ NoEntry.pos = 0
    /\ \A op \in Simple \cup {"PUT", "NOP", "CLOSE"}, k \in Keys \cup {NoKey},
          len \in Nat, id \in Nat : Meta(op, k, len, id) \in Requests
BY DEF Ok, NoAnswer, NoPend, NoEntry, Meta, Replies, Requests

\* What the proof uses of the constants.
LEMMA RingFacts ==
    /\ MAX_ASYNC_SIZE \in Nat /\ BATCH_SIZE \in Nat /\ BATCH_SIZE >= 1
    /\ RING_HEADER \in Nat /\ RING_HEADER >= 1 /\ RING_HEADER < MAX_ASYNC_SIZE
    /\ \A s \in Sizes : s \in Nat /\ s >= 1 /\ RING_HEADER + s < MAX_ASYNC_SIZE
    /\ Cells = 0 .. (MAX_ASYNC_SIZE - 1) /\ 0 \in Cells
BY RingAssumption DEF Cells

\* A sequence without its head.
LEMMA TailFacts ==
    ASSUME NEW S, NEW q \in Seq(S), q # <<>>
    PROVE  /\ Tail(q) \in Seq(S) /\ Len(q) >= 1 /\ Len(Tail(q)) = Len(q) - 1
           /\ Head(q) = q[1] /\ q[1] \in S
           /\ \A i \in 1 .. (Len(q) - 1) : Tail(q)[i] = q[i + 1]
OBVIOUS

\* A clerk's reply appended to what the client has still to receive.
LEMMA ReplyFacts ==
    ASSUME NEW S, NEW q \in Seq(S), NEW a \in S, NEW b \in S
    PROVE  /\ Len(q) \in Nat /\ q \o <<a, b>> \in Seq(S) /\ Len(q \o <<a, b>>) = Len(q) + 2
           /\ (q \o <<a, b>>)[Len(q) + 1] = a /\ (q \o <<a, b>>)[Len(q) + 2] = b
           /\ \A i \in 1 .. Len(q) : (q \o <<a, b>>)[i] = q[i]
OBVIOUS

\* An element of a sequence.
LEMMA ElementFacts ==
    ASSUME NEW S, NEW q \in Seq(S), NEW i \in 1 .. Len(q)
    PROVE  q[i] \in S
OBVIOUS

\* One more element at the end of a sequence.
LEMMA AppendFacts ==
    ASSUME NEW S, NEW q \in Seq(S), NEW a \in S
    PROVE  /\ Len(q) \in Nat /\ Append(q, a) \in Seq(S) /\ Len(Append(q, a)) = Len(q) + 1
           /\ Append(q, a)[Len(q) + 1] = a
           /\ \A i \in 1 .. Len(q) : Append(q, a)[i] = q[i] /\ q[i] \in S
OBVIOUS

-----------------------------------------------------------------------------
(* The phases of a call                                                    *)

\* What client and clerk each know of the phase: a client between two calls
\* finds the connection at rest; CLERK_DONE in its header word is the answer to
\* its own call; a clerk that wakes up finds the posted request, whole.
LEMMA Phases ==
    ASSUME HandshakeInv
    PROVE  /\ cpc \in {"idle", "space", "rewind"} => AtRest
           /\ cpc \in Simple \cup {"nop", "write"} /\ header = CLERK_DONE => Answered
           /\ kpc \in {"persist", "reply"} => Handled
           /\ kpc = "spin" /\ kheader = CLIENT_DONE /\ cpc # "closed" => Arrived
           /\ kpc \in {"closing", "recv", "gone"} => cpc = "closed" /\ Closing
           /\ cpc = "closed" => Closing
BY DEF HandshakeInv, AtRest, Sent, Arrived, Handled, Replied, Answered, Closing, Calling, Simple

\* The batch and the index do not change while the clerk's state stays.
LEMMA BatchFrame ==
    ASSUME BatchInv, UNCHANGED <<batch, batch_length, ktail, ring, im_index>>
    PROVE  BatchInv'
BY DEF BatchInv

\* The places of the records do not change while no record is posted.
LEMMA RecordsFrame ==
    ASSUME RecordsInRing, UNCHANGED recs
    PROVE  RecordsInRing'
BY DEF RecordsInRing

-----------------------------------------------------------------------------
(* The client's steps                                                      *)

\* StartWrite: the call begins, or waits for room, at the agreed position.
LEMMA StartWriteInv ==
    ASSUME RingInv, NEW k \in Keys, NEW len \in Sizes, StartWrite(k, len)
    PROVE  RingInv'
<1>1. TypeOK /\ HandshakeInv /\ PositionInv /\ BatchInv /\ RecordsInRing
    BY DEF RingInv
<1>2. AtRest /\ cpc = "idle"
    BY <1>1, Phases DEF StartWrite
<1>3. TypeOK'
    <2>1. /\ cpc' \in Simple \cup {"idle", "space", "nop", "rewind", "write", "closed"}
          /\ pend' \in [key : Keys \cup {NoKey}, len : Nat]
        BY RingFacts DEF StartWrite
    <2>2. /\ buf_head' = buf_head /\ buf_tail' = buf_tail /\ header' = header /\ answer' = answer
          /\ toClient' = toClient /\ cq' = cq /\ kpc' = kpc /\ kheader' = kheader
          /\ message' = message /\ ktail' = ktail /\ batch_length' = batch_length /\ batch' = batch
          /\ ring' = ring /\ im_index' = im_index /\ db' = db /\ threads' = threads
          /\ mu' = mu /\ log' = log /\ synced' = synced /\ recs' = recs
          /\ last' = last
        BY DEF StartWrite
    <2>3. TypeOK
        BY <1>1
    <2> QED  BY ONLY <2>1, <2>2, <2>3, ZenonT(60) DEF TypeOK
<1>4. HandshakeInv'
    <2>1. CASE PastEnd(len)
        <3>1. toClerk' = << Meta("NOP", NoKey, 0, None), Hdr >> /\ cpc' = "nop"
            BY <1>2, <2>1, Tuples DEF StartWrite, AtRest
        <3>2. Sent'
            BY <1>2, <3>1 DEF StartWrite, AtRest, Sent, Calling, Posted, NoHeader
        <3> QED  BY <3>2 DEF HandshakeInv
    <2>2. CASE ~PastEnd(len)
        <3>1. AtRest'
            BY <1>2, <2>2 DEF StartWrite, AtRest, NoHeader
        <3> QED  BY <3>1 DEF HandshakeInv
    <2> QED  BY <2>1, <2>2
<1>5. PositionInv'
    <2>1. pend'.key = k /\ pend'.len = len /\ len \in Nat
        BY RingFacts DEF StartWrite
    <2>2. UNCHANGED <<buf_head, ktail, batch_length, kheader>> /\ kheader = CLERK_DONE /\ toClerk = <<>>
        BY <1>2 DEF StartWrite, AtRest
    <2>3. CASE PastEnd(len)
        <3>1. toClerk' # <<>> /\ cpc' = "nop"
            BY <2>2, <2>3, Tuples DEF StartWrite
        <3> QED  BY <1>1, <1>2, <2>1, <2>2, <3>1 DEF PositionInv, Untaken, Simple
    <2>4. CASE ~PastEnd(len)
        <3>1. toClerk' = <<>> /\ cpc' = "space" /\ buf_head + len < MAX_ASYNC_SIZE
            BY <1>1, <2>2, <2>4, <2>1, RingFacts DEF StartWrite, PastEnd, TypeOK
        <3> QED  BY <1>1, <1>2, <2>1, <2>2, <3>1 DEF PositionInv, Untaken, Simple
    <2> QED  BY <2>3, <2>4
<1>6. BatchInv' /\ RecordsInRing'
    BY <1>1, BatchFrame, RecordsFrame DEF StartWrite
<1> QED
    BY <1>3, <1>4, <1>5, <1>6 DEF RingInv

\* PostWrite at the position that both sides agree on: the record lies in the
\* ring and the clerk will compute its place.
LEMMA PostWriteInv ==
    ASSUME RingInv, cpc \in {"space", "rewind"},
           NEW pos \in Nat, pos >= RING_HEADER, pos + pend.len < MAX_ASYNC_SIZE,
           pos = ktail + batch_length, PostWrite(pos),
           UNCHANGED <<pend, buf_tail, header, answer, toClient, cq,
                       clerkVars, storeVars, persistVars, last>>
    PROVE  RingInv'
<1>1. TypeOK /\ HandshakeInv /\ PositionInv /\ BatchInv /\ RecordsInRing
    BY DEF RingInv
<1>2. AtRest /\ pend.key \in Keys /\ pend.len \in Nat /\ pend.len \in Sizes /\ pend.len >= 1
    BY <1>1, Phases, RingFacts DEF PositionInv, TypeOK
<1> DEFINE r == [key |-> pend.key, len |-> pend.len, pos |-> pos]
<1>3. /\ r \in [key : Keys, len : Nat, pos : Nat]
      /\ r.pos = pos /\ r.len = pend.len /\ recs' = Append(recs, r)
    BY <1>2 DEF PostWrite
<1>4. /\ recs' \in Seq([key : Keys, len : Nat, pos : Nat])
      /\ Len(recs') = Len(recs) + 1 /\ recs'[Len(recs) + 1] = r
      /\ \A i \in 1 .. Len(recs) : recs'[i] = recs[i]
      /\ Len(recs) \in Nat
    <2> HIDE DEF r
    <2>1. recs \in Seq([key : Keys, len : Nat, pos : Nat])
        BY <1>1 DEF TypeOK
    <2> QED  BY <1>3, <2>1, AppendFacts
<1>5. cpc' = "write" /\ buf_head' = pos + pend.len /\ buf_head' \in Nat /\ buf_head' - pend.len = pos
    BY <1>2 DEF PostWrite
<1>6. TypeOK'
    <2>1. /\ cpc' \in Simple \cup {"idle", "space", "nop", "rewind", "write", "closed"}
          /\ buf_head' \in Nat
          /\ recs' \in Seq([key : Keys, len : Nat, pos : Nat])
        BY <1>4, <1>5
    <2>2. /\ pend' = pend /\ buf_tail' = buf_tail /\ header' = header /\ answer' = answer
          /\ toClient' = toClient /\ cq' = cq /\ kpc' = kpc /\ kheader' = kheader
          /\ message' = message /\ ktail' = ktail /\ batch_length' = batch_length /\ batch' = batch
          /\ ring' = ring /\ im_index' = im_index /\ db' = db /\ threads' = threads
          /\ mu' = mu /\ log' = log /\ synced' = synced /\ last' = last
        OBVIOUS
    <2>3. TypeOK
        BY <1>1
    <2> QED  BY ONLY <2>1, <2>2, <2>3, ZenonT(60) DEF TypeOK
<1>7. toClerk' = << Posted', PostedRecord', Hdr >> /\ toClerk' # <<>>
    <2>1. toClerk' = << Meta("PUT", pend.key, pend.len, Len(recs) + 1),
                        Record(pos, pend.len, Len(recs) + 1), Hdr >>
        BY <1>2, Tuples DEF PostWrite, AtRest
    <2>2. Posted' = Meta("PUT", pend.key, pend.len, Len(recs) + 1)
        BY <1>4, <1>5 DEF Posted
    <2>3. PostedRecord' = Record(pos, pend.len, Len(recs) + 1)
        BY <1>4, <1>5 DEF PostedRecord
    <2> QED  BY <2>1, <2>2, <2>3, Tuples
<1>8. HandshakeInv'
    <2>1. Sent'
        BY <1>2, <1>5, <1>7 DEF Sent, Calling, AtRest, NoHeader
    <2> QED  BY <2>1 DEF HandshakeInv
<1>9. PositionInv'
    <2>1. Untaken'
        BY <1>7 DEF Untaken
    <2> QED  BY <1>1, <1>2, <1>5, <2>1, RingFacts DEF PositionInv, Simple
<1>10. RecordsInRing'
    BY <1>1, <1>3, <1>4, <1>5 DEF RecordsInRing
<1>11. BatchInv'
    BY <1>1, BatchFrame
<1> QED
    BY <1>6, <1>8, <1>9, <1>10, <1>11 DEF RingInv

\* Both waits of SendWrite end in a write at the agreed position.
LEMMA WriteInv ==
    ASSUME RingInv, WriteInPlace \/ RewindAndWrite
    PROVE  RingInv'
<1>1. TypeOK /\ PositionInv
    BY DEF RingInv
<1>2. CASE WriteInPlace
    <2>1. cpc = "space" /\ buf_head \in Nat /\ RING_HEADER <= buf_head
          /\ buf_head + pend.len < MAX_ASYNC_SIZE /\ buf_head = ktail + batch_length
        BY <1>1, <1>2 DEF WriteInPlace, PositionInv, TypeOK
    <2> QED  BY <1>2, <2>1, RingFacts, PostWriteInv DEF WriteInPlace
<1>3. CASE RewindAndWrite
    <2>1. cpc = "rewind" /\ ktail = RING_HEADER /\ batch_length = 0 /\ pend.len \in Sizes
        BY <1>1, <1>3 DEF RewindAndWrite, PositionInv
    <2> QED  BY <1>3, <2>1, RingFacts, PostWriteInv DEF RewindAndWrite
<1> QED
    BY <1>2, <1>3

\* The waits for CLERK_DONE: the header word is reset and the connection at rest.
LEMMA AckedInv ==
    ASSUME RingInv, NopAcked \/ WriteAcked \/ SimpleAcked
    PROVE  RingInv'
<1>1. TypeOK /\ HandshakeInv /\ PositionInv /\ BatchInv /\ RecordsInRing
    BY DEF RingInv
<1>2. Answered
    BY <1>1, Phases DEF NopAcked, WriteAcked, SimpleAcked
<1>3. /\ cpc \in Simple \cup {"nop", "write"} /\ header' = CLIENT_DONE
      /\ cpc' = IF cpc = "nop" THEN "rewind" ELSE "idle"
      /\ pend' = IF cpc = "nop" THEN pend ELSE NoPend
      /\ UNCHANGED <<buf_head, buf_tail, netVars, clerkVars, storeVars, persistVars, recs>>
    BY DEF NopAcked, WriteAcked, SimpleAcked, Simple
<1>4. last' \in [Keys -> Int] /\ answer' = NoAnswer
    <2>1. last \in [Keys -> Int] /\ Len(recs) \in Int
        BY <1>1 DEF TypeOK
    <2> QED  BY <2>1 DEF NopAcked, WriteAcked, SimpleAcked, Unknown
<1>5. TypeOK'
    <2>1. /\ cpc' \in Simple \cup {"idle", "space", "nop", "rewind", "write", "closed"}
          /\ pend' \in [key : Keys \cup {NoKey}, len : Nat]
          /\ header' \in {CLIENT_DONE, CLERK_DONE}
        BY <1>1, <1>3, ConstantTypes DEF TypeOK
    <2>2. /\ answer' \in Replies \cup Requests
          /\ last' \in [Keys -> Int]
        BY <1>4, ConstantTypes
    <2>3. /\ buf_head' = buf_head /\ buf_tail' = buf_tail /\ toClient' = toClient /\ cq' = cq
          /\ kpc' = kpc /\ kheader' = kheader /\ message' = message /\ ktail' = ktail
          /\ batch_length' = batch_length /\ batch' = batch /\ ring' = ring /\ im_index' = im_index
          /\ db' = db /\ threads' = threads /\ mu' = mu /\ log' = log
          /\ synced' = synced /\ recs' = recs
        BY <1>3
    <2>4. TypeOK
        BY <1>1
    <2> QED  BY ONLY <2>1, <2>2, <2>3, <2>4, ZenonT(60) DEF TypeOK
<1>6. AtRest'
    BY <1>2, <1>3 DEF AtRest, Answered, NoHeader
<1>7. PositionInv'
    <2>1. ~Untaken /\ ~Untaken'
        BY <1>2, <1>3 DEF Answered, Untaken
    <2>2. CASE cpc = "nop"
        <3>1. cpc' = "rewind" /\ pend' = pend
            BY <1>3, <2>2
        <3> QED  BY <1>1, <1>3, <2>1, <2>2, <3>1 DEF PositionInv, Simple
    <2>3. CASE cpc # "nop"
        <3>1. cpc' = "idle" /\ cpc \in Simple \cup {"write"}
            BY <1>3, <2>3
        <3> QED  BY <1>1, <1>3, <2>1, <3>1 DEF PositionInv, Simple
    <2> QED  BY <2>2, <2>3
<1>8. BatchInv' /\ RecordsInRing'
    BY <1>1, <1>3, BatchFrame, RecordsFrame
<1> QED
    BY <1>5, <1>6, <1>7, <1>8 DEF RingInv, HandshakeInv

\* SendGet, SendDelete and SendSync move no position.
LEMMA SendSimpleInv ==
    ASSUME RingInv, NEW op \in Simple, NEW k \in Keys \cup {NoKey},
           op # "SYNC" => k \in Keys, SendSimple(op, k)
    PROVE  RingInv'
<1>1. TypeOK /\ HandshakeInv /\ PositionInv /\ BatchInv /\ RecordsInRing
    BY DEF RingInv
<1>2. AtRest /\ cpc = "idle"
    BY <1>1, Phases DEF SendSimple
<1>3. TypeOK'
    BY <1>1 DEF SendSimple, TypeOK
<1>4. pend'.key = k /\ cpc' = op
    BY DEF SendSimple
<1>5. toClerk' = << Meta(op, k, 0, None), Hdr >> /\ toClerk' # <<>>
    BY <1>2, Tuples DEF SendSimple, AtRest
<1>6. Sent'
    <2>1. Posted' = Meta(op, k, 0, None) /\ cpc' # "write"
        BY <1>4 DEF Posted, Simple
    <2> QED  BY <1>2, <1>4, <1>5, <2>1 DEF SendSimple, Sent, Calling, AtRest, NoHeader
<1>7. PositionInv'
    BY <1>1, <1>2, <1>4 DEF PositionInv, SendSimple, Simple
<1>8. BatchInv' /\ RecordsInRing'
    BY <1>1, BatchFrame, RecordsFrame DEF SendSimple
<1> QED
    BY <1>3, <1>6, <1>7, <1>8 DEF RingInv, HandshakeInv

\* SendClose ends the client's calls.
LEMMA SendCloseInv ==
    ASSUME RingInv, SendClose
    PROVE  RingInv'
<1>1. TypeOK /\ HandshakeInv /\ PositionInv /\ BatchInv /\ RecordsInRing
    BY DEF RingInv
<1>2. AtRest /\ cpc = "idle"
    BY <1>1, Phases DEF SendClose
<1>3. TypeOK'
    BY <1>1 DEF SendClose, TypeOK
<1>4. Closing'
    <2>1. toClerk' = << Meta("CLOSE", NoKey, 0, None), Hdr, SendMsg >>
        BY <1>2, Tuples DEF SendClose, AtRest
    <2> QED  BY <1>2, <2>1 DEF SendClose, Closing, AtRest
<1>5. PositionInv'
    BY <1>1, <1>2 DEF PositionInv, SendClose, Simple
<1>6. BatchInv' /\ RecordsInRing'
    BY <1>1, BatchFrame, RecordsFrame DEF SendClose
<1> QED
    BY <1>3, <1>4, <1>5, <1>6 DEF RingInv, HandshakeInv

-----------------------------------------------------------------------------
(* The connection                                                          *)

\* A write placed at the client: only CLERK_DONE ends a phase.
LEMMA PlaceAtClientInv ==
    ASSUME RingInv, PlaceAtClient
    PROVE  RingInv'
<1>1. TypeOK /\ HandshakeInv /\ PositionInv /\ BatchInv /\ RecordsInRing
    BY DEF RingInv
<1> DEFINE m == Head(toClient)
<1>2. /\ toClient \in Seq(ToClient) /\ toClient # <<>> /\ toClient' = Tail(toClient)
      /\ UNCHANGED <<cpc, pend, buf_head, toClerk, clerkVars, storeVars, persistVars, histVars>>
      /\ header' = IF m.kind = "header" THEN CLERK_DONE ELSE header
    BY <1>1 DEF PlaceAtClient, TypeOK
<1>3. /\ Tail(toClient) \in Seq(ToClient) /\ Len(toClient) >= 1
      /\ Len(Tail(toClient)) = Len(toClient) - 1
      /\ Head(toClient) = toClient[1] /\ toClient[1] \in ToClient
      /\ \A i \in 1 .. (Len(toClient) - 1) : Tail(toClient)[i] = toClient[i + 1]
      /\ Len(toClient) \in Nat
    BY <1>2, TailFacts
<1>4. TypeOK'
    <2>1. /\ m.kind = "reply" => m.rep \in Replies \cup Requests
          /\ m.kind = "tail" => m.tail \in Nat
        BY <1>3, ToClientFacts
    <2>2. buf_tail' \in Nat /\ answer' \in Replies \cup Requests /\ cq' \in Nat
          /\ header' \in {CLIENT_DONE, CLERK_DONE}
        BY <1>1, <2>1 DEF PlaceAtClient, TypeOK
    <2>3. toClient' \in Seq(ToClient)
        BY <1>2, <1>3
    <2>4. /\ buf_tail' \in Nat
          /\ answer' \in Replies \cup Requests
          /\ cq' \in Nat
          /\ header' \in {CLIENT_DONE, CLERK_DONE}
        BY <2>2
    <2>5. toClient' \in Seq(ToClient)
        BY <2>3
    <2>6. /\ cpc' = cpc /\ pend' = pend /\ buf_head' = buf_head /\ kpc' = kpc
          /\ kheader' = kheader /\ message' = message /\ ktail' = ktail /\ batch_length' = batch_length
          /\ batch' = batch /\ ring' = ring /\ im_index' = im_index /\ db' = db
          /\ threads' = threads /\ mu' = mu /\ log' = log /\ synced' = synced
          /\ recs' = recs /\ last' = last
        BY <1>2
    <2>7. TypeOK
        BY <1>1
    <2> QED  BY ONLY <2>4, <2>5, <2>6, <2>7, ZenonT(60) DEF TypeOK
<1>5. NoHeader => NoHeader' /\ header' = header
    <2> SUFFICES ASSUME NoHeader PROVE NoHeader' /\ header' = header
        OBVIOUS
    <2>1. toClient[1].kind # "header"
        BY <1>3 DEF NoHeader
    <2>2. NoHeader'
        BY <1>2, <1>3 DEF NoHeader
    <2> QED  BY <1>2, <1>3, <2>1, <2>2
<1>6. OneHeader => \/ NoHeader' /\ header' = CLERK_DONE
                   \/ OneHeader' /\ header' = header
    <2> SUFFICES ASSUME OneHeader
                 PROVE  \/ NoHeader' /\ header' = CLERK_DONE
                        \/ OneHeader' /\ header' = header
        OBVIOUS
    <2>1. PICK i \in 1 .. Len(toClient) :
            /\ toClient[i].kind = "header"
            /\ \A j \in 1 .. Len(toClient) : j # i => toClient[j].kind # "header"
        BY DEF OneHeader
    <2>2. CASE i = 1
        <3>1. NoHeader'
            BY <1>2, <1>3, <2>1, <2>2 DEF NoHeader
        <3> QED  BY <1>2, <1>3, <2>1, <2>2, <3>1
    <2>3. CASE i # 1
        <3>1. m.kind # "header"
            BY <1>3, <2>1, <2>3
        <3>2. i - 1 \in 1 .. Len(toClient') /\ toClient'[i - 1].kind = "header"
            BY <1>2, <1>3, <2>1, <2>3
        <3>3. \A j \in 1 .. Len(toClient') : j # i - 1 => toClient'[j].kind # "header"
            BY <1>2, <1>3, <2>1, <2>3
        <3>4. OneHeader'
            BY <3>2, <3>3 DEF OneHeader
        <3> QED  BY <1>2, <3>1, <3>4
    <2> QED  BY <2>2, <2>3
<1>7. HandshakeInv'
    <2>1. Posted' = Posted /\ PostedRecord' = PostedRecord /\ Placed' = Placed
        BY <1>2 DEF Posted, PostedRecord, Placed
    <2>2. AtRest => AtRest'
        BY <1>2, <1>5 DEF AtRest
    <2>3. Sent => Sent'
        BY <1>2, <1>5, <2>1 DEF Sent, Calling
    <2>4. Arrived => Arrived'
        BY <1>2, <1>5, <2>1 DEF Arrived, Calling
    <2>5. Handled => Handled'
        BY <1>2, <1>5 DEF Handled, Calling
    <2>6. Replied => Replied' \/ Answered'
        BY <1>2, <1>6 DEF Replied, Answered, Calling
    <2>7. Answered => Answered'
        BY <1>2, <1>5 DEF Answered, Calling
    <2>8. Closing => Closing'
        BY <1>2 DEF Closing
    <2> QED  BY <1>1, <2>2, <2>3, <2>4, <2>5, <2>6, <2>7, <2>8 DEF HandshakeInv
<1>8. PositionInv'
    BY <1>1, <1>2 DEF PositionInv, Untaken
<1>9. BatchInv' /\ RecordsInRing'
    BY <1>1, <1>2, BatchFrame, RecordsFrame
<1> QED
    BY <1>4, <1>7, <1>8, <1>9 DEF RingInv

\* The entries of the batch have their types.
LEMMA BatchTypes ==
    ASSUME TypeOK, NEW i \in 1 .. Len(batch)
    PROVE  /\ batch[i].key \in Keys /\ batch[i].off \in Nat
           /\ batch[i].len \in Nat /\ batch[i].id \in Nat
<1>1. batch \in Seq([key : Keys, off : Nat, len : Nat, id : Nat])
    BY DEF TypeOK
<1>2. batch[i] \in [key : Keys, off : Nat, len : Nat, id : Nat]
    BY ONLY <1>1, i \in 1 .. Len(batch), ElementFacts, ZenonT(60)
<1> QED
    BY <1>2

\* A cell of a record of the batch lies below the end of the batch.
LEMMA CellBelow ==
    ASSUME NEW tail \in Nat, NEW off \in Nat, NEW len \in Nat, NEW end \in Nat,
           off + len <= end, NEW c \in (tail + off) .. (tail + off + len - 1)
    PROVE  c \in Nat /\ c < tail + end
OBVIOUS

\* A record placed in the ring fills its own cells and leaves the batch alone:
\* it lies where the batch ends.
LEMMA PlaceRecordInv ==
    ASSUME TypeOK, PositionInv, BatchInv, cpc = "write", Untaken,
           ring' = [c \in Cells |-> IF c \in (buf_head - pend.len) .. (buf_head - 1)
                                    THEN Len(recs) ELSE ring[c]],
           UNCHANGED <<buf_head, pend, recs, batch, batch_length, ktail, im_index>>
    PROVE  ring' \in [Cells -> Nat] /\ Placed' /\ BatchInv'
<1>1. /\ buf_head \in Nat /\ pend.len \in Nat /\ buf_head < MAX_ASYNC_SIZE
      /\ ktail \in Nat /\ batch_length \in Nat /\ Len(recs) \in Nat
      /\ RING_HEADER <= buf_head - pend.len /\ ktail + batch_length = buf_head - pend.len
      /\ MAX_ASYNC_SIZE \in Nat /\ RING_HEADER \in Nat
    BY RingFacts DEF TypeOK, PositionInv
<1>2. ring' \in [Cells -> Nat]
    BY <1>1 DEF TypeOK
<1>3. Placed'
    BY <1>1, RingFacts DEF Placed
<1>4. BatchInv'
    <2>1. ASSUME NEW i \in 1 .. Len(batch)
          PROVE  \A c \in (ktail + batch[i].off) .. (ktail + batch[i].off + batch[i].len - 1) :
                     ring'[c] = batch[i].id
        <3>1. batch[i].off \in Nat /\ batch[i].len \in Nat
            BY BatchTypes
        <3>2. /\ batch[i].off + batch[i].len <= batch_length
              /\ \A c \in (ktail + batch[i].off) .. (ktail + batch[i].off + batch[i].len - 1) :
                    ring[c] = batch[i].id
            BY DEF BatchInv
        <3>3. ASSUME NEW c \in (ktail + batch[i].off) .. (ktail + batch[i].off + batch[i].len - 1)
              PROVE  c \in Cells /\ c \notin (buf_head - pend.len) .. (buf_head - 1)
            <4>1. c \in Nat /\ c < ktail + batch_length
                BY ONLY <1>1, <3>1, <3>2, <3>3, CellBelow
            <4> QED  BY ONLY <1>1, <4>1 DEF Cells
        <3> QED  BY <3>2, <3>3
    <2> QED  BY <2>1 DEF BatchInv
<1> QED
    BY <1>2, <1>3, <1>4

\* The request that a call posts is a request.
LEMMA PostedFacts ==
    ASSUME TypeOK, Calling
    PROVE  Posted \in Requests /\ Posted.kind = "meta"
<1>1. Len(recs) \in Nat /\ pend.key \in Keys \cup {NoKey} /\ pend.len \in Nat
    BY DEF TypeOK
<1>2. Posted \in Requests
    BY ZenonT(60), <1>1, ConstantTypes DEF Posted, Calling, Simple
<1>3. Posted.kind = "meta"
    BY Kinds DEF Posted
<1> QED
    BY <1>2, <1>3

\* A write placed at the clerk: the request, its record, then the header.
LEMMA PlaceAtClerkInv ==
    ASSUME RingInv, PlaceAtClerk
    PROVE  RingInv'
<1>1. TypeOK /\ HandshakeInv /\ PositionInv /\ BatchInv /\ RecordsInRing
    BY DEF RingInv
<1> DEFINE m == Head(toClerk)
<1>2. /\ toClerk # <<>> /\ toClerk' = Tail(toClerk) /\ m.kind # "send"
      /\ message' = IF m.kind = "meta" THEN m ELSE message
      /\ kheader' = IF m.kind = "header" THEN CLIENT_DONE ELSE kheader
      /\ m.kind # "record" => ring' = ring
      /\ UNCHANGED <<clientVars, toClient, cq, kpc, ktail, batch, batch_length,
                     im_index, db, persistVars, histVars>>
    BY DEF PlaceAtClerk
<1>3. Posted' = Posted /\ PostedRecord' = PostedRecord /\ RecordsInRing'
    BY <1>1, <1>2, RecordsFrame DEF Posted, PostedRecord
<1>4. Untaken
    BY <1>2 DEF Untaken
<1>5. ASSUME message' \in Requests \cup Replies, ring' \in [Cells -> Nat]
      PROVE  TypeOK'
    BY <1>1, <1>2, <1>5 DEF TypeOK
<1>6. message \in Requests \cup Replies /\ ring \in [Cells -> Nat]
    BY <1>1 DEF TypeOK
<1>7. ASSUME Untaken' \/ cpc = "closed"
      PROVE  PositionInv'
    BY <1>1, <1>2, <1>4, <1>7 DEF PositionInv, Simple
<1>8. ring' = ring => BatchInv'
    BY <1>1, <1>2, BatchFrame
<1>9. CASE Sent
    <2>1. Posted \in Requests /\ Posted.kind = "meta" /\ Calling
        BY <1>1, <1>9, PostedFacts DEF Sent
    <2>2. NoHeader'
        BY <1>2, <1>9 DEF Sent, NoHeader
    <2>3. CASE cpc # "write" /\ toClerk = << Posted, Hdr >>
        <3>1. m = Posted /\ toClerk' = << Hdr >> /\ toClerk' # <<>>
            BY <1>2, <2>3, Tuples
        <3>2. message' = Posted /\ ring' = ring /\ kheader' = kheader
            BY <1>2, <2>1, <3>1
        <3>3. Sent'
            BY <1>2, <1>3, <1>9, <2>2, <2>3, <3>1, <3>2 DEF Sent, Calling
        <3>4. Untaken'
            BY <3>1 DEF Untaken
        <3> QED
            BY <1>3, <1>5, <1>6, <1>7, <1>8, <2>1, <3>2, <3>3, <3>4 DEF RingInv, HandshakeInv
    <2>4. CASE cpc = "write" /\ toClerk = << Posted, PostedRecord, Hdr >>
        <3>1. m = Posted /\ toClerk' = << PostedRecord, Hdr >> /\ toClerk' # <<>>
            BY <1>2, <2>4, Tuples
        <3>2. message' = Posted /\ ring' = ring /\ kheader' = kheader
            BY <1>2, <2>1, <3>1
        <3>3. Sent'
            BY <1>2, <1>3, <1>9, <2>2, <2>4, <3>1, <3>2 DEF Sent, Calling
        <3>4. Untaken'
            BY <3>1 DEF Untaken
        <3> QED
            BY <1>3, <1>5, <1>6, <1>7, <1>8, <2>1, <3>2, <3>3, <3>4 DEF RingInv, HandshakeInv
    <2>5. CASE cpc = "write" /\ toClerk = << PostedRecord, Hdr >> /\ message = Posted
        <3>1. m = PostedRecord /\ toClerk' = << Hdr >> /\ toClerk' # <<>>
            BY <1>2, <2>5, Tuples
        <3>2. m.kind = "record" /\ m.pos = buf_head - pend.len /\ m.len = pend.len
              /\ m.id = Len(recs)
            BY <3>1, Kinds DEF PostedRecord
        <3>3. message' = message /\ kheader' = kheader
            BY <1>2, <3>2
        <3>4. m.pos + m.len - 1 = buf_head - 1
            <4>1. buf_head \in Nat /\ pend.len \in Nat
                BY <1>1 DEF TypeOK
            <4> QED  BY <3>2, <4>1
        <3>5. ring' = [c \in Cells |-> IF c \in (buf_head - pend.len) .. (buf_head - 1)
                                       THEN Len(recs) ELSE ring[c]]
            BY <3>2, <3>4 DEF PlaceAtClerk
        <3>6. ring' \in [Cells -> Nat] /\ Placed' /\ BatchInv'
            BY <1>1, <1>2, <1>4, <2>5, <3>5, PlaceRecordInv
        <3>7. Sent'
            BY <1>2, <1>3, <1>9, <2>2, <2>5, <3>1, <3>3, <3>6 DEF Sent, Calling
        <3>8. Untaken'
            BY <3>1 DEF Untaken
        <3> QED
            BY <1>3, <1>5, <1>6, <1>7, <3>3, <3>6, <3>7, <3>8 DEF RingInv, HandshakeInv
    <2>6. CASE toClerk = << Hdr >> /\ message = Posted /\ (cpc = "write" => Placed)
        <3>1. m = Hdr /\ toClerk' = <<>>
            BY <1>2, <2>6, Tuples
        <3>2. message' = message /\ ring' = ring /\ kheader' = CLIENT_DONE
            BY <1>2, <3>1, Kinds
        <3>3. Placed' = Placed
            BY <1>2, <3>2 DEF Placed
        <3>4. Arrived'
            BY <1>2, <1>3, <1>9, <2>2, <2>6, <3>1, <3>2, <3>3 DEF Sent, Arrived, Calling
        <3>5. Untaken'
            BY <3>2 DEF Untaken
        <3> QED
            BY <1>3, <1>5, <1>6, <1>7, <1>8, <3>2, <3>4, <3>5 DEF RingInv, HandshakeInv
    <2> QED
        BY <1>9, <2>3, <2>4, <2>5, <2>6 DEF Sent
<1>10. CASE Closing
    <2> DEFINE close == Meta("CLOSE", NoKey, 0, None)
    <2>1. close.kind = "meta" /\ close \in Requests /\ cpc = "closed"
        <3>1. close.kind = "meta"
            BY ONLY Kinds
        <3>2. close \in Requests
            BY ONLY ZenonT(60), ConstantTypes
        <3>3. cpc = "closed"
            BY <1>10 DEF Closing
        <3> QED  BY ONLY <3>1, <3>2, <3>3
    <2> HIDE DEF close
    <2>2. CASE toClerk = << close, Hdr, SendMsg >>
        <3>1. m = close /\ toClerk' = << Hdr, SendMsg >>
            BY <1>2, <2>2, Tuples
        <3>2. message' = close /\ ring' = ring /\ kheader' = kheader
            BY <1>2, <2>1, <3>1
        <3>3. kpc \in {"spin", "poll"} /\ kheader = CLERK_DONE
            BY <1>10, <2>2, Tuples, Kinds DEF Closing
        <3>4. Closing'
            BY ZenonT(60), <1>2, <2>1, <3>1, <3>2, <3>3 DEF Closing, close
        <3> QED
            BY <1>3, <1>5, <1>6, <1>7, <1>8, <2>1, <3>2, <3>4 DEF RingInv, HandshakeInv
    <2>3. CASE toClerk = << Hdr, SendMsg >>
        <3>1. m = Hdr /\ toClerk' = << SendMsg >>
            BY <1>2, <2>3, Tuples
        <3>2. message' = message /\ ring' = ring /\ kheader' = CLIENT_DONE
            BY <1>2, <3>1, Kinds
        <3>3. kpc \in {"spin", "poll"} /\ message = close
            BY <1>10, <2>3, Tuples, Kinds DEF Closing, close
        <3>4. Closing'
            BY ZenonT(60), <1>2, <2>1, <3>1, <3>2, <3>3 DEF Closing, close
        <3> QED
            BY <1>3, <1>5, <1>6, <1>7, <1>8, <2>1, <3>2, <3>4 DEF RingInv, HandshakeInv
    <2>4. toClerk # << SendMsg >>
        <3>1. toClerk = << SendMsg >> => m = SendMsg
            BY Tuples
        <3> QED  BY <1>2, <3>1, Kinds
    <2>5. \/ toClerk = << close, Hdr, SendMsg >> \/ toClerk = << Hdr, SendMsg >>
          \/ toClerk = << SendMsg >> \/ toClerk = <<>>
        BY <1>10, ZenonT(60) DEF Closing, close
    <2> QED
        BY <1>2, <2>2, <2>3, <2>4, <2>5, ZenonT(60)
<1> QED
    BY <1>1, <1>2, <1>9, <1>10 DEF HandshakeInv, AtRest, Arrived, Handled, Replied, Answered

-----------------------------------------------------------------------------
(* The clerk takes a request                                               *)

\* The request that wakes the clerk is the one its client waits for.
LEMMA WokenFacts ==
    ASSUME HandshakeInv, NEW op, Woken(op)
    PROVE  /\ op = "CLOSE" => cpc = "closed" /\ toClerk = << SendMsg >>
           /\ op # "CLOSE" => Arrived
           /\ op = "PUT" => /\ cpc = "write" /\ Placed /\ message.key = pend.key
                            /\ message.len = pend.len /\ message.id = Len(recs)
           /\ op = "NOP" => cpc = "nop"
           /\ op \in Simple => cpc = op /\ message.key = pend.key
<1>1. kpc = "spin" /\ kheader = CLIENT_DONE /\ message.op = op
    BY DEF Woken
<1>2. CASE cpc = "closed"
    <2>1. toClerk = << SendMsg >> /\ message = Meta("CLOSE", NoKey, 0, None)
        BY <1>1, <1>2, Phases DEF Closing
    <2>2. op = "CLOSE"
        BY <1>1, <2>1, Kinds
    <2> QED  BY <1>2, <2>1, <2>2 DEF Simple
<1>3. CASE cpc # "closed"
    <2>1. Arrived
        BY <1>1, <1>3, Phases
    <2>2. message = Posted /\ Calling /\ (cpc = "write" => Placed)
        BY <2>1 DEF Arrived
    <2>3. CASE cpc = "write"
        <3>1. message = Meta("PUT", pend.key, pend.len, Len(recs))
            BY <2>2, <2>3 DEF Posted
        <3>2. /\ op = "PUT" /\ message.key = pend.key
              /\ message.len = pend.len /\ message.id = Len(recs)
            BY ONLY SMTT(60), <1>1, <3>1, Kinds
        <3> QED  BY <2>1, <2>2, <2>3, <3>2 DEF Simple
    <2>4. CASE cpc = "nop"
        <3>1. message = Meta("NOP", NoKey, 0, None)
            BY <2>2, <2>4 DEF Posted
        <3>2. op = "NOP"
            BY <1>1, <3>1, Kinds
        <3> QED  BY <2>1, <2>4, <3>2 DEF Simple
    <2>5. CASE cpc \in Simple
        <3>1. message = Meta(cpc, pend.key, 0, None)
            BY <2>2, <2>5 DEF Posted, Simple
        <3>2. op = cpc /\ message.key = pend.key
            BY ONLY SMTT(60), <1>1, <3>1, Kinds
        <3> QED  BY <2>1, <2>5, <3>2 DEF Simple
    <2> QED  BY ZenonT(60), <2>2, <2>3, <2>4, <2>5 DEF Calling
<1> QED
    BY ZenonT(60), <1>2, <1>3

\* A request the clerk has taken is in the phase Handled.
LEMMA TakenFacts ==
    ASSUME Arrived, UNCHANGED <<clientVars, netVars>>,
           kheader' = CLERK_DONE, kpc' \in {"persist", "reply"}
    PROVE  HandshakeInv' /\ Untaken /\ ~Untaken'
<1>1. Handled'
    BY DEF Arrived, Handled, Calling, NoHeader
<1> QED
    BY <1>1 DEF HandshakeInv, Arrived, Untaken

\* What a reader of the ring finds is a record number.
LEMMA ReadAtType ==
    ASSUME NEW r \in [Cells -> Nat], NEW pos \in Cells, NEW len
    PROVE  ReadAt(r, pos, len) \in Nat
BY DEF ReadAt

\* GET, DELETE and SYNC leave ring, batch and index alone.
LEMMA ClerkSimpleInv ==
    ASSUME RingInv, ClerkGet \/ ClerkDelete \/ ClerkSync
    PROVE  RingInv'
<1>1. TypeOK /\ HandshakeInv /\ PositionInv /\ BatchInv /\ RecordsInRing
    BY DEF RingInv
<1>2. /\ kheader' = CLERK_DONE /\ kpc' = "reply"
      /\ UNCHANGED <<clientVars, netVars, ktail, batch, batch_length,
                     ring, im_index, persistVars, histVars>>
    BY DEF ClerkGet, ClerkDelete, ClerkSync, Woken
<1>3. Arrived /\ cpc \in Simple
    <2>1. CASE ClerkGet
        BY ZenonT(60), <1>1, <2>1, WokenFacts DEF ClerkGet, Simple
    <2>2. CASE ClerkDelete
        BY ZenonT(60), <1>1, <2>2, WokenFacts DEF ClerkDelete, Simple
    <2>3. CASE ClerkSync
        BY <1>1, <2>3, WokenFacts DEF ClerkSync, Simple
    <2> QED  BY <2>1, <2>2, <2>3
<1>4. message' \in Requests \cup Replies /\ db' \in [Keys -> Nat]
    <2>1. message \in Requests \cup Replies /\ db \in [Keys -> Nat] /\ ring \in [Cells -> Nat]
        BY <1>1 DEF TypeOK
    <2>2. CASE ClerkGet
        <3>1. message.key \in Keys
            BY ZenonT(60), <1>1, <2>2, WokenFacts DEF ClerkGet, Simple, PositionInv
        <3>2. im_index[message.key].pos \in Cells
            BY <1>1, <3>1 DEF BatchInv
        <3>3. ReadAt(ring, im_index[message.key].pos, im_index[message.key].len) \in Nat
            BY <2>1, <3>2, ReadAtType
        <3>4. db[message.key] \in Nat
            BY <2>1, <3>1
        <3>5. Lookup(message.key) \in Replies
            BY ZenonT(60), <3>3, <3>4 DEF Lookup, Replies
        <3> QED  BY <2>1, <2>2, <3>5 DEF ClerkGet
    <2>3. CASE ClerkDelete
        BY ZenonT(60), <2>1, <2>3, ConstantTypes DEF ClerkDelete
    <2>4. CASE ClerkSync
        BY <2>1, <2>4 DEF ClerkSync
    <2> QED  BY <2>2, <2>3, <2>4
<1>5. TypeOK'
    BY ZenonT(60), <1>1, <1>2, <1>4 DEF TypeOK
<1>6. HandshakeInv'
    BY <1>2, <1>3, TakenFacts
<1>7. PositionInv'
    BY <1>1, <1>2, <1>3 DEF PositionInv, Simple
<1>8. BatchInv' /\ RecordsInRing'
    BY <1>1, <1>2, BatchFrame, RecordsFrame
<1> QED
    BY <1>5, <1>6, <1>7, <1>8 DEF RingInv

\* The request of a PUT and the place of its record, as the clerk computes it.
LEMMA PutFacts ==
    ASSUME RingInv, Woken("PUT")
    PROVE  /\ message.key \in Keys /\ message.len = pend.len /\ message.id = Len(recs)
           /\ pend.len \in Nat /\ pend.len >= 1 /\ Len(recs) \in Nat
           /\ ktail \in Nat /\ batch_length \in Nat /\ buf_head \in Nat
           /\ ktail + batch_length = buf_head - pend.len
           /\ ktail + batch_length + pend.len = buf_head
           /\ ktail + batch_length + pend.len < MAX_ASYNC_SIZE
           /\ ktail + batch_length \in Cells
<1>1. TypeOK /\ HandshakeInv /\ PositionInv
    BY DEF RingInv
<1>2. /\ cpc = "write" /\ message.key = pend.key /\ message.len = pend.len
      /\ message.id = Len(recs) /\ Untaken
    BY <1>1, WokenFacts DEF Woken, Untaken
<1>3. /\ pend.key \in Keys /\ pend.len \in Nat /\ pend.len >= 1 /\ Len(recs) \in Nat
      /\ batch_length \in Nat /\ ktail \in Nat /\ buf_head \in Nat
      /\ ktail + batch_length = buf_head - pend.len /\ buf_head < MAX_ASYNC_SIZE
    BY <1>1, <1>2, RingFacts DEF TypeOK, PositionInv
<1>4. /\ ktail + batch_length + pend.len = buf_head
      /\ ktail + batch_length + pend.len < MAX_ASYNC_SIZE
      /\ ktail + batch_length \in Cells
    BY ONLY <1>3, RingFacts
<1> QED
    BY <1>2, <1>3, <1>4

\* The request joined to the batch is its last entry.
LEMMA JoinedFacts ==
    ASSUME RingInv, Woken("PUT")
    PROVE  /\ Joined \in Seq([key : Keys, off : Nat, len : Nat, id : Nat])
           /\ Len(Joined) = Len(batch) + 1 /\ Len(batch) \in Nat
           /\ \A i \in 1 .. Len(batch) : Joined[i] = batch[i]
           /\ Joined[Len(batch) + 1].off = batch_length
           /\ Joined[Len(batch) + 1].len = pend.len
           /\ Joined[Len(batch) + 1].id = Len(recs)
           /\ Joined[Len(batch) + 1].key = message.key
<1>1. batch \in Seq([key : Keys, off : Nat, len : Nat, id : Nat])
    BY DEF RingInv, TypeOK
<1> DEFINE e == [key |-> message.key, off |-> batch_length,
                 len |-> message.len, id |-> message.id]
<1>2. /\ e \in [key : Keys, off : Nat, len : Nat, id : Nat] /\ e.off = batch_length
      /\ e.len = pend.len /\ e.id = Len(recs) /\ e.key = message.key
    BY ZenonT(60), PutFacts
<1>3. Joined = Append(batch, e)
    BY DEF Joined
<1> HIDE DEF e
<1>4. /\ Append(batch, e) \in Seq([key : Keys, off : Nat, len : Nat, id : Nat])
      /\ Len(Append(batch, e)) = Len(batch) + 1
      /\ Append(batch, e)[Len(batch) + 1] = e
      /\ \A i \in 1 .. Len(batch) : Append(batch, e)[i] = batch[i]
    BY ONLY <1>1, <1>2, AppendFacts
<1>5. Len(batch) \in Nat
    BY ONLY <1>1
<1> QED
    BY <1>2, <1>3, <1>4, <1>5

\* ClerkPut: the record the client has placed becomes the end of the batch.
LEMMA ClerkPutInv ==
    ASSUME RingInv, ClerkPut
    PROVE  RingInv'
<1>1. TypeOK /\ HandshakeInv /\ PositionInv /\ BatchInv /\ RecordsInRing /\ Woken("PUT")
    BY DEF RingInv, ClerkPut
<1>2. /\ message.key \in Keys /\ message.len = pend.len
      /\ pend.len \in Nat /\ pend.len >= 1 /\ Len(recs) \in Nat
      /\ ktail \in Nat /\ batch_length \in Nat /\ buf_head \in Nat
      /\ ktail + batch_length = buf_head - pend.len
      /\ ktail + batch_length + pend.len = buf_head
      /\ ktail + batch_length \in Cells
    BY <1>1, PutFacts
<1>3. cpc = "write" /\ Placed /\ Arrived
    BY <1>1, WokenFacts
<1> DEFINE entry == [pos |-> ktail + batch_length, len |-> pend.len]
<1>4. /\ batch' = Joined /\ batch_length' = batch_length + pend.len
      /\ message' = Ok /\ kpc' = "reply" /\ kheader' = CLERK_DONE
      /\ UNCHANGED <<clientVars, netVars, ktail, ring, db, persistVars, histVars>>
    BY <1>2 DEF ClerkPut, Woken
<1>5. im_index' = [im_index EXCEPT ![message.key] = entry]
    BY ZenonT(60), <1>2 DEF ClerkPut
<1>6. im_index' \in [Keys -> [pos : Nat, len : Nat]] /\ \A k \in Keys : im_index'[k].pos \in Cells
    <2>1. entry \in [pos : Nat, len : Nat] /\ entry.pos \in Cells
        BY ONLY SMTT(60), <1>2
    <2>2. im_index \in [Keys -> [pos : Nat, len : Nat]] /\ \A k \in Keys : im_index[k].pos \in Cells
        BY ZenonT(60), <1>1 DEF TypeOK, BatchInv
    <2> HIDE DEF entry
    <2> QED  BY ONLY <1>2, <1>5, <2>1, <2>2
<1>7. TypeOK'
    <2>1. batch' \in Seq([key : Keys, off : Nat, len : Nat, id : Nat])
        BY ZenonT(60), <1>1, <1>4, JoinedFacts
    <2>2. batch_length' \in Nat
        BY <1>2, <1>4
    <2>3. /\ kpc' \in {"spin", "persist", "closing", "reply", "poll", "recv", "gone"}
          /\ kheader' \in {CLIENT_DONE, CLERK_DONE}
          /\ message' \in Requests \cup Replies
        BY <1>4, ConstantTypes
    <2>4. /\ batch' \in Seq([key : Keys, off : Nat, len : Nat, id : Nat])
          /\ batch_length' \in Nat
        BY <2>1, <2>2
    <2>5. im_index' \in [Keys -> [pos : Nat, len : Nat]]
        BY <1>6
    <2>6. /\ cpc' = cpc /\ pend' = pend /\ buf_head' = buf_head /\ buf_tail' = buf_tail
          /\ header' = header /\ answer' = answer /\ toClient' = toClient /\ cq' = cq
          /\ ktail' = ktail /\ ring' = ring /\ db' = db /\ threads' = threads
          /\ mu' = mu /\ log' = log /\ synced' = synced /\ recs' = recs
          /\ last' = last
        BY <1>4
    <2>7. TypeOK
        BY <1>1
    <2> QED  BY ONLY <2>3, <2>4, <2>5, <2>6, <2>7, ZenonT(60) DEF TypeOK
<1>8. HandshakeInv' /\ ~Untaken'
    BY <1>3, <1>4, TakenFacts
<1>9. PositionInv'
    <2>1. batch_length + pend.len < BATCH_SIZE
        <3>1. ~(batch_length + pend.len >= BATCH_SIZE)
            BY <1>2 DEF ClerkPut, IsFull
        <3> QED  BY ONLY <1>2, <3>1, RingFacts
    <2> QED  BY ONLY <1>1, <1>2, <1>3, <1>4, <1>8, <2>1, SMTT(60), SMTT(90) DEF PositionInv, Simple, clientVars
<1>10. BatchInv'
    <2> DEFINE InBatch(e, end) ==
                 /\ e.len > 0 /\ e.off + e.len <= end
                 /\ \A c \in (ktail + e.off) .. (ktail + e.off + e.len - 1) : ring[c] = e.id
    <2>1. ASSUME NEW i \in 1 .. Len(batch)
          PROVE  InBatch(batch[i], batch_length + pend.len)
        <3>1. InBatch(batch[i], batch_length)
            BY <1>1 DEF BatchInv
        <3>2. batch[i].off \in Nat /\ batch[i].len \in Nat
            BY <1>1, BatchTypes
        <3>3. batch[i].off + batch[i].len <= batch_length + pend.len
            BY ONLY <1>2, <3>1, <3>2, SMTT(60)
        <3> QED  BY ZenonT(60), <3>1, <3>3
    <2>2. ASSUME NEW e, e.off = batch_length, e.len = pend.len, e.id = Len(recs)
          PROVE  InBatch(e, batch_length + pend.len)
        <3>1. ktail + batch_length + pend.len - 1 = buf_head - 1
            BY ONLY <1>2
        <3>2. \A c \in (ktail + batch_length) .. (ktail + batch_length + pend.len - 1) :
                  ring[c] = Len(recs)
            BY <1>2, <1>3, <3>1 DEF Placed
        <3>3. pend.len > 0 /\ batch_length + pend.len <= batch_length + pend.len
            BY ONLY <1>2
        <3> QED  BY <2>2, <3>2, <3>3
    <2> HIDE DEF InBatch
    <2>3. ASSUME NEW i \in 1 .. Len(Joined)
          PROVE  InBatch(Joined[i], batch_length + pend.len)
        <3>1. i = Len(batch) + 1 \/ i \in 1 .. Len(batch)
            BY <1>1, JoinedFacts
        <3>2. CASE i = Len(batch) + 1
            BY <1>1, <2>2, <3>2, JoinedFacts
        <3>3. CASE i \in 1 .. Len(batch)
            BY ZenonT(60), <1>1, <2>1, <3>3, JoinedFacts
        <3> QED  BY ONLY <3>1, <3>2, <3>3
    <2> QED  BY ZenonT(60), <1>4, <1>6, <2>3 DEF BatchInv, InBatch
<1> QED
    BY <1>1, <1>4, <1>7, <1>8, <1>9, <1>10, RecordsFrame DEF RingInv

-----------------------------------------------------------------------------
(* The clerk flushes a batch                                               *)

\* The index without the keys of a batch points into the ring.
LEMMA ErasedFacts ==
    ASSUME TypeOK, BatchInv, NEW b
    PROVE  /\ Erased(b) \in [Keys -> [pos : Nat, len : Nat]]
           /\ \A k \in Keys : Erased(b)[k].pos \in Cells
<1>1. im_index \in [Keys -> [pos : Nat, len : Nat]]
    BY DEF TypeOK
<1>2. \A k \in Keys : im_index[k].pos \in Cells
    BY DEF BatchInv
<1> QED
    BY <1>1, <1>2, ConstantTypes, RingFacts DEF Erased

\* A key of a batch has a last entry in it.
LEMMA NewestExists ==
    ASSUME NEW b, NEW k \in KeysOf(b)
    PROVE  \E i \in 1 .. Len(b) : b[i].key = k /\ Newest(b, i)
BY ZenonT(60) DEF KeysOf

\* A flush of records that begin in the ring keeps the types: it copies and
\* stores record numbers, and starts the next batch empty.
LEMMA FlushFacts ==
    ASSUME TypeOK, NEW b \in Seq([key : Keys, off : Nat, len : Nat, id : Nat]), NEW len \in Nat,
           \A i \in 1 .. Len(b) : ktail + b[i].off \in Cells,
           Flush(b, len)
    PROVE  /\ db' \in [Keys -> Nat] /\ ktail' = NextTail(len) /\ ktail' \in Nat
           /\ threads' \in Seq([data : Seq(Nat), tail : Nat,
                                 st : {"start", "sync", "post", "poll", "done", "lost"}])
           /\ batch' = <<>> /\ batch_length' = 0
           /\ batch' \in Seq([key : Keys, off : Nat, len : Nat, id : Nat]) /\ batch_length' \in Nat
<1>1. /\ ring \in [Cells -> Nat] /\ ktail \in Nat /\ db \in [Keys -> Nat]
      /\ threads \in Seq([data : Seq(Nat), tail : Nat,
                           st : {"start", "sync", "post", "poll", "done", "lost"}])
    BY DEF TypeOK
<1>2. ASSUME NEW i \in 1 .. Len(b)
      PROVE  ReadAt(ring, ktail + b[i].off, b[i].len) \in Nat
    BY <1>1, ReadAtType, ZenonT(60)
<1>3. Copied(b) \in [1 .. Len(b) -> Nat] /\ Len(b) \in Nat
    BY <1>2 DEF Copied
<1>4. Copied(b) \in Seq(Nat)
    BY <1>2 DEF Copied
<1>5. NextTail(len) \in Nat
    BY <1>1, RingFacts DEF NextTail
<1>6. threads' \in Seq([data : Seq(Nat), tail : Nat,
                        st : {"start", "sync", "post", "poll", "done", "lost"}])
    <2> DEFINE t == [data |-> Copied(b), tail |-> NextTail(len), st |-> "start"]
    <2>1. t \in [data : Seq(Nat), tail : Nat,
                 st : {"start", "sync", "post", "poll", "done", "lost"}]
        BY <1>4, <1>5
    <2>2. threads' = Append(threads, t)
        BY DEF Flush
    <2> HIDE DEF t
    <2> QED  BY ONLY <1>1, <2>1, <2>2, AppendFacts
<1>7. db' \in [Keys -> Nat]
    <2>1. ASSUME NEW k \in Keys, k \in KeysOf(b)
          PROVE  Copied(b)[CHOOSE i \in 1 .. Len(b) : b[i].key = k /\ Newest(b, i)] \in Nat
        <3> DEFINE P(i) == b[i].key = k /\ Newest(b, i)
        <3>3. PICK i \in 1 .. Len(b) : P(i)
            BY <2>1, NewestExists
        <3> HIDE DEF P
        <3>4. (CHOOSE x \in 1 .. Len(b) : P(x)) \in 1 .. Len(b)
            BY ONLY <3>3, ZenonT(60)
        <3>5. Copied(b)[CHOOSE x \in 1 .. Len(b) : P(x)] \in Nat
            BY ONLY <1>3, <3>4
        <3> QED  BY ONLY <3>5 DEF P
    <2> QED
        BY <1>1, <2>1, ZenonT(60) DEF Flush, PutBatch
<1> QED
    BY <1>5, <1>6, <1>7 DEF Flush

\* The batch begins in the ring, entry by entry.
LEMMA BatchInCells ==
    ASSUME TypeOK, PositionInv, BatchInv, NEW i \in 1 .. Len(batch)
    PROVE  ktail + batch[i].off \in Cells
<1>1. batch[i].off \in Nat /\ batch[i].len \in Nat
    BY BatchTypes
<1>2. batch[i].len > 0 /\ batch[i].off + batch[i].len <= batch_length
    BY DEF BatchInv
<1>3. ktail \in Nat /\ batch_length \in Nat /\ ktail + batch_length < MAX_ASYNC_SIZE
    BY DEF TypeOK, PositionInv
<1> QED
    BY ONLY <1>1, <1>2, <1>3, RingFacts

\* A flush leaves an empty batch at the new tail and the index inside the ring.
LEMMA FlushedInv ==
    ASSUME TypeOK, batch' = <<>>, \A k \in Keys : im_index'[k].pos \in Cells
    PROVE  BatchInv'
BY DEF BatchInv

\* ClerkPutAndFlush: the batch is full, so its end is the client's head and
\* becomes the new tail; a batch that ends the ring cannot occur.
LEMMA ClerkPutAndFlushInv ==
    ASSUME RingInv, ClerkPutAndFlush
    PROVE  RingInv'
<1>1. TypeOK /\ HandshakeInv /\ PositionInv /\ BatchInv /\ RecordsInRing /\ Woken("PUT")
    BY DEF RingInv, ClerkPutAndFlush
<1> DEFINE len == batch_length + pend.len
<1>2. /\ message.len = pend.len /\ pend.len \in Nat
      /\ ktail \in Nat /\ batch_length \in Nat /\ buf_head \in Nat
      /\ ktail + batch_length + pend.len = buf_head
      /\ ktail + batch_length + pend.len < MAX_ASYNC_SIZE
      /\ ktail + batch_length \in Cells
    BY <1>1, PutFacts
<1>3. len \in Nat /\ ktail + len = buf_head /\ ktail + len < MAX_ASYNC_SIZE
    BY ONLY <1>2, RingFacts
<1>4. cpc = "write" /\ Arrived
    BY <1>1, WokenFacts
<1>5. /\ Flush(Joined, len) /\ im_index' = Erased(Joined) /\ message' = Ok
      /\ kpc' \in {"persist", "reply"} /\ kheader' = CLERK_DONE /\ IsFull(len)
      /\ UNCHANGED <<clientVars, netVars, ring, mu, log, synced, histVars>>
    BY <1>2 DEF ClerkPutAndFlush, Woken
<1> HIDE DEF len
<1>6. ASSUME NEW i \in 1 .. Len(Joined)
      PROVE  ktail + Joined[i].off \in Cells
    <2>1. i = Len(batch) + 1 \/ i \in 1 .. Len(batch)
        BY <1>1, JoinedFacts
    <2>2. CASE i = Len(batch) + 1
        BY ZenonT(60), <1>1, <1>2, <2>2, JoinedFacts
    <2>3. CASE i \in 1 .. Len(batch)
        BY ZenonT(60), <1>1, <2>3, JoinedFacts, BatchInCells
    <2> QED  BY ONLY <2>1, <2>2, <2>3
<1>7. Joined \in Seq([key : Keys, off : Nat, len : Nat, id : Nat])
    BY <1>1, JoinedFacts
<1>8. /\ db' \in [Keys -> Nat] /\ ktail' = NextTail(len) /\ ktail' \in Nat
      /\ threads' \in Seq([data : Seq(Nat), tail : Nat,
                            st : {"start", "sync", "post", "poll", "done", "lost"}])
      /\ batch' = <<>> /\ batch_length' = 0
      /\ batch' \in Seq([key : Keys, off : Nat, len : Nat, id : Nat]) /\ batch_length' \in Nat
    BY ZenonT(60), <1>1, <1>3, <1>5, <1>6, <1>7, FlushFacts
<1>9. /\ im_index' \in [Keys -> [pos : Nat, len : Nat]]
      /\ \A k \in Keys : im_index'[k].pos \in Cells
    BY <1>1, <1>5, ErasedFacts
<1>10. TypeOK'
    <2>1. message' \in Requests \cup Replies
        BY <1>5, ConstantTypes
    <2>2. /\ kpc' \in {"spin", "persist", "closing", "reply", "poll", "recv", "gone"}
          /\ kheader' \in {CLIENT_DONE, CLERK_DONE}
          /\ message' \in Requests \cup Replies
        BY <1>5, <2>1
    <2>3. /\ db' \in [Keys -> Nat]
          /\ ktail' \in Nat
          /\ threads' \in Seq([data : Seq(Nat), tail : Nat,
                               st : {"start", "sync", "post", "poll", "done", "lost"}])
          /\ batch' \in Seq([key : Keys, off : Nat, len : Nat, id : Nat])
          /\ batch_length' \in Nat
        BY <1>8
    <2>4. im_index' \in [Keys -> [pos : Nat, len : Nat]]
        BY <1>9
    <2>5. /\ cpc' = cpc /\ pend' = pend /\ buf_head' = buf_head /\ buf_tail' = buf_tail
          /\ header' = header /\ answer' = answer /\ toClient' = toClient /\ cq' = cq
          /\ ring' = ring /\ mu' = mu /\ log' = log /\ synced' = synced
          /\ recs' = recs /\ last' = last
        BY <1>5
    <2>6. TypeOK
        BY <1>1
    <2> QED  BY ONLY <2>2, <2>3, <2>4, <2>5, <2>6, ZenonT(60) DEF TypeOK
<1>11. HandshakeInv' /\ ~Untaken'
    BY <1>4, <1>5, TakenFacts
<1>12. PositionInv'
    <2>1. len >= BATCH_SIZE
        BY <1>3, <1>5, RingFacts DEF IsFull
    <2>2. ktail' = buf_head
        BY <1>3, <1>8, <2>1, RingFacts DEF NextTail
    <2>3. batch_length' < BATCH_SIZE /\ ktail' + batch_length' = ktail'
        BY <1>8, RingFacts
    <2> QED  BY ZenonT(60), <1>1, <1>4, <1>5, <1>11, <2>2, <2>3 DEF PositionInv, Simple
<1>13. BatchInv'
    BY <1>1, <1>8, <1>9, FlushedInv
<1> QED
    BY <1>1, <1>5, <1>10, <1>11, <1>12, <1>13, RecordsFrame DEF RingInv

\* ClerkNop: the batch is short, so the flush rewinds the tail for the client.
LEMMA ClerkNopInv ==
    ASSUME RingInv, ClerkNop
    PROVE  RingInv'
<1>1. TypeOK /\ HandshakeInv /\ PositionInv /\ BatchInv /\ RecordsInRing /\ Woken("NOP")
    BY DEF RingInv, ClerkNop
<1>2. cpc = "nop" /\ Arrived
    BY <1>1, WokenFacts
<1>3. /\ Flush(batch, batch_length) /\ im_index' = Erased(batch) /\ message' = Ok
      /\ kpc' \in {"persist", "reply"} /\ kheader' = CLERK_DONE
      /\ UNCHANGED <<clientVars, netVars, ring, mu, log, synced, histVars>>
    BY DEF ClerkNop, Woken
<1>4. /\ batch \in Seq([key : Keys, off : Nat, len : Nat, id : Nat])
      /\ batch_length \in Nat /\ batch_length < BATCH_SIZE
    BY <1>1 DEF TypeOK, PositionInv
<1>5. \A i \in 1 .. Len(batch) : ktail + batch[i].off \in Cells
    BY <1>1, BatchInCells
<1>6. /\ db' \in [Keys -> Nat] /\ ktail' = NextTail(batch_length) /\ ktail' \in Nat
      /\ threads' \in Seq([data : Seq(Nat), tail : Nat,
                            st : {"start", "sync", "post", "poll", "done", "lost"}])
      /\ batch' = <<>> /\ batch_length' = 0
      /\ batch' \in Seq([key : Keys, off : Nat, len : Nat, id : Nat]) /\ batch_length' \in Nat
    BY ZenonT(60), <1>1, <1>3, <1>4, <1>5, FlushFacts
<1>7. /\ im_index' \in [Keys -> [pos : Nat, len : Nat]]
      /\ \A k \in Keys : im_index'[k].pos \in Cells
    BY <1>1, <1>3, ErasedFacts
<1>8. TypeOK'
    <2>1. message' \in Requests \cup Replies
        BY <1>3, ConstantTypes
    <2>2. /\ kpc' \in {"spin", "persist", "closing", "reply", "poll", "recv", "gone"}
          /\ kheader' \in {CLIENT_DONE, CLERK_DONE}
          /\ message' \in Requests \cup Replies
        BY <1>3, <2>1
    <2>3. /\ db' \in [Keys -> Nat]
          /\ ktail' \in Nat
          /\ threads' \in Seq([data : Seq(Nat), tail : Nat,
                               st : {"start", "sync", "post", "poll", "done", "lost"}])
          /\ batch' \in Seq([key : Keys, off : Nat, len : Nat, id : Nat])
          /\ batch_length' \in Nat
        BY <1>6
    <2>4. im_index' \in [Keys -> [pos : Nat, len : Nat]]
        BY <1>7
    <2>5. /\ cpc' = cpc /\ pend' = pend /\ buf_head' = buf_head /\ buf_tail' = buf_tail
          /\ header' = header /\ answer' = answer /\ toClient' = toClient /\ cq' = cq
          /\ ring' = ring /\ mu' = mu /\ log' = log /\ synced' = synced
          /\ recs' = recs /\ last' = last
        BY <1>3
    <2>6. TypeOK
        BY <1>1
    <2> QED  BY ONLY <2>2, <2>3, <2>4, <2>5, <2>6, ZenonT(60) DEF TypeOK
<1>9. HandshakeInv' /\ ~Untaken'
    BY <1>2, <1>3, TakenFacts
<1>10. PositionInv'
    <2>1. ktail' = RING_HEADER
        BY <1>4, <1>6 DEF NextTail
    <2>2. cpc' = "nop" /\ pend' = pend /\ buf_head' = buf_head /\ batch_length' = 0 /\ ~Untaken'
        BY <1>2, <1>3, <1>6, <1>9
    <2>3. /\ RING_HEADER <= buf_head /\ buf_head < MAX_ASYNC_SIZE /\ RING_HEADER < MAX_ASYNC_SIZE
          /\ RING_HEADER \in Nat /\ BATCH_SIZE \in Nat /\ BATCH_SIZE >= 1
          /\ pend.key \in Keys /\ pend.len \in Sizes
        BY <1>1, <1>2, RingFacts DEF PositionInv
    <2> QED  BY ONLY <2>1, <2>2, <2>3, SMTT(60), SMTT(90) DEF PositionInv, Simple
<1>11. BatchInv'
    BY <1>1, <1>6, <1>7, FlushedInv
<1> QED
    BY <1>1, <1>3, <1>8, <1>9, <1>10, <1>11, RecordsFrame DEF RingInv

\* ClerkClose: the last batch is flushed; the index stays inside the ring.
LEMMA ClerkCloseInv ==
    ASSUME RingInv, ClerkClose
    PROVE  RingInv'
<1>1. TypeOK /\ HandshakeInv /\ PositionInv /\ BatchInv /\ RecordsInRing /\ Woken("CLOSE")
    BY DEF RingInv, ClerkClose
<1>2. cpc = "closed" /\ toClerk = << SendMsg >>
    BY <1>1, WokenFacts
<1>3. /\ kheader' = CLERK_DONE /\ kpc' \in {"closing", "recv"}
      /\ UNCHANGED <<clientVars, netVars, message, ring, im_index, mu, log, synced, histVars>>
    BY DEF ClerkClose, Woken
<1>4. HandshakeInv'
    <2>1. Closing'
        BY <1>2, <1>3 DEF Closing
    <2> QED  BY <2>1 DEF HandshakeInv
<1>5. CASE batch_length > 0
    <2>1. /\ batch \in Seq([key : Keys, off : Nat, len : Nat, id : Nat])
          /\ batch_length \in Nat /\ batch_length < BATCH_SIZE
        BY <1>1 DEF TypeOK, PositionInv
    <2>2. \A i \in 1 .. Len(batch) : ktail + batch[i].off \in Cells
        BY <1>1, BatchInCells
    <2>3. Flush(batch, batch_length)
        BY <1>5 DEF ClerkClose
    <2>4. /\ db' \in [Keys -> Nat] /\ ktail' = NextTail(batch_length) /\ ktail' \in Nat
          /\ threads' \in Seq([data : Seq(Nat), tail : Nat,
                                st : {"start", "sync", "post", "poll", "done", "lost"}])
          /\ batch' = <<>> /\ batch_length' = 0
          /\ batch' \in Seq([key : Keys, off : Nat, len : Nat, id : Nat]) /\ batch_length' \in Nat
        BY ZenonT(60), <1>1, <2>1, <2>2, <2>3, FlushFacts
    <2>5. TypeOK'
        <3>1. /\ kpc' \in {"spin", "persist", "closing", "reply", "poll", "recv", "gone"}
              /\ kheader' \in {CLIENT_DONE, CLERK_DONE}
            BY <1>3
        <3>2. /\ db' \in [Keys -> Nat]
              /\ ktail' \in Nat
              /\ threads' \in Seq([data : Seq(Nat), tail : Nat,
                               st : {"start", "sync", "post", "poll", "done", "lost"}])
              /\ batch' \in Seq([key : Keys, off : Nat, len : Nat, id : Nat])
              /\ batch_length' \in Nat
            BY <2>4
        <3>3. /\ cpc' = cpc /\ pend' = pend /\ buf_head' = buf_head /\ buf_tail' = buf_tail
              /\ header' = header /\ answer' = answer /\ toClient' = toClient /\ cq' = cq
              /\ message' = message /\ ring' = ring /\ im_index' = im_index /\ mu' = mu
              /\ log' = log /\ synced' = synced /\ recs' = recs /\ last' = last
            BY <1>3
        <3>4. TypeOK
            BY <1>1
        <3> QED  BY ONLY <3>1, <3>2, <3>3, <3>4, ZenonT(60) DEF TypeOK
    <2>6. PositionInv'
        <3>1. ktail' = RING_HEADER
            BY <2>1, <2>4 DEF NextTail
        <3>2. /\ cpc' = cpc /\ pend' = pend /\ buf_head' = buf_head /\ cpc \notin Simple
              /\ cpc \notin {"idle", "space", "nop", "rewind", "write"}
            BY <1>2, <1>3 DEF Simple
        <3>3. /\ RING_HEADER <= buf_head /\ buf_head < MAX_ASYNC_SIZE /\ RING_HEADER < MAX_ASYNC_SIZE
              /\ RING_HEADER \in Nat /\ BATCH_SIZE \in Nat /\ BATCH_SIZE >= 1
            BY <1>1, RingFacts DEF PositionInv
        <3> QED  BY ONLY <2>4, <3>1, <3>2, <3>3, SMTT(60), SMTT(90) DEF PositionInv, Simple
    <2>7. BatchInv'
        BY ZenonT(60), <1>1, <1>3, <2>4, FlushedInv DEF BatchInv
    <2> QED
        BY <1>1, <1>3, <1>4, <2>5, <2>6, <2>7, RecordsFrame DEF RingInv
<1>6. CASE ~(batch_length > 0)
    <2>1. UNCHANGED <<db, ktail, threads, batch, batch_length>>
        BY <1>6 DEF ClerkClose
    <2>2. TypeOK'
        BY ZenonT(60), <1>1, <1>3, <2>1 DEF TypeOK
    <2>3. PositionInv'
        BY ZenonT(60), <1>1, <1>2, <1>3, <2>1 DEF PositionInv, Simple
    <2> QED
        BY <1>1, <1>3, <1>4, <2>1, <2>2, <2>3, BatchFrame, RecordsFrame DEF RingInv
<1> QED
    BY <1>5, <1>6

-----------------------------------------------------------------------------
(* The clerk answers and leaves                                            *)

\* The positions depend on nothing else than these variables.
LEMMA PositionFrame ==
    ASSUME PositionInv, Untaken' = Untaken,
           UNCHANGED <<cpc, pend, buf_head, ktail, batch_length>>
    PROVE  PositionInv'
BY ZenonT(60) DEF PositionInv

\* persist_func called by the clerk has returned: it answers, or awaits the send.
LEMMA ClerkPersistedInv ==
    ASSUME RingInv, ClerkPersisted
    PROVE  RingInv'
<1>1. TypeOK /\ HandshakeInv /\ PositionInv /\ BatchInv /\ RecordsInRing
    BY DEF RingInv
<1>2. /\ kpc \in {"persist", "closing"} /\ kpc' = IF kpc = "closing" THEN "recv" ELSE "reply"
      /\ UNCHANGED <<clientVars, netVars, kheader, message, ktail, batch, batch_length,
                     storeVars, persistVars, histVars>>
    BY ZenonT(60) DEF ClerkPersisted
<1>3. TypeOK'
    BY ZenonT(60), <1>1, <1>2 DEF TypeOK
<1>4. HandshakeInv'
    <2>1. CASE kpc = "persist"
        <3>1. Handled
            BY <1>1, <2>1, Phases
        <3>2. Handled'
            BY <1>2, <2>1, <3>1 DEF Handled, Calling, NoHeader
        <3> QED  BY <3>2 DEF HandshakeInv
    <2>2. CASE kpc = "closing"
        <3>1. Closing /\ kpc' = "recv"
            BY <1>1, <1>2, <2>2, Phases
        <3>2. Closing'
            BY <1>2, <2>2, <3>1 DEF Closing
        <3> QED  BY <3>2 DEF HandshakeInv
    <2> QED  BY <1>2, <2>1, <2>2
<1>5. PositionInv'
    BY <1>1, <1>2, PositionFrame DEF Untaken
<1> QED
    BY <1>1, <1>2, <1>3, <1>4, <1>5, BatchFrame, RecordsFrame DEF RingInv

\* ClerkReply posts the one header of the answer.
LEMMA ClerkReplyInv ==
    ASSUME RingInv, ClerkReply
    PROVE  RingInv'
<1>1. TypeOK /\ HandshakeInv /\ PositionInv /\ BatchInv /\ RecordsInRing
    BY DEF RingInv
<1>2. /\ kpc = "reply" /\ kpc' = "poll" /\ toClient' = toClient \o << Reply(message), Hdr >>
      /\ UNCHANGED <<clientVars, toClerk, cq, kheader, message, ktail, batch, batch_length,
                     storeVars, persistVars, histVars>>
    BY DEF ClerkReply
<1>3. Handled
    BY <1>1, <1>2, Phases
<1> DEFINE n == Len(toClient)
<1>4. /\ toClient' \in Seq(ToClient) /\ Len(toClient') = n + 2 /\ n \in Nat
      /\ toClient'[n + 1].kind = "reply" /\ toClient'[n + 2].kind = "header"
      /\ \A i \in 1 .. n : toClient'[i] = toClient[i]
    <2>1. toClient \in Seq(ToClient) /\ message \in Replies \cup Requests
        BY <1>1 DEF TypeOK
    <2>2. Reply(message) \in ToClient /\ Reply(message).kind = "reply" /\ Hdr \in ToClient
          /\ Hdr.kind = "header"
        BY <2>1, ToClientFacts, Kinds
    <2> DEFINE q == toClient \o << Reply(message), Hdr >>
    <2>3. /\ n \in Nat /\ q \in Seq(ToClient) /\ Len(q) = n + 2
          /\ q[n + 1] = Reply(message) /\ q[n + 2] = Hdr
          /\ \A i \in 1 .. n : q[i] = toClient[i]
        BY ONLY SMTT(60), <2>1, <2>2, ReplyFacts
    <2> HIDE DEF q, n
    <2>4. toClient' = q
        BY ONLY <1>2 DEF q
    <2> QED  BY ONLY ZenonT(60), <2>2, <2>3, <2>4
<1> HIDE DEF n
<1>5. TypeOK'
    BY ZenonT(60), <1>1, <1>2, <1>4 DEF TypeOK
<1>6. OneHeader'
    <2>1. \A i \in 1 .. n : toClient[i].kind # "header"
        BY <1>3 DEF Handled, NoHeader, n
    <2>2. \A j \in 1 .. Len(toClient') : j # n + 2 => toClient'[j].kind # "header"
        <3>1. ASSUME NEW j \in 1 .. Len(toClient'), j # n + 2
              PROVE  toClient'[j].kind # "header"
            <4>1. j \in 1 .. n \/ j = n + 1
                BY ONLY <1>4, <3>1
            <4> QED  BY <1>4, <2>1, <4>1
        <3> QED  BY <3>1
    <2>3. n + 2 \in 1 .. Len(toClient') /\ toClient'[n + 2].kind = "header"
        BY <1>4
    <2> QED  BY <2>2, <2>3 DEF OneHeader
<1>7. Replied'
    BY <1>2, <1>3, <1>6 DEF Handled, Replied, Calling
<1>8. PositionInv'
    BY <1>1, <1>2, PositionFrame DEF Untaken
<1> QED
    BY <1>1, <1>2, <1>5, <1>7, <1>8, BatchFrame, RecordsFrame DEF RingInv, HandshakeInv

\* ClerkPoll: whichever completion it takes, the clerk goes on to spin.
LEMMA ClerkPollInv ==
    ASSUME RingInv, ClerkPoll
    PROVE  RingInv'
<1>1. TypeOK /\ HandshakeInv /\ PositionInv /\ BatchInv /\ RecordsInRing
    BY DEF RingInv
<1>2. /\ kpc = "poll" /\ kpc' = "spin" /\ cq > 0 /\ cq' = cq - 1
      /\ UNCHANGED <<clientVars, toClerk, toClient, kheader, message, ktail, batch, batch_length,
                     storeVars, persistVars, histVars>>
    BY DEF ClerkPoll, TakeCompletion
<1>3. TypeOK'
    <2>1. cq' \in Nat
        BY <1>1, <1>2 DEF TypeOK
    <2> QED  BY ZenonT(60), <1>1, <1>2, <2>1 DEF TypeOK
<1>4. HandshakeInv'
    <2>1. /\ Posted' = Posted /\ PostedRecord' = PostedRecord /\ Placed' = Placed
          /\ NoHeader' = NoHeader /\ OneHeader' = OneHeader
        BY ZenonT(60), <1>2 DEF Posted, PostedRecord, Placed, NoHeader, OneHeader
    <2>2. AtRest => AtRest'
        BY <1>2, <2>1 DEF AtRest
    <2>3. Sent => Sent'
        BY ZenonT(60), <1>2, <2>1 DEF Sent, Calling
    <2>4. Arrived => Arrived'
        BY <1>2, <2>1 DEF Arrived, Calling
    <2>5. ~Handled
        BY <1>2 DEF Handled
    <2>6. Replied => Replied'
        BY <1>2, <2>1 DEF Replied, Calling
    <2>7. Answered => Answered'
        BY <1>2, <2>1 DEF Answered, Calling
    <2>8. Closing => Closing'
        BY ZenonT(60), <1>2 DEF Closing
    <2> QED  BY <1>1, <2>2, <2>3, <2>4, <2>5, <2>6, <2>7, <2>8 DEF HandshakeInv
<1>5. PositionInv'
    BY <1>1, <1>2, PositionFrame DEF Untaken
<1> QED
    BY <1>1, <1>2, <1>3, <1>4, <1>5, BatchFrame, RecordsFrame DEF RingInv

\* ClerkGone ends the connection.
LEMMA ClerkGoneInv ==
    ASSUME RingInv, ClerkGone
    PROVE  RingInv'
<1>1. TypeOK /\ HandshakeInv /\ PositionInv /\ BatchInv /\ RecordsInRing
    BY DEF RingInv
<1>2. /\ kpc = "recv" /\ kpc' = "gone" /\ toClerk' = <<>>
      /\ UNCHANGED <<clientVars, toClient, cq, kheader, message, ktail, batch, batch_length,
                     storeVars, persistVars, histVars>>
    BY DEF ClerkGone
<1>3. cpc = "closed" /\ Closing
    BY <1>1, <1>2, Phases
<1>4. TypeOK'
    BY ZenonT(60), <1>1, <1>2 DEF TypeOK
<1>5. Closing'
    BY ZenonT(60), <1>2, <1>3 DEF Closing
<1>6. PositionInv'
    BY ZenonT(60), <1>1, <1>2, <1>3 DEF PositionInv, Simple
<1> QED
    BY <1>1, <1>2, <1>4, <1>5, <1>6, BatchFrame, RecordsFrame DEF RingInv, HandshakeInv

-----------------------------------------------------------------------------
(* The persist threads                                                     *)

\* A persist thread that goes on to the state s.
LEMMA ThreadFacts ==
    ASSUME TypeOK, NEW t \in 1 .. Len(threads),
           NEW s \in {"start", "sync", "post", "poll", "done", "lost"}
    PROVE  /\ [threads EXCEPT ![t].st = s] \in
                 Seq([data : Seq(Nat), tail : Nat,
                      st : {"start", "sync", "post", "poll", "done", "lost"}])
           /\ threads[t].data \in Seq(Nat) /\ threads[t].tail \in Nat
<1> DEFINE T == [data : Seq(Nat), tail : Nat,
                 st : {"start", "sync", "post", "poll", "done", "lost"}]
           x == [threads[t] EXCEPT !.st = s]
<1>1. threads \in Seq(T)
    BY DEF TypeOK
<1>2. threads[t] \in T
    BY ONLY <1>1, t \in 1 .. Len(threads), ElementFacts, ZenonT(60)
<1>3. x \in T
    BY <1>2
<1>4. threads[t].data \in Seq(Nat) /\ threads[t].tail \in Nat
    BY <1>2
<1>5. [threads EXCEPT ![t].st = s] = [threads EXCEPT ![t] = x]
    OBVIOUS
<1>6. [threads EXCEPT ![t] = x] \in Seq(T)
    <2> HIDE DEF T, x
    <2> QED  BY ONLY <1>1, <1>3, t \in 1 .. Len(threads)
<1> QED
    BY <1>4, <1>5, <1>6

\* persist_func touches neither the ring nor the handshake: it writes the log,
\* and sends the client a tail word that is no header.
LEMMA PersistInv ==
    ASSUME RingInv, NEW t \in 1 .. Len(threads), PersistStep(t)
    PROVE  RingInv'
<1>1. TypeOK /\ HandshakeInv /\ PositionInv /\ BatchInv /\ RecordsInRing
    BY DEF RingInv
<1>2. UNCHANGED <<clientVars, toClerk, clerkVars, storeVars, histVars>>
    BY DEF PersistStep, PersistWrite, PersistSync, PersistPost, PersistPoll, PersistLost
<1>3. /\ threads' \in Seq([data : Seq(Nat), tail : Nat,
                           st : {"start", "sync", "post", "poll", "done", "lost"}])
      /\ mu' \in Nat /\ log' \in Seq(Seq(Nat)) /\ synced' \in Nat /\ cq' \in Nat
    <2>1. mu \in Nat /\ log \in Seq(Seq(Nat)) /\ synced \in Nat /\ cq \in Nat /\ t \in Nat
        BY <1>1 DEF TypeOK
    <2>2. CASE PersistWrite(t)
        <3>1. log' \in Seq(Seq(Nat))
            BY ZenonT(60), <1>1, <2>1, <2>2, ThreadFacts, AppendFacts DEF PersistWrite
        <3> QED  BY ZenonT(60), <1>1, <2>1, <2>2, <3>1, ThreadFacts DEF PersistWrite
    <2>3. CASE PersistSync(t)
        <3>1. Len(log) \in Nat
            BY <2>1
        <3> QED  BY ZenonT(60), <1>1, <2>1, <2>3, <3>1, ThreadFacts DEF PersistSync
    <2>4. CASE PersistPost(t)
        BY ZenonT(60), <1>1, <2>1, <2>4, ThreadFacts DEF PersistPost
    <2>5. CASE PersistPoll(t)
        <3>1. cq' \in Nat
            BY <2>1, <2>5 DEF PersistPoll, TakeCompletion
        <3> QED  BY ZenonT(60), <1>1, <2>1, <2>5, <3>1, ThreadFacts DEF PersistPoll
    <2>6. CASE PersistLost(t)
        BY ZenonT(60), <1>1, <2>1, <2>6, ThreadFacts DEF PersistLost
    <2> QED  BY <2>2, <2>3, <2>4, <2>5, <2>6 DEF PersistStep
<1>4. PICK tail \in Nat : toClient' = toClient \/ toClient' = Append(toClient, TailWord(tail))
    <2>1. threads[t].tail \in Nat
        BY ZenonT(60), <1>1, ThreadFacts
    <2> QED
        BY <2>1 DEF PersistStep, PersistWrite, PersistSync, PersistPost, PersistPoll, PersistLost
<1>5. /\ toClient' \in Seq(ToClient) /\ Len(toClient) \in Nat
      /\ \/ toClient' = toClient
         \/ /\ Len(toClient') = Len(toClient) + 1
            /\ toClient'[Len(toClient) + 1].kind # "header"
            /\ \A i \in 1 .. Len(toClient) : toClient'[i] = toClient[i]
    <2>1. toClient \in Seq(ToClient)
        BY <1>1 DEF TypeOK
    <2>2. TailWord(tail) \in ToClient /\ TailWord(tail).kind # "header"
        BY ToClientFacts
    <2> QED  BY <1>4, <2>1, <2>2, AppendFacts
<1>6. TypeOK'
    <2>1. toClient' \in Seq(ToClient)
        BY <1>5
    <2>2. /\ cpc' = cpc /\ pend' = pend /\ buf_head' = buf_head /\ buf_tail' = buf_tail
          /\ header' = header /\ answer' = answer
        BY <1>2 DEF clientVars
    <2>3. /\ kpc' = kpc /\ kheader' = kheader /\ message' = message /\ ktail' = ktail
          /\ batch_length' = batch_length /\ batch' = batch
        BY <1>2 DEF clerkVars
    <2>4. ring' = ring /\ im_index' = im_index /\ db' = db /\ recs' = recs /\ last' = last
        BY <1>2 DEF storeVars, histVars
    <2>5. TypeOK
        BY <1>1
    <2>6. /\ cpc' \in Simple \cup {"idle", "space", "nop", "rewind", "write", "closed"}
          /\ pend' \in [key : Keys \cup {NoKey}, len : Nat]
          /\ buf_head' \in Nat /\ buf_tail' \in Nat
          /\ header' \in {CLIENT_DONE, CLERK_DONE} /\ answer' \in Replies \cup Requests
        BY ONLY ZenonT(60), <2>2, <2>5 DEF TypeOK
    <2>7. /\ kpc' \in {"spin", "persist", "closing", "reply", "poll", "recv", "gone"}
          /\ kheader' \in {CLIENT_DONE, CLERK_DONE} /\ message' \in Requests \cup Replies
          /\ ktail' \in Nat /\ batch_length' \in Nat
          /\ batch' \in Seq([key : Keys, off : Nat, len : Nat, id : Nat])
        BY ONLY ZenonT(60), <2>3, <2>5 DEF TypeOK
    <2>8. /\ ring' \in [Cells -> Nat]
          /\ im_index' \in [Keys -> [pos : Nat, len : Nat]] /\ db' \in [Keys -> Nat]
          /\ recs' \in Seq([key : Keys, len : Nat, pos : Nat])
          /\ last' \in [Keys -> Int]
        BY ONLY ZenonT(60), <2>4, <2>5 DEF TypeOK
    <2> QED  BY ONLY ZenonT(60), <1>3, <2>1, <2>6, <2>7, <2>8 DEF TypeOK
<1>7. NoHeader => NoHeader'
    <2> SUFFICES ASSUME NoHeader, NEW i \in 1 .. Len(toClient')
                 PROVE  toClient'[i].kind # "header"
        BY DEF NoHeader
    <2>1. \/ i \in 1 .. Len(toClient) /\ toClient'[i] = toClient[i]
          \/ toClient'[i].kind # "header"
        BY <1>5
    <2> QED  BY <2>1 DEF NoHeader
<1>8. OneHeader => OneHeader'
    <2> SUFFICES ASSUME OneHeader PROVE OneHeader'
        OBVIOUS
    <2>1. PICK i \in 1 .. Len(toClient) :
            /\ toClient[i].kind = "header"
            /\ \A j \in 1 .. Len(toClient) : j # i => toClient[j].kind # "header"
        BY DEF OneHeader
    <2>2. i \in 1 .. Len(toClient') /\ toClient'[i].kind = "header"
        BY <1>5, <2>1
    <2>3. \A j \in 1 .. Len(toClient') : j # i => toClient'[j].kind # "header"
        BY <1>5, <2>1
    <2> QED  BY <2>2, <2>3 DEF OneHeader
<1>9. HandshakeInv'
    <2>1. Posted' = Posted /\ PostedRecord' = PostedRecord /\ Placed' = Placed
        BY ZenonT(60), <1>2 DEF Posted, PostedRecord, Placed
    <2>2. AtRest => AtRest'
        BY <1>2, <1>7 DEF AtRest
    <2>3. Sent => Sent'
        BY ZenonT(60), <1>2, <1>7, <2>1 DEF Sent, Calling
    <2>4. Arrived => Arrived'
        BY <1>2, <1>7, <2>1 DEF Arrived, Calling
    <2>5. Handled => Handled'
        BY <1>2, <1>7 DEF Handled, Calling
    <2>6. Replied => Replied'
        BY <1>2, <1>8 DEF Replied, Calling
    <2>7. Answered => Answered'
        BY <1>2, <1>7 DEF Answered, Calling
    <2>8. Closing => Closing'
        BY ZenonT(60), <1>2 DEF Closing
    <2> QED  BY <1>1, <2>2, <2>3, <2>4, <2>5, <2>6, <2>7, <2>8 DEF HandshakeInv
<1>10. PositionInv'
    BY <1>1, <1>2, PositionFrame DEF Untaken
<1> QED
    BY <1>1, <1>2, <1>6, <1>9, <1>10, BatchFrame, RecordsFrame DEF RingInv

-----------------------------------------------------------------------------
(* The theorems                                                            *)

\* A fresh connection: client and clerk start at the ring's first position.
LEMMA InitInv == Init => RingInv
<1> SUFFICES ASSUME Init PROVE RingInv
    OBVIOUS
<1>1. TypeOK
    BY ConstantTypes, RingFacts DEF Init, TypeOK
<1>2. AtRest
    BY DEF Init, AtRest, NoHeader
<1>3. PositionInv
    BY RingFacts DEF Init, PositionInv, Untaken, Simple
<1>4. BatchInv
    BY ConstantTypes, RingFacts DEF Init, BatchInv
<1>5. RecordsInRing
    BY DEF Init, RecordsInRing
<1> QED
    BY <1>1, <1>2, <1>3, <1>4, <1>5 DEF RingInv, HandshakeInv

\* A step that changes nothing keeps the invariant.
LEMMA StutterInv ==
    ASSUME RingInv, UNCHANGED vars
    PROVE  RingInv'
<1>1. TypeOK /\ HandshakeInv /\ PositionInv /\ BatchInv /\ RecordsInRing
    BY DEF RingInv
<1>2. TypeOK'
    BY ZenonT(60), <1>1 DEF vars, TypeOK
<1>3. HandshakeInv'
    <2>1. /\ Posted' = Posted /\ PostedRecord' = PostedRecord /\ Placed' = Placed
          /\ NoHeader' = NoHeader /\ OneHeader' = OneHeader
        BY ZenonT(60) DEF vars, Posted, PostedRecord, Placed, NoHeader, OneHeader
    <2> QED
        BY ZenonT(60), <1>1, <2>1 DEF vars, HandshakeInv, AtRest, Sent, Arrived, Handled, Replied, Answered,
                          Closing, Calling
<1>4. PositionInv'
    BY <1>1, PositionFrame DEF vars, Untaken
<1> QED
    BY <1>1, <1>2, <1>3, <1>4, BatchFrame, RecordsFrame DEF vars, RingInv

\* Every step of the connection keeps the invariant.
LEMMA NextInv == RingInv /\ [Next]_vars => RingInv'
<1> SUFFICES ASSUME RingInv, [Next]_vars PROVE RingInv'
    OBVIOUS
<1>1. CASE ClientStep
    <2>1. ASSUME NEW op \in {"GET", "DELETE"}, NEW k \in Keys, SendSimple(op, k)
          PROVE  RingInv'
        BY <2>1, SendSimpleInv DEF Simple
    <2>2. CASE SendSimple("SYNC", NoKey)
        BY <2>2, SendSimpleInv DEF Simple
    <2> QED
        BY <1>1, <2>1, <2>2, StartWriteInv, WriteInv, AckedInv, SendCloseInv DEF ClientStep
<1>2. CASE ClerkStep
    BY <1>2, ClerkPutInv, ClerkPutAndFlushInv, ClerkNopInv, ClerkSimpleInv, ClerkCloseInv,
       ClerkPersistedInv, ClerkReplyInv, ClerkPollInv, ClerkGoneInv DEF ClerkStep
<1>3. CASE PlaceAtClerk
    BY <1>3, PlaceAtClerkInv
<1>4. CASE PlaceAtClient
    BY <1>4, PlaceAtClientInv
<1>5. ASSUME NEW t \in 1 .. Len(threads), PersistStep(t)
      PROVE  RingInv'
    BY <1>5, PersistInv
<1>6. CASE UNCHANGED vars
    BY <1>6, StutterInv
<1> QED
    BY <1>1, <1>2, <1>3, <1>4, <1>5, <1>6 DEF Next

\* For rings, batches and records of any size, the inductive invariant holds in
\* every state: the header word changes hands once per call, and client and
\* clerk agree on the position of the next record although neither sends it.
THEOREM RingInvariant == Spec => []RingInv
<1>1. Init => RingInv
    BY InitInv
<1>2. RingInv /\ [Next]_vars => RingInv'
    BY NextInv
<1> QED
    BY <1>1, <1>2, PTL DEF Spec

\* Every variable of the connection keeps its type.
THEOREM TypeCorrect == Spec => []TypeOK
<1>1. RingInv => TypeOK
    BY DEF RingInv
<1> QED
    BY <1>1, RingInvariant, PTL

\* SendWrite never lets a record touch the header words or the ring's end.
THEOREM RecordsStayInRing == Spec => []RecordsInRing
<1>1. RingInv => RecordsInRing
    BY DEF RingInv
<1> QED
    BY <1>1, RingInvariant, PTL

\* A record of the ring that has a length has a first cell.
LEMMA FirstCell ==
    ASSUME NEW a \in Nat, NEW b \in Nat, NEW n \in Nat, n > 0
    PROVE  a + b \in (a + b) .. (a + b + n - 1)
OBVIOUS

\* The clerk finds each record of its batch, whole, at the place it computes
\* from its own tail and batch length: what it flushes is what was written.
THEOREM BatchStaysInPlace == Spec => []BatchInPlace
<1>1. RingInv => BatchInPlace
    <2> SUFFICES ASSUME RingInv, NEW i \in 1 .. Len(batch)
                 PROVE  ReadAt(ring, ktail + batch[i].off, batch[i].len) = batch[i].id
        BY ZenonT(60) DEF BatchInPlace
    <2>1. batch[i].off \in Nat /\ batch[i].len \in Nat /\ ktail \in Nat
        BY ZenonT(60), BatchTypes DEF RingInv, TypeOK
    <2>2. /\ batch[i].len > 0
          /\ \A c \in (ktail + batch[i].off) .. (ktail + batch[i].off + batch[i].len - 1) :
                 ring[c] = batch[i].id
        BY DEF RingInv, BatchInv
    <2>3. ktail + batch[i].off \in
              (ktail + batch[i].off) .. (ktail + batch[i].off + batch[i].len - 1)
        BY <2>1, <2>2, FirstCell
    <2>4. ring[ktail + batch[i].off] = batch[i].id
        BY <2>2, <2>3
    <2> QED
        BY ZenonT(60), <2>2, <2>4 DEF ReadAt
<1> QED
    BY <1>1, RingInvariant, PTL

=============================================================================
