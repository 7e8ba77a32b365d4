-------------------------- MODULE RemotePathProofs --------------------------
(***************************************************************************)
(* Proofs about RemotePath: for any number of writes, and of packets of a   *)
(* write, a record whose Write returned is persistent: whole on the direct  *)
(* paths, and as the server copied it on the served ones.                   *)
(***************************************************************************)
EXTENDS RemotePath, TLAPS

\* The provers, and their time, for a leaf that names none.
USE SMTT(60), ZenonT(60), SMTT(90)

USE DEF END_FLAG, SERVER_FLAG, CLIENT_FLAG, Zero, NoWord, clientVars, serverVars

Records == [Parts -> 0 .. MaxWrites]
Packet  == [word : {NoWord, CLIENT_FLAG, END_FLAG}, part : Nat, val : 0 .. MaxWrites]

-----------------------------------------------------------------------------
(* Types                                                                   *)

\* The packets of a message have their type, and there are as many as parts.
LEMMA MessageFacts ==
    ASSUME NEW w \in {CLIENT_FLAG, END_FLAG}, NEW v \in 0 .. MaxWrites, path \in Paths
    PROVE  /\ Message(w, v) \in Seq(Packet) /\ Len(Message(w, v)) = Packets[path]
           /\ \A i \in Parts : Message(w, v)[i] = [word |-> IF i = 1 /\ ~Direct THEN w ELSE NoWord,
                                                   part |-> i, val |-> v]
<1>1. Packets[path] \in Nat
    BY PathAssumption
<1>2. \A i \in Parts : [word |-> IF i = 1 /\ ~Direct THEN w ELSE NoWord, part |-> i, val |-> v] \in Packet
    BY <1>1 DEF Parts, Packet
<1>3. QED  BY <1>1, <1>2 DEF Message, Parts

\* What a packet leaves in the buffer.
Placed == IF Head(wire).part \in Parts THEN [buf EXCEPT ![Head(wire).part] = Head(wire).val] ELSE buf

\* A packet taken from the wire leaves records and packets.
LEMMA DeliverTypes ==
    ASSUME TypeOK, wire # <<>>
    PROVE  /\ Head(wire) \in Packet /\ Tail(wire) \in Seq(Packet)
           /\ Placed \in Records
<1>1. wire \in Seq(Packet)
    BY DEF TypeOK, Packet
<1>2. Head(wire) \in Packet /\ Tail(wire) \in Seq(Packet)
    BY ONLY <1>1, wire # <<>>
<1>3. Head(wire).val \in 0 .. MaxWrites
    BY ONLY <1>2 DEF Packet
<1>4. buf \in Records
    BY DEF TypeOK, Records
<1>5. Placed \in Records
    BY ONLY <1>3, <1>4 DEF Records, Placed
<1>6. QED  BY <1>2, <1>5

\* A record appended to the file, or alone in its place.
LEMMA StoredTypes ==
    ASSUME NEW S, NEW q \in Seq(S), NEW r \in S
    PROVE  Append(q, r) \in Seq(S) /\ <<r>> \in Seq(S)
OBVIOUS

\* Every step keeps the types.
LEMMA TypeStep ==
    ASSUME TypeOK, [Next]_vars
    PROVE  TypeOK'
<1> USE PathAssumption
<1>0. path' = path /\ path \in Paths /\ Parts' = Parts
    BY DEF Next, Client, Network, Server, Write, Complete, Return, Close, Closed, Deliver, Evict,
           DeliverReply, Start, Finish, Take, Flush, Reply, Replied, vars, TypeOK, Parts
<1>1. CASE Write
  <2>1. sent + 1 \in 0 .. MaxWrites
    BY <1>1 DEF TypeOK, Write
  <2>2. Message(CLIENT_FLAG, sent + 1) \in Seq(Packet)
    BY <2>1, <1>0, MessageFacts
  <2>3. cheader' \in {Zero, CLIENT_FLAG, SERVER_FLAG, END_FLAG}
    BY <1>1 DEF TypeOK, Write
  <2>4. QED  BY <1>0, <1>1, <2>1, <2>2, <2>3 DEF TypeOK, Write, Packet
<1>2. CASE Complete \/ Return \/ Closed
    BY <1>0, <1>2 DEF TypeOK, Complete, Return, Closed
<1>3. CASE Close
  <2>1. Message(END_FLAG, sent) \in Seq(Packet)
    BY <1>0, MessageFacts DEF TypeOK
  <2>a. EndPacket \in Packet
    BY DEF Packet, EndPacket
  <2>b. <<EndPacket>> \in Seq(Packet)
    BY ONLY <2>a
  <2>2. wire' \in Seq(Packet)
    BY <1>3, <2>1, <2>b DEF Close
  <2>3. QED  BY <1>0, <1>3, <2>2 DEF TypeOK, Close, Packet
<1>4. CASE Deliver
  <2>1. /\ wire # <<>> /\ wire' = Tail(wire) /\ buf' = Placed
        /\ header' = (IF Head(wire).word # NoWord THEN Head(wire).word ELSE header)
        /\ stored' = (IF Direct /\ path \notin Cached THEN <<Placed>> ELSE stored)
        /\ UNCHANGED <<path, clientVars, reply, serverVars>>
    BY <1>4 DEF Deliver, Placed
  <2>2. wire' \in Seq(Packet) /\ buf' \in Records /\ Placed \in Records /\ Head(wire) \in Packet
    BY <2>1, DeliverTypes
  <2>3. header' \in {Zero, CLIENT_FLAG, SERVER_FLAG, END_FLAG}
    BY <2>1, <2>2 DEF TypeOK, Packet
  <2>4. stored' \in Seq(Records)
    BY ZenonT(60), <2>1, <2>2, StoredTypes DEF TypeOK, Records
  <2>5. QED  BY <1>0, <2>1, <2>2, <2>3, <2>4 DEF TypeOK, Records, Packet
<1>5. CASE Evict
  <2>1. stored' \in Seq(Records)
    BY <1>5, StoredTypes DEF Evict, TypeOK, Records
  <2>2. QED  BY <1>0, <1>5, <2>1 DEF TypeOK, Evict, Records
<1>6. CASE DeliverReply
    BY ZenonT(60), <1>0, <1>6 DEF TypeOK, DeliverReply
<1>7. CASE Start \/ Finish \/ Reply \/ Replied
    BY ZenonT(60), <1>0, <1>7 DEF TypeOK, Start, Finish, Reply, Replied
<1>a. CASE Take
  <2>1. staged' \in [Parts -> 0 .. MaxWrites]
    BY <1>a DEF TypeOK, Take
  <2>2. QED  BY ZenonT(60), <1>0, <1>a, <2>1 DEF TypeOK, Take
<1>8. CASE Flush
  <2>1. stored' \in Seq(Records)
    BY ZenonT(60), <1>8, StoredTypes DEF Flush, TypeOK, Records
  <2>2. QED  BY <1>0, <1>8, <2>1 DEF TypeOK, Flush, Records
<1>9. CASE UNCHANGED vars
    BY <1>0, <1>9 DEF TypeOK, vars
<1>10. QED
    BY <1>1, <1>2, <1>3, <1>4, <1>5, <1>6, <1>7, <1>8, <1>9, <1>a DEF Next, Client, Network, Server

\* The initial states have their types.
LEMMA TypeInit == Init => TypeOK
<1> SUFFICES ASSUME Init PROVE TypeOK
    OBVIOUS
<1>1. path \in Paths /\ MaxWrites \in Nat
    BY PathAssumption DEF Init
<1>2. Whole(0) \in Records
    BY <1>1 DEF Whole, Records
<1>3. stored \in Seq(Records)
    BY <1>2 DEF Init
<1>4. wire \in Seq(Packet)
    BY DEF Init
<1>5. buf \in Records /\ staged \in Records
    BY <1>2 DEF Init
<1>6. sent \in 0 .. MaxWrites /\ returned \in 0 .. MaxWrites
    BY <1>1 DEF Init
<1>7. /\ cpc = "idle" /\ spc = "start" /\ cheader = Zero /\ header \in {Zero, END_FLAG} /\ reply \in BOOLEAN
    BY ZenonT(60) DEF Init
<1>8. QED  BY ONLY <1>1, <1>3, <1>4, <1>5, <1>6, <1>7, ZenonT(60) DEF TypeOK, Records, Packet

\* Type correctness of the four paths.
THEOREM TypeCorrect == Spec => []TypeOK
BY TypeInit, TypeStep, PTL DEF Spec

-----------------------------------------------------------------------------
(* Direct paths                                                            *)

\* A direct write is posted: none of its packets has arrived.
LEMMA DirectWrite ==
    ASSUME TypeOK, Direct, DirectPhase, Write
    PROVE  DirectPhase'
<1> USE PathAssumption
<1>1. /\ path' = path /\ path \in Paths /\ sent + 1 \in 0 .. MaxWrites /\ Packets[path] \in Nat
      /\ returned' = returned /\ sent' = sent + 1 /\ sent \in Nat
    BY DEF Write, TypeOK
<1>2. wire' = Message(CLIENT_FLAG, sent + 1)
    BY DEF Write
<1>3. /\ Len(wire') = Packets[path]
      /\ \A i \in Parts : wire'[i] = [word |-> NoWord, part |-> i, val |-> sent + 1]
    BY <1>1, <1>2, MessageFacts
<1>4. /\ Len(wire') = Packets'[path'] - 0
      /\ \A i \in 1 .. Len(wire') : wire'[i] = [word |-> NoWord, part |-> 0 + i, val |-> sent']
      /\ \A j \in 1 .. 0 : buf'[j] = sent'
    BY <1>1, <1>3 DEF Parts
<1>5. 0 \in 0 .. Packets'[path']
    BY <1>1
<1>6. sent' = returned' + 1 /\ cpc' = "posted" /\ spc' = spc /\ (path' \notin Cached => stored' = <<buf'>>)
    BY <1>1 DEF Write, DirectPhase
<1>7. spc' \in {"start", "poll"} /\ (spc' = "poll" => header' # END_FLAG)
    BY <1>6 DEF DirectPhase, Write
<1>8. QED  BY <1>4, <1>5, <1>6, <1>7 DEF DirectPhase

\* The completion comes when all packets have arrived.
LEMMA DirectComplete ==
    ASSUME TypeOK, Direct, DirectPhase, Complete
    PROVE  DirectPhase'
<1> USE PathAssumption
<1>1. /\ path' = path /\ path \in Paths /\ Packets[path] \in Nat /\ buf \in [Parts -> 0 .. MaxWrites]
      /\ cpc = "posted" /\ wire = <<>> /\ cpc' = "idle" /\ returned' = sent
      /\ UNCHANGED <<sent, wire, spc, header, buf, stored>>
    BY DEF Complete, TypeOK
<1>2. PICK k \in 0 .. Packets[path] : /\ Len(wire) = Packets[path] - k
                                      /\ \A j \in 1 .. k : buf[j] = sent
    BY <1>1 DEF DirectPhase
<1>3. k = Packets[path]
    BY <1>1, <1>2
<1>4. \A j \in Parts : buf[j] = sent
    BY <1>2, <1>3 DEF Parts
<1>5. buf = [i \in Parts |-> sent]
    BY <1>1, <1>4
<1>6. buf' = Whole(sent)'
    BY <1>1, <1>5 DEF Whole, Parts
<1>7. QED  BY <1>1, <1>6 DEF DirectPhase

\* A packet of a direct write arrives behind the others; the end word leaves the
\* record alone.
LEMMA DirectDeliver ==
    ASSUME TypeOK, Direct, DirectPhase, Deliver
    PROVE  DirectPhase'
<1> USE PathAssumption
<1>1. /\ path' = path /\ path \in Paths /\ Packets[path] \in Nat /\ buf \in [Parts -> 0 .. MaxWrites]
      /\ wire # <<>> /\ wire' = Tail(wire) /\ wire \in Seq(Packet)
      /\ buf' = Placed /\ (path' \notin Cached => stored' = <<buf'>>)
      /\ UNCHANGED <<cpc, sent, returned, spc>>
    BY ZenonT(60) DEF Deliver, TypeOK, Placed, Packet
<1>2. CASE cpc = "posted"
  <2>1. PICK k \in 0 .. Packets[path] :
            /\ Len(wire) = Packets[path] - k
            /\ \A i \in 1 .. Len(wire) : wire[i] = [word |-> NoWord, part |-> k + i, val |-> sent]
            /\ \A j \in 1 .. k : buf[j] = sent
    BY <1>2 DEF DirectPhase
  <2>2. /\ Len(wire) \in Nat /\ Len(wire) # 0 /\ Len(Tail(wire)) = Len(wire) - 1
        /\ Head(wire) = wire[1] /\ \A i \in 1 .. Len(wire) - 1 : Tail(wire)[i] = wire[i + 1]
    BY ONLY <1>1
  <2>3. k + 1 \in 1 .. Packets[path]
    BY ONLY <1>1, <2>1, <2>2
  <2>e. 1 \in 1 .. Len(wire)
    BY ONLY <2>2
  <2>f. wire[1] = [word |-> NoWord, part |-> k + 1, val |-> sent]
    BY ONLY <2>1, <2>e
  <2>4. Head(wire) = [word |-> NoWord, part |-> k + 1, val |-> sent]
    BY ONLY <2>2, <2>f
  <2>a. Head(wire).part = k + 1 /\ Head(wire).val = sent
    BY ONLY <2>4
  <2>b. Parts = 1 .. Packets[path]
    BY DEF Parts
  <2>c. Head(wire).part \in Parts
    BY ONLY <2>3, <2>a, <2>b
  <2>5. buf' = [buf EXCEPT ![k + 1] = sent]
    BY ONLY ZenonT(60), <1>1, <2>a, <2>c DEF Placed
  <2>d. \A j \in Parts : buf'[j] = IF j = k + 1 THEN sent ELSE buf[j]
    BY ONLY <1>1, <2>5
  <2>6. \A j \in 1 .. k + 1 : buf'[j] = sent
    <3> SUFFICES ASSUME NEW j \in 1 .. k + 1 PROVE buf'[j] = sent
        OBVIOUS
    <3>1. j \in Parts /\ (j = k + 1 \/ j \in 1 .. k)
        BY ONLY <1>1, <2>1, <2>3, <2>b, j \in 1 .. k + 1
    <3>2. QED  BY ONLY <2>1, <2>d, <3>1
  <2>7. \A i \in 1 .. Len(wire') : wire'[i] = [word |-> NoWord, part |-> (k + 1) + i, val |-> sent]
    <3> SUFFICES ASSUME NEW i \in 1 .. Len(wire')
                 PROVE  wire'[i] = [word |-> NoWord, part |-> (k + 1) + i, val |-> sent]
        OBVIOUS
    <3>1. i \in 1 .. Len(wire) - 1 /\ i + 1 \in 1 .. Len(wire)
        BY ONLY <1>1, <2>2, i \in 1 .. Len(wire')
    <3>2. wire'[i] = wire[i + 1]
        BY ONLY <1>1, <2>2, <3>1
    <3>3. wire[i + 1] = [word |-> NoWord, part |-> k + (i + 1), val |-> sent]
        BY ONLY <2>1, <3>1
    <3>4. k + (i + 1) = (k + 1) + i
        BY ONLY <2>1, <3>1, <1>1
    <3>5. QED  BY ONLY <3>2, <3>3, <3>4
  <2>8. Len(wire') = Packets[path] - (k + 1) /\ k + 1 \in 0 .. Packets[path]
    BY ONLY <1>1, <2>1, <2>2, <2>3
  <2>9. \E l \in 0 .. Packets'[path'] :
            /\ Len(wire') = Packets'[path'] - l
            /\ \A i \in 1 .. Len(wire') : wire'[i] = [word |-> NoWord, part |-> l + i, val |-> sent']
            /\ \A j \in 1 .. l : buf'[j] = sent'
    BY ZenonT(60), <1>1, <2>6, <2>7, <2>8
  <2>10. header' = header
    BY <2>4 DEF Deliver
  <2>11. QED  BY <1>1, <1>2, <2>9, <2>10 DEF DirectPhase
<1>3. CASE cpc # "posted"
  <2>1. wire = <<EndPacket>> /\ buf = Whole(sent) /\ sent = returned /\ cpc = "closing"
    BY <1>1, <1>3 DEF DirectPhase
  <2>2. Head(wire) = EndPacket /\ Tail(wire) = <<>>
    BY ONLY <2>1
  <2>3. buf' = buf
    BY <1>1, <2>2 DEF Placed, EndPacket, Parts
  <2>4. Whole(sent)' = Whole(sent)
    BY <1>1 DEF Whole, Parts
  <2>5. QED  BY <1>1, <1>3, <2>1, <2>2, <2>3, <2>4 DEF DirectPhase
<1>4. QED  BY <1>2, <1>3

\* Every step of a direct path keeps DirectPhase.
LEMMA DirectStep ==
    ASSUME TypeOK, Direct, DirectPhase, [Next]_vars
    PROVE  DirectPhase'
<1>1. CASE Write
    BY <1>1, DirectWrite
<1>2. CASE Complete
    BY <1>2, DirectComplete
<1>3. CASE Deliver
    BY <1>3, DirectDeliver
<1>4. CASE Close
  <2>1. /\ cpc = "idle" /\ cpc' = "closing" /\ wire' = <<EndPacket>>
        /\ UNCHANGED <<path, sent, returned, spc, header, buf, stored>>
    BY <1>4 DEF Close
  <2>2. Whole(sent)' = Whole(sent) /\ EndPacket' = EndPacket
    BY <2>1 DEF Whole, Parts, EndPacket
  <2>3. QED  BY <2>1, <2>2 DEF DirectPhase
<1>5. CASE Closed \/ DeliverReply \/ Start \/ Finish \/ UNCHANGED vars
  <2>1. /\ UNCHANGED <<path, sent, returned, wire, buf, stored>>
        /\ cpc' = cpc \/ (cpc = "closing" /\ cpc' = "closed" /\ wire = <<>>)
        /\ \/ spc' = spc /\ header' = header
           \/ spc' = "poll" /\ header' = Zero
           \/ spc = "poll" /\ header = END_FLAG /\ spc' = "done"
    BY <1>5 DEF Closed, DeliverReply, Start, Finish, vars
  <2>2. Whole(sent)' = Whole(sent)
    BY <2>1 DEF Whole, Parts
  <2>3. QED  BY <2>1, <2>2 DEF DirectPhase
<1>6. CASE Return \/ Take \/ Flush \/ Reply \/ Replied
    BY <1>6 DEF Return, Take, Flush, Reply, Replied, DirectPhase
<1>7. CASE Evict
  <2>1. /\ UNCHANGED <<path, cpc, sent, returned, spc, header, wire, buf>>
        /\ path \in Cached
    BY <1>7 DEF Evict
  <2>2. Whole(sent)' = Whole(sent)
    BY <2>1 DEF Whole, Parts
  <2>3. QED  BY <2>1, <2>2 DEF DirectPhase
<1>8. QED
    BY <1>1, <1>2, <1>3, <1>4, <1>5, <1>6, <1>7 DEF Next, Client, Network, Server

-----------------------------------------------------------------------------
(* Served paths                                                            *)

\* What Kept, Arrived and Rest depend on.
LEMMA ServedFrame ==
    ASSUME UNCHANGED <<path, sent, returned>>
    PROVE  /\ UNCHANGED stored => (Kept(returned) => Kept(returned)') /\ (Kept(sent) => Kept(sent)')
           /\ UNCHANGED wire => \A k : (Rest(CLIENT_FLAG, k) => Rest(CLIENT_FLAG, k)')
                                    /\ (Rest(END_FLAG, k) => Rest(END_FLAG, k)')
           /\ UNCHANGED buf => \A k : Arrived(k) => Arrived(k)'
           /\ UNCHANGED staged => (Copied(staged, sent) => Copied(staged, sent)')
           /\ Whole(sent)' = Whole(sent) /\ Parts' = Parts
<1>1. UNCHANGED stored => (Kept(returned) => Kept(returned)') /\ (Kept(sent) => Kept(sent)')
    BY ZenonT(60) DEF Kept, Copied, Parts
<1>2. UNCHANGED wire => \A k : (Rest(CLIENT_FLAG, k) => Rest(CLIENT_FLAG, k)')
                            /\ (Rest(END_FLAG, k) => Rest(END_FLAG, k)')
    BY ZenonT(60) DEF Rest
<1>3. UNCHANGED buf => \A k : Arrived(k) => Arrived(k)'
    BY ZenonT(60) DEF Arrived, Parts
<1>4. UNCHANGED staged => (Copied(staged, sent) => Copied(staged, sent)')
    BY ZenonT(60) DEF Copied, Parts
<1>5. Whole(sent)' = Whole(sent) /\ Parts' = Parts
    BY ZenonT(60) DEF Whole, Parts
<1>6. QED  BY ONLY <1>1, <1>2, <1>3, <1>4, <1>5, ZenonT(60)

\* A message that was just posted is all on its way.
LEMMA RestOfMessage ==
    ASSUME TypeOK, ~Direct, path' = path, NEW w \in {CLIENT_FLAG, END_FLAG},
           sent' \in 0 .. MaxWrites, wire' = Message(w, sent')
    PROVE  Rest(w, 0)' /\ 0 \in 0 .. Packets'[path']
<1>1. path \in Paths /\ Packets[path] \in Nat /\ Packets' = Packets
    BY PathAssumption DEF TypeOK
<1>2. /\ Len(wire') = Packets[path]
      /\ \A i \in Parts : wire'[i] = [word |-> IF i = 1 /\ ~Direct THEN w ELSE NoWord,
                                      part |-> i, val |-> sent']
    BY <1>1, MessageFacts
<1>3. Len(wire') = Packets[path] - 0
    BY ONLY <1>1, <1>2
<1>4. \A i \in 1 .. Len(wire') :
            wire'[i] = [word |-> IF 0 + i = 1 THEN w ELSE NoWord, part |-> 0 + i, val |-> sent']
  <2> SUFFICES ASSUME NEW i \in 1 .. Len(wire')
               PROVE  wire'[i] = [word |-> IF 0 + i = 1 THEN w ELSE NoWord, part |-> 0 + i, val |-> sent']
      OBVIOUS
  <2>1. i \in Parts /\ 0 + i = i /\ (i = 1 /\ ~Direct <=> 0 + i = 1)
    <3>1. i \in Nat /\ i \in Parts
        BY <1>1, <1>2 DEF Parts
    <3>2. 0 + i = i
        BY ONLY <3>1
    <3>3. QED  BY <3>1, <3>2
  <2>2. wire'[i] = [word |-> IF i = 1 /\ ~Direct THEN w ELSE NoWord, part |-> i, val |-> sent']
    BY ONLY <1>2, <2>1, ZenonT(60)
  <2>3. (IF i = 1 /\ ~Direct THEN w ELSE NoWord) = IF 0 + i = 1 THEN w ELSE NoWord
    BY ONLY <2>1, ZenonT(60)
  <2>4. QED  BY ONLY <2>1, <2>2, <2>3, ZenonT(60)
<1>5. Rest(w, 0)'
  <2>1. Len(wire') = Packets'[path'] - 0
    BY ONLY <1>1, <1>3, path' = path
  <2>2. QED  BY ONLY <1>4, <2>1, ZenonT(60) DEF Rest
<1>6. QED  BY <1>1, <1>5

\* The next packet is taken from the wire.
LEMMA RestStep ==
    ASSUME TypeOK, UNCHANGED <<path, sent>>, NEW w \in {CLIENT_FLAG, END_FLAG},
           NEW k \in 0 .. Packets[path], Rest(w, k), wire # <<>>, wire' = Tail(wire)
    PROVE  /\ Rest(w, k + 1)' /\ k + 1 \in Parts /\ k + 1 \in 0 .. Packets[path]
           /\ Head(wire).word = IF k = 0 THEN w ELSE NoWord
           /\ Head(wire).part = k + 1 /\ Head(wire).val = sent
<1>1. path \in Paths /\ Packets[path] \in Nat /\ wire \in Seq(Packet) /\ k \in Nat
    BY PathAssumption DEF TypeOK, Packet
<1>2. /\ Len(wire) = Packets[path] - k
      /\ \A i \in 1 .. Len(wire) :
            wire[i] = [word |-> IF k + i = 1 THEN w ELSE NoWord, part |-> k + i, val |-> sent]
    BY ZenonT(60) DEF Rest
<1>3. /\ Len(wire) \in Nat /\ Len(wire) # 0 /\ Len(Tail(wire)) = Len(wire) - 1
      /\ Head(wire) = wire[1] /\ \A i \in 1 .. Len(wire) - 1 : Tail(wire)[i] = wire[i + 1]
    BY ONLY <1>1, wire # <<>>
<1>4. k + 1 \in 1 .. Packets[path] /\ 1 \in 1 .. Len(wire) /\ k + 1 \in 0 .. Packets[path]
    BY ONLY <1>1, <1>2, <1>3
<1>5. wire[1] = [word |-> IF k + 1 = 1 THEN w ELSE NoWord, part |-> k + 1, val |-> sent]
    BY ONLY <1>2, <1>4
<1>6. k + 1 = 1 <=> k = 0
    BY ONLY <1>1
<1>7. /\ Head(wire).word = IF k = 0 THEN w ELSE NoWord
      /\ Head(wire).part = k + 1 /\ Head(wire).val = sent
    BY ONLY <1>3, <1>5, <1>6
<1>8. \A i \in 1 .. Len(wire') :
            wire'[i] = [word |-> IF (k + 1) + i = 1 THEN w ELSE NoWord, part |-> (k + 1) + i, val |-> sent]
  <2> SUFFICES ASSUME NEW i \in 1 .. Len(wire')
               PROVE  wire'[i] = [word |-> IF (k + 1) + i = 1 THEN w ELSE NoWord,
                                  part |-> (k + 1) + i, val |-> sent]
      OBVIOUS
  <2>1. i \in 1 .. Len(wire) - 1 /\ i + 1 \in 1 .. Len(wire)
      BY ONLY <1>3, wire' = Tail(wire), i \in 1 .. Len(wire')
  <2>2. wire'[i] = wire[i + 1]
      BY ONLY <1>3, wire' = Tail(wire), <2>1
  <2>3. wire[i + 1] = [word |-> IF k + (i + 1) = 1 THEN w ELSE NoWord, part |-> k + (i + 1), val |-> sent]
      BY ONLY <1>2, <2>1
  <2>4. k + (i + 1) = (k + 1) + i
      BY ONLY <1>1, <2>1
  <2>5. QED  BY ONLY <2>2, <2>3, <2>4
<1>9. Len(wire') = Packets[path] - (k + 1)
    BY ONLY <1>1, <1>2, <1>3, wire' = Tail(wire)
<1>10. Rest(w, k + 1)'
    BY ONLY <1>8, <1>9, UNCHANGED <<path, sent>>, ZenonT(60) DEF Rest
<1>11. QED  BY ONLY <1>4, <1>7, <1>10 DEF Parts

\* A served write is posted.
LEMMA ServedWrite ==
    ASSUME TypeOK, ~Direct, ServedPhase, Write
    PROVE  ServedPhase'
<1>1. /\ cpc = "idle" /\ cpc' = "posted" /\ sent' = sent + 1 /\ returned' = returned
      /\ wire' = Message(CLIENT_FLAG, sent') /\ cheader' = CLIENT_FLAG
      /\ UNCHANGED <<path, reply, spc, header, buf, stored>> /\ sent < MaxWrites
    BY DEF Write
<1>2. /\ sent = returned /\ Kept(sent) /\ ~reply /\ header \in {Zero, SERVER_FLAG} /\ buf = Whole(sent)
      /\ spc \in {"start", "poll", "sent"}
    BY <1>1 DEF ServedPhase, Awaiting, TypeOK
<1>a. Kept(returned)
    BY ONLY <1>2 DEF Kept, Copied
<1>3. Kept(returned)'
    BY ONLY <1>1, <1>a, ZenonT(60) DEF Kept, Copied, Parts
<1>b. sent' \in 0 .. MaxWrites /\ sent' = returned' + 1
    BY <1>1, <1>2, PathAssumption DEF TypeOK
<1>4. Rest(CLIENT_FLAG, 0)' /\ 0 \in 0 .. Packets'[path']
    BY <1>1, <1>b, RestOfMessage
<1>5. Arrived(0)'
    BY <1>1, <1>2 DEF Arrived, Whole, Parts
<1>6. Progress(0)'
    BY <1>1, <1>2, <1>3 DEF Progress
<1>7. QED  BY <1>1, <1>b, <1>4, <1>5, <1>6 DEF ServedPhase, Awaiting

\* The completion of a served write: all packets have arrived.
LEMMA ServedComplete ==
    ASSUME TypeOK, ~Direct, ServedPhase, Complete
    PROVE  ServedPhase'
<1>1. /\ cpc = "posted" /\ cpc' = "wait" /\ wire = <<>>
      /\ UNCHANGED <<path, sent, returned, cheader, wire, reply, spc, header, buf, staged, stored>>
    BY DEF Complete
<1>2. PICK k \in 0 .. Packets[path] : Rest(CLIENT_FLAG, k) /\ Arrived(k) /\ Progress(k)
    BY <1>1 DEF ServedPhase, Awaiting
<1>3. Packets[path] \in Nat
    BY PathAssumption DEF TypeOK
<1>4. Len(wire) = 0 /\ Len(wire) = Packets[path] - k
    BY <1>1, <1>2 DEF Rest
<1>5. k = Packets[path]
    BY ONLY <1>3, <1>4, k \in 0 .. Packets[path]
<1>6. Rest(CLIENT_FLAG, k)' /\ Arrived(k)'
    BY <1>1, <1>2, ServedFrame
<1>7. Progress(k)'
    BY ZenonT(60), <1>1, <1>2, ServedFrame DEF Progress
<1>8. sent' = returned' + 1
    BY <1>1 DEF ServedPhase, Awaiting
<1>9. QED  BY <1>1, <1>5, <1>6, <1>7, <1>8 DEF ServedPhase, Awaiting

\* The answer has come.
LEMMA ServedReturn ==
    ASSUME TypeOK, ~Direct, ServedPhase, Return
    PROVE  ServedPhase'
<1>1. /\ cpc = "wait" /\ cheader = SERVER_FLAG /\ cpc' = "idle" /\ returned' = sent
      /\ UNCHANGED <<path, sent, cheader, wire, reply, spc, header, buf, staged, stored>>
    BY DEF Return
<1>2. PICK k \in 0 .. Packets[path] : Rest(CLIENT_FLAG, k) /\ Arrived(k) /\ Progress(k) /\ k = Packets[path]
    BY <1>1 DEF ServedPhase, Awaiting
<1>3. header = SERVER_FLAG /\ Kept(sent) /\ spc \in {"sent", "poll"} /\ ~reply
    BY <1>1, <1>2 DEF Progress
<1>4. Packets[path] \in Nat /\ wire \in Seq(Packet) /\ buf \in [Parts -> 0 .. MaxWrites]
    BY PathAssumption DEF TypeOK, Packet
<1>5. Len(wire) = 0
    BY <1>2, <1>4 DEF Rest
<1>6. wire = <<>>
    BY ONLY <1>4, <1>5
<1>7. buf = Whole(sent)
    BY <1>2, <1>4 DEF Arrived, Whole, Parts
<1>8. Kept(sent)' /\ Whole(sent)' = Whole(sent)
    BY ONLY <1>1, <1>3, ZenonT(60) DEF Kept, Copied, Whole, Parts
<1>9. QED  BY <1>1, <1>3, <1>6, <1>7, <1>8 DEF ServedPhase, Awaiting

\* The end is posted, and has completed.
LEMMA ServedClose ==
    ASSUME TypeOK, ~Direct, ServedPhase, Close \/ Closed
    PROVE  ServedPhase'
<1>1. /\ UNCHANGED <<path, sent, returned, reply, spc, header, buf, stored>>
      /\ \/ cpc = "idle" /\ cpc' = "closing" /\ wire' = Message(END_FLAG, sent)
         \/ cpc = "closing" /\ cpc' = "closed" /\ wire' = <<>>
    BY DEF Close, Closed
<1>2. /\ sent = returned /\ buf = Whole(sent) /\ Kept(sent) /\ ~reply /\ header # CLIENT_FLAG
      /\ spc \in {"start", "poll", "sent", "done"}
    BY <1>1 DEF ServedPhase, Awaiting
<1>3. Kept(sent)' /\ Whole(sent)' = Whole(sent)
    BY <1>1, <1>2, ServedFrame
<1>4. \/ wire' = <<>>
      \/ cpc' = "closing" /\ Rest(END_FLAG, 0)' /\ 0 \in 0 .. Packets'[path']
    BY <1>1, RestOfMessage DEF TypeOK
<1>5. QED  BY <1>1, <1>2, <1>3, <1>4 DEF ServedPhase, Awaiting

\* A packet arrives behind the others, the first with the word.
LEMMA ServedDeliver ==
    ASSUME TypeOK, ~Direct, ServedPhase, Deliver
    PROVE  ServedPhase'
<1>1. /\ wire # <<>> /\ wire' = Tail(wire) /\ buf' = Placed
      /\ header' = (IF Head(wire).word # NoWord THEN Head(wire).word ELSE header)
      /\ UNCHANGED <<path, cpc, sent, returned, cheader, reply, spc, staged, stored>>
    BY DEF Deliver, Placed
<1>2. Packets[path] \in Nat /\ buf \in [Parts -> 0 .. MaxWrites] /\ wire \in Seq(Packet)
    BY PathAssumption DEF TypeOK, Packet
<1>3. CASE Awaiting
  <2>1. PICK k \in 0 .. Packets[path] :
            /\ Rest(CLIENT_FLAG, k) /\ Arrived(k) /\ Progress(k)
            /\ cpc = "wait" => k = Packets[path]
    BY <1>3 DEF ServedPhase
  <2>2. /\ Rest(CLIENT_FLAG, k + 1)' /\ k + 1 \in Parts /\ k + 1 \in 0 .. Packets[path]
        /\ Head(wire).word = IF k = 0 THEN CLIENT_FLAG ELSE NoWord
        /\ Head(wire).part = k + 1 /\ Head(wire).val = sent
    BY <1>1, <2>1, RestStep
  <2>3. cpc # "wait"
    BY ONLY <1>2, <2>1, <2>2 DEF Parts
  <2>4. buf' = [buf EXCEPT ![k + 1] = sent]
    BY ONLY ZenonT(60), <1>1, <2>2 DEF Placed
  <2>5. Arrived(k + 1)'
    <3>1. \A i \in Parts : buf'[i] = IF i = k + 1 THEN sent ELSE buf[i]
        BY ONLY <1>2, <2>4
    <3>2. \A i \in Parts : buf[i] = IF i <= k THEN sent ELSE returned
        BY ONLY <2>1, ZenonT(60) DEF Arrived
    <3>3. \A i \in Parts : i <= k + 1 <=> (i <= k \/ i = k + 1)
        BY ONLY <1>2, k \in 0 .. Packets[path] DEF Parts
    <3>4. \A i \in Parts : buf'[i] = IF i <= k + 1 THEN sent ELSE returned
        BY ONLY <3>1, <3>2, <3>3
    <3>5. QED  BY ONLY <1>1, <3>4, ZenonT(60) DEF Arrived, Parts
  <2>6. Progress(k + 1)'
    <3>1. k + 1 > 0 /\ (k > 0 <=> k # 0)
        BY ONLY <1>2, k \in 0 .. Packets[path]
    <3>2. header' = IF k = 0 THEN CLIENT_FLAG ELSE header
        BY <1>1, <2>2
    <3>3. CASE k = 0
      <4>1. /\ ~reply /\ cheader = CLIENT_FLAG /\ spc \in {"start", "poll", "sent"} /\ Kept(returned)
        BY <2>1, <3>1, <3>3 DEF Progress
      <4>2. Kept(returned)'
        BY <1>1, <4>1, ServedFrame
      <4>3. QED  BY ZenonT(60), <1>1, <3>1, <3>2, <3>3, <4>1, <4>2 DEF Progress
    <3>4. CASE k # 0
        BY ZenonT(60), <1>1, <2>1, <3>1, <3>2, <3>4, ServedFrame DEF Progress
    <3>5. QED  BY <3>3, <3>4
  <2>7. sent' = returned' + 1
    BY <1>1, <1>3 DEF ServedPhase
  <2>8. QED  BY <1>1, <1>3, <2>2, <2>3, <2>5, <2>6, <2>7 DEF ServedPhase, Awaiting
<1>4. CASE ~Awaiting
  <2>1. /\ cpc = "closing" /\ sent = returned /\ Kept(sent) /\ ~reply /\ buf = Whole(sent)
        /\ spc \in {"start", "poll", "sent", "done"} /\ header # CLIENT_FLAG
    BY <1>1, <1>4 DEF ServedPhase, Awaiting
  <2>2. PICK k \in 0 .. Packets[path] : Rest(END_FLAG, k)
    BY <1>1, <1>4 DEF ServedPhase, Awaiting
  <2>3. /\ Rest(END_FLAG, k + 1)' /\ k + 1 \in Parts /\ k + 1 \in 0 .. Packets[path]
        /\ Head(wire).word = IF k = 0 THEN END_FLAG ELSE NoWord
        /\ Head(wire).part = k + 1 /\ Head(wire).val = sent
    BY <1>1, <2>2, RestStep
  <2>4. buf' = [buf EXCEPT ![k + 1] = sent]
    BY ONLY ZenonT(60), <1>1, <2>3 DEF Placed
  <2>5. buf' = buf
    BY ONLY <2>1, <2>3, <2>4 DEF Whole
  <2>6. Kept(sent)' /\ Whole(sent)' = Whole(sent)
    BY <1>1, <2>1, ServedFrame
  <2>7. header' # CLIENT_FLAG
    BY <1>1, <2>1, <2>3
  <2>8. QED  BY <1>1, <2>1, <2>3, <2>5, <2>6, <2>7 DEF ServedPhase, Awaiting
<1>5. QED  BY <1>3, <1>4

\* The copy the server takes: its first part is the record's, and each other is
\* in the buffer or still comes.
LEMMA CopyTaken ==
    ASSUME TypeOK, ~Direct, Take, sent = returned + 1,
           NEW k \in 0 .. Packets[path], k > 0, Rest(CLIENT_FLAG, k), Arrived(k)
    PROVE  Copied(staged, sent)'
<1>1. Packets[path] \in Nat /\ sent \in Nat /\ returned \in Nat /\ wire \in Seq(Packet)
    BY PathAssumption DEF TypeOK, Packet
<1>2. /\ \A i \in Parts : \/ staged'[i] = buf[i]
                          \/ \E j \in DOMAIN wire : wire[j].part = i /\ wire[j].val = staged'[i]
      /\ UNCHANGED <<path, sent>>
    BY DEF Take
<1>3. DOMAIN wire = 1 .. Len(wire)
    BY ONLY <1>1
<1>4. \A j \in DOMAIN wire : wire[j].val = sent
  <2>1. \A j \in 1 .. Len(wire) :
            wire[j] = [word |-> IF k + j = 1 THEN CLIENT_FLAG ELSE NoWord, part |-> k + j, val |-> sent]
    BY ONLY Rest(CLIENT_FLAG, k), ZenonT(60) DEF Rest
  <2>2. QED  BY ONLY <1>3, <2>1
<1>5. \A i \in Parts : buf[i] = sent \/ buf[i] = returned
    BY ONLY Arrived(k) DEF Arrived
<1>6. 1 \in Parts /\ 1 <= k
    BY ONLY <1>1, k \in 0 .. Packets[path], k > 0 DEF Parts
<1>7. buf[1] = sent
    BY ONLY <1>6, Arrived(k) DEF Arrived
<1>8. staged'[1] = sent
    BY ONLY <1>2, <1>4, <1>6, <1>7
<1>9. \A i \in Parts : staged'[i] = sent \/ staged'[i] = returned
    BY ONLY <1>2, <1>4, <1>5
<1>10. \A i \in Parts : staged'[i] = sent \/ staged'[i] + 1 = sent
    BY ONLY <1>9, sent = returned + 1
<1>11. QED  BY ONLY <1>2, <1>8, <1>10, ZenonT(60) DEF Copied, Parts

\* The server takes the record, and the answer goes to the client.
LEMMA ServedQuiet ==
    ASSUME TypeOK, ~Direct, ServedPhase,
           Start \/ Finish \/ Take \/ Reply \/ Replied \/ DeliverReply \/ UNCHANGED vars
    PROVE  ServedPhase'
<1>1. UNCHANGED <<path, cpc, sent, returned, wire, buf, stored>>
    BY DEF Start, Finish, Take, Reply, Replied, DeliverReply, vars
<1>2. CASE Awaiting
  <2>1. PICK k \in 0 .. Packets[path] :
            /\ Rest(CLIENT_FLAG, k) /\ Arrived(k) /\ Progress(k)
            /\ cpc = "wait" => k = Packets[path]
    BY <1>2 DEF ServedPhase
  <2>2. sent = returned + 1
    BY <1>2 DEF ServedPhase
  <2>3. Rest(CLIENT_FLAG, k)' /\ Arrived(k)'
    BY <1>1, <2>1, ServedFrame
  <2>4. (Kept(returned) => Kept(returned)') /\ (Kept(sent) => Kept(sent)')
    BY <1>1, ServedFrame
  <2>5. Progress(k)'
    <3>1. CASE Start \/ UNCHANGED vars
      <4>1. UNCHANGED <<cheader, reply, header, staged>> /\ (spc' = spc \/ (spc = "start" /\ spc' = "poll"))
        BY <3>1 DEF Start, vars
      <4>2. Copied(staged, sent) => Copied(staged, sent)'
        BY <1>1, <4>1, ServedFrame
      <4>3. QED  BY <2>1, <2>4, <4>1, <4>2 DEF Progress
    <3>2. CASE Finish
        BY <2>1, <3>2 DEF Progress, Finish
    <3>3. CASE Take
      <4>1. k > 0 /\ header = CLIENT_FLAG /\ ~reply /\ cheader = CLIENT_FLAG /\ Kept(returned)
        BY <2>1, <3>3 DEF Progress, Take
      <4>2. Copied(staged, sent)'
        BY <2>1, <2>2, <3>3, <4>1, CopyTaken
      <4>3. QED  BY <2>4, <3>3, <4>1, <4>2 DEF Progress, Take
    <3>4. CASE Reply
        BY <2>1, <2>4, <3>4 DEF Progress, Reply
    <3>5. CASE Replied
        BY <2>1, <2>4, <3>5 DEF Progress, Replied
    <3>6. CASE DeliverReply
        BY <2>1, <2>4, <3>6 DEF Progress, DeliverReply
    <3>7. QED  BY <3>1, <3>2, <3>3, <3>4, <3>5, <3>6
  <2>6. QED  BY ZenonT(60), <1>1, <1>2, <2>1, <2>2, <2>3, <2>5 DEF ServedPhase, Awaiting
<1>3. CASE ~Awaiting
  <2>1. /\ sent = returned /\ buf = Whole(sent) /\ Kept(sent) /\ ~reply /\ header # CLIENT_FLAG
        /\ spc \in {"start", "poll", "sent", "done"}
        /\ wire = <<>> \/ (cpc = "closing" /\ \E k \in 0 .. Packets[path] : Rest(END_FLAG, k))
        /\ spc = "done" => cpc \in {"closing", "closed"}
        /\ header = END_FLAG => cpc \in {"closing", "closed"}
    BY <1>3 DEF ServedPhase
  <2>2. Kept(sent)' /\ Whole(sent)' = Whole(sent)
    BY <1>1, <2>1, ServedFrame
  <2>3. wire' = <<>> \/ (cpc' = "closing" /\ \E k \in 0 .. Packets'[path'] : Rest(END_FLAG, k)')
    BY ZenonT(60), <1>1, <2>1, ServedFrame
  <2>4. /\ header' = header /\ ~reply'
        /\ \/ spc' = spc
           \/ spc = "start" /\ spc' = "poll"
           \/ spc = "sent" /\ spc' = "poll"
           \/ header = END_FLAG /\ spc' = "done"
    BY <2>1 DEF Start, Finish, Take, Reply, Replied, DeliverReply, vars
  <2>5. QED  BY <1>1, <1>3, <2>1, <2>2, <2>3, <2>4 DEF ServedPhase, Awaiting
<1>4. QED  BY <1>2, <1>3

\* The copy becomes persistent.
LEMMA ServedFlush ==
    ASSUME TypeOK, ~Direct, ServedPhase, Flush
    PROVE  ServedPhase'
<1>1. /\ spc = "flush" /\ spc' = "reply"
      /\ stored' = (IF path = 3 THEN Append(stored, staged) ELSE <<staged>>)
      /\ UNCHANGED <<path, cpc, sent, returned, cheader, wire, reply, header, buf, staged>>
    BY DEF Flush
<1>2. Awaiting /\ sent = returned + 1
    BY <1>1 DEF ServedPhase
<1>3. PICK k \in 0 .. Packets[path] :
            /\ Rest(CLIENT_FLAG, k) /\ Arrived(k) /\ Progress(k)
            /\ cpc = "wait" => k = Packets[path]
    BY <1>2 DEF ServedPhase
<1>4. /\ k > 0 /\ header = CLIENT_FLAG /\ ~reply /\ cheader = CLIENT_FLAG
      /\ Copied(staged, sent) /\ Kept(returned)
    BY <1>1, <1>3 DEF Progress
<1>5. sent \in Nat /\ returned \in Nat /\ stored \in Seq(Records)
    BY DEF TypeOK, Records
<1>6. Kept(sent)'
  <2>1. Copied(staged, sent)' /\ Parts' = Parts
    BY ONLY <1>1, <1>4, ZenonT(60) DEF Copied, Parts
  <2>2. CASE path = 3
    <3>1. Len(stored) = returned /\ \A v \in 1 .. returned : Copied(stored[v], v)
        BY <1>4, <2>2 DEF Kept
    <3>2. stored' = Append(stored, staged)
        BY ONLY <1>1, <2>2
    <3>3. Len(stored') = sent
        BY ONLY <1>2, <1>5, <3>1, <3>2
    <3>4. \A v \in 1 .. returned : stored'[v] = stored[v]
        BY ONLY <1>5, <3>1, <3>2
    <3>5. stored'[sent] = staged
        BY ONLY <1>2, <1>5, <3>1, <3>2
    <3>6. \A v \in 1 .. sent : v \in 1 .. returned \/ v = sent
        BY ONLY <1>2, <1>5
    <3>7. \A v \in 1 .. sent : Copied(stored'[v], v)
        BY ONLY <1>4, <3>1, <3>4, <3>5, <3>6
    <3>8. \A v \in 1 .. sent : stored'[v][1] = v /\ \A i \in Parts : stored'[v][i] = v \/ stored'[v][i] + 1 = v
        BY ONLY <3>7, ZenonT(60) DEF Copied
    <3>9. QED  BY ONLY <1>1, <2>1, <2>2, <3>3, <3>8, ZenonT(60) DEF Kept, Copied
  <2>3. CASE path # 3
    <3>1. stored' = <<staged>> /\ Len(stored') = 1 /\ stored'[1] = staged
        BY ONLY <1>1, <2>3
    <3>2. staged[1] = sent /\ \A i \in Parts : staged[i] = sent \/ staged[i] + 1 = sent
        BY ONLY <1>4 DEF Copied
    <3>3. QED  BY ONLY <1>1, <2>1, <2>3, <3>1, <3>2, ZenonT(60) DEF Kept, Copied
  <2>4. QED  BY <2>2, <2>3
<1>7. Rest(CLIENT_FLAG, k)' /\ Arrived(k)'
    BY <1>1, <1>3, ServedFrame
<1>8. Progress(k)'
    BY <1>1, <1>4, <1>6 DEF Progress
<1>9. QED  BY ZenonT(60), <1>1, <1>2, <1>3, <1>7, <1>8 DEF ServedPhase, Awaiting

\* Every step of a served path keeps ServedPhase.
LEMMA ServedStep ==
    ASSUME TypeOK, ~Direct, ServedPhase, [Next]_vars
    PROVE  ServedPhase'
<1>1. CASE Write
    BY <1>1, ServedWrite
<1>2. CASE Complete
    BY <1>2, ServedComplete
<1>3. CASE Return
    BY <1>3, ServedReturn
<1>4. CASE Close \/ Closed
    BY <1>4, ServedClose
<1>5. CASE Deliver
    BY <1>5, ServedDeliver
<1>6. CASE Start \/ Finish \/ Take \/ Reply \/ Replied \/ DeliverReply \/ UNCHANGED vars
    BY <1>6, ServedQuiet
<1>7. CASE Flush
    BY <1>7, ServedFlush
<1>8. CASE Evict
    BY <1>8, PathAssumption DEF Evict, Direct
<1>9. QED
    BY <1>1, <1>2, <1>3, <1>4, <1>5, <1>6, <1>7, <1>8 DEF Next, Client, Network, Server

-----------------------------------------------------------------------------
(* The results                                                             *)

\* The path is chosen once.
LEMMA PathFixed ==
    ASSUME [Next]_vars
    PROVE  path' = path
BY DEF Next, Client, Network, Server, Write, Complete, Return, Close, Closed, Deliver, Evict,
       DeliverReply, Start, Finish, Take, Flush, Reply, Replied, vars

\* The phase of a Write: what client, network and server hold fits together, on
\* every path, for any number of writes and of packets.
THEOREM PhaseInvariant == Spec => []PhaseInv
<1>1. Init => PhaseInv
  <2> SUFFICES ASSUME Init PROVE PhaseInv
      OBVIOUS
  <2>1. path \in Paths /\ Packets[path] \in Nat \ {0}
    BY PathAssumption DEF Init
  <2>2. 1 \in Parts
    BY <2>1 DEF Parts
  <2>3. Copied(Whole(0), 0)
    BY ONLY <2>2 DEF Copied, Whole
  <2>4. path # 3 => Len(<<Whole(0)>>) = 1 /\ <<Whole(0)>>[1] = Whole(0)
    OBVIOUS
  <2>5. ~Direct => Kept(0)
    BY <2>3, <2>4 DEF Init, Kept
  <2>6. QED  BY <2>5 DEF Init, PhaseInv, DirectPhase, ServedPhase, Awaiting, Direct
<1>2. TypeOK /\ PhaseInv /\ [Next]_vars => PhaseInv'
  <2> SUFFICES ASSUME TypeOK, PhaseInv, [Next]_vars PROVE PhaseInv'
      OBVIOUS
  <2>1. Direct' <=> Direct
    BY PathFixed DEF Direct
  <2>2. CASE Direct
    BY <2>1, <2>2, DirectStep DEF PhaseInv
  <2>3. CASE ~Direct
    BY <2>1, <2>3, ServedStep DEF PhaseInv
  <2>4. QED  BY <2>2, <2>3
<1>3. QED  BY <1>1, <1>2, TypeCorrect, PTL DEF Spec

\* In every phase what was returned is persistent, the file is in order, and the
\* server has not ended before the client.
LEMMA PhaseImplies ==
    ASSUME TypeOK, PhaseInv
    PROVE  AckedPersistent /\ FileInOrder /\ ServerStays
<1> USE PathAssumption
<1>1. sent \in Nat /\ returned \in Nat /\ stored \in Seq(Records) /\ path \in 1 .. 4
    BY DEF TypeOK, Records
<1>2. ASSUME Direct PROVE AckedPersistent /\ FileInOrder
  <2>1. path # 3
    BY <1>2 DEF Direct
  <2>2. returned = sent => buf = Whole(sent) /\ (path \notin Cached => stored = <<Whole(sent)>>)
    BY <1>1, <1>2 DEF PhaseInv, DirectPhase
  <2>3. returned <= sent
    BY <1>1, <1>2 DEF PhaseInv, DirectPhase
  <2>4. QED  BY <1>1, <1>2, <2>1, <2>2, <2>3 DEF AckedPersistent, Persistent, FileInOrder
<1>3. ASSUME ~Direct PROVE AckedPersistent /\ FileInOrder
  <2>1. \/ sent = returned /\ Kept(sent) /\ buf = Whole(sent)
        \/ sent = returned + 1 /\ (Kept(returned) \/ Kept(sent))
    BY <1>3 DEF PhaseInv, ServedPhase, Progress
  <2>a. ASSUME NEW v \in 1 .. returned, v = sent PROVE buf = Whole(v)
    BY <1>1, <2>1, <2>a
  <2>2. ASSUME path = 3 PROVE AckedPersistent /\ FileInOrder
    <3>2. PICK n \in {returned, sent} : Kept(n)
        BY <2>1
    <3>1. Len(stored) = n /\ \A v \in 1 .. n : Copied(stored[v], v)
        BY <2>2, <3>2 DEF Kept
    <3>3. returned <= n /\ n <= sent /\ n \in {returned, returned + 1}
        BY <1>1, <2>1, <3>1, <3>2
    <3>4. \A v \in 1 .. returned : v \in DOMAIN stored /\ Copied(stored[v], v)
        BY ONLY <1>1, <3>1, <3>2, <3>3
    <3>5. QED  BY <2>2, <2>a, <3>1, <3>3, <3>4 DEF AckedPersistent, Persistent, FileInOrder
  <2>3. ASSUME path # 3 PROVE AckedPersistent /\ FileInOrder
    <3>1. ASSUME NEW v \in 1 .. returned, v = sent PROVE Persistent(v)
      <4>1. Kept(sent)
        BY <1>1, <2>1, <3>1
      <4>2. QED  BY <1>3, <2>3, <3>1, <4>1 DEF Kept, Persistent
    <3>2. QED  BY <2>3, <2>a, <3>1 DEF AckedPersistent, FileInOrder
  <2>4. QED  BY <2>2, <2>3
<1>4. ServerStays
    BY DEF PhaseInv, DirectPhase, ServedPhase, Awaiting, Progress, ServerStays
<1>5. QED  BY <1>2, <1>3, <1>4

\* A record whose Write returned is persistent, on a served path as it was copied.
THEOREM WritesPersist == Spec => []AckedPersistent
BY TypeCorrect, PhaseInvariant, PhaseImplies, PTL

\* The file of the SSD path grows by one record per Write.
THEOREM FileOrder == Spec => []FileInOrder
BY TypeCorrect, PhaseInvariant, PhaseImplies, PTL

\* The server of every path stays until the client closes.
THEOREM ServerRemains == Spec => []ServerStays
BY TypeCorrect, PhaseInvariant, PhaseImplies, PTL

=============================================================================
