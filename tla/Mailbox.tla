------------------------------ MODULE Mailbox ------------------------------
(***************************************************************************)
(* The sync and pmem frontends (the client of the group frontend is that   *)
(* of sync): each client and its clerk share a mailbox, a header word and  *)
(* a request that its reply overwrites, by RDMA writes into each other's   *)
(* memory.  All clerks use one database, here the LevelDB adapter.         *)
(*                                                                         *)
(* With Pmem the mailbox of the clerk is its send_buf, and the client also *)
(* writes each record into a ring in persistent memory.  Positions in the  *)
(* ring are counted in cells: one for a Request, val.len for key and value.*)
(***************************************************************************)
EXTENDS Integers, Sequences

CONSTANTS
    Clients, Keys,
    Lens,             \* lengths of values
    Pmem,             \* the pmem frontend, not sync
    Synced,           \* write_options_.sync
    Failing,          \* calls of the database may fail
    BUFSIZE,          \* cells of the ring in persistent memory
    MAX_INLINE_SIZE,  \* longest write whose data post_write1 takes at once
    MaxPuts, MaxCalls \* bounds: writes, and calls in all

ASSUME MailboxAssumption ==
    /\ Lens \subseteq Nat \ {0} /\ BUFSIZE \in Nat /\ MAX_INLINE_SIZE \in Nat
    /\ Pmem \in BOOLEAN /\ Synced \in BOOLEAN /\ Failing \in BOOLEAN
    /\ Pmem => \A n \in Lens : 1 + n < BUFSIZE   \* total_len is a uint16_t
    /\ MaxPuts \in Nat /\ MaxCalls \in Nat

VARIABLES
    cpc,       \* where the client is
    call,      \* the request of its call, or NoCall
    header,    \* header word of its local_buf_
    mail,      \* request or reply in its local_buf_
    ccq,       \* completions that wait in its out_cq
    buf_head,  \* buf_head_
    returned,  \* what its last call returned
    kpc,       \* where its clerk is
    kheader, kmail,  \* header word, request or reply in the clerk's local_buf_
    kcq,       \* completions that wait in the clerk's out_cq
    answer,    \* history: the reply to the call, once the clerk made it
    toClerk, toClient,  \* RDMA writes that were posted and are not placed
    broken,    \* the clerk's queue pair is in the error state
    ring,      \* cells of the client's region of persistent memory
    lap,       \* history: how often buf_head_ has gone back to 0
    written,   \* history: where the records of all puts went
    db, durable,  \* the database, and what of it would survive a crash
    puts, calls   \* how many values and calls there were

clientVars == <<cpc, call, header, mail, ccq, buf_head, returned>>
clerkVars  == <<kpc, kheader, kmail, kcq, answer>>
netVars    == <<toClerk, toClient, broken>>
ringVars   == <<ring, lap, written>>
dbVars     == <<db, durable>>
countVars  == <<puts, calls>>
vars == <<clientVars, clerkVars, netVars, ringVars, dbVars, countVars>>

CLIENT_DONE == "CLIENT_DONE"
CLERK_DONE  == "CLERK_DONE"
Other       == "other"           \* any other word

Absent   == [id |-> 0, len |-> 0]
Vals     == [id : 1 .. MaxPuts, len : Lens]
NoKey    == "no key"
NoCall   == [op |-> "none", key |-> NoKey, val |-> Absent]
NoAnswer == [status |-> "unanswered", val |-> Absent]
Done     == [status |-> "done", val |-> Absent]   \* a call that returns nothing

Close    == [op |-> "CLOSE", key |-> NoKey, val |-> Absent]
Sync     == [op |-> "SYNC", key |-> NoKey, val |-> Absent]
Requests ==
    [op : {"PUT"}, key : Keys, val : Vals]
    \cup [op : {"GET", "DELETE"}, key : Keys, val : {Absent}] \cup {Sync}
Replies  == [status : {"OK", "NOTFOUND", "ERROR"}, val : Vals \cup {Absent}]

Mails    == Requests \cup Replies \cup {Close, NoCall}

Msg(kind, data, pos) == [kind |-> kind, data |-> data, pos |-> pos]
Messages == [kind : {"mail", "record", "header", "send"}, data : Mails, pos : Nat]
Header   == Msg("header", NoCall, 0)
Send     == Msg("send", NoCall, 0)

-----------------------------------------------------------------------------
(* The client                                                              *)

\* Where the record of a put goes in the ring.
RecordLen(r) == 1 + r.val.len
RecordPos(c, r) == IF buf_head[c] + RecordLen(r) >= BUFSIZE THEN 0 ELSE buf_head[c]

\* Mutant: the header goes before the record.
PostedRecordLast(c, r) ==
    IF Pmem /\ r.op = "PUT"
    THEN <<Msg("mail", r, 0), Header, Msg("record", r, RecordPos(c, r))>>
    ELSE <<Msg("mail", r, 0), Header>>

\* The request, the record if there is a ring, then the header word.
Posted(c, r) ==
    IF Pmem /\ r.op = "PUT"
    THEN <<Msg("mail", r, 0), Msg("record", r, RecordPos(c, r)), Header>>
    ELSE <<Msg("mail", r, 0), Header>>

\* SendWrite, SendGet, SendSync, SendDelete and SendClose up to their first poll.
Post(c, r) ==
    /\ cpc[c] = "idle" /\ calls < MaxCalls
    /\ mail' = [mail EXCEPT ![c] = r]
    /\ toClerk' = [toClerk EXCEPT ![c] = toClerk[c] \o Posted(c, r)]
    /\ buf_head' = IF Pmem /\ r.op = "PUT"
                   THEN [buf_head EXCEPT ![c] = RecordPos(c, r) + RecordLen(r)] ELSE buf_head
    /\ lap' = IF Pmem /\ r.op = "PUT" /\ RecordPos(c, r) # buf_head[c]
              THEN [lap EXCEPT ![c] = lap[c] + 1] ELSE lap
    /\ written' = IF Pmem /\ r.op = "PUT"
                  THEN written \cup {[id |-> r.val.id, len |-> r.val.len, client |-> c,
                                      lap |-> lap'[c], pos |-> RecordPos(c, r)]}
                  ELSE written
    /\ cpc' = [cpc EXCEPT ![c] = "poll"]
    /\ call' = [call EXCEPT ![c] = r]
    /\ calls' = calls + 1
    /\ UNCHANGED <<header, ccq, returned, clerkVars, toClient, broken, ring, dbVars>>

SendWrite(c, k, n) ==
    /\ puts < MaxPuts /\ puts' = puts + 1
    /\ Post(c, [op |-> "PUT", key |-> k, val |-> [id |-> puts + 1, len |-> n]])

SendGet(c, k)    == Post(c, [op |-> "GET", key |-> k, val |-> Absent]) /\ UNCHANGED puts
SendDelete(c, k) == Post(c, [op |-> "DELETE", key |-> k, val |-> Absent]) /\ UNCHANGED puts
SendSync(c)      == Post(c, Sync) /\ UNCHANGED puts
SendClose(c)     == Post(c, Close) /\ UNCHANGED puts

\* The completion of the header write.  SendClose then posts a send, and waits
\* for its completion.
ClientPoll(c) ==
    /\ cpc[c] = "poll" /\ ccq[c] > 0
    /\ ccq' = [ccq EXCEPT ![c] = ccq[c] - 1]
    /\ IF call[c] = Close
       THEN /\ cpc' = [cpc EXCEPT ![c] = "closing"]
            /\ toClerk' = [toClerk EXCEPT ![c] = Append(toClerk[c], Send)]
       ELSE cpc' = [cpc EXCEPT ![c] = "wait"] /\ UNCHANGED toClerk
    /\ UNCHANGED <<call, header, mail, buf_head, returned, clerkVars, toClient, broken, ringVars,
                   dbVars, countVars>>

\* Mutant: the header word is not reset.
ReturnKeepsHeader(c) ==
    /\ cpc[c] = "wait" /\ header[c] = CLERK_DONE
    /\ returned' = [returned EXCEPT ![c] = IF call[c].op \in {"GET", "DELETE"} THEN mail[c] ELSE Done]
    /\ cpc' = [cpc EXCEPT ![c] = "idle"]
    /\ call' = [call EXCEPT ![c] = NoCall]
    /\ answer' = [answer EXCEPT ![c] = NoAnswer]
    /\ UNCHANGED <<header, mail, ccq, buf_head, kpc, kheader, kmail, kcq, netVars, ringVars, dbVars,
                   countVars>>

\* CLERK_DONE has come.  SendGet and SendDelete read the reply.
Return(c) ==
    /\ cpc[c] = "wait" /\ header[c] = CLERK_DONE
    /\ header' = [header EXCEPT ![c] = CLIENT_DONE]
    /\ returned' = [returned EXCEPT ![c] = IF call[c].op \in {"GET", "DELETE"} THEN mail[c] ELSE Done]
    /\ cpc' = [cpc EXCEPT ![c] = "idle"]
    /\ call' = [call EXCEPT ![c] = NoCall]
    /\ answer' = [answer EXCEPT ![c] = NoAnswer]
    /\ UNCHANGED <<mail, ccq, buf_head, kpc, kheader, kmail, kcq, netVars, ringVars, dbVars, countVars>>

Closed(c) ==
    /\ cpc[c] = "closing" /\ ccq[c] > 0
    /\ ccq' = [ccq EXCEPT ![c] = ccq[c] - 1]
    /\ cpc' = [cpc EXCEPT ![c] = "closed"]
    /\ call' = [call EXCEPT ![c] = NoCall]
    /\ UNCHANGED <<header, mail, buf_head, returned, clerkVars, netVars, ringVars, dbVars, countVars>>

-----------------------------------------------------------------------------
(* The network: one reliable connection, so posted writes are placed once  *)
(* and in order.  A signaled write, the header, gives a completion.        *)

PlaceMail(c, m) ==
    /\ m.kind = "mail"
    /\ kmail' = [kmail EXCEPT ![c] = m.data]
    /\ UNCHANGED <<kheader, kpc, ccq, ring>>

PlaceRecord(c, m) ==
    /\ m.kind = "record"
    /\ ring' = [ring EXCEPT ![c] = [j \in DOMAIN ring[c] |->
                  IF j \in m.pos .. m.pos + RecordLen(m.data) - 1 THEN m.data.val.id ELSE ring[c][j]]]
    /\ UNCHANGED <<kheader, kmail, kpc, ccq>>

PlaceHeader(c, m) ==
    /\ m.kind = "header"
    /\ kheader' = [kheader EXCEPT ![c] = CLIENT_DONE]
    /\ ccq' = [ccq EXCEPT ![c] = ccq[c] + 1]
    /\ UNCHANGED <<kmail, kpc, ring>>

\* A send waits for a receive buffer; the clerk's Run ends when it comes.
PlaceSend(c, m) ==
    /\ m.kind = "send" /\ kpc[c] = "recv"
    /\ kpc' = [kpc EXCEPT ![c] = "gone"]
    /\ ccq' = [ccq EXCEPT ![c] = ccq[c] + 1]
    /\ UNCHANGED <<kheader, kmail, ring>>

PlaceAtClerk(c) ==
    /\ toClerk[c] # <<>>
    /\ LET m == Head(toClerk[c]) IN
         PlaceMail(c, m) \/ PlaceRecord(c, m) \/ PlaceHeader(c, m) \/ PlaceSend(c, m)
    /\ toClerk' = [toClerk EXCEPT ![c] = Tail(toClerk[c])]
    /\ UNCHANGED <<cpc, call, header, mail, buf_head, returned, kcq, answer, toClient, broken,
                   lap, written, dbVars, countVars>>

PlaceAtClient(c) ==
    /\ toClient[c] # <<>>
    /\ LET m == Head(toClient[c]) IN
         \/ /\ m.kind = "mail"
            /\ mail' = [mail EXCEPT ![c] = m.data] /\ UNCHANGED <<header, kcq>>
         \/ /\ m.kind = "header"
            /\ header' = [header EXCEPT ![c] = CLERK_DONE]
            /\ kcq' = [kcq EXCEPT ![c] = kcq[c] + 1] /\ UNCHANGED mail
    /\ toClient' = [toClient EXCEPT ![c] = Tail(toClient[c])]
    /\ UNCHANGED <<cpc, call, ccq, buf_head, returned, kpc, kheader, kmail, answer, toClerk, broken,
                   ringVars, dbVars, countVars>>

-----------------------------------------------------------------------------
(* The clerk                                                               *)

\* The clerk wakes up and serves the request: what the database becomes, and
\* what is in the mailbox then.  A call of the database that fails changes
\* nothing.  A SYNC leaves the request where it is (and the adapter's SetSync
\* does nothing).
NewDb(r, ok) ==
    IF ok /\ r.op = "PUT" THEN [db EXCEPT ![r.key] = r.val]
    ELSE IF ok /\ r.op = "DELETE" THEN [db EXCEPT ![r.key] = Absent] ELSE db

Reply(r, ok) ==
    IF r.op = "SYNC" THEN r
    ELSE IF r.op = "GET" /\ ok /\ db[r.key] # Absent THEN [status |-> "OK", val |-> db[r.key]]
    ELSE IF r.op # "GET" /\ ok THEN [status |-> "OK", val |-> Absent]
    ELSE IF r.op = "PUT" THEN [status |-> "ERROR", val |-> Absent]
    ELSE [status |-> "NOTFOUND", val |-> Absent]

Serve(c, ok) ==
    LET r == kmail[c] IN
    /\ kpc[c] = "spin" /\ kheader[c] = CLIENT_DONE /\ r # Close
    /\ kheader' = [kheader EXCEPT ![c] = CLERK_DONE]
    /\ db' = NewDb(r, ok)
    /\ durable' = IF Synced THEN NewDb(r, ok) ELSE durable
    /\ kmail' = [kmail EXCEPT ![c] = Reply(r, ok)]
    /\ answer' = [answer EXCEPT ![c] = IF r.op \in {"GET", "DELETE"} THEN Reply(r, ok) ELSE Done]
    /\ kpc' = [kpc EXCEPT ![c] = "reply"]
    /\ UNCHANGED <<clientVars, kcq, netVars, ringVars, countVars>>

ClerkServe(c) == \E ok \in {TRUE, ~Failing} : Serve(c, ok)

\* Mutant: no receive is posted.
ClerkCloseNoRecv(c) ==
    /\ kpc[c] = "spin" /\ kheader[c] = CLIENT_DONE /\ kmail[c] = Close
    /\ kheader' = [kheader EXCEPT ![c] = CLERK_DONE]
    /\ kpc' = [kpc EXCEPT ![c] = "gone"]
    /\ UNCHANGED <<clientVars, kmail, kcq, answer, netVars, ringVars, dbVars, countVars>>

ClerkClose(c) ==
    /\ kpc[c] = "spin" /\ kheader[c] = CLIENT_DONE /\ kmail[c] = Close
    /\ kheader' = [kheader EXCEPT ![c] = CLERK_DONE]
    /\ kpc' = [kpc EXCEPT ![c] = "recv"]
    /\ UNCHANGED <<clientVars, kmail, kcq, answer, netVars, ringVars, dbVars, countVars>>

\* post_write1 names send_buf with the lkey of write_buf.  That does not matter
\* for inline data; for a longer reply the NIC refuses the write, the queue
\* pair is broken, and both posts complete, with an error nobody looks at.
Refused(r) == Pmem /\ 1 + r.val.len > MAX_INLINE_SIZE

ClerkReply(c) ==
    /\ kpc[c] = "reply"
    /\ IF c \in broken \/ Refused(kmail[c])
       THEN /\ broken' = broken \cup {c} /\ kcq' = [kcq EXCEPT ![c] = kcq[c] + 2]
            /\ UNCHANGED toClient
       ELSE /\ toClient' = [toClient EXCEPT ![c] = toClient[c] \o <<Msg("mail", kmail[c], 0), Header>>]
            /\ UNCHANGED <<broken, kcq>>
    /\ kpc' = [kpc EXCEPT ![c] = "poll"]
    /\ UNCHANGED <<clientVars, kheader, kmail, answer, toClerk, ringVars, dbVars, countVars>>

ClerkPoll(c) ==
    /\ kpc[c] = "poll" /\ kcq[c] > 0
    /\ kcq' = [kcq EXCEPT ![c] = kcq[c] - 1]
    /\ kpc' = [kpc EXCEPT ![c] = "spin"]
    /\ UNCHANGED <<clientVars, kheader, kmail, answer, netVars, ringVars, dbVars, countVars>>

\* The database writes back what it holds.
Writeback ==
    /\ durable # db /\ durable' = db
    /\ UNCHANGED <<clientVars, clerkVars, netVars, ringVars, db, countVars>>

-----------------------------------------------------------------------------
\* The clerk's buffer is not initialized; it may be one of an earlier
\* connection, in which the clerk left CLERK_DONE.
Init ==
    /\ cpc = [c \in Clients |-> "idle"] /\ call = [c \in Clients |-> NoCall]
    /\ header = [c \in Clients |-> CLIENT_DONE] /\ mail = [c \in Clients |-> NoCall]
    /\ ccq = [c \in Clients |-> 0] /\ buf_head = [c \in Clients |-> 0]
    /\ returned = [c \in Clients |-> NoAnswer]
    /\ kpc = [c \in Clients |-> "spin"] /\ kheader \in [Clients -> {CLERK_DONE, Other}]
    /\ kmail = [c \in Clients |-> NoCall] /\ kcq = [c \in Clients |-> 0]
    /\ answer = [c \in Clients |-> NoAnswer]
    /\ toClerk = [c \in Clients |-> <<>>] /\ toClient = [c \in Clients |-> <<>>]
    /\ broken = {}
    /\ ring = [c \in Clients |-> [j \in 0 .. (IF Pmem THEN BUFSIZE - 1 ELSE 0 - 1) |-> 0]]
    /\ lap = [c \in Clients |-> 0] /\ written = {}
    /\ db = [k \in Keys |-> Absent] /\ durable = db
    /\ puts = 0 /\ calls = 0

Step(c) ==
    \/ ClientPoll(c) \/ Return(c) \/ Closed(c) \/ PlaceAtClerk(c) \/ PlaceAtClient(c)
    \/ ClerkServe(c) \/ ClerkClose(c) \/ ClerkReply(c) \/ ClerkPoll(c)

Next ==
    \/ \E c \in Clients, k \in Keys, n \in Lens : SendWrite(c, k, n)
    \/ \E c \in Clients, k \in Keys : SendGet(c, k) \/ SendDelete(c, k)
    \/ \E c \in Clients : SendSync(c) \/ SendClose(c) \/ Step(c)
    \/ Writeback

Spec == Init /\ [][Next]_vars

\* Spinning threads are scheduled and posted writes are placed.
FairSpec == Spec /\ \A c \in Clients : WF_vars(Step(c))

-----------------------------------------------------------------------------
TypeOK ==
    /\ cpc \in [Clients -> {"idle", "poll", "wait", "closing", "closed"}]
    /\ call \in [Clients -> Requests \cup {Close, NoCall}]
    /\ header \in [Clients -> {CLIENT_DONE, CLERK_DONE}]
    /\ mail \in [Clients -> Mails]
    /\ ccq \in [Clients -> Nat] /\ buf_head \in [Clients -> Nat]
    /\ returned \in [Clients -> Replies \cup {NoAnswer, Done}]
    /\ kpc \in [Clients -> {"spin", "reply", "poll", "recv", "gone"}]
    /\ kheader \in [Clients -> {CLIENT_DONE, CLERK_DONE, Other}]
    /\ kmail \in [Clients -> Mails] /\ kcq \in [Clients -> Nat]
    /\ answer \in [Clients -> Replies \cup {NoAnswer, Done}]
    /\ toClerk \in [Clients -> Seq(Messages)] /\ toClient \in [Clients -> Seq(Messages)]
    /\ broken \subseteq Clients
    /\ db \in [Keys -> Vals \cup {Absent}] /\ durable \in [Keys -> Vals \cup {Absent}]
    /\ puts \in Nat /\ calls \in Nat

\* The phases of a call, each of which fixes both header words, the writes on
\* their way, and where client and clerk are.
KAwake(c)  == kpc[c] \in {"spin", "poll"}
Polled(c)  == (cpc[c] = "poll" /\ ccq[c] = 1) \/ (cpc[c] = "wait" /\ ccq[c] = 0)
Answer(c, a) == answer[c] = IF call[c].op \in {"GET", "DELETE"} THEN a ELSE Done

Idle(c) ==
    /\ cpc[c] = "idle" /\ call[c] = NoCall /\ ccq[c] = 0 /\ header[c] = CLIENT_DONE
    /\ toClerk[c] = <<>> /\ toClient[c] = <<>>
    /\ KAwake(c) /\ kheader[c] # CLIENT_DONE /\ answer[c] = NoAnswer

Sending(c) ==
    /\ cpc[c] = "poll" /\ call[c] # NoCall /\ ccq[c] = 0 /\ header[c] = CLIENT_DONE
    /\ \/ toClerk[c] = <<Msg("mail", call[c], 0), Header>>
       \/ \E p \in 0 .. BUFSIZE :
             \/ toClerk[c] = <<Msg("mail", call[c], 0), Msg("record", call[c], p), Header>>
             \/ toClerk[c] = <<Msg("record", call[c], p), Header>> /\ kmail[c] = call[c]
       \/ toClerk[c] = <<Header>> /\ kmail[c] = call[c]
    /\ toClient[c] = <<>>
    /\ KAwake(c) /\ kheader[c] # CLIENT_DONE /\ answer[c] = NoAnswer

Delivered(c) ==
    /\ call[c] # NoCall /\ header[c] = CLIENT_DONE
    /\ \/ Polled(c) /\ toClerk[c] = <<>> /\ (call[c] = Close => cpc[c] = "poll")
       \/ call[c] = Close /\ cpc[c] = "closing" /\ ccq[c] = 0 /\ toClerk[c] = <<Send>>
    /\ toClient[c] = <<>>
    /\ KAwake(c) /\ kheader[c] = CLIENT_DONE /\ kmail[c] = call[c] /\ answer[c] = NoAnswer

\* The request is served and the reply not yet at the client.
Serving(c) ==
    /\ call[c] \in Requests /\ Polled(c) /\ header[c] = CLIENT_DONE /\ toClerk[c] = <<>>
    /\ kheader[c] = CLERK_DONE
    /\ \/ kpc[c] = "reply" /\ toClient[c] = <<>> /\ Answer(c, kmail[c])
       \/ /\ KAwake(c)
          /\ \/ toClient[c] = <<Msg("mail", kmail[c], 0), Header>> /\ Answer(c, kmail[c])
             \/ toClient[c] = <<Header>> /\ Answer(c, mail[c])
             \/ toClient[c] = <<>> /\ c \in broken /\ answer[c] # NoAnswer
    /\ answer[c] # NoAnswer

Answered(c) ==
    /\ call[c] \in Requests /\ Polled(c) /\ header[c] = CLERK_DONE
    /\ toClerk[c] = <<>> /\ toClient[c] = <<>>
    /\ KAwake(c) /\ kheader[c] = CLERK_DONE /\ Answer(c, mail[c]) /\ answer[c] # NoAnswer

Closing(c) ==
    /\ header[c] = CLIENT_DONE /\ toClient[c] = <<>> /\ answer[c] = NoAnswer
    /\ kheader[c] = CLERK_DONE
    /\ \/ kpc[c] = "recv" /\ cpc[c] = "poll" /\ ccq[c] = 1 /\ call[c] = Close /\ toClerk[c] = <<>>
       \/ kpc[c] = "recv" /\ cpc[c] = "closing" /\ ccq[c] = 0 /\ call[c] = Close /\ toClerk[c] = <<Send>>
       \/ kpc[c] = "gone" /\ cpc[c] = "closing" /\ ccq[c] = 1 /\ call[c] = Close /\ toClerk[c] = <<>>
       \/ kpc[c] = "gone" /\ cpc[c] = "closed" /\ ccq[c] = 0 /\ call[c] = NoCall /\ toClerk[c] = <<>>

Phase(c) == Idle(c) \/ Sending(c) \/ Delivered(c) \/ Serving(c) \/ Answered(c) \/ Closing(c)

\* Every connection is in one of these phases: in particular a clerk that sees
\* CLIENT_DONE finds the request of its client's call, and a client that sees
\* CLERK_DONE the reply to it.
MailInv == \A c \in Clients : Phase(c)

\* The frontend is a store on which every call takes effect once, between call
\* and return, and that returns the answer of that moment: the two header words
\* keep one request from being served twice, or a reply from being read before
\* it is there or after the next request has overwritten it.
Store == INSTANCE RemoteStore WITH
            Requests <- Requests,
            store <- db,
            pending <- [c \in Clients |-> IF call[c] = Close THEN NoCall ELSE call[c]]
ImplementsStore == Store!Spec

\* The record w is whole in the ring of its client.
Intact(w) ==
    \A j \in w.pos .. w.pos + w.len : j \in DOMAIN ring[w.client] /\ ring[w.client][j] = w.id

\* Its client has been given cells of the record w again, in a later lap.
Overrun(w) ==
    \/ lap[w.client] > w.lap + 1
    \/ lap[w.client] = w.lap + 1 /\ buf_head[w.client] > w.pos

\* Every record that the database holds and has not written back is whole in
\* the persistent ring of the client that put it ("a ring buffer that store data
\* persistently"), until that ring has come round to it.
AckedPersistent ==
    \A k \in Keys :
        \/ db[k] = durable[k] \/ db[k] = Absent
        \/ \E w \in written : /\ w.id = db[k].id /\ w.len = db[k].len
                              /\ Intact(w) \/ Overrun(w)

\* The records among posted writes, and those on their way to the ring of c.
Records(q) == {q[i] : i \in {j \in 1 .. Len(q) : q[j].kind = "record"}}
OnWay(c) == Records(toClerk[c])

\* The record w is on its way.
Flies(w) == \E x \in OnWay(w.client) : x.data.val.id = w.id

\* Where a record went: within the ring, and behind the earlier ones of its lap.
Slot(w) ==
    /\ w.client \in Clients /\ w.id \in 1 .. puts
    /\ w.len \in Nat /\ w.pos \in Nat /\ w.lap \in Nat
    /\ w.pos + w.len < BUFSIZE /\ w.lap <= lap[w.client]
    /\ w.lap = lap[w.client] => w.pos + w.len < buf_head[w.client]

\* The record of a put was given its place.
PutPlaced(c) ==
    call[c].op = "PUT" =>
        \E w \in written : w.client = c /\ w.id = call[c].val.id /\ w.len = call[c].val.len

\* A record on its way is that of the call, and the last of its lap.
WayLast(c) ==
    \A x \in OnWay(c) :
        /\ x.data = call[c] /\ call[c].op = "PUT"
        /\ \E w \in written : w.client = c /\ w.id = call[c].val.id /\ w.pos = x.pos /\ w.lap = lap[c]
        /\ x.pos + RecordLen(call[c]) = buf_head[c]
        /\ \A w \in written : w.client = c /\ w.lap = lap[c] /\ w.id # call[c].val.id =>
                                w.pos + w.len < x.pos

\* What the database holds was given its place and is there.
DbPlaced(k) ==
    db[k] # Absent => \E w \in written : w.id = db[k].id /\ w.len = db[k].len /\ ~Flies(w)

\* Records go one behind the other, and from 0 again in the next lap; what is
\* not overrun is on its way or whole.
KeptInv ==
    /\ ring \in [Clients -> [0 .. BUFSIZE - 1 -> Nat]] /\ lap \in [Clients -> Nat]
    /\ \A w \in written : Slot(w) /\ (Overrun(w) \/ Flies(w) \/ Intact(w))
    /\ \A w1 \in written, w2 \in written : w1.id = w2.id => w1 = w2
    /\ \A c \in Clients : PutPlaced(c) /\ WayLast(c)
    /\ \A k \in Keys : DbPlaced(k)

\* Every call returns, and a connection that is closed has ended on both sides.
CallReturns == \A c \in Clients : cpc[c] = "poll" ~> cpc[c] \in {"idle", "closed"}

=============================================================================
