--------------------------- MODULE MailboxProofs ---------------------------
(***************************************************************************)
(* Proofs about Mailbox: for any clients, keys, values, ring and inline    *)
(* size, each call of the sync and pmem frontends takes effect once on the *)
(* shared database and returns the answer of that moment; and what they    *)
(* acknowledge is persistent, with pmem until a ring has come round to it. *)
(***************************************************************************)
EXTENDS Mailbox, TLAPS

\* The provers, and their time, for a leaf that names none.
USE SMTT(60), ZenonT(60), SMTT(90)

USE DEF CLIENT_DONE, CLERK_DONE, Other, clientVars, clerkVars, netVars, ringVars, dbVars,
        countVars

-----------------------------------------------------------------------------
(* Data                                                                    *)

\* Short queues of posted writes.
LEMMA Queues ==
    ASSUME NEW a, NEW b, NEW d
    PROVE  /\ Head(<<a>>) = a /\ Tail(<<a>>) = <<>> /\ <<a>> # <<>>
           /\ Head(<<a, b>>) = a /\ Tail(<<a, b>>) = <<b>> /\ <<a, b>> # <<>>
           /\ Head(<<a, b, d>>) = a /\ Tail(<<a, b, d>>) = <<b, d>> /\ <<a, b, d>> # <<>>
           /\ <<>> \o <<a, b>> = <<a, b>> /\ <<>> \o <<a, b, d>> = <<a, b, d>>
           /\ Append(<<>>, a) = <<a>>
OBVIOUS

\* Writes added to a queue, and the first taken from it.
LEMMA QueueTypes ==
    ASSUME NEW S, NEW q \in Seq(S), NEW a \in S, NEW b \in S, NEW d \in S
    PROVE  /\ q \o <<a, b>> \in Seq(S) /\ q \o <<a, b, d>> \in Seq(S) /\ Append(q, a) \in Seq(S)
           /\ q # <<>> => Head(q) \in S /\ Tail(q) \in Seq(S)
OBVIOUS

\* The kinds of posted writes.
LEMMA Kinds ==
    /\ Header.kind = "header" /\ Send.kind = "send"
    /\ \A r, p : /\ Msg("mail", r, p).kind = "mail" /\ Msg("mail", r, p).data = r
                 /\ Msg("record", r, p).kind = "record" /\ Msg("record", r, p).data = r
BY DEF Header, Send, Msg

\* Requests, the close and no request at all are told apart by op.
LEMMA RequestFacts ==
    /\ Close # NoCall /\ Sync # Close /\ Sync # NoCall
    /\ \A r \in Requests : r # NoCall /\ r # Close /\ r.op \in {"PUT", "GET", "DELETE", "SYNC"}
    /\ Sync \in Requests /\ Close.op = "CLOSE" /\ NoCall.op = "none"
BY DEF Requests, Close, NoCall, Sync

\* The fields of requests and replies have their types.
LEMMA MailTypes ==
    /\ \A r \in Requests : /\ r \in Mails
                           /\ r.op = "PUT" => r.key \in Keys /\ r.val \in Vals
                           /\ r.op \in {"GET", "DELETE"} => r.key \in Keys
    /\ Close \in Mails /\ NoCall \in Mails
    /\ \A v \in Vals \cup {Absent} : [status |-> "OK", val |-> v] \in Replies
    /\ [status |-> "NOTFOUND", val |-> Absent] \in Replies
    /\ [status |-> "ERROR", val |-> Absent] \in Replies
    /\ \A a \in Replies : a \in Mails /\ a # NoAnswer
    /\ Done # NoAnswer
BY DEF Requests, Mails, Replies, Close, NoCall, Sync, NoAnswer, Done

\* Posted writes have their type.
LEMMA MessageTypes ==
    /\ Header \in Messages /\ Send \in Messages
    /\ \A r \in Mails, p \in Nat : Msg("mail", r, p) \in Messages /\ Msg("record", r, p) \in Messages
    /\ \A m \in Messages : m.data \in Mails
BY MailTypes DEF Header, Send, Msg, Messages

-----------------------------------------------------------------------------
(* The connections                                                         *)

\* Nothing of connection d changes.
Same(d) ==
    /\ cpc'[d] = cpc[d] /\ call'[d] = call[d] /\ header'[d] = header[d] /\ mail'[d] = mail[d]
    /\ ccq'[d] = ccq[d] /\ kpc'[d] = kpc[d] /\ kheader'[d] = kheader[d] /\ kmail'[d] = kmail[d]
    /\ answer'[d] = answer[d] /\ toClerk'[d] = toClerk[d] /\ toClient'[d] = toClient[d]
    /\ d \in broken => d \in broken'

\* A step that leaves a connection alone leaves it in its phase.
LEMMA PhaseFrame ==
    ASSUME NEW d \in Clients, Phase(d), Same(d)
    PROVE  Phase(d)'
BY DEF Phase, Same, Idle, Sending, Delivered, Serving, Answered, Closing, KAwake, Polled, Answer

\* A step of connection c that takes it from phase to phase keeps MailInv.
LEMMA OneConnection ==
    ASSUME MailInv, NEW c \in Clients, Phase(c)', \A d \in Clients \ {c} : Same(d)
    PROVE  MailInv'
<1> SUFFICES ASSUME NEW d \in Clients PROVE Phase(d)'
    BY DEF MailInv
<1>1. CASE d = c
    BY <1>1
<1>2. CASE d # c
    BY <1>2, PhaseFrame DEF MailInv
<1> QED  BY <1>1, <1>2

\* What client and clerk know of the phase from where they are.
LEMMA Phases ==
    ASSUME NEW c \in Clients, Phase(c)
    PROVE  /\ cpc[c] = "idle" => Idle(c)
           /\ cpc[c] = "wait" /\ header[c] = CLERK_DONE => Answered(c)
           /\ cpc[c] \in {"closing", "closed"} => Delivered(c) \/ Closing(c)
           /\ kpc[c] = "spin" /\ kheader[c] = CLIENT_DONE => Delivered(c)
           /\ kpc[c] = "reply" => Serving(c)
BY DEF Phase, Idle, Sending, Delivered, Serving, Answered, Closing, KAwake, Polled

-----------------------------------------------------------------------------
(* The steps keep the phases                                               *)

\* A call is posted: the request is on its way.
LEMMA PostPhase ==
    ASSUME TypeOK, MailInv, NEW c \in Clients, NEW r \in Requests \cup {Close}, Post(c, r)
    PROVE  MailInv'
<1>1. Idle(c)
    BY Phases DEF MailInv, Post
<1>2. /\ cpc'[c] = "poll" /\ call'[c] = r /\ toClerk'[c] = toClerk[c] \o Posted(c, r)
      /\ header'[c] = header[c] /\ ccq'[c] = ccq[c] /\ kpc'[c] = kpc[c] /\ kheader'[c] = kheader[c]
      /\ answer'[c] = answer[c] /\ toClient'[c] = toClient[c]
      /\ \A d \in Clients \ {c} : Same(d)
    BY DEF Post, TypeOK, Same
<1>3. \/ toClerk'[c] = <<Msg("mail", r, 0), Header>>
      \/ \E p \in 0 .. BUFSIZE : toClerk'[c] = <<Msg("mail", r, 0), Msg("record", r, p), Header>>
    <2>1. toClerk'[c] = <<>> \o Posted(c, r)
        BY <1>1, <1>2 DEF Idle
    <2>2. CASE Pmem /\ r.op = "PUT"
        <3>1. r \in Requests
            BY <2>2, RequestFacts
        <3>2. RecordLen(r) \in Nat /\ buf_head[c] \in Nat /\ BUFSIZE \in Nat
            <4>1. r.val \in Vals
                BY <2>2, <3>1, MailTypes
            <4>2. r.val.len \in Nat /\ BUFSIZE \in Nat
                BY ONLY ZenonT(60), <4>1, MailboxAssumption DEF Vals
            <4>3. buf_head[c] \in Nat
                BY DEF TypeOK
            <4> QED  BY ONLY <4>2, <4>3 DEF RecordLen
        <3>3. RecordPos(c, r) \in 0 .. BUFSIZE
            BY <3>2 DEF RecordPos
        <3> QED  BY <2>1, <2>2, <3>3, Queues DEF Posted
    <2>3. CASE ~(Pmem /\ r.op = "PUT")
        BY <2>1, <2>3, Queues DEF Posted
    <2> QED  BY <2>2, <2>3
<1>4. Sending(c)'
    BY <1>1, <1>2, <1>3, RequestFacts DEF Idle, Sending, KAwake
<1> QED
    BY ZenonT(60), <1>2, <1>4, OneConnection DEF Phase

\* A client takes its completion.
LEMMA ClientPollPhase ==
    ASSUME TypeOK, MailInv, NEW c \in Clients, ClientPoll(c)
    PROVE  MailInv'
<1>1. /\ cpc[c] = "poll" /\ ccq[c] > 0 /\ ccq'[c] = ccq[c] - 1 /\ ccq[c] \in Nat
      /\ IF call[c] = Close THEN cpc'[c] = "closing" /\ toClerk'[c] = Append(toClerk[c], Send)
         ELSE cpc'[c] = "wait" /\ toClerk'[c] = toClerk[c]
      /\ call'[c] = call[c] /\ header'[c] = header[c] /\ mail'[c] = mail[c] /\ kpc'[c] = kpc[c]
      /\ kheader'[c] = kheader[c] /\ kmail'[c] = kmail[c] /\ answer'[c] = answer[c]
      /\ toClient'[c] = toClient[c] /\ broken' = broken
      /\ \A d \in Clients \ {c} : Same(d)
    BY DEF ClientPoll, TypeOK, Same
<1>2. Delivered(c) \/ Serving(c) \/ Answered(c) \/ Closing(c)
    BY <1>1 DEF MailInv, Phase, Idle, Sending
<1>3. CASE Delivered(c)
    <2>1. Delivered(c)'
        BY <1>1, <1>3, Queues DEF Delivered, KAwake, Polled
    <2> QED  BY <1>1, <2>1, OneConnection DEF Phase
<1>4. CASE Serving(c)
    <2>1. Serving(c)'
        BY <1>1, <1>4, RequestFacts DEF Serving, KAwake, Polled, Answer
    <2> QED  BY <1>1, <2>1, OneConnection DEF Phase
<1>5. CASE Answered(c)
    <2>1. Answered(c)'
        BY <1>1, <1>5, RequestFacts DEF Answered, KAwake, Polled, Answer
    <2> QED  BY <1>1, <2>1, OneConnection DEF Phase
<1>6. CASE Closing(c)
    <2>1. Closing(c)'
        BY <1>1, <1>6, Queues DEF Closing
    <2> QED  BY <1>1, <2>1, OneConnection DEF Phase
<1> QED
    BY <1>2, <1>3, <1>4, <1>5, <1>6

\* A call returns: the connection is as before the call.
LEMMA ReturnPhase ==
    ASSUME TypeOK, MailInv, NEW c \in Clients, Return(c)
    PROVE  MailInv'
<1>1. Answered(c)
    BY Phases DEF MailInv, Return
<1>2. /\ cpc[c] = "wait" /\ cpc'[c] = "idle" /\ call'[c] = NoCall /\ header'[c] = CLIENT_DONE
      /\ answer'[c] = NoAnswer
      /\ ccq'[c] = ccq[c] /\ kpc'[c] = kpc[c] /\ kheader'[c] = kheader[c]
      /\ toClerk'[c] = toClerk[c] /\ toClient'[c] = toClient[c]
      /\ \A d \in Clients \ {c} : Same(d)
    BY DEF Return, TypeOK, Same
<1>3. Idle(c)'
    BY <1>1, <1>2 DEF Answered, Idle, KAwake, Polled
<1> QED
    BY <1>2, <1>3, OneConnection DEF Phase

\* The client's send has been received.
LEMMA ClosedPhase ==
    ASSUME TypeOK, MailInv, NEW c \in Clients, Closed(c)
    PROVE  MailInv'
<1>1. /\ cpc[c] = "closing" /\ ccq[c] > 0 /\ ccq'[c] = ccq[c] - 1 /\ ccq[c] \in Nat
      /\ cpc'[c] = "closed" /\ call'[c] = NoCall /\ header'[c] = header[c]
      /\ kpc'[c] = kpc[c] /\ kheader'[c] = kheader[c] /\ answer'[c] = answer[c]
      /\ toClerk'[c] = toClerk[c] /\ toClient'[c] = toClient[c]
      /\ \A d \in Clients \ {c} : Same(d)
    BY DEF Closed, TypeOK, Same
<1>2. Closing(c)
    BY <1>1, Phases DEF MailInv, Delivered, Polled
<1>3. Closing(c)'
    BY <1>1, <1>2 DEF Closing
<1> QED
    BY <1>1, <1>3, OneConnection DEF Phase

\* A write placed at the clerk: the header ends the sending, the send the close.
LEMMA PlaceAtClerkPhase ==
    ASSUME TypeOK, MailInv, NEW c \in Clients, PlaceAtClerk(c)
    PROVE  MailInv'
<1> DEFINE m == Head(toClerk[c])
<1>1. /\ toClerk[c] # <<>> /\ toClerk'[c] = Tail(toClerk[c])
      /\ cpc'[c] = cpc[c] /\ call'[c] = call[c] /\ header'[c] = header[c] /\ mail'[c] = mail[c]
      /\ answer'[c] = answer[c] /\ toClient'[c] = toClient[c]
      /\ \A d \in Clients \ {c} : Same(d)
    BY DEF PlaceAtClerk, PlaceMail, PlaceRecord, PlaceHeader, PlaceSend, TypeOK, Same
<1>2. /\ m.kind = "mail" => /\ kmail'[c] = m.data /\ kheader'[c] = kheader[c]
                            /\ kpc'[c] = kpc[c] /\ ccq'[c] = ccq[c]
      /\ m.kind = "record" => /\ kmail'[c] = kmail[c] /\ kheader'[c] = kheader[c]
                              /\ kpc'[c] = kpc[c] /\ ccq'[c] = ccq[c]
      /\ m.kind = "header" => /\ kmail'[c] = kmail[c] /\ kheader'[c] = CLIENT_DONE
                              /\ kpc'[c] = kpc[c] /\ ccq'[c] = ccq[c] + 1
      /\ m.kind = "send" => /\ kmail'[c] = kmail[c] /\ kheader'[c] = kheader[c]
                            /\ kpc[c] = "recv" /\ kpc'[c] = "gone" /\ ccq'[c] = ccq[c] + 1
    BY DEF PlaceAtClerk, PlaceMail, PlaceRecord, PlaceHeader, PlaceSend, TypeOK
<1> HIDE DEF m
<1>3. Sending(c) \/ Delivered(c) \/ Closing(c)
    BY ZenonT(60), <1>1 DEF MailInv, Phase, Idle, Serving, Answered
<1>4. CASE Sending(c)
    <2>1. CASE toClerk[c] = <<Msg("mail", call[c], 0), Header>>
        <3>1. toClerk'[c] = <<Header>> /\ m.kind = "mail" /\ m.data = call[c]
            BY <1>1, <2>1, Queues, Kinds DEF m
        <3>2. Sending(c)'
            BY ZenonT(60), <1>1, <1>2, <1>4, <3>1 DEF Sending, KAwake
        <3> QED  BY <1>1, <3>2, OneConnection DEF Phase
    <2>2. ASSUME NEW p \in 0 .. BUFSIZE,
                 toClerk[c] = <<Msg("mail", call[c], 0), Msg("record", call[c], p), Header>>
          PROVE  MailInv'
        <3>1. toClerk'[c] = <<Msg("record", call[c], p), Header>> /\ m.kind = "mail" /\ m.data = call[c]
            BY <1>1, <2>2, Queues, Kinds DEF m
        <3>2. Sending(c)'
            BY ZenonT(60), <1>1, <1>2, <1>4, <3>1 DEF Sending, KAwake
        <3> QED  BY <1>1, <3>2, OneConnection DEF Phase
    <2>3. ASSUME NEW p \in 0 .. BUFSIZE, kmail[c] = call[c],
                 toClerk[c] = <<Msg("record", call[c], p), Header>>
          PROVE  MailInv'
        <3>1. toClerk'[c] = <<Header>> /\ m.kind = "record"
            BY <1>1, <2>3, Queues, Kinds DEF m
        <3>2. Sending(c)'
            BY ZenonT(60), <1>1, <1>2, <1>4, <2>3, <3>1 DEF Sending, KAwake
        <3> QED  BY <1>1, <3>2, OneConnection DEF Phase
    <2>4. CASE toClerk[c] = <<Header>> /\ kmail[c] = call[c]
        <3>1. toClerk'[c] = <<>> /\ m.kind = "header"
            BY <1>1, <2>4, Queues, Kinds DEF m
        <3>2. Delivered(c)'
            BY <1>1, <1>2, <1>4, <2>4, <3>1 DEF Sending, Delivered, KAwake, Polled
        <3> QED  BY <1>1, <3>2, OneConnection DEF Phase
    <2> QED  BY ZenonT(60), <1>4, <2>1, <2>2, <2>3, <2>4 DEF Sending
<1>5. CASE Delivered(c)
    <2>1. toClerk[c] # <<>>
        BY <1>1
    <2>2. toClerk[c] = <<Send>> /\ kpc[c] # "recv"
        BY ONLY <1>5, <2>1 DEF Delivered, KAwake
    <2>3. m.kind = "send"
        BY ONLY <2>2, Queues, Kinds DEF m
    <2> QED  BY <1>2, <2>2, <2>3
<1>6. CASE Closing(c)
    <2>1. toClerk[c] # <<>>
        BY <1>1
    <2>2. /\ toClerk[c] = <<Send>> /\ header[c] = CLIENT_DONE /\ toClient[c] = <<>>
          /\ answer[c] = NoAnswer /\ kheader[c] = CLERK_DONE
          /\ cpc[c] = "closing" /\ ccq[c] = 0 /\ call[c] = Close
        BY <1>6, <2>1 DEF Closing
    <2>3. toClerk'[c] = <<>> /\ m.kind = "send"
        BY <1>1, <2>2, Queues, Kinds DEF m
    <2>4. Closing(c)'
        BY <1>1, <1>2, <2>2, <2>3 DEF Closing
    <2> QED  BY <1>1, <2>4, OneConnection DEF Phase
<1> QED
    BY <1>3, <1>4, <1>5, <1>6

\* A write placed at the client: the reply, then CLERK_DONE.
LEMMA PlaceAtClientPhase ==
    ASSUME TypeOK, MailInv, NEW c \in Clients, PlaceAtClient(c)
    PROVE  MailInv'
<1> DEFINE m == Head(toClient[c])
<1>1. /\ toClient[c] # <<>> /\ toClient'[c] = Tail(toClient[c])
      /\ cpc'[c] = cpc[c] /\ call'[c] = call[c] /\ ccq'[c] = ccq[c] /\ kpc'[c] = kpc[c]
      /\ kheader'[c] = kheader[c] /\ kmail'[c] = kmail[c] /\ answer'[c] = answer[c]
      /\ toClerk'[c] = toClerk[c] /\ broken' = broken
      /\ m.kind = "mail" => mail'[c] = m.data /\ header'[c] = header[c]
      /\ m.kind = "header" => mail'[c] = mail[c] /\ header'[c] = CLERK_DONE
      /\ \A d \in Clients \ {c} : Same(d)
    BY ZenonT(60) DEF PlaceAtClient, TypeOK, Same
<1> HIDE DEF m
<1>2. Serving(c) /\ kpc[c] # "reply"
  <2>1. toClient[c] # <<>> /\ Phase(c)
    BY ZenonT(60), <1>1 DEF MailInv
  <2>2. Serving(c)
    BY ONLY ZenonT(60), <2>1 DEF Phase, Idle, Sending, Delivered, Answered, Closing
  <2> QED
    BY ONLY ZenonT(60), <2>1, <2>2 DEF Serving, KAwake
<1>3. CASE toClient[c] = <<Msg("mail", kmail[c], 0), Header>> /\ Answer(c, kmail[c])
    <2>1. toClient'[c] = <<Header>> /\ m.kind = "mail" /\ m.data = kmail[c]
        BY <1>1, <1>3, Queues, Kinds DEF m
    <2>2. Serving(c)'
        BY ZenonT(60), <1>1, <1>2, <1>3, <2>1 DEF Serving, KAwake, Polled, Answer
    <2> QED  BY ZenonT(60), <1>1, <2>2, OneConnection DEF Phase
<1>4. CASE toClient[c] = <<Header>> /\ Answer(c, mail[c])
    <2>1. toClient'[c] = <<>> /\ m.kind = "header"
        BY <1>1, <1>4, Queues, Kinds DEF m
    <2>2. Answered(c)'
        BY ZenonT(60), <1>1, <1>2, <1>4, <2>1 DEF Serving, Answered, KAwake, Polled, Answer
    <2> QED  BY ZenonT(60), <1>1, <2>2, OneConnection DEF Phase
<1> QED
    BY ZenonT(60), <1>1, <1>2, <1>3, <1>4 DEF Serving

\* The clerk serves the request it finds, which is that of its client's call.
LEMMA ClerkServePhase ==
    ASSUME TypeOK, MailInv, NEW c \in Clients, ClerkServe(c)
    PROVE  MailInv'
<1> PICK ok \in BOOLEAN : Serve(c, ok)
    BY ZenonT(60), MailboxAssumption DEF ClerkServe
<1>1. Delivered(c) /\ kmail[c] # Close /\ kpc[c] = "spin"
    BY ZenonT(60), Phases DEF MailInv, Serve
<1>2. kmail[c] = call[c] /\ call[c] \in Requests
    BY <1>1 DEF Delivered, TypeOK
<1>3. /\ kpc'[c] = "reply" /\ kheader'[c] = CLERK_DONE /\ kmail'[c] = Reply(kmail[c], ok)
      /\ answer'[c] = IF kmail[c].op \in {"GET", "DELETE"} THEN Reply(kmail[c], ok) ELSE Done
      /\ cpc'[c] = cpc[c] /\ call'[c] = call[c] /\ header'[c] = header[c] /\ ccq'[c] = ccq[c]
      /\ toClerk'[c] = toClerk[c] /\ toClient'[c] = toClient[c]
      /\ \A d \in Clients \ {c} : Same(d)
    BY DEF Serve, TypeOK, Same
<1>4. answer'[c] # NoAnswer
  <2>1. Done # NoAnswer
    BY MailTypes
  <2>2. kmail[c].op \in {"GET", "DELETE"} => Reply(kmail[c], ok).status # "unanswered"
    BY DEF Reply
  <2>3. NoAnswer.status = "unanswered"
    BY DEF NoAnswer
  <2> QED  BY ZenonT(60), <1>3, <2>1, <2>2, <2>3
<1>5. Serving(c)'
    BY ZenonT(60), <1>1, <1>2, <1>3, <1>4, RequestFacts DEF Delivered, Serving, Polled, Answer
<1> QED
    BY ZenonT(60), <1>3, <1>5, OneConnection DEF Phase

\* The clerk finds the close.
LEMMA ClerkClosePhase ==
    ASSUME TypeOK, MailInv, NEW c \in Clients, ClerkClose(c)
    PROVE  MailInv'
<1>1. Delivered(c) /\ kmail[c] = Close
    BY ZenonT(60), Phases DEF MailInv, ClerkClose
<1>2. /\ kpc'[c] = "recv" /\ kheader'[c] = CLERK_DONE
      /\ cpc'[c] = cpc[c] /\ call'[c] = call[c] /\ header'[c] = header[c] /\ ccq'[c] = ccq[c]
      /\ answer'[c] = answer[c] /\ toClerk'[c] = toClerk[c] /\ toClient'[c] = toClient[c]
      /\ \A d \in Clients \ {c} : Same(d)
    BY DEF ClerkClose, TypeOK, Same
<1>3. Closing(c)'
    BY ZenonT(60), <1>1, <1>2 DEF Delivered, Closing, Polled
<1> QED
    BY ZenonT(60), <1>2, <1>3, OneConnection DEF Phase

\* The reply is posted, or refused.
LEMMA ClerkReplyPhase ==
    ASSUME TypeOK, MailInv, NEW c \in Clients, ClerkReply(c)
    PROVE  MailInv'
<1>1. Serving(c) /\ kpc[c] = "reply"
    BY ZenonT(60), Phases DEF MailInv, ClerkReply
<1>2. /\ kpc'[c] = "poll" /\ kheader'[c] = kheader[c] /\ kmail'[c] = kmail[c]
      /\ cpc'[c] = cpc[c] /\ call'[c] = call[c] /\ header'[c] = header[c] /\ ccq'[c] = ccq[c]
      /\ answer'[c] = answer[c] /\ toClerk'[c] = toClerk[c]
      /\ \/ c \in broken' /\ toClient'[c] = toClient[c]
         \/ toClient'[c] = toClient[c] \o <<Msg("mail", kmail[c], 0), Header>>
      /\ \A d \in Clients \ {c} : Same(d)
    BY DEF ClerkReply, TypeOK, Same
<1>3. Serving(c)'
    BY <1>1, <1>2, Queues DEF Serving, KAwake, Polled, Answer
<1> QED
    BY ZenonT(60), <1>2, <1>3, OneConnection DEF Phase

\* The clerk takes its completion: no phase depends on it.
LEMMA ClerkPollPhase ==
    ASSUME TypeOK, MailInv, NEW c \in Clients, ClerkPoll(c)
    PROVE  MailInv'
<1>1. /\ kpc[c] = "poll" /\ kpc'[c] = "spin" /\ kheader'[c] = kheader[c] /\ kmail'[c] = kmail[c]
      /\ cpc'[c] = cpc[c] /\ call'[c] = call[c] /\ header'[c] = header[c] /\ mail'[c] = mail[c]
      /\ ccq'[c] = ccq[c] /\ answer'[c] = answer[c] /\ toClerk'[c] = toClerk[c]
      /\ toClient'[c] = toClient[c] /\ broken' = broken
      /\ \A d \in Clients \ {c} : Same(d)
    BY DEF ClerkPoll, TypeOK, Same
<1>2. Phase(c)
    BY DEF MailInv
<1>3. Phase(c)'
    BY ZenonT(60), <1>1, <1>2 DEF Phase, Idle, Sending, Delivered, Serving, Answered, Closing, KAwake, Polled, Answer
<1> QED
    BY ZenonT(60), <1>1, <1>3, OneConnection

-----------------------------------------------------------------------------
(* The steps keep the types                                                *)

\* One entry of a function is replaced.
LEMMA Update ==
    ASSUME NEW S, NEW T, NEW f \in [S -> T], NEW c, NEW v \in T
    PROVE  [f EXCEPT ![c] = v] \in [S -> T]
BY ZenonT(60)

\* The entries of the state that TypeOK speaks of, connection by connection.
LEMMA TypeFacts ==
    ASSUME TypeOK, NEW c \in Clients
    PROVE  /\ ccq[c] \in Nat /\ kcq[c] \in Nat /\ buf_head[c] \in Nat
           /\ kmail[c] \in Mails /\ mail[c] \in Mails
           /\ call[c] \in Requests \cup {Close, NoCall}
           /\ answer[c] \in Replies \cup {NoAnswer, Done}
           /\ toClerk[c] \in Seq(Messages) /\ toClient[c] \in Seq(Messages)
           /\ \A k \in Keys : db[k] \in Vals \cup {Absent}
           /\ puts \in Nat /\ calls \in Nat
BY DEF TypeOK

\* Where a record goes and how long it is.
LEMMA RecordTypes ==
    ASSUME TypeOK, NEW c \in Clients, NEW r \in Requests, r.op = "PUT"
    PROVE  RecordPos(c, r) \in Nat /\ RecordLen(r) \in Nat
<1>1. r.val \in Vals
    BY MailTypes
<1>2. r.val.len \in Nat
    BY ONLY ZenonT(60), <1>1, MailboxAssumption DEF Vals
<1>3. RecordLen(r) \in Nat /\ buf_head[c] \in Nat
    BY <1>2, TypeFacts DEF RecordLen
<1> QED
    BY ONLY <1>3 DEF RecordPos

\* Posting a call keeps the types.
LEMMA PostType ==
    ASSUME TypeOK, NEW c \in Clients, NEW r \in Requests \cup {Close}, Post(c, r),
           puts' \in Nat
    PROVE  TypeOK'
<1>1. r \in Mails /\ r \in Requests \cup {Close, NoCall}
    BY MailTypes
<1>2. Pmem /\ r.op = "PUT" => r \in Requests /\ RecordPos(c, r) \in Nat /\ RecordLen(r) \in Nat
    BY RequestFacts, RecordTypes
<1>3. toClerk[c] \o Posted(c, r) \in Seq(Messages)
  <2>1. Msg("mail", r, 0) \in Messages /\ Header \in Messages /\ toClerk[c] \in Seq(Messages)
    BY <1>1, MessageTypes, TypeFacts
  <2>2. CASE Pmem /\ r.op = "PUT"
    <3>1. Msg("record", r, RecordPos(c, r)) \in Messages
        BY <1>1, <1>2, <2>2, MessageTypes
    <3> QED  BY ONLY <2>1, <2>2, <3>1, QueueTypes DEF Posted
  <2>3. CASE ~(Pmem /\ r.op = "PUT")
    BY ONLY <2>1, <2>3, QueueTypes DEF Posted
  <2> QED  BY <2>2, <2>3
<1>4. Pmem /\ r.op = "PUT" => RecordPos(c, r) + RecordLen(r) \in Nat
    BY ONLY <1>2
<1>5. /\ mail' = [mail EXCEPT ![c] = r]
      /\ toClerk' = [toClerk EXCEPT ![c] = toClerk[c] \o Posted(c, r)]
      /\ \/ buf_head' = buf_head
         \/ Pmem /\ r.op = "PUT"
            /\ buf_head' = [buf_head EXCEPT ![c] = RecordPos(c, r) + RecordLen(r)]
      /\ cpc' = [cpc EXCEPT ![c] = "poll"] /\ call' = [call EXCEPT ![c] = r] /\ calls' = calls + 1
      /\ header' = header /\ ccq' = ccq /\ returned' = returned /\ kpc' = kpc /\ kheader' = kheader
      /\ kmail' = kmail /\ kcq' = kcq /\ answer' = answer /\ toClient' = toClient /\ broken' = broken
      /\ db' = db /\ durable' = durable
    BY DEF Post
<1>6. calls' \in Nat
    BY <1>5, TypeFacts
<1>7. buf_head' \in [Clients -> Nat]
    BY ONLY ZenonT(60), TypeOK, <1>4, <1>5, Update DEF TypeOK
<1>8. cpc' \in [Clients -> {"idle", "poll", "wait", "closing", "closed"}]
    BY ONLY TypeOK, <1>5, Update DEF TypeOK
<1>9. mail' \in [Clients -> Mails] /\ call' \in [Clients -> Requests \cup {Close, NoCall}]
    BY ONLY TypeOK, <1>1, <1>5, Update, ZenonT(60) DEF TypeOK
<1>10. toClerk' \in [Clients -> Seq(Messages)]
    BY ONLY TypeOK, <1>3, <1>5, Update, ZenonT(60) DEF TypeOK
<1> QED
    BY ONLY TypeOK, puts' \in Nat, <1>5, <1>6, <1>7, <1>8, <1>9, <1>10, ZenonT(60) DEF TypeOK

\* The client's completions and returns keep the types; what a call returns is
\* the answer it was given.
LEMMA ClientType ==
    ASSUME TypeOK, MailInv, NEW c \in Clients, ClientPoll(c) \/ Return(c) \/ Closed(c)
    PROVE  TypeOK'
<1>1. ASSUME ClientPoll(c) PROVE TypeOK'
  <2>1. /\ ccq' = [ccq EXCEPT ![c] = ccq[c] - 1]
        /\ cpc' = [cpc EXCEPT ![c] = "closing"] \/ cpc' = [cpc EXCEPT ![c] = "wait"]
        /\ toClerk' = [toClerk EXCEPT ![c] = Append(toClerk[c], Send)] \/ toClerk' = toClerk
        /\ call' = call /\ mail' = mail /\ buf_head' = buf_head /\ calls' = calls /\ puts' = puts
        /\ header' = header /\ returned' = returned /\ kpc' = kpc /\ kheader' = kheader
        /\ kmail' = kmail /\ kcq' = kcq /\ answer' = answer /\ toClient' = toClient
        /\ broken' = broken /\ db' = db /\ durable' = durable
    BY <1>1 DEF ClientPoll
  <2>2. ccq[c] - 1 \in Nat /\ Append(toClerk[c], Send) \in Seq(Messages)
    <3>1. ccq[c] - 1 \in Nat
        BY <1>1, TypeFacts DEF ClientPoll
    <3>2. Append(toClerk[c], Send) \in Seq(Messages)
        BY ZenonT(60), TypeFacts, MessageTypes, QueueTypes
    <3> QED  BY <3>1, <3>2
  <2>3. cpc' \in [Clients -> {"idle", "poll", "wait", "closing", "closed"}]
    BY ONLY TypeOK, <2>1, Update DEF TypeOK
  <2>4. ccq' \in [Clients -> Nat]
    BY ONLY TypeOK, <2>1, <2>2, Update, ZenonT(60) DEF TypeOK
  <2>5. toClerk' \in [Clients -> Seq(Messages)]
    <3>1. toClerk' = [toClerk EXCEPT ![c] = Append(toClerk[c], Send)] \/ toClerk' = toClerk
        BY ONLY ZenonT(60), <2>1
    <3>2. toClerk \in [Clients -> Seq(Messages)]
        BY DEF TypeOK
    <3> QED  BY ONLY <2>2, <3>1, <3>2, Update
  <2> QED
    BY ONLY TypeOK, <2>1, <2>3, <2>4, <2>5, ZenonT(60) DEF TypeOK
<1>2. ASSUME Return(c) PROVE TypeOK'
  <2>1. /\ header' = [header EXCEPT ![c] = CLIENT_DONE]
        /\ returned' = [returned EXCEPT ![c] =
                           IF call[c].op \in {"GET", "DELETE"} THEN mail[c] ELSE Done]
        /\ cpc' = [cpc EXCEPT ![c] = "idle"] /\ call' = [call EXCEPT ![c] = NoCall]
        /\ answer' = [answer EXCEPT ![c] = NoAnswer]
        /\ mail' = mail /\ ccq' = ccq /\ buf_head' = buf_head /\ calls' = calls /\ puts' = puts
        /\ kpc' = kpc /\ kheader' = kheader /\ kmail' = kmail /\ kcq' = kcq
        /\ toClerk' = toClerk /\ toClient' = toClient
        /\ broken' = broken /\ db' = db /\ durable' = durable
    BY <1>2 DEF Return
  <2>2. answer[c] = IF call[c].op \in {"GET", "DELETE"} THEN mail[c] ELSE Done
    BY ZenonT(60), <1>2, Phases DEF MailInv, Return, Answered, Answer
  <2>3. answer[c] \in Replies \cup {NoAnswer, Done}
    BY ZenonT(60), TypeFacts
  <2>4. returned' \in [Clients -> Replies \cup {NoAnswer, Done}]
    BY ONLY TypeOK, <2>1, <2>2, <2>3, Update, ZenonT(60) DEF TypeOK
  <2>5. /\ cpc' \in [Clients -> {"idle", "poll", "wait", "closing", "closed"}]
        /\ header' \in [Clients -> {CLIENT_DONE, CLERK_DONE}]
    BY ONLY TypeOK, <2>1, Update DEF TypeOK
  <2>6. /\ call' \in [Clients -> Requests \cup {Close, NoCall}]
        /\ answer' \in [Clients -> Replies \cup {NoAnswer, Done}]
    BY ONLY TypeOK, <2>1, Update, ZenonT(60) DEF TypeOK
  <2> QED
    BY ONLY TypeOK, <2>1, <2>4, <2>5, <2>6, ZenonT(60) DEF TypeOK
<1>3. ASSUME Closed(c) PROVE TypeOK'
  <2>1. /\ ccq' = [ccq EXCEPT ![c] = ccq[c] - 1] /\ cpc' = [cpc EXCEPT ![c] = "closed"]
        /\ call' = [call EXCEPT ![c] = NoCall]
        /\ mail' = mail /\ buf_head' = buf_head /\ calls' = calls /\ puts' = puts
        /\ header' = header /\ returned' = returned /\ kpc' = kpc /\ kheader' = kheader
        /\ kmail' = kmail /\ kcq' = kcq /\ answer' = answer /\ toClerk' = toClerk
        /\ toClient' = toClient /\ broken' = broken /\ db' = db /\ durable' = durable
    BY <1>3 DEF Closed
  <2>2. ccq[c] - 1 \in Nat
    BY <1>3, TypeFacts DEF Closed
  <2>3. cpc' \in [Clients -> {"idle", "poll", "wait", "closing", "closed"}]
    BY ONLY TypeOK, <2>1, Update DEF TypeOK
  <2>4. ccq' \in [Clients -> Nat] /\ call' \in [Clients -> Requests \cup {Close, NoCall}]
    BY ONLY TypeOK, <2>1, <2>2, Update, ZenonT(60) DEF TypeOK
  <2> QED
    BY ONLY TypeOK, <2>1, <2>3, <2>4, ZenonT(60) DEF TypeOK
<1> QED
    BY <1>1, <1>2, <1>3

\* Placing a write keeps the types.
LEMMA PlaceType ==
    ASSUME TypeOK, NEW c \in Clients, PlaceAtClerk(c) \/ PlaceAtClient(c)
    PROVE  TypeOK'
<1>1. ASSUME PlaceAtClerk(c) PROVE TypeOK'
  <2>1. /\ toClerk' = [toClerk EXCEPT ![c] = Tail(toClerk[c])]
        /\ kmail' = [kmail EXCEPT ![c] = Head(toClerk[c]).data] \/ kmail' = kmail
        /\ kheader' = [kheader EXCEPT ![c] = CLIENT_DONE] \/ kheader' = kheader
        /\ kpc' = [kpc EXCEPT ![c] = "gone"] \/ kpc' = kpc
        /\ ccq' = [ccq EXCEPT ![c] = ccq[c] + 1] \/ ccq' = ccq
        /\ cpc' = cpc /\ call' = call /\ header' = header /\ mail' = mail /\ buf_head' = buf_head
        /\ returned' = returned /\ kcq' = kcq /\ answer' = answer /\ toClient' = toClient
        /\ broken' = broken /\ db' = db /\ durable' = durable /\ puts' = puts /\ calls' = calls
    BY ZenonT(60), <1>1 DEF PlaceAtClerk, PlaceMail, PlaceRecord, PlaceHeader, PlaceSend
  <2>2. /\ Tail(toClerk[c]) \in Seq(Messages) /\ Head(toClerk[c]).data \in Mails
    <3>1. toClerk[c] # <<>> /\ toClerk[c] \in Seq(Messages) /\ Header \in Messages
        BY ZenonT(60), <1>1, TypeFacts, MessageTypes DEF PlaceAtClerk
    <3>2. Tail(toClerk[c]) \in Seq(Messages) /\ Head(toClerk[c]) \in Messages
        BY ONLY <3>1, QueueTypes
    <3> QED  BY ONLY <3>2, MessageTypes
  <2>3. ccq[c] + 1 \in Nat
    BY TypeFacts
  <2>4. kheader' \in [Clients -> {CLIENT_DONE, CLERK_DONE, Other}]
    BY ONLY ZenonT(60), TypeOK, <2>1, Update DEF TypeOK
  <2>5. kpc' \in [Clients -> {"spin", "reply", "poll", "recv", "gone"}]
    BY ONLY ZenonT(60), TypeOK, <2>1, Update DEF TypeOK
  <2>6. kmail' \in [Clients -> Mails]
    <3>1. kmail' = [kmail EXCEPT ![c] = Head(toClerk[c]).data] \/ kmail' = kmail
        BY ONLY ZenonT(60), <2>1
    <3>2. kmail \in [Clients -> Mails]
        BY DEF TypeOK
    <3> QED  BY ONLY <2>2, <3>1, <3>2, Update
  <2>8. ccq' \in [Clients -> Nat]
    <3>1. ccq' = [ccq EXCEPT ![c] = ccq[c] + 1] \/ ccq' = ccq
        BY ONLY <2>1
    <3>2. ccq \in [Clients -> Nat]
        BY DEF TypeOK
    <3> QED  BY ONLY <2>3, <3>1, <3>2, Update
  <2>7. toClerk' \in [Clients -> Seq(Messages)]
    BY ONLY TypeOK, <2>1, <2>2, Update, ZenonT(60) DEF TypeOK
  <2> QED
    BY ONLY TypeOK, <2>1, <2>4, <2>5, <2>6, <2>7, <2>8, ZenonT(60) DEF TypeOK
<1>2. ASSUME PlaceAtClient(c) PROVE TypeOK'
  <2>1. /\ toClient' = [toClient EXCEPT ![c] = Tail(toClient[c])]
        /\ mail' = [mail EXCEPT ![c] = Head(toClient[c]).data] \/ mail' = mail
        /\ header' = [header EXCEPT ![c] = CLERK_DONE] \/ header' = header
        /\ kcq' = [kcq EXCEPT ![c] = kcq[c] + 1] \/ kcq' = kcq
        /\ cpc' = cpc /\ call' = call /\ kheader' = kheader /\ kmail' = kmail /\ kpc' = kpc
        /\ ccq' = ccq /\ buf_head' = buf_head /\ returned' = returned /\ answer' = answer
        /\ toClerk' = toClerk /\ broken' = broken /\ db' = db /\ durable' = durable
        /\ puts' = puts /\ calls' = calls
    BY <1>2 DEF PlaceAtClient
  <2>2. /\ Tail(toClient[c]) \in Seq(Messages) /\ Head(toClient[c]).data \in Mails
    <3>1. toClient[c] # <<>> /\ toClient[c] \in Seq(Messages) /\ Header \in Messages
        BY <1>2, TypeFacts, MessageTypes DEF PlaceAtClient
    <3>2. Tail(toClient[c]) \in Seq(Messages) /\ Head(toClient[c]) \in Messages
        BY ONLY <3>1, QueueTypes
    <3> QED  BY ONLY <3>2, MessageTypes
  <2>3. kcq[c] + 1 \in Nat
    BY TypeFacts
  <2>4. header' \in [Clients -> {CLIENT_DONE, CLERK_DONE}]
    BY ONLY TypeOK, <2>1, Update DEF TypeOK
  <2>5. mail' \in [Clients -> Mails]
    BY ONLY TypeOK, <2>1, <2>2, Update, ZenonT(60) DEF TypeOK
  <2>7. kcq' \in [Clients -> Nat]
    BY ONLY TypeOK, <2>1, <2>3, Update, ZenonT(60) DEF TypeOK
  <2>6. toClient' \in [Clients -> Seq(Messages)]
    BY ONLY TypeOK, <2>1, <2>2, Update, ZenonT(60) DEF TypeOK
  <2> QED
    BY ONLY TypeOK, <2>1, <2>4, <2>5, <2>6, <2>7, ZenonT(60) DEF TypeOK
<1> QED
    BY <1>1, <1>2

\* The database and the reply after a request that the clerk serves.
LEMMA ServeTypes ==
    ASSUME TypeOK, NEW r \in Requests, NEW ok \in BOOLEAN
    PROVE  /\ NewDb(r, ok) \in [Keys -> Vals \cup {Absent}] /\ Reply(r, ok) \in Mails
           /\ r.op \in {"GET", "DELETE"} => Reply(r, ok) \in Replies
<1>1. db \in [Keys -> Vals \cup {Absent}]
    BY DEF TypeOK
<1>2. NewDb(r, ok) \in [Keys -> Vals \cup {Absent}]
  <2>1. CASE NewDb(r, ok) = db
    BY ZenonT(60), <1>1, <2>1
  <2>2. CASE r.op = "PUT" /\ NewDb(r, ok) = [db EXCEPT ![r.key] = r.val]
    <3>1. r.val \in Vals \cup {Absent}
        BY <2>2, MailTypes
    <3> QED  BY ONLY ZenonT(60), <1>1, <2>2, <3>1, Update
  <2>3. CASE NewDb(r, ok) = [db EXCEPT ![r.key] = Absent]
    BY ONLY ZenonT(60), <1>1, <2>3, Update
  <2> QED  BY <2>1, <2>2, <2>3 DEF NewDb
<1>3. CASE r.op = "SYNC"
  <2>1. Reply(r, ok) = r /\ r \in Mails
    BY <1>3, MailTypes DEF Reply
  <2> QED  BY ONLY <1>2, <1>3, <2>1
<1>4. CASE r.op # "SYNC"
  <2>1. r.op = "GET" => db[r.key] \in Vals \cup {Absent}
    BY <1>1, MailTypes
  <2>2. \/ Reply(r, ok) = [status |-> "NOTFOUND", val |-> Absent]
        \/ Reply(r, ok) = [status |-> "ERROR", val |-> Absent]
        \/ Reply(r, ok) = [status |-> "OK", val |-> Absent]
        \/ r.op = "GET" /\ Reply(r, ok) = [status |-> "OK", val |-> db[r.key]]
    BY ZenonT(60), <1>4 DEF Reply
  <2>3. Reply(r, ok) \in Replies
    BY ONLY ZenonT(60), <2>1, <2>2, MailTypes
  <2> QED  BY ONLY ZenonT(60), <1>2, <2>3, MailTypes
<1> QED
    BY <1>3, <1>4

\* Only a request of the client's call is served, so serving it keeps the types.
LEMMA ClerkServeType ==
    ASSUME TypeOK, MailInv, NEW c \in Clients, ClerkServe(c)
    PROVE  TypeOK'
<1> PICK ok \in BOOLEAN : Serve(c, ok)
    BY ZenonT(60), MailboxAssumption DEF ClerkServe
<1> DEFINE r == kmail[c]
<1>1. r \in Requests
  <2>1. Delivered(c) /\ kmail[c] # Close
    BY ZenonT(60), Phases DEF MailInv, Serve
  <2> QED  BY <2>1, TypeFacts DEF Delivered
<1>2. /\ kheader' = [kheader EXCEPT ![c] = CLERK_DONE] /\ kmail' = [kmail EXCEPT ![c] = Reply(r, ok)]
      /\ db' = NewDb(r, ok) /\ (durable' = NewDb(r, ok) \/ durable' = durable)
      /\ answer' = [answer EXCEPT ![c] = IF r.op \in {"GET", "DELETE"} THEN Reply(r, ok) ELSE Done]
      /\ kpc' = [kpc EXCEPT ![c] = "reply"]
      /\ cpc' = cpc /\ call' = call /\ header' = header /\ mail' = mail /\ ccq' = ccq
      /\ buf_head' = buf_head /\ returned' = returned /\ kcq' = kcq /\ toClerk' = toClerk
      /\ toClient' = toClient /\ broken' = broken /\ puts' = puts /\ calls' = calls
    BY DEF Serve
<1>3. /\ NewDb(r, ok) \in [Keys -> Vals \cup {Absent}] /\ Reply(r, ok) \in Mails
      /\ r.op \in {"GET", "DELETE"} => Reply(r, ok) \in Replies
    BY ZenonT(60), <1>1, ServeTypes
<1> HIDE DEF r
<1>4. kheader' \in [Clients -> {CLIENT_DONE, CLERK_DONE, Other}]
    BY ONLY TypeOK, <1>2, Update DEF TypeOK
<1>5. kpc' \in [Clients -> {"spin", "reply", "poll", "recv", "gone"}]
    BY ONLY TypeOK, <1>2, Update DEF TypeOK
<1>6. kmail' \in [Clients -> Mails]
    BY ONLY TypeOK, <1>2, <1>3, Update, ZenonT(60) DEF TypeOK
<1>7. answer' \in [Clients -> Replies \cup {NoAnswer, Done}]
  <2>1. (IF r.op \in {"GET", "DELETE"} THEN Reply(r, ok) ELSE Done) \in Replies \cup {NoAnswer, Done}
    BY <1>3
  <2> HIDE DEF r
  <2> QED  BY ONLY TypeOK, <1>2, <2>1, Update, ZenonT(60) DEF TypeOK
<1>8. db' \in [Keys -> Vals \cup {Absent}] /\ durable' \in [Keys -> Vals \cup {Absent}]
  <2>1. db' = NewDb(r, ok) /\ (durable' = NewDb(r, ok) \/ durable' = durable)
    BY <1>2
  <2>2. durable \in [Keys -> Vals \cup {Absent}]
    BY DEF TypeOK
  <2> QED  BY ONLY <1>3, <2>1, <2>2
<1> QED
    BY ONLY TypeOK, <1>2, <1>4, <1>5, <1>6, <1>7, <1>8, ZenonT(60) DEF TypeOK

\* The clerk's other steps keep the types.
LEMMA ClerkType ==
    ASSUME TypeOK, NEW c \in Clients, ClerkClose(c) \/ ClerkReply(c) \/ ClerkPoll(c)
    PROVE  TypeOK'
<1>1. ASSUME ClerkClose(c) PROVE TypeOK'
  <2>1. /\ kheader' = [kheader EXCEPT ![c] = CLERK_DONE] /\ kpc' = [kpc EXCEPT ![c] = "recv"]
        /\ cpc' = cpc /\ call' = call /\ header' = header /\ mail' = mail /\ ccq' = ccq
        /\ buf_head' = buf_head /\ returned' = returned /\ kmail' = kmail /\ kcq' = kcq
        /\ answer' = answer /\ toClerk' = toClerk /\ toClient' = toClient /\ broken' = broken
        /\ db' = db /\ durable' = durable /\ puts' = puts /\ calls' = calls
    BY <1>1 DEF ClerkClose
  <2>2. kheader' \in [Clients -> {CLIENT_DONE, CLERK_DONE, Other}]
    BY ONLY TypeOK, <2>1, Update DEF TypeOK
  <2>3. kpc' \in [Clients -> {"spin", "reply", "poll", "recv", "gone"}]
    BY ONLY TypeOK, <2>1, Update DEF TypeOK
  <2> QED
    BY ONLY TypeOK, <2>1, <2>2, <2>3, ZenonT(60) DEF TypeOK
<1>2. ASSUME ClerkReply(c) PROVE TypeOK'
  <2>1. /\ broken' = broken \cup {c} \/ broken' = broken
        /\ kcq' = [kcq EXCEPT ![c] = kcq[c] + 2] \/ kcq' = kcq
        /\ \/ toClient' = toClient
           \/ toClient' = [toClient EXCEPT ![c] = toClient[c] \o <<Msg("mail", kmail[c], 0), Header>>]
    BY ZenonT(60), <1>2 DEF ClerkReply
  <2>2. /\ kpc' = [kpc EXCEPT ![c] = "poll"]
        /\ cpc' = cpc /\ call' = call /\ header' = header /\ mail' = mail /\ ccq' = ccq
        /\ buf_head' = buf_head /\ returned' = returned /\ kheader' = kheader /\ kmail' = kmail
        /\ answer' = answer /\ toClerk' = toClerk
        /\ db' = db /\ durable' = durable /\ puts' = puts /\ calls' = calls
    BY <1>2 DEF ClerkReply
  <2>3. toClient[c] \o <<Msg("mail", kmail[c], 0), Header>> \in Seq(Messages)
    <3>1. /\ Msg("mail", kmail[c], 0) \in Messages /\ Header \in Messages
          /\ toClient[c] \in Seq(Messages)
        BY ZenonT(60), TypeFacts, MessageTypes
    <3> QED  BY ONLY <3>1, QueueTypes
  <2>4. kcq[c] + 2 \in Nat
    BY TypeFacts
  <2>5. kpc' \in [Clients -> {"spin", "reply", "poll", "recv", "gone"}]
    BY ONLY TypeOK, <2>2, Update DEF TypeOK
  <2>6. toClient' \in [Clients -> Seq(Messages)] /\ broken' \subseteq Clients
    <3>1. toClient \in [Clients -> Seq(Messages)] /\ broken \subseteq Clients
        BY DEF TypeOK
    <3> QED  BY ONLY ZenonT(60), c \in Clients, <2>1, <2>3, <3>1, Update
  <2>7. kcq' \in [Clients -> Nat]
    <3>1. kcq \in [Clients -> Nat]
        BY DEF TypeOK
    <3> QED  BY ONLY <2>1, <2>4, <3>1, Update
  <2> QED
    BY ONLY TypeOK, <2>2, <2>5, <2>6, <2>7, ZenonT(60) DEF TypeOK
<1>3. ASSUME ClerkPoll(c) PROVE TypeOK'
  <2>1. /\ kcq' = [kcq EXCEPT ![c] = kcq[c] - 1] /\ kpc' = [kpc EXCEPT ![c] = "spin"]
        /\ cpc' = cpc /\ call' = call /\ header' = header /\ mail' = mail /\ ccq' = ccq
        /\ buf_head' = buf_head /\ returned' = returned /\ kheader' = kheader /\ kmail' = kmail
        /\ answer' = answer /\ toClerk' = toClerk /\ toClient' = toClient /\ broken' = broken
        /\ db' = db /\ durable' = durable /\ puts' = puts /\ calls' = calls
    BY <1>3 DEF ClerkPoll
  <2>2. kcq[c] - 1 \in Nat
    BY <1>3, TypeFacts DEF ClerkPoll
  <2>3. kpc' \in [Clients -> {"spin", "reply", "poll", "recv", "gone"}]
    BY ONLY TypeOK, <2>1, Update DEF TypeOK
  <2>4. kcq' \in [Clients -> Nat]
    BY ONLY TypeOK, <2>1, <2>2, Update, ZenonT(60) DEF TypeOK
  <2> QED
    BY ONLY TypeOK, <2>1, <2>3, <2>4, ZenonT(60) DEF TypeOK
<1> QED
    BY <1>1, <1>2, <1>3

-----------------------------------------------------------------------------
(* The invariant                                                           *)

\* The request that a Send function posts is one of Requests, or the close.
LEMMA Calls ==
    ASSUME TypeOK, NEW c \in Clients
    PROVE  /\ \A k \in Keys, n \in Lens : SendWrite(c, k, n) =>
                  /\ [op |-> "PUT", key |-> k, val |-> [id |-> puts + 1, len |-> n]] \in Requests
                  /\ puts' \in Nat
           /\ \A k \in Keys : /\ [op |-> "GET", key |-> k, val |-> Absent] \in Requests
                              /\ [op |-> "DELETE", key |-> k, val |-> Absent] \in Requests
<1>1. ASSUME NEW k \in Keys, NEW n \in Lens, SendWrite(c, k, n)
      PROVE  /\ [op |-> "PUT", key |-> k, val |-> [id |-> puts + 1, len |-> n]] \in Requests
             /\ puts' \in Nat
  <2>1. puts + 1 \in 1 .. MaxPuts /\ puts' \in Nat
    BY <1>1, TypeFacts, MailboxAssumption DEF SendWrite
  <2>2. [id |-> puts + 1, len |-> n] \in Vals
    BY ONLY <2>1, n \in Lens DEF Vals
  <2> QED
    BY ONLY <2>1, <2>2, k \in Keys DEF Requests
<1>2. ASSUME NEW k \in Keys
      PROVE  /\ [op |-> "GET", key |-> k, val |-> Absent] \in Requests
             /\ [op |-> "DELETE", key |-> k, val |-> Absent] \in Requests
    BY ONLY <1>2 DEF Requests
<1> QED
    BY <1>1, <1>2

\* The steps of Next, with the Send functions as the posts they are.
LEMMA Steps ==
    ASSUME TypeOK, Next
    PROVE  \/ \E c \in Clients, r \in Requests \cup {Close} : Post(c, r) /\ puts' \in Nat
           \/ \E c \in Clients : Step(c)
           \/ Writeback
<1>1. ASSUME NEW c \in Clients, NEW k \in Keys, NEW n \in Lens, SendWrite(c, k, n)
      PROVE  \E r \in Requests \cup {Close} : Post(c, r) /\ puts' \in Nat
    BY <1>1, Calls DEF SendWrite
<1>2. ASSUME NEW c \in Clients, NEW k \in Keys, SendGet(c, k) \/ SendDelete(c, k)
      PROVE  \E r \in Requests \cup {Close} : Post(c, r) /\ puts' \in Nat
    BY <1>2, Calls, TypeFacts DEF SendGet, SendDelete
<1>3. ASSUME NEW c \in Clients, SendSync(c) \/ SendClose(c)
      PROVE  \E r \in Requests \cup {Close} : Post(c, r) /\ puts' \in Nat
    BY <1>3, RequestFacts, TypeFacts DEF SendSync, SendClose
<1> QED
    BY <1>1, <1>2, <1>3 DEF Next

\* Both invariants hold at the start: the clerk's header word is not CLIENT_DONE.
LEMMA InitInv == Init => TypeOK /\ MailInv
<1> SUFFICES ASSUME Init PROVE TypeOK /\ MailInv
    OBVIOUS
<1>1. /\ NoCall \in Mails /\ <<>> \in Seq(Messages)
    BY MailTypes
<1>2. TypeOK
    BY <1>1 DEF Init, TypeOK
<1>3. MailInv
    BY DEF Init, MailInv, Phase, Idle, KAwake
<1> QED
    BY <1>2, <1>3

\* TypeOK and MailInv together are inductive: the types of what is served and
\* returned rest on the phases.
LEMMA NextInv == TypeOK /\ MailInv /\ [Next]_vars => TypeOK' /\ MailInv'
<1> SUFFICES ASSUME TypeOK, MailInv, [Next]_vars PROVE TypeOK' /\ MailInv'
    OBVIOUS
<1>1. ASSUME NEW c \in Clients, NEW r \in Requests \cup {Close}, Post(c, r), puts' \in Nat
      PROVE  TypeOK' /\ MailInv'
    BY <1>1, PostType, PostPhase
<1>2. ASSUME NEW c \in Clients, Step(c)
      PROVE  TypeOK' /\ MailInv'
  <2>1. CASE ClientPoll(c) \/ Return(c) \/ Closed(c)
    BY <2>1, ClientType, ClientPollPhase, ReturnPhase, ClosedPhase
  <2>2. CASE PlaceAtClerk(c) \/ PlaceAtClient(c)
    BY <2>2, PlaceType, PlaceAtClerkPhase, PlaceAtClientPhase
  <2>3. CASE ClerkServe(c)
    BY <2>3, ClerkServeType, ClerkServePhase
  <2>4. CASE ClerkClose(c) \/ ClerkReply(c) \/ ClerkPoll(c)
    BY <2>4, ClerkType, ClerkClosePhase, ClerkReplyPhase, ClerkPollPhase
  <2> QED
    BY <1>2, <2>1, <2>2, <2>3, <2>4 DEF Step
<1>3. ASSUME /\ durable' = db \/ durable' = durable
             /\ UNCHANGED <<clientVars, clerkVars, netVars, db, countVars>>
      PROVE  TypeOK' /\ MailInv'
  <2>1. TypeOK'
    BY <1>3, ZenonT(60) DEF TypeOK
  <2>2. \A d \in Clients : Same(d)
    BY <1>3, ZenonT(60) DEF Same
  <2>3. MailInv'
    BY <2>2, PhaseFrame DEF MailInv
  <2> QED
    BY <2>1, <2>3
<1>4. CASE Writeback
    BY <1>3, <1>4 DEF Writeback
<1>5. CASE UNCHANGED vars
    BY <1>3, <1>5 DEF vars
<1> QED
    BY <1>1, <1>2, <1>4, <1>5, Steps

\* The types hold in every reachable state.
THEOREM TypeCorrect == Spec => []TypeOK
BY InitInv, NextInv, PTL DEF Spec

\* In every reachable state each connection is in one of its phases: the clerk
\* that sees CLIENT_DONE finds the whole request of its client's current call,
\* and the client that sees CLERK_DONE the reply to that call.
THEOREM MailInvariant == Spec => []MailInv
BY InitInv, NextInv, PTL DEF Spec

-----------------------------------------------------------------------------
(* The store                                                               *)

\* What a client waits for on the store: a close is no call of it.
Waits(c) == IF call[c] = Close THEN NoCall ELSE call[c]

\* A step that changes no call, no answer and no value is a stutter of the store.
LEMMA Stutters ==
    ASSUME db' = db, answer' = answer, returned' = returned,
           \A c \in Clients : Waits(c)' = Waits(c)
    PROVE  UNCHANGED Store!vars
BY DEF Store!vars, Waits

\* A posted call is a Call of the store; a posted close is a stutter.
LEMMA PostRefines ==
    ASSUME TypeOK, MailInv, NEW c \in Clients, NEW r \in Requests \cup {Close}, Post(c, r)
    PROVE  (\E q \in Requests : Store!Call(c, q)) \/ UNCHANGED Store!vars
<1>1. /\ call' = [call EXCEPT ![c] = r] /\ db' = db /\ answer' = answer /\ returned' = returned
    BY DEF Post
<1>2. call[c] = NoCall
    BY ZenonT(60), Phases DEF MailInv, Post, Idle
<1>3. /\ call'[c] = r /\ \A d \in Clients : d # c => call'[d] = call[d]
    BY <1>1 DEF TypeOK
<1>4. Waits(c) = NoCall /\ \A d \in Clients : d # c => Waits(d)' = Waits(d)
    BY <1>2, <1>3, RequestFacts DEF Waits
<1>5. CASE r = Close
  <2>1. \A d \in Clients : Waits(d)' = Waits(d)
    BY <1>3, <1>4, <1>5 DEF Waits
  <2> QED  BY <1>1, <2>1, Stutters
<1>6. CASE r # Close
  <2>1. Waits(c)' = r /\ r \in Requests
    BY <1>3, <1>6 DEF Waits
  <2>2. [d \in Clients |-> Waits(d)]' = [[d \in Clients |-> Waits(d)] EXCEPT ![c] = r]
    BY <1>4, <2>1, ZenonT(60)
  <2>3. Store!Call(c, r)
    BY <1>1, <1>4, <2>2, ZenonT(60) DEF Store!Call, Waits
  <2> QED  BY <2>1, <2>3
<1> QED
    BY <1>5, <1>6

\* The clerk's service of a request is its Execute on the store.
LEMMA ServeRefines ==
    ASSUME TypeOK, MailInv, NEW c \in Clients, ClerkServe(c)
    PROVE  Store!Execute(c)
<1> PICK ok \in {TRUE, ~Failing} : Serve(c, ok)
    BY ZenonT(60) DEF ClerkServe
<1> DEFINE r == kmail[c]
<1>1. Delivered(c) /\ r # Close
    BY ZenonT(60), Phases DEF MailInv, Serve
<1>2. r = call[c] /\ r \in Requests /\ answer[c] = NoAnswer
    BY ZenonT(60), <1>1, TypeFacts DEF Delivered
<1>3. /\ db' = NewDb(r, ok) /\ call' = call /\ returned' = returned
      /\ answer' = [answer EXCEPT ![c] = IF r.op \in {"GET", "DELETE"} THEN Reply(r, ok) ELSE Done]
    BY DEF Serve
<1>4. Waits(c) = r /\ r # NoCall /\ \A d \in Clients : Waits(d)' = Waits(d)
    BY ZenonT(60), <1>1, <1>2, <1>3, RequestFacts DEF Waits
<1> HIDE DEF r
<1>5. NewDb(r, ok) = Store!After(db, r, ok)
    BY DEF NewDb, Store!After
<1>6. (IF r.op \in {"GET", "DELETE"} THEN Reply(r, ok) ELSE Done) = Store!AnswerTo(db, r, ok)
    BY DEF Reply, Store!AnswerTo
<1>7. [d \in Clients |-> Waits(d)]' = [d \in Clients |-> Waits(d)]
    BY <1>4, ZenonT(60)
<1>8. [d \in Clients |-> Waits(d)][c] = r
    BY <1>4
<1> QED
    BY <1>2, <1>3, <1>4, <1>5, <1>6, <1>7, <1>8, ZenonT(60) DEF Store!Execute, Waits

\* A call returns with the answer that the store gave.
LEMMA ReturnRefines ==
    ASSUME TypeOK, MailInv, NEW c \in Clients, Return(c)
    PROVE  Store!Return(c)
<1>1. Answered(c)
    BY Phases DEF MailInv, Return
<1>2. /\ answer[c] # NoAnswer
      /\ answer[c] = IF call[c].op \in {"GET", "DELETE"} THEN mail[c] ELSE Done
    BY <1>1 DEF Answered, Answer
<1>3. /\ returned' = [returned EXCEPT ![c] = answer[c]] /\ call' = [call EXCEPT ![c] = NoCall]
      /\ answer' = [answer EXCEPT ![c] = NoAnswer] /\ db' = db
    BY <1>2, ZenonT(60) DEF Return
<1>4. Waits(c)' = NoCall /\ \A d \in Clients : d # c => Waits(d)' = Waits(d)
    BY <1>3, RequestFacts DEF Waits, TypeOK
<1>5. [d \in Clients |-> Waits(d)]' = [[d \in Clients |-> Waits(d)] EXCEPT ![c] = NoCall]
    BY <1>4, ZenonT(60)
<1> QED
    BY <1>2, <1>3, <1>5, ZenonT(60) DEF Store!Return, Waits

\* The other steps change nothing that the store shows.
LEMMA StutterSteps ==
    ASSUME TypeOK, MailInv, NEW c \in Clients,
           \/ ClientPoll(c) \/ Closed(c) \/ PlaceAtClerk(c) \/ PlaceAtClient(c)
           \/ ClerkClose(c) \/ ClerkReply(c) \/ ClerkPoll(c)
    PROVE  UNCHANGED Store!vars
<1>1. CASE Closed(c)
  <2>1. call[c] = Close
    BY ZenonT(60), <1>1, Phases DEF MailInv, Closed, Delivered, Closing, Polled
  <2>2. /\ call' = [call EXCEPT ![c] = NoCall] /\ db' = db /\ answer' = answer
        /\ returned' = returned
    BY <1>1 DEF Closed
  <2>3. \A d \in Clients : Waits(d)' = Waits(d)
    BY <2>1, <2>2, RequestFacts DEF Waits, TypeOK
  <2> QED  BY <2>2, <2>3, Stutters
<1>2. CASE ~Closed(c)
  <2>1. call' = call /\ db' = db /\ answer' = answer /\ returned' = returned
    BY ZenonT(60), <1>2 DEF ClientPoll, PlaceAtClerk, PlaceAtClient, ClerkClose, ClerkReply, ClerkPoll
  <2> QED  BY <2>1, Stutters DEF Waits
<1> QED
    BY <1>1, <1>2

\* Every step is a step of the store or a stutter.
LEMMA NextRefines == TypeOK /\ MailInv /\ [Next]_vars => [Store!Next]_(Store!vars)
<1> SUFFICES ASSUME TypeOK, MailInv, [Next]_vars PROVE [Store!Next]_(Store!vars)
    OBVIOUS
<1>1. ASSUME NEW c \in Clients, NEW r \in Requests \cup {Close}, Post(c, r)
      PROVE  [Store!Next]_(Store!vars)
    BY <1>1, PostRefines DEF Store!Next
<1>2. ASSUME NEW c \in Clients, Step(c)
      PROVE  [Store!Next]_(Store!vars)
    BY <1>2, ServeRefines, ReturnRefines, StutterSteps DEF Step, Store!Next
<1>3. CASE Writeback \/ UNCHANGED vars
  <2>1. call' = call /\ db' = db /\ answer' = answer /\ returned' = returned
    BY <1>3 DEF Writeback, vars
  <2> QED  BY <2>1, Stutters DEF Waits
<1> QED
    BY <1>1, <1>2, <1>3, Steps

\* The sync and pmem frontends, with their header words, writes on their way and
\* unpolled completions, implement a store on which every call takes effect once
\* and returns the answer of that moment, for any clients, keys and values.
THEOREM MailboxImplementsStore == Spec => ImplementsStore
<1>1. Init => Store!Init
  <2> SUFFICES ASSUME Init PROVE Store!Init
    OBVIOUS
  <2>1. \A c \in Clients : Waits(c) = NoCall
    BY RequestFacts DEF Init, Waits
  <2>2. [c \in Clients |-> Waits(c)] = [c \in Clients |-> NoCall]
    BY <2>1, ZenonT(60)
  <2> QED  BY <2>2, ZenonT(60) DEF Init, Store!Init, Waits
<1>2. TypeOK /\ MailInv /\ [Next]_vars => [Store!Next]_(Store!vars)
    BY NextRefines
<1>3. Spec => [](TypeOK /\ MailInv)
    BY InitInv, NextInv, PTL DEF Spec
<1> QED
    BY <1>1, <1>2, <1>3, PTL DEF Spec, ImplementsStore, Store!Spec

-----------------------------------------------------------------------------
(* What the ring in persistent memory keeps                                *)

\* The records among the writes that are on their way in a phase.
LEMMA RecordsOf ==
    ASSUME NEW r, NEW p
    PROVE  /\ Records(<<>>) = {} /\ Records(<<Header>>) = {} /\ Records(<<Send>>) = {}
           /\ Records(<<Msg("mail", r, 0), Header>>) = {}
           /\ Records(<<Msg("record", r, p), Header>>) = {Msg("record", r, p)}
           /\ Records(<<Msg("mail", r, 0), Msg("record", r, p), Header>>) = {Msg("record", r, p)}
<1>1. Records(<<>>) = {} /\ Records(<<Header>>) = {} /\ Records(<<Send>>) = {}
    BY DEF Records, Header, Send, Msg
<1>2. Records(<<Msg("mail", r, 0), Header>>) = {}
    BY DEF Records, Header, Msg
<1>3. Records(<<Msg("record", r, p), Header>>) = {Msg("record", r, p)}
    BY DEF Records, Header, Msg
<1>4. Records(<<Msg("mail", r, 0), Msg("record", r, p), Header>>) = {Msg("record", r, p)}
    BY DEF Records, Header, Msg
<1> QED  BY ZenonT(60), <1>1, <1>2, <1>3, <1>4

\* No record is on its way but in a call that is being sent.
LEMMA NoneOnWay ==
    ASSUME NEW c \in Clients, Idle(c) \/ Delivered(c) \/ Serving(c) \/ Answered(c) \/ Closing(c)
    PROVE  OnWay(c) = {}
<1>1. toClerk[c] = <<>> \/ toClerk[c] = <<Send>>
    BY ZenonT(60) DEF Idle, Delivered, Serving, Answered, Closing
<1> QED  BY <1>1, RecordsOf, ZenonT(60) DEF OnWay

\* The invariant after a step, record by record, call by call and key by key.
LEMMA KeptNext ==
    ASSUME ring' \in [Clients -> [0 .. BUFSIZE - 1 -> Nat]], lap' \in [Clients -> Nat],
           \A w \in written' : Slot(w)' /\ (Overrun(w)' \/ Flies(w)' \/ Intact(w)'),
           \A w1 \in written', w2 \in written' : w1.id = w2.id => w1 = w2,
           \A c \in Clients : PutPlaced(c)' /\ WayLast(c)',
           \A k \in Keys : DbPlaced(k)'
    PROVE  KeptInv'
BY ZenonT(60) DEF KeptInv

\* A step that leaves the rings and the records on their way alone, and after which
\* the database holds nothing whose record is not there.
LEMMA KeptFrame ==
    ASSUME KeptInv, ring' = ring, lap' = lap, written' = written, buf_head' = buf_head, puts' = puts,
           \A c \in Clients : OnWay(c)' = OnWay(c),
           \A c \in Clients : call'[c] = call[c] \/ (call'[c].op # "PUT" /\ OnWay(c) = {}),
           \A k \in Keys : \/ db'[k] = db[k] \/ db'[k] = Absent
                           \/ \E w \in written : w.id = db'[k].id /\ w.len = db'[k].len /\ ~Flies(w)
    PROVE  KeptInv'
<1>1. ring' \in [Clients -> [0 .. BUFSIZE - 1 -> Nat]] /\ lap' \in [Clients -> Nat]
    BY ZenonT(60) DEF KeptInv
<1>2. ASSUME NEW w \in written
      PROVE  /\ Slot(w)' /\ (Overrun(w)' \/ Flies(w)' \/ Intact(w)')
             /\ Flies(w)' = Flies(w)
  <2>1. Slot(w) /\ w.client \in Clients /\ (Overrun(w) \/ Flies(w) \/ Intact(w))
    BY ZenonT(60) DEF KeptInv, Slot
  <2>2. Slot(w)'
    BY ONLY <2>1, lap' = lap, buf_head' = buf_head, puts' = puts, ZenonT(60) DEF Slot
  <2>3. Flies(w)' = Flies(w)
    BY ONLY <2>1, \A c \in Clients : OnWay(c)' = OnWay(c), ZenonT(60) DEF Flies
  <2>4. Overrun(w) => Overrun(w)'
    BY ONLY lap' = lap, buf_head' = buf_head, ZenonT(60) DEF Overrun
  <2>5. Intact(w) => Intact(w)'
    BY ONLY ring' = ring, ZenonT(60) DEF Intact
  <2> QED  BY ONLY <2>1, <2>2, <2>3, <2>4, <2>5, ZenonT(60)
<1>3. \A w1 \in written', w2 \in written' : w1.id = w2.id => w1 = w2
    BY ZenonT(60) DEF KeptInv
<1>4. ASSUME NEW c \in Clients PROVE PutPlaced(c)' /\ WayLast(c)'
  <2>1. PutPlaced(c) /\ WayLast(c)
    BY ZenonT(60) DEF KeptInv
  <2>2. CASE call'[c] = call[c]
    <3>1. PutPlaced(c)'
        BY ONLY <2>1, <2>2, written' = written, ZenonT(60) DEF PutPlaced
    <3>2. WayLast(c)'
        BY ONLY <2>1, <2>2, written' = written, lap' = lap, buf_head' = buf_head,
            OnWay(c)' = OnWay(c), ZenonT(60) DEF WayLast, RecordLen
    <3> QED  BY <3>1, <3>2, ZenonT(60)
  <2>3. CASE call'[c].op # "PUT" /\ OnWay(c) = {}
    BY <2>3, ZenonT(60) DEF PutPlaced, WayLast
  <2> QED  BY <2>2, <2>3, ZenonT(60)
<1>5. ASSUME NEW k \in Keys PROVE DbPlaced(k)'
  <2>1. CASE db'[k] = db[k]
    <3>1. DbPlaced(k)
        BY ZenonT(60) DEF KeptInv
    <3> QED  BY <1>2, <2>1, <3>1, ZenonT(60) DEF DbPlaced
  <2>2. CASE db'[k] = Absent
    BY <2>2, ZenonT(60) DEF DbPlaced
  <2>3. CASE \E w \in written : w.id = db'[k].id /\ w.len = db'[k].len /\ ~Flies(w)
    BY <1>2, <2>3, ZenonT(60) DEF DbPlaced
  <2> QED  BY <2>1, <2>2, <2>3, ZenonT(60)
<1> QED
    BY <1>1, <1>2, <1>3, <1>4, <1>5, KeptNext, ZenonT(60)

\* A call other than a put is posted.
LEMMA PostKept ==
    ASSUME TypeOK, MailInv, KeptInv, puts' = puts,
           NEW c \in Clients, NEW r, r.op # "PUT", Post(c, r)
    PROVE  KeptInv'
<1>1. Idle(c) /\ toClerk[c] = <<>>
    BY Phases, ZenonT(60) DEF MailInv, Post, Idle
<1>2. /\ ring' = ring /\ lap' = lap /\ written' = written /\ buf_head' = buf_head /\ db' = db
      /\ call'[c] = r /\ toClerk'[c] = toClerk[c] \o Posted(c, r)
      /\ \A d \in Clients \ {c} : call'[d] = call[d] /\ toClerk'[d] = toClerk[d]
    BY ZenonT(60) DEF Post, TypeOK
<1>3. OnWay(c) = {} /\ OnWay(c)' = {}
  <2>1. toClerk'[c] = <<Msg("mail", r, 0), Header>>
    BY ONLY <1>1, <1>2, r.op # "PUT", Queues, SMTT(60), SMTT(90) DEF Posted
  <2> QED  BY <1>1, <2>1, RecordsOf, NoneOnWay, ZenonT(60) DEF OnWay
<1>4. \A d \in Clients : OnWay(d)' = OnWay(d)
    BY ZenonT(60), <1>2, <1>3 DEF OnWay
<1> QED
    BY <1>2, <1>3, <1>4, KeptFrame, ZenonT(60)

\* Every request has an id and a length, 0 if it has no value.
LEMMA ValTypes ==
    /\ \A r \in Requests \cup {Close, NoCall} : r.val.len \in Nat /\ r.val.id \in Nat
    /\ \A v \in Vals \cup {Absent} : v.len \in Nat /\ v.id \in Nat
<1>1. ASSUME NEW v \in Vals \cup {Absent}
      PROVE  v.len \in Nat /\ v.id \in Nat
  <2>1. CASE v \in Vals
    <3>1. v.len \in Lens /\ v.id \in 1 .. MaxPuts
        BY ONLY <2>1, ZenonT(60) DEF Vals
    <3>2. (\A n \in Lens : n \in Nat) /\ \A i \in 1 .. MaxPuts : i \in Nat
        BY ONLY MailboxAssumption, SMTT(60), SMTT(90)
    <3> QED  BY ONLY <3>1, <3>2, ZenonT(60)
  <2>2. CASE v = Absent
    BY ONLY <2>2, SMTT(60), SMTT(90) DEF Absent
  <2> QED  BY ZenonT(60), <2>1, <2>2
<1>2. ASSUME NEW r \in Requests \cup {Close, NoCall}
      PROVE  r.val \in Vals \cup {Absent}
  <2>1. CASE r \in [op : {"PUT"}, key : Keys, val : Vals]
    BY ONLY <2>1, SMTT(60), SMTT(90)
  <2>2. CASE r \in [op : {"GET", "DELETE"}, key : Keys, val : {Absent}]
    BY ONLY <2>2, SMTT(60), SMTT(90)
  <2>3. CASE r \in {Sync, Close, NoCall}
    BY ONLY <2>3, SMTT(60), SMTT(90) DEF Sync, Close, NoCall
  <2> QED  BY ONLY <2>1, <2>2, <2>3, r \in Requests \cup {Close, NoCall}, ZenonT(60) DEF Requests
<1> QED  BY ZenonT(60), <1>1, <1>2

\* The place of a new record: at buf_head_, or at 0 in the next lap.
LEMMA NewPlace ==
    ASSUME TypeOK, Pmem, lap \in [Clients -> Nat], NEW c \in Clients, NEW n \in Lens,
           NEW r, r.op = "PUT", r.val.len = n, Post(c, r)
    PROVE  LET p == RecordPos(c, r) IN
           /\ p \in Nat /\ n \in Nat /\ p + n < BUFSIZE
           /\ buf_head' = [buf_head EXCEPT ![c] = p + RecordLen(r)]
           /\ buf_head'[c] = p + (1 + n) /\ lap' \in [Clients -> Nat]
           /\ \/ p = buf_head[c] /\ lap' = lap
              \/ p = 0 /\ lap' = [lap EXCEPT ![c] = lap[c] + 1] /\ lap'[c] = lap[c] + 1
<1> DEFINE p == RecordPos(c, r)
<1>1. RecordLen(r) = 1 + n
    BY ZenonT(60) DEF RecordLen
<1>2. /\ n \in Nat /\ BUFSIZE \in Nat /\ 1 + n < BUFSIZE
    BY ZenonT(60), MailboxAssumption
<1>3. buf_head[c] \in Nat /\ buf_head \in [Clients -> Nat] /\ lap[c] \in Nat
    BY ZenonT(60), TypeFacts DEF TypeOK
<1>4. p \in Nat /\ p + n < BUFSIZE /\ (p = buf_head[c] \/ p = 0)
    BY ONLY <1>1, <1>2, <1>3, SMTT(60), SMTT(90) DEF RecordPos
<1>5. /\ buf_head' = [buf_head EXCEPT ![c] = p + RecordLen(r)]
      /\ lap' = IF p # buf_head[c] THEN [lap EXCEPT ![c] = lap[c] + 1] ELSE lap
    BY ZenonT(60) DEF Post
<1> HIDE DEF p
<1>6. buf_head'[c] = p + (1 + n)
    BY ONLY <1>1, <1>3, <1>5, c \in Clients, ZenonT(60)
<1>7. lap[c] + 1 \in Nat
    BY ONLY <1>3, SMTT(60), SMTT(90)
<1>8. lap' \in [Clients -> Nat]
    BY ONLY <1>5, <1>7, lap \in [Clients -> Nat], Update, ZenonT(60)
<1>9. \/ p = buf_head[c] /\ lap' = lap
      \/ p = 0 /\ lap' = [lap EXCEPT ![c] = lap[c] + 1] /\ lap'[c] = lap[c] + 1
    BY ONLY <1>4, <1>5, lap \in [Clients -> Nat], c \in Clients, ZenonT(60)
<1> QED
    BY <1>2, <1>4, <1>5, <1>6, <1>8, <1>9, ZenonT(60) DEF p

\* What a new record does to the place of an earlier one of its client.
LEMMA Overtakes ==
    ASSUME NEW p \in Nat, NEW n \in Nat, NEW h \in Nat, NEW l \in Nat, NEW m \in Nat,
           (p = h /\ m = l) \/ (p = 0 /\ m = l + 1),
           NEW a \in Nat, NEW b \in Nat, NEW e \in Nat,
           a <= l, a = l => b + e < h
    PROVE  /\ a <= m /\ (a = m => b + e < p + (1 + n)) /\ (a = m => b + e < p)
           /\ l > a + 1 \/ (l = a + 1 /\ h > b) => m > a + 1 \/ (m = a + 1 /\ p + (1 + n) > b)
BY ONLY p \in Nat, n \in Nat, h \in Nat, l \in Nat, m \in Nat, a \in Nat, b \in Nat, e \in Nat,
    (p = h /\ m = l) \/ (p = 0 /\ m = l + 1), a <= l, a = l => b + e < h, SMTT(60), SMTT(90)

\* A put is posted: its record goes behind the others of its lap, and on its way.
LEMMA SendWriteKept ==
    ASSUME TypeOK, MailInv, Pmem, KeptInv,
           NEW c \in Clients, NEW k \in Keys, NEW n \in Lens, SendWrite(c, k, n)
    PROVE  KeptInv'
<1> DEFINE r == [op |-> "PUT", key |-> k, val |-> [id |-> puts + 1, len |-> n]]
           p == RecordPos(c, r)
           x == Msg("record", r, p)
<1>1. Post(c, r) /\ puts' = puts + 1 /\ puts \in Nat /\ lap \in [Clients -> Nat]
    BY ZenonT(60), TypeFacts DEF SendWrite, KeptInv
<1>2. r.op = "PUT" /\ r.val.len = n /\ r.val.id = puts + 1 /\ RecordLen(r) = 1 + n
    BY ZenonT(60) DEF RecordLen
<1>3. x.data = r /\ x.pos = p
    BY ZenonT(60) DEF Msg
<1>4. PICK w0 : /\ w0.id = puts + 1 /\ w0.len = n /\ w0.client = c /\ w0.lap = lap'[c] /\ w0.pos = p
                /\ written' = written \cup {w0}
  <2> DEFINE w == [id |-> puts + 1, len |-> n, client |-> c, lap |-> lap'[c], pos |-> p]
  <2>1. written' = written \cup {w}
    BY ZenonT(60), <1>1, <1>2 DEF Post
  <2>2. w.id = puts + 1 /\ w.len = n /\ w.client = c /\ w.lap = lap'[c] /\ w.pos = p
    BY ZenonT(60)
  <2> HIDE DEF w
  <2> QED  BY ZenonT(60), <2>1, <2>2
<1>5. /\ ring' = ring /\ db' = db
      /\ call'[c] = r /\ toClerk'[c] = toClerk[c] \o Posted(c, r)
      /\ \A d \in Clients \ {c} : call'[d] = call[d] /\ toClerk'[d] = toClerk[d]
    BY ZenonT(60), <1>1, <1>2 DEF Post, TypeOK
<1> HIDE DEF r
<1>6. /\ p \in Nat /\ n \in Nat /\ p + n < BUFSIZE
      /\ buf_head' = [buf_head EXCEPT ![c] = p + RecordLen(r)]
      /\ buf_head'[c] = p + (1 + n) /\ lap' \in [Clients -> Nat]
      /\ \/ p = buf_head[c] /\ lap' = lap
         \/ p = 0 /\ lap' = [lap EXCEPT ![c] = lap[c] + 1] /\ lap'[c] = lap[c] + 1
    BY ZenonT(60), <1>1, <1>2, NewPlace
<1>7. Idle(c) /\ toClerk[c] = <<>>
    BY <1>1, Phases, ZenonT(60) DEF MailInv, Post, Idle
<1>8. OnWay(c) = {} /\ OnWay(c)' = {x}
  <2>1. toClerk'[c] = <<Msg("mail", r, 0), x, Header>>
    BY ONLY <1>2, <1>5, <1>7, Pmem, Queues, SMTT(60), SMTT(90) DEF Posted
  <2> QED  BY <1>7, <2>1, RecordsOf, NoneOnWay, ZenonT(60) DEF OnWay
<1> HIDE DEF p, x
<1>9. ASSUME NEW d \in Clients, d # c
      PROVE  OnWay(d)' = OnWay(d) /\ lap'[d] = lap[d] /\ buf_head'[d] = buf_head[d] /\ call'[d] = call[d]
  <2>1. OnWay(d)' = OnWay(d) /\ call'[d] = call[d]
    BY <1>5, <1>9, ZenonT(60) DEF OnWay
  <2>2. lap'[d] = lap[d] /\ buf_head'[d] = buf_head[d]
    BY <1>1, <1>6, <1>9, ZenonT(60) DEF TypeOK
  <2> QED  BY <2>1, <2>2, ZenonT(60)
<1>10. /\ buf_head[c] \in Nat /\ lap[c] \in Nat /\ lap'[c] \in Nat
       /\ (p = buf_head[c] /\ lap'[c] = lap[c]) \/ (p = 0 /\ lap'[c] = lap[c] + 1)
    BY <1>1, <1>6, TypeFacts, ZenonT(60)
<1>11. ASSUME NEW w \in written
       PROVE  /\ Slot(w) /\ (Overrun(w) \/ Flies(w) \/ Intact(w)) /\ w.client \in Clients
              /\ w.id \in 1 .. puts /\ w.id # puts + 1
              /\ w.lap \in Nat /\ w.pos \in Nat /\ w.len \in Nat
              /\ w.client = c => /\ w.lap <= lap[c]
                                 /\ w.lap = lap[c] => w.pos + w.len < buf_head[c]
  <2>1. Slot(w) /\ (Overrun(w) \/ Flies(w) \/ Intact(w))
    BY ZenonT(60) DEF KeptInv
  <2>2. w.id \in 1 .. puts
    BY <2>1, ZenonT(60) DEF Slot
  <2>3. w.id # puts + 1
    BY ONLY <1>1, <2>2, SMTT(60), SMTT(90)
  <2> QED  BY <2>1, <2>3, ZenonT(60) DEF Slot
<1>12. ASSUME NEW w \in written, w.client = c
       PROVE  /\ w.lap <= lap'[c] /\ (w.lap = lap'[c] => w.pos + w.len < buf_head'[c])
              /\ w.lap = lap'[c] => w.pos + w.len < p
              /\ Overrun(w) => Overrun(w)'
  <2>1. /\ w.lap \in Nat /\ w.pos \in Nat /\ w.len \in Nat /\ w.lap <= lap[c]
        /\ w.lap = lap[c] => w.pos + w.len < buf_head[c]
    BY <1>11, <1>12, ZenonT(60)
  <2>2. /\ w.lap <= lap'[c] /\ (w.lap = lap'[c] => w.pos + w.len < p + (1 + n))
        /\ w.lap = lap'[c] => w.pos + w.len < p
        /\ lap[c] > w.lap + 1 \/ (lap[c] = w.lap + 1 /\ buf_head[c] > w.pos)
           => lap'[c] > w.lap + 1 \/ (lap'[c] = w.lap + 1 /\ p + (1 + n) > w.pos)
    BY ONLY <1>6, <1>10, <2>1, Overtakes, SMTT(60), SMTT(90)
  <2> QED  BY <1>6, <1>12, <2>2, ZenonT(60) DEF Overrun
<1>13. ASSUME NEW w \in written
       PROVE  Slot(w)' /\ (Overrun(w)' \/ Flies(w)' \/ Intact(w)') /\ (Flies(w)' => Flies(w))
  <2>1. w.id \in 1 .. puts'
    BY ONLY <1>1, <1>11, SMTT(60), SMTT(90)
  <2>2. Intact(w) => Intact(w)'
    BY ONLY <1>5, ZenonT(60) DEF Intact
  <2>3. CASE w.client = c
    <3>1. Slot(w)'
        BY <1>11, <1>12, <2>1, <2>3, ZenonT(60) DEF Slot
    <3>2. ~Flies(w) /\ ~Flies(w)'
        BY <1>2, <1>3, <1>8, <1>11, <2>3, ZenonT(60) DEF Flies
    <3> QED  BY <1>11, <1>12, <2>2, <2>3, <3>1, <3>2, ZenonT(60)
  <2>4. CASE w.client # c
    <3>1. /\ OnWay(w.client)' = OnWay(w.client) /\ lap'[w.client] = lap[w.client]
          /\ buf_head'[w.client] = buf_head[w.client]
        BY <1>9, <1>11, <2>4, ZenonT(60)
    <3>2. Slot(w)'
        BY <1>11, <2>1, <3>1, ZenonT(60) DEF Slot
    <3>3. Flies(w)' = Flies(w) /\ (Overrun(w) => Overrun(w)')
        BY ONLY <3>1, ZenonT(60) DEF Flies, Overrun
    <3> QED  BY <1>11, <2>2, <3>2, <3>3, ZenonT(60)
  <2> QED  BY <2>3, <2>4, ZenonT(60)
<1>14. Slot(w0)' /\ Flies(w0)'
  <2>1. puts + 1 \in 1 .. puts'
    BY ONLY <1>1, SMTT(60), SMTT(90)
  <2>2. p + n < p + (1 + n) /\ lap'[c] <= lap'[c]
    BY ONLY <1>6, <1>10, SMTT(60), SMTT(90)
  <2>3. Slot(w0)'
    BY <1>4, <1>6, <1>10, <2>1, <2>2, ZenonT(60) DEF Slot
  <2>4. Flies(w0)'
    BY <1>2, <1>3, <1>4, <1>8, ZenonT(60) DEF Flies
  <2> QED  BY <2>3, <2>4, ZenonT(60)
<1>15. \A w \in written' : Slot(w)' /\ (Overrun(w)' \/ Flies(w)' \/ Intact(w)')
    BY <1>4, <1>13, <1>14, ZenonT(60)
<1>16. \A w1 \in written', w2 \in written' : w1.id = w2.id => w1 = w2
  <2>1. \A w1 \in written, w2 \in written : w1.id = w2.id => w1 = w2
    BY ZenonT(60) DEF KeptInv
  <2> QED  BY <1>4, <1>11, <2>1, ZenonT(60)
<1>17. ASSUME NEW d \in Clients PROVE PutPlaced(d)' /\ WayLast(d)'
  <2>1. CASE d = c
    <3>1. PutPlaced(d)'
        BY <1>2, <1>4, <1>5, <2>1, ZenonT(60) DEF PutPlaced
    <3>2. ASSUME NEW w \in written', w.client = c, w.lap = lap'[c], w.id # call'[c].val.id
          PROVE  w.pos + w.len < p
      <4>1. w \in written
        BY <1>2, <1>4, <1>5, <3>2, ZenonT(60)
      <4> QED  BY <1>12, <3>2, <4>1, ZenonT(60)
    <3>3. p + RecordLen(call'[c]) = buf_head'[c]
        BY <1>2, <1>5, <1>6, ZenonT(60)
    <3>4. \E w \in written' : w.client = c /\ w.id = call'[c].val.id /\ w.pos = p /\ w.lap = lap'[c]
        BY <1>2, <1>4, <1>5, ZenonT(60)
    <3>5. WayLast(c)'
        BY <1>2, <1>3, <1>5, <1>8, <3>2, <3>3, <3>4, ZenonT(60) DEF WayLast, RecordLen
    <3> QED  BY <2>1, <3>1, <3>5, ZenonT(60)
  <2>2. CASE d # c
    <3>1. PutPlaced(d) /\ WayLast(d)
        BY ZenonT(60) DEF KeptInv
    <3>2. /\ OnWay(d)' = OnWay(d) /\ lap'[d] = lap[d] /\ buf_head'[d] = buf_head[d]
          /\ call'[d] = call[d] /\ \A w \in written' : w.client = d => w \in written
        BY <1>4, <1>5, <1>9, <2>2, ZenonT(60)
    <3>3. PutPlaced(d)'
        BY ONLY <1>4, <3>1, <3>2, ZenonT(60) DEF PutPlaced
    <3>4. WayLast(d)'
      <4>1. ASSUME NEW y \in OnWay(d)
            PROVE  /\ y.data = call'[d] /\ call'[d].op = "PUT"
                   /\ \E w \in written' : /\ w.client = d /\ w.id = call'[d].val.id /\ w.pos = y.pos
                                          /\ w.lap = lap'[d]
                   /\ y.pos + RecordLen(call'[d]) = buf_head'[d]
                   /\ \A w \in written' : w.client = d /\ w.lap = lap'[d] /\ w.id # call'[d].val.id =>
                                            w.pos + w.len < y.pos
        <5>1. /\ y.data = call[d] /\ call[d].op = "PUT" /\ y.pos + RecordLen(call[d]) = buf_head[d]
              /\ \E w \in written : w.client = d /\ w.id = call[d].val.id /\ w.pos = y.pos /\ w.lap = lap[d]
              /\ \A w \in written : w.client = d /\ w.lap = lap[d] /\ w.id # call[d].val.id =>
                                      w.pos + w.len < y.pos
            BY ONLY <3>1, <4>1, ZenonT(60) DEF WayLast
        <5>2. \E w \in written' : w.client = d /\ w.id = call[d].val.id /\ w.pos = y.pos /\ w.lap = lap[d]
            BY ONLY <1>4, <5>1, ZenonT(60)
        <5> QED  BY ONLY <3>2, <5>1, <5>2, ZenonT(60)
      <4> QED  BY ONLY <3>2, <4>1, ZenonT(60) DEF WayLast, RecordLen
    <3> QED  BY <3>3, <3>4, ZenonT(60)
  <2> QED  BY <2>1, <2>2, ZenonT(60)
<1>18. ASSUME NEW i \in Keys PROVE DbPlaced(i)'
  <2>1. DbPlaced(i)
    BY ZenonT(60) DEF KeptInv
  <2> QED  BY ONLY <1>4, <1>5, <1>13, <2>1, ZenonT(60) DEF DbPlaced
<1>19. ring' \in [Clients -> [0 .. BUFSIZE - 1 -> Nat]]
    BY <1>5, ZenonT(60) DEF KeptInv
<1> QED
    BY <1>6, <1>15, <1>16, <1>17, <1>18, <1>19, KeptNext, ZenonT(60)

\* A record is placed: it is whole, and no other one is touched that is not overrun.
LEMMA PlaceRecordKept ==
    ASSUME TypeOK, MailInv, KeptInv, NEW c \in Clients,
           PlaceAtClerk(c), Head(toClerk[c]).kind = "record"
    PROVE  KeptInv'
<1> DEFINE r == call[c]
<1>1. PICK p \in 0 .. BUFSIZE : toClerk[c] = <<Msg("record", r, p), Header>>
  <2>1. toClerk[c] # <<>> /\ Phase(c)
    BY ZenonT(60) DEF MailInv, PlaceAtClerk
  <2>2. \A q : /\ toClerk[c] # <<Msg("mail", r, 0), Header>>
               /\ toClerk[c] # <<Msg("mail", r, 0), Msg("record", r, q), Header>>
    BY ONLY Head(toClerk[c]).kind = "record", Queues, Kinds, SMTT(60), SMTT(90)
  <2>3. toClerk[c] # <<Header>> /\ toClerk[c] # <<Send>>
    BY ONLY Head(toClerk[c]).kind = "record", Queues, Kinds, SMTT(60), SMTT(90)
  <2>4. Sending(c)
    BY ONLY <2>1, <2>3, ZenonT(60) DEF Phase, Idle, Delivered, Serving, Answered, Closing
  <2> QED
    BY <2>2, <2>3, <2>4, ZenonT(60) DEF Sending
<1> DEFINE x == Msg("record", r, p)
<1>2. x.data = r /\ x.pos = p /\ x.kind = "record"
    BY ZenonT(60) DEF Msg
<1>3. Head(toClerk[c]) = x /\ Tail(toClerk[c]) = <<Header>>
    BY ONLY <1>1, Queues, SMTT(60), SMTT(90)
<1> HIDE DEF x
<1>4. OnWay(c) = {x}
    BY <1>1, RecordsOf, ZenonT(60) DEF OnWay, x
<1>5. /\ buf_head' = buf_head /\ lap' = lap /\ written' = written /\ call' = call /\ db' = db
      /\ puts' = puts
      /\ toClerk'[c] = <<Header>> /\ \A d \in Clients \ {c} : toClerk'[d] = toClerk[d]
      /\ ring' = [ring EXCEPT ![c] = [j \in DOMAIN ring[c] |->
                    IF j \in p .. p + RecordLen(r) - 1 THEN r.val.id ELSE ring[c][j]]]
  <2>1. PlaceRecord(c, x) /\ toClerk' = [toClerk EXCEPT ![c] = <<Header>>]
    BY <1>2, <1>3, ZenonT(60) DEF PlaceAtClerk, PlaceMail, PlaceHeader, PlaceSend
  <2>2. /\ buf_head' = buf_head /\ lap' = lap /\ written' = written /\ call' = call /\ db' = db
        /\ puts' = puts
    BY ZenonT(60) DEF PlaceAtClerk
  <2>3. toClerk'[c] = <<Header>> /\ \A d \in Clients \ {c} : toClerk'[d] = toClerk[d]
    BY <2>1, ZenonT(60) DEF TypeOK
  <2> QED  BY ONLY <1>2, <2>1, <2>2, <2>3, ZenonT(60) DEF PlaceRecord
<1>6. r.val.len \in Nat /\ r.val.id \in Nat /\ RecordLen(r) = 1 + r.val.len /\ p \in Nat
  <2>1. r \in Requests \cup {Close, NoCall}
    BY TypeFacts, ZenonT(60)
  <2>2. p \in Nat
    BY ONLY <1>1, MailboxAssumption, SMTT(60), SMTT(90)
  <2> QED  BY ONLY <2>1, <2>2, ValTypes, ZenonT(60) DEF RecordLen
<1>7. /\ r.op = "PUT" /\ p + RecordLen(r) = buf_head[c]
      /\ \E w \in written : w.client = c /\ w.id = r.val.id /\ w.pos = p /\ w.lap = lap[c]
      /\ \A w \in written : w.client = c /\ w.lap = lap[c] /\ w.id # r.val.id => w.pos + w.len < p
  <2>1. WayLast(c) /\ x \in OnWay(c)
    BY <1>4, ZenonT(60) DEF KeptInv
  <2>2. /\ call[c].op = "PUT" /\ x.pos + RecordLen(call[c]) = buf_head[c]
        /\ \E w \in written : w.client = c /\ w.id = call[c].val.id /\ w.pos = x.pos /\ w.lap = lap[c]
        /\ \A w \in written : w.client = c /\ w.lap = lap[c] /\ w.id # call[c].val.id =>
                                w.pos + w.len < x.pos
    BY ONLY <2>1, ZenonT(60) DEF WayLast
  <2> QED  BY ONLY <1>2, <2>2, ZenonT(60)
<1>8. PICK w1 \in written : /\ w1.client = c /\ w1.id = r.val.id /\ w1.len = r.val.len
                            /\ w1.pos = p /\ w1.lap = lap[c]
  <2>1. \E w \in written : w.client = c /\ w.id = r.val.id /\ w.len = r.val.len
    BY <1>7, ZenonT(60) DEF KeptInv, PutPlaced
  <2>2. \A w \in written, v \in written : w.id = v.id => w = v
    BY ZenonT(60) DEF KeptInv
  <2> QED  BY ONLY <1>7, <2>1, <2>2, ZenonT(60)
<1>9. /\ p + (1 + r.val.len) = buf_head[c] /\ buf_head[c] \in Nat /\ lap[c] \in Nat
      /\ \A w \in written : w.client = c /\ w.lap = lap[c] /\ w.id # r.val.id => w.pos + w.len < p
    BY <1>6, <1>7, TypeFacts, ZenonT(60) DEF KeptInv
<1>10. BUFSIZE \in Nat /\ p + r.val.len < BUFSIZE
    BY <1>8, MailboxAssumption, ZenonT(60) DEF KeptInv, Slot
<1> HIDE DEF r
<1>11. OnWay(c)' = {} /\ \A d \in Clients \ {c} : OnWay(d)' = OnWay(d) /\ ring'[d] = ring[d]
  <2>1. OnWay(c)' = {} /\ \A d \in Clients \ {c} : OnWay(d)' = OnWay(d)
    BY <1>5, RecordsOf, ZenonT(60) DEF OnWay
  <2>2. \A d \in Clients \ {c} : ring'[d] = ring[d]
    BY ZenonT(60), <1>5 DEF KeptInv
  <2> QED  BY ZenonT(60), <2>1, <2>2
<1>12. /\ ring \in [Clients -> [0 .. BUFSIZE - 1 -> Nat]] /\ ring[c] \in [0 .. BUFSIZE - 1 -> Nat]
       /\ DOMAIN ring[c] = 0 .. BUFSIZE - 1
  <2>1. ring \in [Clients -> [0 .. BUFSIZE - 1 -> Nat]]
    BY ZenonT(60) DEF KeptInv
  <2>2. ring[c] \in [0 .. BUFSIZE - 1 -> Nat]
    BY ONLY <2>1, c \in Clients, ZenonT(60)
  <2> QED  BY ONLY <2>1, <2>2, ZenonT(60)
<1>13. /\ ring'[c] = [j \in 0 .. BUFSIZE - 1 |->
                         IF j \in p .. p + r.val.len THEN r.val.id ELSE ring[c][j]]
       /\ DOMAIN ring'[c] = 0 .. BUFSIZE - 1
  <2>1. p + RecordLen(r) - 1 = p + r.val.len
    BY ONLY <1>6, SMTT(60), SMTT(90)
  <2> QED  BY ONLY <1>5, <1>12, <2>1, c \in Clients, ZenonT(60)
<1>14. ring' \in [Clients -> [0 .. BUFSIZE - 1 -> Nat]]
  <2>1. \A j \in 0 .. BUFSIZE - 1 : ring[c][j] \in Nat
    BY <1>12, ZenonT(60)
  <2>2. ring'[c] \in [0 .. BUFSIZE - 1 -> Nat]
    BY ONLY <1>6, <1>13, <2>1, ZenonT(60)
  <2>3. ring' = [ring EXCEPT ![c] = ring'[c]]
    BY ONLY <1>5, <1>12, c \in Clients, ZenonT(60)
  <2> QED  BY ONLY <1>12, <2>2, <2>3, Update, ZenonT(60)
<1>15. ASSUME NEW w \in written
       PROVE  /\ Slot(w)' /\ (Overrun(w)' \/ Flies(w)' \/ Intact(w)') /\ (Flies(w)' => Flies(w))
  <2>1. Slot(w) /\ (Overrun(w) \/ Flies(w) \/ Intact(w)) /\ w.client \in Clients
    BY ZenonT(60) DEF KeptInv, Slot
  <2>2. Slot(w)' /\ (Overrun(w) => Overrun(w)')
    BY ONLY <1>5, <2>1, ZenonT(60) DEF Slot, Overrun
  <2>3. CASE w.client # c
    <3>1. Flies(w)' = Flies(w) /\ (Intact(w) => Intact(w)')
        BY <1>11, <2>1, <2>3, ZenonT(60) DEF Flies, Intact
    <3> QED  BY ONLY <2>1, <2>2, <3>1, ZenonT(60)
  <2>4. CASE w.client = c /\ w.id = r.val.id
    <3>1. w = w1 /\ ~Flies(w)'
        BY <1>8, <1>11, <2>4, ZenonT(60) DEF KeptInv, Flies
    <3>2. ASSUME NEW j \in p .. p + r.val.len
          PROVE  j \in 0 .. BUFSIZE - 1 /\ ring'[c][j] = r.val.id
      <4>1. j \in 0 .. BUFSIZE - 1
        BY ONLY <1>6, <1>10, <3>2, SMTT(60), SMTT(90)
      <4> QED  BY ONLY <1>13, <3>2, <4>1, ZenonT(60)
    <3>3. Intact(w)'
        BY ONLY <1>8, <1>13, <2>4, <3>1, <3>2, ZenonT(60) DEF Intact
    <3> QED  BY ONLY <2>2, <3>1, <3>3, ZenonT(60)
  <2>5. CASE w.client = c /\ w.id # r.val.id
    <3>1. ~Flies(w) /\ ~Flies(w)'
        BY <1>2, <1>4, <1>11, <2>5, ZenonT(60) DEF Flies
    <3>2. CASE Overrun(w)
        BY ONLY <2>2, <3>1, <3>2, ZenonT(60)
    <3>3. CASE ~Overrun(w) /\ Intact(w)
      <4>1. /\ w.lap \in Nat /\ w.pos \in Nat /\ w.len \in Nat /\ w.lap <= lap[c]
            /\ ~(lap[c] > w.lap + 1) /\ ~(lap[c] = w.lap + 1 /\ buf_head[c] > w.pos)
            /\ w.lap = lap[c] => w.pos + w.len < p
        BY <1>9, <2>1, <2>5, <3>3, ZenonT(60) DEF Slot, Overrun
      <4>2. w.pos + w.len < p \/ p + r.val.len < w.pos
        BY ONLY <1>6, <1>9, <4>1, SMTT(60), SMTT(90)
      <4>3. ASSUME NEW j \in w.pos .. w.pos + w.len
            PROVE  j \in 0 .. BUFSIZE - 1 /\ ring'[c][j] = w.id
        <5>1. j \in 0 .. BUFSIZE - 1 /\ ring[c][j] = w.id
            BY <1>12, <2>5, <3>3, <4>3, ZenonT(60) DEF Intact
        <5>2. j \notin p .. p + r.val.len
            BY ONLY <1>6, <4>1, <4>2, <4>3, SMTT(60), SMTT(90)
        <5> QED  BY ONLY <1>13, <5>1, <5>2, ZenonT(60)
      <4>4. Intact(w)'
        BY ONLY <1>13, <2>5, <4>3, ZenonT(60) DEF Intact
      <4> QED  BY ONLY <2>2, <3>1, <4>4, ZenonT(60)
    <3> QED  BY ONLY <2>1, <3>1, <3>2, <3>3, ZenonT(60)
  <2> QED  BY ONLY <2>3, <2>4, <2>5, ZenonT(60)
<1>16. \A w \in written', v \in written' : w.id = v.id => w = v
    BY <1>5, ZenonT(60) DEF KeptInv
<1>17. ASSUME NEW d \in Clients PROVE PutPlaced(d)' /\ WayLast(d)'
  <2>1. PutPlaced(d) /\ WayLast(d)
    BY ZenonT(60) DEF KeptInv
  <2>2. PutPlaced(d)'
    BY ONLY <1>5, <2>1, ZenonT(60) DEF PutPlaced
  <2>3. CASE d = c
    BY <1>11, <2>2, <2>3, ZenonT(60) DEF WayLast
  <2>4. CASE d # c
    <3>1. OnWay(d)' = OnWay(d)
        BY <1>11, <2>4, ZenonT(60)
    <3>2. WayLast(d)'
        BY ONLY <1>5, <2>1, <3>1, ZenonT(60) DEF WayLast, RecordLen
    <3> QED  BY <2>2, <3>2, ZenonT(60)
  <2> QED  BY <2>3, <2>4, ZenonT(60)
<1>18. ASSUME NEW k \in Keys PROVE DbPlaced(k)'
  <2>1. DbPlaced(k)
    BY ZenonT(60) DEF KeptInv
  <2> QED  BY ONLY <1>5, <1>15, <2>1, ZenonT(60) DEF DbPlaced
<1>19. lap' \in [Clients -> Nat] /\ \A w \in written' : Slot(w)' /\ (Overrun(w)' \/ Flies(w)' \/ Intact(w)')
    BY <1>5, <1>15, ZenonT(60) DEF KeptInv
<1> QED
    BY <1>14, <1>16, <1>17, <1>18, <1>19, KeptNext, ZenonT(60)

\* A completion taken, or a write placed that is no record, leaves the records on
\* their way.
LEMMA OnWaySame ==
    ASSUME TypeOK, MailInv, NEW c \in Clients,
           ClientPoll(c) \/ (PlaceAtClerk(c) /\ Head(toClerk[c]).kind # "record")
    PROVE  OnWay(c)' = OnWay(c)
<1>1. CASE ClientPoll(c)
  <2>1. /\ cpc[c] = "poll" /\ ccq[c] # 0
        /\ toClerk'[c] = IF call[c] = Close THEN Append(toClerk[c], Send) ELSE toClerk[c]
    <3>1. /\ cpc[c] = "poll" /\ ccq[c] > 0
          /\ IF call[c] = Close THEN toClerk' = [toClerk EXCEPT ![c] = Append(toClerk[c], Send)]
             ELSE toClerk' = toClerk
        BY ONLY <1>1, ZenonT(60) DEF ClientPoll
    <3>2. ccq[c] # 0
        BY ONLY <3>1, SMTT(60), SMTT(90)
    <3> QED  BY <3>1, <3>2, ZenonT(60) DEF TypeOK
  <2>2. CASE call[c] = Close
    <3>1. Delivered(c) \/ Closing(c)
        BY <2>1, <2>2, RequestFacts, ZenonT(60) DEF MailInv, Phase, Idle, Sending, Serving, Answered
    <3>2. toClerk[c] = <<>>
        BY <2>1, <3>1, ZenonT(60) DEF Delivered, Closing
    <3>3. toClerk'[c] = <<Send>>
        BY ZenonT(60), <2>1, <2>2, <3>2, Queues
    <3>4. Records(<<>>) = {} /\ Records(<<Send>>) = {}
        BY RecordsOf, ZenonT(60)
    <3> QED  BY ONLY <3>2, <3>3, <3>4, ZenonT(60) DEF OnWay
  <2>3. CASE call[c] # Close
    BY ZenonT(60), <2>1, <2>3 DEF OnWay
  <2> QED  BY ZenonT(60), <2>2, <2>3
<1>2. CASE PlaceAtClerk(c) /\ Head(toClerk[c]).kind # "record"
  <2>1. toClerk[c] # <<>> /\ toClerk'[c] = Tail(toClerk[c]) /\ Phase(c)
    BY ZenonT(60), <1>2 DEF PlaceAtClerk, TypeOK, MailInv
  <2>2. \/ toClerk[c] = <<Msg("mail", call[c], 0), Header>>
        \/ \E p : toClerk[c] = <<Msg("mail", call[c], 0), Msg("record", call[c], p), Header>>
        \/ \E p : toClerk[c] = <<Msg("record", call[c], p), Header>>
        \/ toClerk[c] = <<Header>> \/ toClerk[c] = <<Send>>
    BY ONLY <2>1, ZenonT(60) DEF Phase, Idle, Sending, Delivered, Serving, Answered, Closing
  <2>3. \A p : toClerk[c] # <<Msg("record", call[c], p), Header>>
    BY ONLY <1>2, Queues, Kinds, SMTT(60), SMTT(90)
  <2>4. CASE toClerk[c] = <<Msg("mail", call[c], 0), Header>>
    <3>1. toClerk'[c] = <<Header>>
        BY ONLY <2>1, <2>4, Queues, SMTT(60), SMTT(90)
    <3>2. Records(<<Msg("mail", call[c], 0), Header>>) = {} /\ Records(<<Header>>) = {}
        BY RecordsOf, ZenonT(60)
    <3> QED  BY ONLY <2>4, <3>1, <3>2, ZenonT(60) DEF OnWay
  <2>5. ASSUME NEW p, toClerk[c] = <<Msg("mail", call[c], 0), Msg("record", call[c], p), Header>>
        PROVE  OnWay(c)' = OnWay(c)
    <3>1. toClerk'[c] = <<Msg("record", call[c], p), Header>>
        BY ONLY <2>1, <2>5, Queues, SMTT(60), SMTT(90)
    <3>2. /\ Records(<<Msg("mail", call[c], 0), Msg("record", call[c], p), Header>>) =
                {Msg("record", call[c], p)}
          /\ Records(<<Msg("record", call[c], p), Header>>) = {Msg("record", call[c], p)}
        BY RecordsOf, ZenonT(60)
    <3> QED  BY ONLY <2>5, <3>1, <3>2, ZenonT(60) DEF OnWay
  <2>6. CASE toClerk[c] = <<Header>> \/ toClerk[c] = <<Send>>
    <3>1. toClerk'[c] = <<>>
        BY ONLY <2>1, <2>6, Queues, ZenonT(60)
    <3>2. Records(<<>>) = {} /\ Records(<<Header>>) = {} /\ Records(<<Send>>) = {}
        BY RecordsOf, ZenonT(60)
    <3> QED  BY ONLY <2>6, <3>1, <3>2, ZenonT(60) DEF OnWay
  <2> QED  BY <2>2, <2>3, <2>4, <2>5, <2>6, ZenonT(60)
<1> QED
    BY ZenonT(60), <1>1, <1>2

\* The steps of a connection that change neither call nor database.
LEMMA QuietKept ==
    ASSUME TypeOK, MailInv, KeptInv, NEW c \in Clients,
           \/ ClientPoll(c) \/ (PlaceAtClerk(c) /\ Head(toClerk[c]).kind # "record")
           \/ PlaceAtClient(c) \/ ClerkClose(c) \/ ClerkReply(c) \/ ClerkPoll(c)
    PROVE  KeptInv'
<1>1. /\ call' = call /\ db' = db /\ buf_head' = buf_head /\ puts' = puts /\ ring' = ring
      /\ lap' = lap /\ written' = written
  <2>1. CASE PlaceAtClerk(c) /\ Head(toClerk[c]).kind # "record"
    BY ONLY <2>1, ZenonT(60) DEF PlaceAtClerk, PlaceMail, PlaceRecord, PlaceHeader, PlaceSend,
        dbVars, countVars
  <2>2. CASE \/ ClientPoll(c) \/ PlaceAtClient(c) \/ ClerkClose(c) \/ ClerkReply(c) \/ ClerkPoll(c)
    BY ONLY <2>2, ZenonT(60) DEF ClientPoll, PlaceAtClient, ClerkClose, ClerkReply, ClerkPoll,
        clientVars, ringVars, dbVars, countVars
  <2> QED  BY ZenonT(60), <2>1, <2>2
<1>2. \A d \in Clients \ {c} : toClerk'[d] = toClerk[d]
  <2>1. CASE ClientPoll(c) \/ PlaceAtClerk(c)
    BY ONLY <2>1, TypeOK, SMTT(60), SMTT(90) DEF ClientPoll, PlaceAtClerk, TypeOK
  <2>2. CASE PlaceAtClient(c) \/ ClerkClose(c) \/ ClerkReply(c) \/ ClerkPoll(c)
    BY ONLY <2>2, ZenonT(60) DEF PlaceAtClient, ClerkClose, ClerkReply, ClerkPoll, netVars
  <2> QED  BY ZenonT(60), <2>1, <2>2
<1>3. OnWay(c)' = OnWay(c)
  <2>1. CASE ClientPoll(c) \/ (PlaceAtClerk(c) /\ Head(toClerk[c]).kind # "record")
    BY ZenonT(60), <2>1, OnWaySame
  <2>2. CASE PlaceAtClient(c) \/ ClerkClose(c) \/ ClerkReply(c) \/ ClerkPoll(c)
    <3>1. toClerk' = toClerk
        BY ONLY <2>2, ZenonT(60) DEF PlaceAtClient, ClerkClose, ClerkReply, ClerkPoll, netVars
    <3> QED  BY ONLY <3>1, ZenonT(60) DEF OnWay
  <2> QED  BY ZenonT(60), <2>1, <2>2
<1>4. \A d \in Clients : OnWay(d)' = OnWay(d)
    BY ONLY <1>2, <1>3, ZenonT(60) DEF OnWay
<1> QED
    BY ZenonT(60), <1>1, <1>4, KeptFrame

\* A call returns.
LEMMA ReturnKept ==
    ASSUME TypeOK, MailInv, KeptInv, NEW c \in Clients, Return(c) \/ Closed(c)
    PROVE  KeptInv'
<1>1. /\ db' = db /\ buf_head' = buf_head /\ puts' = puts /\ ring' = ring /\ toClerk' = toClerk
      /\ lap' = lap /\ written' = written
    BY ZenonT(60) DEF Return, Closed
<1>2. call'[c] = NoCall /\ \A d \in Clients \ {c} : call'[d] = call[d]
    BY ZenonT(60) DEF Return, Closed, TypeOK
<1>3. OnWay(c) = {}
  <2>1. Answered(c) \/ Delivered(c) \/ Closing(c)
    BY Phases, ZenonT(60) DEF MailInv, Return, Closed
  <2> QED  BY ZenonT(60), <2>1, NoneOnWay
<1>4. \A d \in Clients : OnWay(d)' = OnWay(d)
    BY ONLY <1>1, ZenonT(60) DEF OnWay
<1>5. call'[c].op # "PUT"
    BY ZenonT(60), <1>2, RequestFacts
<1> QED
    BY ZenonT(60), <1>1, <1>2, <1>3, <1>4, <1>5, KeptFrame

\* A request is served: if it is a put its record is there by then.
LEMMA ServeKept ==
    ASSUME TypeOK, MailInv, KeptInv, NEW c \in Clients, ClerkServe(c)
    PROVE  KeptInv'
<1> PICK ok \in BOOLEAN : Serve(c, ok)
    BY ZenonT(60), MailboxAssumption DEF ClerkServe
<1>1. /\ call' = call /\ buf_head' = buf_head /\ puts' = puts /\ ring' = ring /\ lap' = lap
      /\ written' = written /\ toClerk' = toClerk /\ db' = NewDb(kmail[c], ok)
    BY ZenonT(60) DEF Serve
<1>2. Delivered(c)
    BY ZenonT(60), Phases DEF MailInv, Serve
<1>3. OnWay(c) = {} /\ kmail[c] = call[c]
    BY <1>2, NoneOnWay, ZenonT(60) DEF Delivered
<1>4. call[c].op = "PUT" =>
          \E w \in written : w.id = call[c].val.id /\ w.len = call[c].val.len /\ ~Flies(w)
    BY <1>3, ZenonT(60) DEF KeptInv, PutPlaced, Flies
<1>5. \A k \in Keys : \/ db'[k] = db[k] \/ db'[k] = Absent
                      \/ call[c].op = "PUT" /\ db'[k] = call[c].val
    BY ZenonT(60), <1>1, <1>3 DEF NewDb, TypeOK
<1>6. \A k \in Keys : \/ db'[k] = db[k] \/ db'[k] = Absent
                      \/ \E w \in written : w.id = db'[k].id /\ w.len = db'[k].len /\ ~Flies(w)
    BY ONLY <1>4, <1>5, ZenonT(60)
<1>7. \A d \in Clients : OnWay(d)' = OnWay(d)
    BY ONLY <1>1, ZenonT(60) DEF OnWay
<1> QED
    BY ZenonT(60), <1>1, <1>6, <1>7, KeptFrame

\* At the start nothing has been put.
LEMMA InitKept ==
    ASSUME Pmem, Init
    PROVE  KeptInv
<1>1. /\ ring = [c \in Clients |-> [j \in 0 .. BUFSIZE - 1 |-> 0]] /\ written = {}
      /\ lap = [c \in Clients |-> 0] /\ \A k \in Keys : db[k] = Absent
    BY ZenonT(60) DEF Init
<1>2. ASSUME NEW c \in Clients
      PROVE  OnWay(c) = {} /\ call[c] = NoCall
  <2>1. toClerk[c] = <<>> /\ call[c] = NoCall
    BY ZenonT(60) DEF Init
  <2> QED  BY <2>1, RecordsOf, ZenonT(60) DEF OnWay
<1>3. ring \in [Clients -> [0 .. BUFSIZE - 1 -> Nat]] /\ lap \in [Clients -> Nat]
    BY ONLY <1>1, SMTT(60), SMTT(90)
<1>4. NoCall.op # "PUT"
    BY ZenonT(60), RequestFacts
<1>5. \A c \in Clients : PutPlaced(c) /\ WayLast(c)
    BY <1>2, <1>4, ZenonT(60) DEF PutPlaced, WayLast
<1> QED
    BY <1>1, <1>3, <1>5, ZenonT(60) DEF KeptInv, DbPlaced

\* Every step keeps the invariant.
LEMMA NextKept ==
    ASSUME TypeOK, MailInv, Pmem, KeptInv, [Next]_vars
    PROVE  KeptInv'
<1>1. ASSUME NEW c \in Clients, NEW k \in Keys, SendGet(c, k) \/ SendDelete(c, k)
      PROVE  KeptInv'
    BY ZenonT(60), <1>1, PostKept DEF SendGet, SendDelete
<1>2. ASSUME NEW c \in Clients, SendSync(c) \/ SendClose(c)
      PROVE  KeptInv'
  <2>1. Sync.op # "PUT" /\ Close.op # "PUT"
    BY ZenonT(60) DEF Sync, Close
  <2> QED  BY ZenonT(60), <1>2, <2>1, PostKept DEF SendSync, SendClose
<1>3. ASSUME NEW c \in Clients, Step(c)
      PROVE  KeptInv'
    BY <1>3, QuietKept, ReturnKept, ServeKept, PlaceRecordKept, ZenonT(60) DEF Step
<1>4. CASE Writeback \/ UNCHANGED vars
  <2>1. /\ call' = call /\ db' = db /\ buf_head' = buf_head /\ puts' = puts /\ ring' = ring
        /\ lap' = lap /\ written' = written /\ toClerk' = toClerk
    BY <1>4, ZenonT(60) DEF Writeback, vars
  <2>2. \A d \in Clients : OnWay(d)' = OnWay(d)
    BY ONLY <2>1, ZenonT(60) DEF OnWay
  <2> QED  BY ZenonT(60), <2>1, <2>2, KeptFrame
<1> QED
    BY <1>1, <1>2, <1>3, <1>4, SendWriteKept, ZenonT(60) DEF Next

\* The pmem frontend: what the database holds is not on its way, so it is whole or
\* overrun.
LEMMA PmemPersists ==
    ASSUME Pmem
    PROVE  Spec => []AckedPersistent
<1>1. Init => TypeOK /\ MailInv /\ KeptInv
    BY ZenonT(60), InitInv, InitKept
<1>2. TypeOK /\ MailInv /\ KeptInv /\ [Next]_vars => (TypeOK /\ MailInv /\ KeptInv)'
    BY ZenonT(60), NextInv, NextKept
<1>3. KeptInv => AckedPersistent
    BY ZenonT(60) DEF KeptInv, DbPlaced, AckedPersistent
<1> QED
    BY <1>1, <1>2, <1>3, PTL DEF Spec

\* A database that syncs is on disk whenever a call has been served.
LEMMA SyncedPersists ==
    ASSUME Synced
    PROVE  Spec => []AckedPersistent
<1>1. Init => durable = db
    BY ZenonT(60) DEF Init
<1>2. durable = db /\ [Next]_vars => (durable = db)'
  <2> SUFFICES ASSUME durable = db, [Next]_vars PROVE durable' = db'
    OBVIOUS
  <2>1. ASSUME NEW c \in Clients, Step(c)
        PROVE  durable' = db'
    BY <2>1, ZenonT(60) DEF Step, ClientPoll, Return, Closed, PlaceAtClerk, PlaceAtClient,
        ClerkServe, Serve, ClerkClose, ClerkReply, ClerkPoll
  <2>2. ASSUME NEW c, NEW r, Post(c, r)
        PROVE  durable' = db'
    BY <2>2, ZenonT(60) DEF Post
  <2>3. CASE Writeback \/ UNCHANGED vars
    BY <2>3, ZenonT(60) DEF Writeback, vars
  <2> QED
    BY <2>1, <2>2, <2>3, ZenonT(60) DEF Next, SendWrite, SendGet, SendDelete, SendSync, SendClose
<1>3. durable = db => AckedPersistent
    BY ZenonT(60) DEF AckedPersistent
<1> QED
    BY <1>1, <1>2, <1>3, PTL DEF Spec

\* What a client has been told of survives a crash: with a database that syncs
\* because it is on disk, with the pmem frontend because every record that is
\* served and not written back is whole in the ring of its client until the ring
\* has come round to it.
THEOREM MailboxPersists ==
    ASSUME Synced \/ Pmem
    PROVE  Spec => []AckedPersistent
BY ZenonT(60), SyncedPersists, PmemPersists

=============================================================================
