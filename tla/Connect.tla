------------------------------ MODULE Connect ------------------------------
(***************************************************************************)
(* Setting up the connections of a frontend: clients in Connect, the       *)
(* server in Listen, both in default_connect, up to the first request.  A  *)
(* connection is known by its client and has two ends.  A certificate is   *)
(* the end that it names.  The other frontends do the same with other      *)
(* memory registered; what a clerk does then is in their modules.          *)
(***************************************************************************)
EXTENDS Naturals, Sequences

CONSTANTS
    Clients,
    retry_cnt,   \* how often the adapter repeats a write that is not answered
    Prompt,      \* the server's queue pair is ready before that
    Dying,       \* a client may end before it has sent its certificate
    Failing      \* a change of the queue pair's state may fail

Ends == Clients \X {"client", "server"}
End(c) == <<c, "client">>
Peer(e) == <<e[1], IF e[2] = "client" THEN "server" ELSE "client">>
None == <<>>
NoClient == "no client"

VARIABLES
    backlog,    \* connections that wait to be accepted
    lpc, cur,   \* Listen: place, connection it is setting up
    clerks,     \* connections with a clerk
    pc,         \* end: place in default_connect
    inbox,      \* end: certificate in its socket
    remote,     \* end: remote
    qp,         \* end: state of its queue pair
    cpc,        \* client: place in Connect and its first call
    wire, tries,    \* client: its request is with the adapter, repeated so often
    request     \* connection: the request is in the clerk's memory

listenVars == <<backlog, lpc, cur, clerks>>
endVars    == <<pc, inbox, remote, qp>>
callVars   == <<cpc, wire, tries, request>>
vars == <<listenVars, endVars, callVars>>

-----------------------------------------------------------------------------
(* default_connect, at either end                                          *)

Move(e, from, to) == pc[e] = from /\ pc' = [pc EXCEPT ![e] = to]

\* Mutant: the certificate of the peer is awaited first.
WriteCertificateLast(e) ==
    /\ Move(e, "write", "read")
    /\ inbox[e] # None
    /\ inbox' = [inbox EXCEPT ![Peer(e)] = e]
    /\ UNCHANGED <<remote, qp, listenVars, callVars>>

\* exchange_certificate writes, and then reads.
WriteCertificate(e) ==
    /\ Move(e, "write", "read")
    /\ inbox' = [inbox EXCEPT ![Peer(e)] = e]
    /\ UNCHANGED <<remote, qp, listenVars, callVars>>

\* Mutant: the certificate that was sent is taken for the one received.
ReadOwnCertificate(e) ==
    /\ inbox[e] # None
    /\ Move(e, "read", "init")
    /\ remote' = [remote EXCEPT ![e] = e]
    /\ UNCHANGED <<inbox, qp, listenVars, callVars>>

ReadCertificate(e) ==
    /\ inbox[e] # None
    /\ Move(e, "read", "init")
    /\ remote' = [remote EXCEPT ![e] = inbox[e]]
    /\ UNCHANGED <<inbox, qp, listenVars, callVars>>

\* The peer has ended: read returns 0, and default_connect -1.
ReadError(e) ==
    /\ inbox[e] = None /\ e[2] = "server" /\ cpc[e[1]] = "dead"
    /\ Move(e, "read", "minus one")
    /\ UNCHANGED <<inbox, remote, qp, listenVars, callVars>>

ModifyQP(e, from, state, to) ==
    /\ Move(e, from, to)
    /\ qp' = [qp EXCEPT ![e] = state]
    /\ UNCHANGED <<inbox, remote, listenVars, callVars>>

\* ibv_modify_qp fails, and default_connect returns its positive error.
ModifyQPFails(e) ==
    /\ Failing /\ pc[e] \in {"init", "rtr", "rts"}
    /\ pc' = [pc EXCEPT ![e] = "error"]
    /\ UNCHANGED <<inbox, remote, qp, listenVars, callVars>>

DefaultConnect(e) ==
    \/ WriteCertificate(e) \/ ReadCertificate(e) \/ ReadError(e)
    \/ ModifyQP(e, "init", "INIT", "rtr")
    \/ ModifyQP(e, "rtr", "RTR", "rts")
    \/ ModifyQP(e, "rts", "RTS", "done")
    \/ ModifyQPFails(e)

\* Callers compare the result with -1 alone.
Returned(e) == pc[e] \in {"done", "error"}

-----------------------------------------------------------------------------
(* Clients                                                                 *)

\* make_socket: the connection waits in the backlog of the server.
MakeSocket(c) ==
    /\ cpc[c] = "start" /\ lpc # "exited"
    /\ cpc' = [cpc EXCEPT ![c] = "connect"] /\ pc' = [pc EXCEPT ![End(c)] = "write"]
    /\ backlog' = Append(backlog, c)
    /\ UNCHANGED <<inbox, remote, qp, lpc, cur, clerks, wire, tries, request>>

Die(c) ==
    /\ Dying /\ pc[End(c)] = "write"
    /\ cpc' = [cpc EXCEPT ![c] = "dead"] /\ pc' = [pc EXCEPT ![End(c)] = "none"]
    /\ UNCHANGED <<listenVars, inbox, remote, qp, wire, tries, request>>

Connected(c) ==
    /\ cpc[c] = "connect" /\ Returned(End(c))
    /\ cpc' = [cpc EXCEPT ![c] = "ready"]
    /\ UNCHANGED <<listenVars, endVars, wire, tries, request>>

\* The first call: ibv_post_send refuses a queue pair that is not ready, and
\* poll_one_completion then waits for a completion that does not come.
Post(c) ==
    /\ cpc[c] = "ready"
    /\ cpc' = [cpc EXCEPT ![c] = "poll"]
    /\ wire' = [wire EXCEPT ![c] = (qp[End(c)] = "RTS")]
    /\ UNCHANGED <<listenVars, endVars, tries, request>>

\* The write arrives where the queue pair is ready to receive from this client.
Arrives(c) ==
    /\ wire[c] /\ qp[Peer(End(c))] \in {"RTR", "RTS"} /\ remote[Peer(End(c))] = End(c)
    /\ wire' = [wire EXCEPT ![c] = FALSE] /\ request' = [request EXCEPT ![c] = TRUE]
    /\ cpc' = [cpc EXCEPT ![c] = "await"]
    /\ UNCHANGED <<listenVars, endVars, tries>>

\* It is dropped there before, and repeated,
Retry(c) ==
    /\ wire[c] /\ qp[Peer(End(c))] \notin {"RTR", "RTS"} /\ tries[c] < retry_cnt
    /\ tries' = [tries EXCEPT ![c] = @ + 1]
    /\ UNCHANGED <<listenVars, endVars, cpc, wire, request>>

\* until the adapter gives up; the status of the completion is not looked at.
GiveUp(c) ==
    /\ ~Prompt /\ wire[c] /\ qp[Peer(End(c))] \notin {"RTR", "RTS"} /\ tries[c] = retry_cnt
    /\ wire' = [wire EXCEPT ![c] = FALSE] /\ qp' = [qp EXCEPT ![End(c)] = "ERR"]
    /\ cpc' = [cpc EXCEPT ![c] = "await"]
    /\ UNCHANGED <<listenVars, pc, inbox, remote, tries, request>>

-----------------------------------------------------------------------------
(* Server                                                                  *)

\* GetFirst, and later NewChannel.
NewChannel ==
    /\ lpc = "accept" /\ backlog # <<>>
    /\ cur' = Head(backlog) /\ backlog' = Tail(backlog)
    /\ lpc' = "open"
    /\ UNCHANGED <<clerks, endVars, callVars>>

\* A context is opened and the clerk's memory registered.
Open ==
    /\ lpc = "open"
    /\ pc' = [pc EXCEPT ![Peer(End(cur))] = "write"]
    /\ lpc' = "connect"
    /\ UNCHANGED <<backlog, cur, clerks, inbox, remote, qp, callVars>>

\* The clerk gets a thread; -1 ends the server.
Spawn ==
    /\ lpc = "connect"
    /\ \/ /\ Returned(Peer(End(cur)))
          /\ clerks' = clerks \cup {cur} /\ lpc' = "accept"
       \/ /\ pc[Peer(End(cur))] = "minus one"
          /\ lpc' = "exited" /\ UNCHANGED clerks
    /\ UNCHANGED <<backlog, cur, endVars, callVars>>

\* The clerk answers, when its queue pair can send.
Serve(c) ==
    /\ c \in clerks /\ lpc # "exited" /\ request[c] /\ cpc[c] = "await"
    /\ qp[Peer(End(c))] = "RTS"
    /\ cpc' = [cpc EXCEPT ![c] = "served"] /\ request' = [request EXCEPT ![c] = FALSE]
    /\ UNCHANGED <<listenVars, endVars, wire, tries>>

-----------------------------------------------------------------------------
Init ==
    /\ backlog = <<>> /\ lpc = "accept" /\ cur = NoClient /\ clerks = {}
    /\ pc = [e \in Ends |-> "none"] /\ inbox = [e \in Ends |-> None]
    /\ remote = [e \in Ends |-> None] /\ qp = [e \in Ends |-> "RESET"]
    /\ cpc = [c \in Clients |-> "start"] /\ wire = [c \in Clients |-> FALSE]
    /\ tries = [c \in Clients |-> 0] /\ request = [c \in Clients |-> FALSE]

ClientStep(c) == Connected(c) \/ Post(c) \/ DefaultConnect(End(c))
Network(c) == Arrives(c) \/ Retry(c) \/ GiveUp(c)
Listen == NewChannel \/ Open \/ Spawn \/ \E c \in Clients : DefaultConnect(Peer(End(c)))

Next ==
    \/ \E c \in Clients : MakeSocket(c) \/ Die(c) \/ ClientStep(c) \/ Network(c) \/ Serve(c)
    \/ Listen

Spec == Init /\ [][Next]_vars

\* Threads run and the network delivers; a client need not connect.
Fairness ==
    /\ \A c \in Clients : WF_vars(ClientStep(c)) /\ WF_vars(Network(c)) /\ WF_vars(Serve(c))
    /\ WF_vars(Listen)
FairSpec == Spec /\ Fairness

-----------------------------------------------------------------------------
\* Type correctness of the set-up.
TypeOK ==
    /\ backlog \in Seq(Clients) /\ lpc \in {"accept", "open", "connect", "exited"}
    /\ cur \in Clients \cup {NoClient} /\ clerks \subseteq Clients
    /\ pc \in [Ends -> {"none", "write", "read", "init", "rtr", "rts", "done", "error", "minus one"}]
    /\ inbox \in [Ends -> Ends \cup {None}] /\ remote \in [Ends -> Ends \cup {None}]
    /\ qp \in [Ends -> {"RESET", "INIT", "RTR", "RTS", "ERR"}]
    /\ cpc \in [Clients -> {"start", "connect", "ready", "poll", "await", "served", "dead"}]
    /\ wire \in [Clients -> BOOLEAN] /\ request \in [Clients -> BOOLEAN]
    /\ tries \in [Clients -> 0 .. retry_cnt]

\* Every clerk is connected to the client whose socket it was given, and each end
\* of a connection that can carry data knows the other: no two clients share one.
EndsMatch ==
    /\ \A e \in Ends : qp[e] \in {"RTR", "RTS"} => remote[e] = Peer(e)
    /\ \A c \in clerks : remote[Peer(End(c))] = End(c)

\* A client that connects has its first request served, also when it posts the
\* request before the server's queue pair is ready.
FirstCallServed == \A c \in Clients : cpc[c] = "connect" ~> cpc[c] = "served"

=============================================================================
