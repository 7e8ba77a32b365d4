---------------------------- MODULE RemoteStore ----------------------------
(***************************************************************************)
(* What the sync and pmem frontends promise: a client calls, its request   *)
(* takes effect on the one store once, in a single step between the call   *)
(* and the return (or fails in it, if Failing), and the client returns     *)
(* with the answer of that step.                                           *)
(***************************************************************************)
CONSTANTS Clients, Keys, Requests, NoCall, NoAnswer, Done, Absent,
          Failing   \* requests may fail

VARIABLES store,    \* key -> value
          pending,  \* client -> the request it waits for, or NoCall
          answer,   \* client -> the answer its request has got, or NoAnswer
          returned  \* client -> what its last call returned

vars == <<store, pending, answer, returned>>

Init ==
    /\ store = [k \in Keys |-> Absent]
    /\ pending = [c \in Clients |-> NoCall]
    /\ answer = [c \in Clients |-> NoAnswer]
    /\ returned = [c \in Clients |-> NoAnswer]

Call(c, r) ==
    /\ pending[c] = NoCall
    /\ pending' = [pending EXCEPT ![c] = r]
    /\ UNCHANGED <<store, answer, returned>>

\* The store after the request, and the answer to it.  A request that fails
\* changes nothing, and only that of a delete says so: a get finds nothing, and a
\* put is done.
After(s, r, ok) ==
    IF ok /\ r.op = "PUT" THEN [s EXCEPT ![r.key] = r.val]
    ELSE IF ok /\ r.op = "DELETE" THEN [s EXCEPT ![r.key] = Absent] ELSE s

AnswerTo(s, r, ok) ==
    IF r.op \notin {"GET", "DELETE"} THEN Done
    ELSE IF ok /\ r.op = "GET" /\ s[r.key] # Absent THEN [status |-> "OK", val |-> s[r.key]]
    ELSE IF ok /\ r.op = "DELETE" THEN [status |-> "OK", val |-> Absent]
    ELSE [status |-> "NOTFOUND", val |-> Absent]

Execute(c) ==
    /\ pending[c] # NoCall /\ answer[c] = NoAnswer
    /\ \E ok \in {TRUE, ~Failing} :
         /\ store' = After(store, pending[c], ok)
         /\ answer' = [answer EXCEPT ![c] = AnswerTo(store, pending[c], ok)]
    /\ UNCHANGED <<pending, returned>>

Return(c) ==
    /\ answer[c] # NoAnswer
    /\ returned' = [returned EXCEPT ![c] = answer[c]]
    /\ pending' = [pending EXCEPT ![c] = NoCall]
    /\ answer' = [answer EXCEPT ![c] = NoAnswer]
    /\ UNCHANGED store

Next ==
    \/ \E c \in Clients, r \in Requests : Call(c, r)
    \/ \E c \in Clients : Execute(c) \/ Return(c)

Spec == Init /\ [][Next]_vars

=============================================================================
