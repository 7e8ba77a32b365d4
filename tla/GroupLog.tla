------------------------------ MODULE GroupLog ------------------------------
(***************************************************************************)
(* What group commit promises: a request that a clerk has received is      *)
(* appended to the log once, in one atomic step together with any requests *)
(* that wait beside it, and is answered only afterwards.                   *)
(***************************************************************************)
EXTENDS Integers, Sequences

CONSTANTS Clerks, Requests, None

VARIABLES
    waiting,   \* the request each clerk has to answer, or None
    log        \* requests in the order they took effect

vars == <<waiting, log>>

InLog(r) == \E i \in 1 .. Len(log) : log[i] = r

Init == waiting = [c \in Clerks |-> None] /\ log = <<>>

\* A new request: neither logged nor waiting anywhere.
Request(c) ==
    /\ waiting[c] = None
    /\ \E r \in Requests :
        /\ ~InLog(r) /\ \A d \in Clerks : waiting[d] # r
        /\ waiting' = [waiting EXCEPT ![c] = r]
    /\ UNCHANGED log

\* The requests of some distinct clerks, in some order, take effect together.
Commit ==
    LET n == Len(log') - Len(log)
    IN  /\ n > 0
        /\ \E order \in [1 .. n -> Clerks] :
            /\ \A i, j \in 1 .. n : order[i] = order[j] => i = j
            /\ \A i \in 1 .. n : waiting[order[i]] # None /\ ~InLog(waiting[order[i]])
            /\ log' = log \o [i \in 1 .. n |-> waiting[order[i]]]
        /\ UNCHANGED waiting

Answer(c) ==
    /\ waiting[c] # None /\ InLog(waiting[c])
    /\ waiting' = [waiting EXCEPT ![c] = None]
    /\ UNCHANGED log

Next == Commit \/ \E c \in Clerks : Request(c) \/ Answer(c)

Spec == Init /\ [][Next]_vars

=============================================================================
