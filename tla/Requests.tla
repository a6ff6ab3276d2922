------------------------------ MODULE Requests ------------------------------
(***************************************************************************)
(* Requests of the page on screen that the hub has not answered, in the    *)
(* order they were sent. The browser answers them in any order; a request  *)
(* is marked old once a later one of its kind has been answered.           *)
(***************************************************************************)
EXTENDS QueryState, SequencesExt

CONSTANT MaxPending     \* bound: requests in flight

VARIABLES pending,      \* the requests in flight, oldest first
          overtaken     \* kinds whose last answer was older than one before it

Sent(queue, reqs) == queue \o [i \in DOMAIN reqs |-> [req |-> reqs[i], old |-> FALSE]]

\* The elements of a sequence at some of its places, in their order.
Subsequence(seq, places) ==
    [n \in 1 .. Cardinality(places) |->
        seq[CHOOSE i \in places : Cardinality({j \in places : j <= i}) = n]]

\* What is left of the queue when the parts of the page that sent these kinds
\* are taken off the screen: their answers reach nobody.
Without(queue, kinds) ==
    Subsequence(queue, {i \in DOMAIN queue : queue[i].req.to \notin kinds})

\* The queue after the answer to its i-th request.
AfterAnswer(i) ==
    RemoveAt([j \in DOMAIN pending |->
                 IF j < i /\ pending[j].req.to = pending[i].req.to
                 THEN [pending[j] EXCEPT !.old = TRUE] ELSE pending[j]], i)

Receive(i) ==
    /\ pending' = AfterAnswer(i)
    /\ overtaken' = IF pending[i].old THEN overtaken \cup {pending[i].req.to}
                    ELSE overtaken \ {pending[i].req.to}

\* Requests sent, and the kinds whose readers have just left the screen.
Send(reqs, gone) ==
    /\ pending' = Sent(Without(pending, gone), reqs)
    /\ Len(pending') <= MaxPending
    /\ overtaken' = overtaken \ gone

\* Requests of a kind whose answer would undo something newer.
Outdated(queue, kind) ==
    [j \in DOMAIN queue |->
        IF queue[j].req.to = kind THEN [queue[j] EXCEPT !.old = TRUE] ELSE queue[j]]

Waiting(kind) == \E i \in DOMAIN pending : pending[i].req.to = kind

=============================================================================
