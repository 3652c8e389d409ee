---------------------------- MODULE AttentionSpec ----------------------------
(***************************************************************************)
(* What the attention queues of src/daemon/prompt/gkd-prompt.c promise,    *)
(* stated without hash tables, signals or main-loop callbacks: requests    *)
(* for a window join that window's queue once, in the order they are      *)
(* serviced, and the window shows the prompt of at most one request at a  *)
(* time, always the oldest one waiting.  A request whose callback shows   *)
(* nothing leaves the queue without becoming current.                     *)
(***************************************************************************)
EXTENDS Sequences

CONSTANTS
    Reqs,      \* attention requests
    Windows,   \* window ids
    NoReq      \* no request is current for a window

VARIABLES
    seen,      \* requests that have joined a queue
    aqueue,    \* window -> requests waiting, oldest first
    current    \* window -> the request whose prompt the window shows, or NoReq

avars == <<seen, aqueue, current>>

AInit ==
    /\ seen = {}
    /\ aqueue = [w \in Windows |-> <<>>]
    /\ current = [w \in Windows |-> NoReq]

\* A request joins the tail of its window's queue.
Join(r, w) ==
    /\ r \notin seen
    /\ seen' = seen \cup {r}
    /\ aqueue' = [aqueue EXCEPT ![w] = Append(@, r)]
    /\ UNCHANGED current

\* The window is free: the oldest waiting request becomes current.
Show(w) ==
    /\ current[w] = NoReq /\ aqueue[w] # <<>>
    /\ current' = [current EXCEPT ![w] = Head(aqueue[w])]
    /\ aqueue' = [aqueue EXCEPT ![w] = Tail(@)]
    /\ UNCHANGED seen

\* The window is free and the oldest waiting request shows nothing.
Skip(w) ==
    /\ current[w] = NoReq /\ aqueue[w] # <<>>
    /\ aqueue' = [aqueue EXCEPT ![w] = Tail(@)]
    /\ UNCHANGED <<seen, current>>

\* The current request's prompt is answered or destroyed.
Release(w) ==
    /\ current[w] # NoReq
    /\ current' = [current EXCEPT ![w] = NoReq]
    /\ UNCHANGED <<seen, aqueue>>

ANext ==
    \/ \E r \in Reqs, w \in Windows : Join(r, w)
    \/ \E w \in Windows : Show(w) \/ Skip(w) \/ Release(w)

ASpec == AInit /\ [][ANext]_avars
=============================================================================
