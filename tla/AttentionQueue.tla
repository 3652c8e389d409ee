---------------------------- MODULE AttentionQueue ----------------------------
(***************************************************************************)
(* The per-window attention queues of src/daemon/prompt/gkd-prompt.c       *)
(* (AttentionReq, lines 897-1122).  Requesting threads call               *)
(* gkd_prompt_request_attention_async or _sync, which schedule            *)
(* service_attention_req on the main loop with g_timeout_add (0, ...); a  *)
(* sync requester then waits on its own GCond under attention_mutex.  The *)
(* main loop runs service_attention_req, next_attention_req, the          *)
(* request's callback and, when the user answers, the prompt's            *)
(* "completed" signal (done_attention_req); when the prompt is destroyed, *)
(* the signal closure's notify runs free_attention_req.                  *)
(*                                                                         *)
(* The main loop is one actor whose steps are the handlers; a handler     *)
(* that calls next_attention_req continues in mainW/mainCont, one         *)
(* popped request per step, so that each callback's choice is its own     *)
(* step.  The prompt itself (PromptLifecycle) is reduced to "shown",      *)
(* "completed" and destroyed.                                             *)
(***************************************************************************)
EXTENDS Sequences, FiniteSets

CONSTANTS
    Reqs,       \* attention requests, one per requesting call
    SyncReqs,   \* those made with gkd_prompt_request_attention_sync
    Windows,    \* window ids
    NoReq,      \* no request
    NoWin,      \* the main loop is not inside next_attention_req
    Declines,   \* a callback may return NULL ("Don't show the prompt")
    Spurious    \* g_cond_wait may return without a broadcast

ASSUME SyncReqs \subseteq Reqs /\ Declines \in BOOLEAN /\ Spurious \in BOOLEAN

VARIABLES
    win,        \* r -> att->window_id
    reqPc,      \* r -> the requesting thread: "start", "waiting" (in g_cond_wait),
                \*      "woken" (broadcast received), "returned"
    pending,    \* requests whose service_attention_req timeout is pending
    hash,       \* the window ids that are keys of attention_reqs
    queue,      \* w -> the GQueue of attention_reqs[w]
    active,     \* r -> att->active
    prompt,     \* r -> "none", "shown" (displayed) or "completed"
    declined,   \* r -> its callback returned NULL
    freed,      \* r -> free_attention_req has run on att
    attCond,    \* r -> att->cond is non-NULL
    condFreed,  \* r -> the requesting thread has run g_cond_free (cond)
    uaf,        \* g_cond_broadcast ran on a GCond already freed
    mainW,      \* the window of the next_attention_req the main loop is in
    mainCont    \* the request whose done_attention_req resumes after it

vars == <<win, reqPc, pending, hash, queue, active, prompt, declined, freed,
          attCond, condFreed, uaf, mainW, mainCont>>

Idle == mainW = NoWin

Init ==
    /\ win \in [Reqs -> Windows]
    /\ reqPc = [r \in Reqs |-> "start"]
    /\ pending = {}
    /\ hash = {}
    /\ queue = [w \in Windows |-> <<>>]
    /\ active = [r \in Reqs |-> FALSE]
    /\ prompt = [r \in Reqs |-> "none"]
    /\ declined = [r \in Reqs |-> FALSE]
    /\ freed = [r \in Reqs |-> FALSE]
    /\ attCond = [r \in Reqs |-> FALSE]
    /\ condFreed = [r \in Reqs |-> FALSE]
    /\ uaf = FALSE
    /\ mainW = NoWin
    /\ mainCont = NoReq

\* The "if (att->cond)" block of done_attention_req: broadcast under
\* attention_mutex, waking r's thread if it is in g_cond_wait, then
\* att->cond = NULL.  c is NoReq when no done_attention_req resumes.
Broadcast(c) ==
    IF c # NoReq /\ attCond[c]
    THEN /\ uaf' = (uaf \/ condFreed[c])
         /\ reqPc' = [reqPc EXCEPT ![c] = IF @ = "waiting" THEN "woken" ELSE @]
         /\ attCond' = [attCond EXCEPT ![c] = FALSE]
    ELSE UNCHANGED <<uaf, reqPc, attCond>>

\* gkd_prompt_request_attention_async: prepare_attention_req, g_timeout_add.
RequestAsync(r) ==
    /\ r \notin SyncReqs /\ reqPc[r] = "start"
    /\ pending' = pending \cup {r}
    /\ reqPc' = [reqPc EXCEPT ![r] = "returned"]
    /\ UNCHANGED <<win, hash, queue, active, prompt, declined, freed, attCond,
                   condFreed, uaf, mainW, mainCont>>

\* gkd_prompt_request_attention_sync: att->cond = cond, then under
\* attention_mutex g_timeout_add and g_cond_wait, which releases the mutex
\* atomically; a broadcast needs the mutex, so none is lost in between.
RequestSync(r) ==
    /\ r \in SyncReqs /\ reqPc[r] = "start"
    /\ attCond' = [attCond EXCEPT ![r] = TRUE]
    /\ pending' = pending \cup {r}
    /\ reqPc' = [reqPc EXCEPT ![r] = "waiting"]
    /\ UNCHANGED <<win, hash, queue, active, prompt, declined, freed,
                   condFreed, uaf, mainW, mainCont>>

\* Plausible faults of the handlers, each used to confirm that a property
\* fails when the code is wrong in that way.
\* service_attention_req inserting the request, not its window id, as key.
ServiceKeyedByReq(r) ==
    /\ Idle /\ r \in pending
    /\ pending' = pending \ {r}
    /\ queue' = [queue EXCEPT ![win[r]] = Append(@, r)]
    /\ IF r \in hash
       THEN UNCHANGED <<hash, mainW, mainCont>>
       ELSE /\ hash' = hash \cup {r}
            /\ mainW' = win[r] /\ mainCont' = NoReq
    /\ UNCHANGED <<win, reqPc, active, prompt, declined, freed, attCond, condFreed, uaf>>
\* service_attention_req calling next_attention_req whether or not the
\* window's queue already existed (now = TRUE always).
ServiceAlwaysNext(r) ==
    /\ Idle /\ r \in pending
    /\ pending' = pending \ {r}
    /\ queue' = [queue EXCEPT ![win[r]] = Append(@, r)]
    /\ hash' = hash \cup {win[r]}
    /\ mainW' = win[r] /\ mainCont' = NoReq
    /\ UNCHANGED <<win, reqPc, active, prompt, declined, freed, attCond, condFreed, uaf>>

\* service_attention_req on the main loop: push att on its window's queue,
\* creating the queue (and calling next_attention_req) when there was none.
Service(r) ==
    /\ Idle /\ r \in pending
    /\ pending' = pending \ {r}
    /\ queue' = [queue EXCEPT ![win[r]] = Append(@, r)]
    /\ IF win[r] \in hash
       THEN UNCHANGED <<hash, mainW, mainCont>>
       ELSE /\ hash' = hash \cup {win[r]}
            /\ mainW' = win[r] /\ mainCont' = NoReq
    /\ UNCHANGED <<win, reqPc, active, prompt, declined, freed, attCond, condFreed, uaf>>

\* The three ways a step of next_attention_req (mainW) ends.  When it
\* returns, the done_attention_req that called it (mainCont) resumes with
\* its broadcast.
\* The queue is empty: g_hash_table_remove (attention_reqs, window_id).
NextEmpty ==
    /\ ~Idle /\ queue[mainW] = <<>>
    /\ hash' = hash \ {mainW}
    /\ Broadcast(mainCont)
    /\ mainW' = NoWin /\ mainCont' = NoReq
    /\ UNCHANGED <<win, pending, queue, active, prompt, declined, freed, condFreed>>

\* The head's callback returns NULL: free_attention_req (att is not active:
\* att->cond = NULL without a broadcast), then next_attention_req again.
NextDecline ==
    /\ ~Idle /\ queue[mainW] # <<>> /\ Declines
    /\ LET a == Head(queue[mainW])
       IN /\ queue' = [queue EXCEPT ![mainW] = Tail(@)]
          /\ declined' = [declined EXCEPT ![a] = TRUE]
          /\ freed' = [freed EXCEPT ![a] = TRUE]
          /\ attCond' = [attCond EXCEPT ![a] = FALSE]
    /\ UNCHANGED <<win, reqPc, pending, hash, active, prompt, condFreed, uaf, mainW, mainCont>>

\* The head's callback returns a prompt: att->active = TRUE, "completed"
\* connected to done_attention_req, display_async_prompt.
NextShow ==
    /\ ~Idle /\ queue[mainW] # <<>>
    /\ LET a == Head(queue[mainW])
       IN /\ queue' = [queue EXCEPT ![mainW] = Tail(@)]
          /\ active' = [active EXCEPT ![a] = TRUE]
          /\ prompt' = [prompt EXCEPT ![a] = "shown"]
    /\ Broadcast(mainCont)
    /\ mainW' = NoWin /\ mainCont' = NoReq
    /\ UNCHANGED <<win, pending, hash, declined, freed, condFreed>>

\* done_attention_req without the call to next_attention_req.
CompleteNoNext(r) ==
    /\ Idle /\ prompt[r] = "shown" /\ active[r]
    /\ prompt' = [prompt EXCEPT ![r] = "completed"]
    /\ active' = [active EXCEPT ![r] = FALSE]
    /\ Broadcast(r)
    /\ UNCHANGED <<win, pending, hash, queue, declined, freed, condFreed, mainW, mainCont>>

\* The user answers r's prompt: "completed" runs done_attention_req, which
\* clears att->active and calls next_attention_req before its broadcast.
Complete(r) ==
    /\ Idle /\ prompt[r] = "shown" /\ active[r]
    /\ prompt' = [prompt EXCEPT ![r] = "completed"]
    /\ active' = [active EXCEPT ![r] = FALSE]
    /\ mainW' = win[r] /\ mainCont' = r
    /\ UNCHANGED <<win, reqPc, pending, hash, queue, declined, freed, attCond, condFreed, uaf>>

\* r's prompt is destroyed: the closure notify free_attention_req sets
\* att->cond = NULL without a broadcast and, if att was still active,
\* calls next_attention_req for its window.
Dispose(r) ==
    /\ Idle /\ prompt[r] \in {"shown", "completed"} /\ ~freed[r]
    /\ freed' = [freed EXCEPT ![r] = TRUE]
    /\ attCond' = [attCond EXCEPT ![r] = FALSE]
    /\ active' = [active EXCEPT ![r] = FALSE]
    /\ IF active[r]
       THEN mainW' = win[r] /\ mainCont' = NoReq
       ELSE UNCHANGED <<mainW, mainCont>>
    /\ UNCHANGED <<win, reqPc, pending, hash, queue, prompt, declined, condFreed, uaf>>

\* The sync requester leaves g_cond_wait after a broadcast, unlocks and
\* runs g_cond_free (cond).
SyncReturn(r) ==
    /\ reqPc[r] = "woken"
    /\ reqPc' = [reqPc EXCEPT ![r] = "returned"]
    /\ condFreed' = [condFreed EXCEPT ![r] = TRUE]
    /\ UNCHANGED <<win, pending, hash, queue, active, prompt, declined, freed,
                   attCond, uaf, mainW, mainCont>>

\* g_cond_wait returns without a broadcast (allowed by GLib and POSIX); the
\* call has no predicate loop, so the thread frees cond at once.
SpuriousWakeup(r) ==
    /\ Spurious /\ reqPc[r] = "waiting"
    /\ reqPc' = [reqPc EXCEPT ![r] = "returned"]
    /\ condFreed' = [condFreed EXCEPT ![r] = TRUE]
    /\ UNCHANGED <<win, pending, hash, queue, active, prompt, declined, freed,
                   attCond, uaf, mainW, mainCont>>

MainNext == NextEmpty \/ NextDecline \/ NextShow

Next ==
    \/ \E r \in Reqs : RequestAsync(r) \/ RequestSync(r) \/ Service(r)
    \/ MainNext
    \/ \E r \in Reqs : Complete(r) \/ Dispose(r) \/ SyncReturn(r) \/ SpuriousWakeup(r)

\* The GLib main loop dispatches every ready timeout and keeps running the
\* handler it is in; woken threads get scheduled; a shown prompt is
\* eventually answered by the user.  Nothing forces a request to be made
\* or a prompt to be destroyed.
Spec ==
    /\ Init /\ [][Next]_vars
    /\ WF_vars(MainNext)
    /\ \A r \in Reqs : WF_vars(Service(r)) /\ WF_vars(Complete(r)) /\ WF_vars(SyncReturn(r))

-----------------------------------------------------------------------------
(* Properties.                                                             *)

Served(r) == declined[r] \/ prompt[r] = "completed" \/ freed[r]

TypeOK ==
    /\ win \in [Reqs -> Windows]
    /\ reqPc \in [Reqs -> {"start", "waiting", "woken", "returned"}]
    /\ pending \subseteq Reqs
    /\ hash \subseteq Windows
    /\ queue \in [Windows -> Seq(Reqs)]
    /\ active \in [Reqs -> BOOLEAN] /\ declined \in [Reqs -> BOOLEAN]
    /\ prompt \in [Reqs -> {"none", "shown", "completed"}]
    /\ freed \in [Reqs -> BOOLEAN] /\ attCond \in [Reqs -> BOOLEAN]
    /\ condFreed \in [Reqs -> BOOLEAN] /\ uaf \in BOOLEAN
    /\ mainW \in Windows \cup {NoWin} /\ mainCont \in Reqs \cup {NoReq}

\* The request a window is showing: the active att of that window.
ShownBy(w) ==
    IF \E r \in Reqs : active[r] /\ win[r] = w
    THEN CHOOSE r \in Reqs : active[r] /\ win[r] = w
    ELSE NoReq

AS == INSTANCE AttentionSpec WITH
        seen <- {r \in Reqs : reqPc[r] # "start" /\ r \notin pending},
        aqueue <- queue,
        current <- [w \in Windows |-> ShownBy(w)]

\* The hash table, the queues, att->active and the handlers that clear it
\* implement AttentionSpec: requests of a window join its queue in the
\* order service_attention_req runs, and a window shows the prompt of at
\* most one request at a time, the oldest waiting one.
Refines == AS!ASpec

\* Every request made is eventually handled: its callback declines, or its
\* prompt is answered or destroyed.  Each handler that ends a request
\* (done_attention_req, free_attention_req of an active att, a declining
\* callback) must hand the window on with next_attention_req.
EveryRequestServed ==
    \A r \in Reqs : (reqPc[r] # "start") ~> Served(r)

\* A thread in gkd_prompt_request_attention_sync returns once its request
\* is handled.
SyncWaiterReturns ==
    \A r \in SyncReqs : (reqPc[r] = "waiting") ~> (reqPc[r] = "returned")

\* done_attention_req never broadcasts on a GCond its thread has freed.
NoFreedCondUse == ~uaf
=============================================================================
