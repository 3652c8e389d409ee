----------------------------- MODULE RpcSession -----------------------------
(***************************************************************************)
(* The call-session engine of the PKCS#11 RPC client module,              *)
(* src/pkcs11/rpc-layer/p11-rpc-module.c.                                  *)
(*                                                                         *)
(* Every thread owns one CallState (pthread key pkcs11_per_thread) with a  *)
(* socket and a status.  A call walks call_lookup -> call_prepare ->       *)
(* call_send_recv -> call_run -> call_done.  C_Initialize and C_Finalize   *)
(* run the same walk while holding init_mutex and then update the          *)
(* process-wide pkcs11_initialized / pkcs11_initialized_pid /              *)
(* pkcs11_socket_path.  fork() copies the process globals and the forking  *)
(* thread's CallState, socket included, into a child process.              *)
(*                                                                         *)
(* A socket is abstracted to two FIFO queues of whole frames.  A frame     *)
(* carries, besides its call id, the ghost fields from/seq naming the      *)
(* request it belongs to; they are not on the wire and are used only by    *)
(* the properties.  The daemon end of the connection is not under src/:    *)
(* DaemonServe and DaemonClose are modelled from spec.md sections 4.3, 6.  *)
(***************************************************************************)
EXTENDS Integers, Sequences, FiniteSets

CONSTANTS
    Threads,      \* threads of the parent process (model values)
    Child,        \* the single thread of a forked child process
    Ops,          \* call ids of ordinary calls (BEGIN_CALL .. END_CALL)
    MaxConns,     \* bound: connections the daemon accepts in one behaviour
    MaxCalls,     \* bound: calls one thread starts in one behaviour
    IoErrors,     \* TRUE: read()/write() may fail with an errno other than
                  \* EPIPE, EAGAIN or EINTR
    ForkEnabled   \* TRUE: one parent thread may fork() between calls

ASSUME /\ Child \notin Threads
       /\ MaxConns \in Nat \ {0}
       /\ MaxCalls \in Nat \ {0}
       /\ IoErrors \in BOOLEAN /\ ForkEnabled \in BOOLEAN

Actors  == Threads \cup {Child}
Procs   == {"parent", "child"}
ProcOf(a) == IF a = Child THEN "child" ELSE "parent"
Conns   == 1..MaxConns
NoSock  == -1                 \* cs->socket == -1
NoActor == "none"
NoPid   == "none"
CallIds == Ops \cup {"C_Initialize", "C_Finalize"}
ErrorCallId == "P11_RPC_CALL_ERROR"

\* enum CallStatus
Statuses == {"CALL_INVALID", "CALL_READY", "CALL_PREP", "CALL_TRANSIT", "CALL_PARSE"}
NoCs == [status |-> "NULL", sock |-> NoSock]   \* pthread_getspecific () == NULL

\* Result codes that can reach a caller in this model.
RetCodes == {"CKR_OK", "CKR_DEVICE_ERROR", "CKR_HOST_MEMORY", "CKR_ARGUMENTS_BAD",
             "CKR_MECHANISM_INVALID", "CKR_CRYPTOKI_NOT_INITIALIZED",
             "CKR_CRYPTOKI_ALREADY_INITIALIZED", "CKR_FUNCTION_FAILED", "none"}
\* Codes the daemon may put in an error response to a call; CKR_OK there
\* is malformed.
DaemonErrors == {"CKR_FUNCTION_FAILED", "CKR_CRYPTOKI_ALREADY_INITIALIZED", "CKR_OK"}
DaemonErrorsFor(o) == IF o = "C_Initialize" THEN DaemonErrors
                      ELSE DaemonErrors \ {"CKR_CRYPTOKI_ALREADY_INITIALIZED"}

Requests  == [id : CallIds, from : Actors, seq : 1..MaxCalls]
Responses == [id : CallIds \cup {ErrorCallId}, code : DaemonErrors,
              from : Actors, seq : 1..MaxCalls]
NoFrame == [id |-> "none"]

VARIABLES
    initialized,  \* pkcs11_initialized, per process
    initPid,      \* pkcs11_initialized_pid, per process
    pathSet,      \* pkcs11_socket_path[0] != 0, per process
    lockHolder,   \* owner of init_mutex, per process
    cs,           \* per-thread CallState: NoCs or [status, sock]
    pc,           \* where each thread is in the current call
    op,           \* call id of the current call
    ret,          \* value the last call returned to its caller
    seq,          \* calls started by each thread (ghost)
    acc,          \* response a call's call_run accepted (ghost)
    conn,         \* daemon side of each connection: unused, open, closed
    reqQ,         \* bytes in flight client -> daemon, as whole frames
    respQ,        \* bytes in flight daemon -> client, as whole frames
    forked        \* fork() has happened

procVars == <<initialized, initPid, pathSet, lockHolder>>
netVars  == <<conn, reqQ, respQ>>
vars == <<initialized, initPid, pathSet, lockHolder, cs, pc, op, ret, seq, acc,
          conn, reqQ, respQ, forked>>

Running(a) == a \in Threads \/ forked

-----------------------------------------------------------------------------
(* Helpers translated from the CallState functions.                        *)

\* Plausible faults of the helpers below, each used to confirm that a
\* property fails when the code is wrong in that way.
\* call_create without "cs->socket = -1": calloc leaves socket 0.
CallCreateNoSocketInit == [status |-> "CALL_INVALID", sock |-> 0]
\* call_create: calloc, socket = -1, status CALL_INVALID.
CallCreate == [status |-> "CALL_INVALID", sock |-> NoSock]

\* call_disconnect: close the socket, socket = -1.
CallDisconnect(c) == [c EXCEPT !.sock = NoSock]

\* call_done: status back to READY, or INVALID when the socket was closed.
CallDone(c) == [c EXCEPT !.status = IF c.sock = NoSock THEN "CALL_INVALID"
                                                      ELSE "CALL_READY"]

\* call_run, once call_send_recv returned CKR_OK with response frame f.
CallRun(o, f) ==
    IF f.id = ErrorCallId
    THEN IF f.code = "CKR_OK" THEN "CKR_DEVICE_ERROR" ELSE f.code
    ELSE IF f.id # o THEN "CKR_DEVICE_ERROR" ELSE "CKR_OK"

\* Failures between call_prepare and the socket exchange: the request
\* allocation, an IN_* writer, or the buffer error found by call_run.
PrepErrors(o) == IF o \in Ops
                 THEN {"CKR_HOST_MEMORY", "CKR_ARGUMENTS_BAD", "CKR_MECHANISM_INVALID"}
                 ELSE {"CKR_HOST_MEMORY"}

\* Mutant: done: that clears the path and pid of a failed C_Initialize but
\* leaves pkcs11_initialized set.
InitializeDoneKeepsFlag(p, r) ==
    /\ initialized' = [initialized EXCEPT ![p] = IF r = "CKR_OK" THEN TRUE ELSE @]
    /\ initPid' = [initPid EXCEPT ![p] =
          IF r = "CKR_OK" THEN p
          ELSE IF r = "CKR_CRYPTOKI_ALREADY_INITIALIZED" THEN @ ELSE NoPid]
    /\ pathSet' = [pathSet EXCEPT ![p] =
          IF r \in {"CKR_OK", "CKR_CRYPTOKI_ALREADY_INITIALIZED"} THEN @ ELSE FALSE]
    /\ lockHolder' = [lockHolder EXCEPT ![p] = NoActor]

\* rpc_C_Initialize at done: with r, mark process p initialized, keep its
\* state on CKR_CRYPTOKI_ALREADY_INITIALIZED, or clear it; unlock.
InitializeDone(p, r) ==
    /\ initialized' = [initialized EXCEPT ![p] =
          IF r = "CKR_OK" THEN TRUE
          ELSE IF r = "CKR_CRYPTOKI_ALREADY_INITIALIZED" THEN @ ELSE FALSE]
    /\ initPid' = [initPid EXCEPT ![p] =
          IF r = "CKR_OK" THEN p
          ELSE IF r = "CKR_CRYPTOKI_ALREADY_INITIALIZED" THEN @ ELSE NoPid]
    /\ pathSet' = [pathSet EXCEPT ![p] =
          IF r \in {"CKR_OK", "CKR_CRYPTOKI_ALREADY_INITIALIZED"} THEN @ ELSE FALSE]
    /\ lockHolder' = [lockHolder EXCEPT ![p] = NoActor]

\* rpc_C_Finalize after the daemon's answer, whatever it was: clear the
\* process state ("this should stop all other calls in"), unlock, and
\* return CKR_OK.
FinalizeDone(p) ==
    /\ initialized' = [initialized EXCEPT ![p] = FALSE]
    /\ initPid' = [initPid EXCEPT ![p] = NoPid]
    /\ pathSet' = [pathSet EXCEPT ![p] = FALSE]
    /\ lockHolder' = [lockHolder EXCEPT ![p] = NoActor]

\* The end of a call: END_CALL returns r; C_Initialize and C_Finalize
\* then run their bookkeeping under init_mutex and unlock it.
Finish(a, r) ==
    /\ pc' = [pc EXCEPT ![a] = "idle"]
    /\ ret' = [ret EXCEPT ![a] = IF op[a] = "C_Finalize" THEN "CKR_OK" ELSE r]
    /\ CASE op[a] = "C_Initialize" -> InitializeDone(ProcOf(a), r)
         [] op[a] = "C_Finalize"   -> FinalizeDone(ProcOf(a))
         [] OTHER                  -> UNCHANGED procVars

-----------------------------------------------------------------------------
Init ==
    /\ initialized = [p \in Procs |-> FALSE]
    /\ initPid = [p \in Procs |-> NoPid]
    /\ pathSet = [p \in Procs |-> FALSE]
    /\ lockHolder = [p \in Procs |-> NoActor]
    /\ cs = [a \in Actors |-> NoCs]
    /\ pc = [a \in Actors |-> "idle"]
    /\ op = [a \in Actors |-> "C_Initialize"]
    /\ ret = [a \in Actors |-> "none"]
    /\ seq = [a \in Actors |-> 0]
    /\ acc = [a \in Actors |-> NoFrame]
    /\ conn = [c \in Conns |-> "unused"]
    /\ reqQ = [c \in Conns |-> <<>>]
    /\ respQ = [c \in Conns |-> <<>>]
    /\ forked = FALSE

\* A thread enters rpc_C_<o>: BEGIN_CALL first checks pkcs11_initialized
\* without taking init_mutex.
BeginCall(a, o) ==
    /\ Running(a) /\ pc[a] = "idle" /\ seq[a] < MaxCalls
    /\ seq' = [seq EXCEPT ![a] = @ + 1]
    /\ acc' = [acc EXCEPT ![a] = NoFrame]
    /\ IF initialized[ProcOf(a)]
       THEN /\ pc' = [pc EXCEPT ![a] = "lookup"]
            /\ op' = [op EXCEPT ![a] = o]
            /\ UNCHANGED ret
       ELSE /\ ret' = [ret EXCEPT ![a] = "CKR_CRYPTOKI_NOT_INITIALIZED"]
            /\ UNCHANGED <<pc, op>>
    /\ UNCHANGED <<procVars, cs, netVars, forked>>

\* rpc_C_Initialize up to pthread_mutex_lock, and rpc_C_Finalize up to it
\* (C_Finalize first checks pkcs11_initialized without the lock).
BeginInitialize(a) ==
    /\ Running(a) /\ pc[a] = "idle" /\ seq[a] < MaxCalls
    /\ seq' = [seq EXCEPT ![a] = @ + 1]
    /\ acc' = [acc EXCEPT ![a] = NoFrame]
    /\ pc' = [pc EXCEPT ![a] = "lock"]
    /\ op' = [op EXCEPT ![a] = "C_Initialize"]
    /\ UNCHANGED <<procVars, cs, ret, netVars, forked>>

BeginFinalize(a) ==
    /\ Running(a) /\ pc[a] = "idle" /\ seq[a] < MaxCalls
    /\ seq' = [seq EXCEPT ![a] = @ + 1]
    /\ acc' = [acc EXCEPT ![a] = NoFrame]
    /\ IF initialized[ProcOf(a)]
       THEN /\ pc' = [pc EXCEPT ![a] = "lock"]
            /\ op' = [op EXCEPT ![a] = "C_Finalize"]
            /\ UNCHANGED ret
       ELSE /\ ret' = [ret EXCEPT ![a] = "CKR_CRYPTOKI_NOT_INITIALIZED"]
            /\ UNCHANGED <<pc, op>>
    /\ UNCHANGED <<procVars, cs, netVars, forked>>

\* pthread_mutex_lock (&init_mutex) returns, and the locked prologue runs:
\* for C_Initialize the init_args checks, the same-pid check and the copy
\* of the socket path; for C_Finalize nothing before call_lookup.
\* args is the caller's init_args: NULL, valid, or "invalid", which stands
\* for every goto done before the path copy (mutex functions only partly
\* supplied, CKF_OS_LOCKING_OK missing, pthread_key_create failing, no
\* socket path in the environment): all return an error, and done then
\* clears the process state.
Locked(a) ==
    LET p == ProcOf(a) IN
    /\ pc[a] = "lock" /\ lockHolder[p] = NoActor
    /\ IF op[a] = "C_Finalize"
       THEN /\ lockHolder' = [lockHolder EXCEPT ![p] = a]
            /\ pc' = [pc EXCEPT ![a] = "lookup"]
            /\ UNCHANGED <<initialized, initPid, pathSet, ret>>
       ELSE \E args \in {"NULL or valid", "invalid"} :
            CASE args = "invalid" ->
                   \* goto done with CKR_ARGUMENTS_BAD / CKR_CANT_LOCK
                   Finish(a, "CKR_ARGUMENTS_BAD")
              [] initialized[p] /\ initPid[p] = p ->
                   Finish(a, "CKR_CRYPTOKI_ALREADY_INITIALIZED")
              [] OTHER ->
                   /\ lockHolder' = [lockHolder EXCEPT ![p] = a]
                   /\ pathSet' = [pathSet EXCEPT ![p] = TRUE]
                   /\ pc' = [pc EXCEPT ![a] = "lookup"]
                   /\ UNCHANGED <<initialized, initPid, ret>>
    /\ UNCHANGED <<cs, op, seq, acc, netVars, forked>>

\* call_connect succeeding: socket, fcntl, connect and the credentials
\* write take the lowest connection the daemon has not yet accepted; the
\* session becomes CALL_READY on it.  Each of the four may instead fail
\* with CKR_DEVICE_ERROR, closing the socket and leaving CALL_INVALID
\* (the failing disjunct of CallLookup).
CallConnect(k) ==
    /\ conn[k] = "unused"
    /\ \A d \in Conns : d < k => conn[d] # "unused"
    /\ conn' = [conn EXCEPT ![k] = "open"]

\* rpc_C_Initialize's daemon call: CKR_CRYPTOKI_ALREADY_INITIALIZED from
\* the daemon (another process initialized it) counts as success.
InitializeResult(o, r) ==
    IF o = "C_Initialize" /\ r = "CKR_CRYPTOKI_ALREADY_INITIALIZED" THEN "CKR_OK" ELSE r

\* call_lookup, then call_prepare and the IN_* writers of the call.
\* A missing CallState is created (calloc may fail); a CALL_INVALID one
\* connects (socket, fcntl, connect, credentials: any may fail).
CallLookup(a) ==
    LET p  == ProcOf(a)
        c0 == IF cs[a] = NoCs THEN CallCreate ELSE cs[a]
        Prepare(c) ==
            \/ \E r \in PrepErrors(op[a]) :
                 /\ cs' = [cs EXCEPT ![a] = CallDone(c)]
                 /\ Finish(a, r)
            \/ /\ cs' = [cs EXCEPT ![a] = [c EXCEPT !.status = "CALL_PREP"]]
               /\ pc' = [pc EXCEPT ![a] = "send"]
               /\ UNCHANGED <<procVars, ret>>
    IN
    /\ pc[a] = "lookup"
    /\ \/ /\ cs[a] = NoCs
          /\ Finish(a, "CKR_HOST_MEMORY")
          /\ UNCHANGED <<cs, conn>>
       \/ /\ c0.status = "CALL_INVALID"
          /\ Finish(a, "CKR_DEVICE_ERROR")
          /\ cs' = [cs EXCEPT ![a] = c0]
          /\ UNCHANGED conn
       \/ /\ c0.status = "CALL_INVALID" /\ pathSet[p]
          /\ \E k \in Conns :
               /\ CallConnect(k)
               /\ Prepare([status |-> "CALL_READY", sock |-> k])
       \/ /\ c0.status = "CALL_READY"
          /\ Prepare(c0)
          /\ UNCHANGED conn
    /\ UNCHANGED <<op, seq, acc, reqQ, respQ, forked>>

\* call_run and the sending half of call_send_recv: the response message
\* is allocated, then the length and the request are written.
CallSend(a) ==
    LET c == cs[a].sock
        fail(x, r) == /\ cs' = [cs EXCEPT ![a] = CallDone(x)]
                      /\ Finish(a, r)
                      /\ UNCHANGED reqQ
    IN
    /\ pc[a] = "send"
    /\ \/ fail(cs[a], "CKR_HOST_MEMORY")
       \/ /\ conn[c] = "closed"                       \* write: EPIPE
          /\ fail(CallDisconnect(cs[a]), "CKR_DEVICE_ERROR")
       \/ /\ IoErrors /\ conn[c] = "open"             \* write: other errno
          /\ fail(cs[a], "CKR_DEVICE_ERROR")
       \/ /\ conn[c] = "open"
          /\ reqQ' = [reqQ EXCEPT ![c] =
                        Append(@, [id |-> op[a], from |-> a, seq |-> seq[a]])]
          /\ cs' = [cs EXCEPT ![a].status = "CALL_TRANSIT"]
          /\ pc' = [pc EXCEPT ![a] = "recv"]
          /\ UNCHANGED <<procVars, ret>>
    /\ UNCHANGED <<op, seq, acc, conn, respQ, forked>>

\* The receiving half of call_send_recv, then call_run, the OUT_* readers
\* and call_done.  A whole response frame is read; read() returning 0 is
\* the daemon closing the connection.
RecvFrame(a) ==
    LET c == cs[a].sock
        f == Head(respQ[c])
        r == CallRun(op[a], f)
    IN
    /\ respQ[c] # <<>>
    /\ respQ' = [respQ EXCEPT ![c] = Tail(@)]
    /\ cs' = [cs EXCEPT ![a] = CallDone(cs[a])]
    /\ acc' = [acc EXCEPT ![a] = IF r = "CKR_OK" THEN f ELSE NoFrame]
    /\ Finish(a, InitializeResult(op[a], r))

RecvEof(a) ==
    LET c == cs[a].sock IN
    /\ respQ[c] = <<>> /\ conn[c] = "closed"
    /\ cs' = [cs EXCEPT ![a] = CallDone(CallDisconnect(@))]
    /\ Finish(a, "CKR_DEVICE_ERROR")
    /\ UNCHANGED <<acc, respQ>>

RecvError(a) ==
    /\ IoErrors
    /\ cs' = [cs EXCEPT ![a] = CallDone(@)]
    /\ Finish(a, "CKR_DEVICE_ERROR")
    /\ UNCHANGED <<acc, respQ>>

\* read () returns: a whole frame, or 0 because the daemon closed.
RecvAnswer(a) ==
    /\ pc[a] = "recv"
    /\ RecvFrame(a) \/ RecvEof(a)
    /\ UNCHANGED <<op, seq, conn, reqQ, forked>>

CallRecv(a) ==
    \/ RecvAnswer(a)
    \/ /\ pc[a] = "recv"
       /\ RecvError(a)
       /\ UNCHANGED <<op, seq, conn, reqQ, forked>>

\* call_destroy, the pthread key destructor, runs when a thread exits; the
\* slot is then taken by a new thread.  The daemon sees the connection
\* close once no thread of any process holds it.
CallDestroy(a) ==
    /\ Running(a) /\ pc[a] = "idle" /\ cs[a] # NoCs
    /\ cs' = [cs EXCEPT ![a] = NoCs]
    /\ LET c == cs[a].sock IN
       conn' = IF c # NoSock /\ conn[c] = "open"
                  /\ \A b \in Actors \ {a} : cs[b] = NoCs \/ cs[b].sock # c
               THEN [conn EXCEPT ![c] = "closed"]
               ELSE conn
    /\ UNCHANGED <<procVars, pc, op, ret, seq, acc, reqQ, respQ, forked>>

\* fork () from a parent thread that is not inside a PKCS#11 call.  The
\* child gets a copy of the process globals (init_mutex as it was, its
\* owner absent from the child) and of the forking thread's CallState,
\* whose socket is the same connection as the parent's.
Fork(a) ==
    /\ ForkEnabled /\ ~forked /\ a \in Threads /\ pc[a] = "idle"
    /\ forked' = TRUE
    /\ initialized' = [initialized EXCEPT !["child"] = initialized["parent"]]
    /\ initPid' = [initPid EXCEPT !["child"] = initPid["parent"]]
    /\ pathSet' = [pathSet EXCEPT !["child"] = pathSet["parent"]]
    /\ lockHolder' = [lockHolder EXCEPT !["child"] = lockHolder["parent"]]
    /\ cs' = [cs EXCEPT ![Child] = cs[a]]
    /\ UNCHANGED <<pc, op, ret, seq, acc, netVars>>

-----------------------------------------------------------------------------
(* The daemon end of each connection (spec-modelled).  It answers the     *)
(* requests of a connection in order, with a response of the request's   *)
(* call id or an error response; it may close a connection at any time.   *)

DaemonServe(c) ==
    LET q == Head(reqQ[c]) IN
    /\ conn[c] = "open" /\ reqQ[c] # <<>>
    /\ reqQ' = [reqQ EXCEPT ![c] = Tail(@)]
    /\ \E r \in {[id |-> q.id, code |-> "CKR_OK"]} \cup
                [id : {ErrorCallId}, code : DaemonErrorsFor(q.id)] :
         respQ' = [respQ EXCEPT ![c] =
                     Append(@, [id |-> r.id, code |-> r.code,
                                from |-> q.from, seq |-> q.seq])]
    /\ UNCHANGED <<procVars, cs, pc, op, ret, seq, acc, conn, forked>>

DaemonClose(c) ==
    /\ conn[c] = "open"
    /\ conn' = [conn EXCEPT ![c] = "closed"]
    /\ reqQ' = [reqQ EXCEPT ![c] = <<>>]
    /\ UNCHANGED <<procVars, cs, pc, op, ret, seq, acc, respQ, forked>>

-----------------------------------------------------------------------------
Next ==
    \/ \E a \in Actors :
         \/ \E o \in Ops : BeginCall(a, o)
         \/ BeginInitialize(a) \/ BeginFinalize(a) \/ Locked(a)
         \/ CallLookup(a) \/ CallSend(a) \/ CallRecv(a)
         \/ CallDestroy(a) \/ Fork(a)
    \/ \E c \in Conns : DaemonServe(c) \/ DaemonClose(c)

Spec == Init /\ [][Next]_vars

-----------------------------------------------------------------------------
TypeOK ==
    /\ initialized \in [Procs -> BOOLEAN]
    /\ initPid \in [Procs -> Procs \cup {NoPid}]
    /\ pathSet \in [Procs -> BOOLEAN]
    /\ lockHolder \in [Procs -> Actors \cup {NoActor}]
    /\ cs \in [Actors -> {NoCs} \cup [status : Statuses, sock : Conns \cup {NoSock}]]
    /\ pc \in [Actors -> {"idle", "lock", "lookup", "send", "recv"}]
    /\ op \in [Actors -> CallIds]
    /\ ret \in [Actors -> RetCodes]
    /\ seq \in [Actors -> 0..MaxCalls]
    /\ acc \in [Actors -> Responses \cup {NoFrame}]
    /\ conn \in [Conns -> {"unused", "open", "closed"}]
    /\ reqQ \in [Conns -> Seq(Requests)]
    /\ respQ \in [Conns -> Seq(Responses)]
    /\ forked \in BOOLEAN

\* A call whose call_run returned CKR_OK accepted the daemon's answer to
\* the request this very call sent (spec 4.3 and 8: one request in
\* flight per session, threads never see each other's responses).
ResponseMatchesRequest ==
    \A a \in Actors : acc[a] # NoFrame => acc[a].from = a /\ acc[a].seq = seq[a]

\* A thread about to run call_connect finds the socket path set: the
\* assert (pkcs11_socket_path[0]) of call_connect holds.  The path is
\* cleared together with pkcs11_initialized by C_Finalize, by a failed
\* C_Initialize (done:), and copied with it by fork; a thread that runs
\* its calls one after the other relies on every one of these keeping the
\* two in step.  BEGIN_CALL reads pkcs11_initialized without init_mutex,
\* so a second thread of the process can clear the path between the
\* check and call_connect.
ConnectHasPath ==
    \A a \in Actors :
        pc[a] = "lookup" /\ (cs[a] = NoCs \/ cs[a].status = "CALL_INVALID")
            => pathSet[ProcOf(a)]

=============================================================================
