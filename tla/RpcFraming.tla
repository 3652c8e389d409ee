----------------------------- MODULE RpcFraming -----------------------------
(***************************************************************************)
(* The transport of one call session of the PKCS#11 RPC client, at the     *)
(* level of socket bytes (src/pkcs11/rpc-layer/p11-rpc-module.c,           *)
(* call_write, call_read, call_send_recv, call_done).                      *)
(*                                                                         *)
(* RpcSession moves whole frames; here a frame is a sequence of units,     *)
(* HdrLen of length header then the body, and every read() or write()      *)
(* moves any number of them.  A unit carries the ghost fields m (the call  *)
(* whose request or response it belongs to), k and i (its position in     *)
(* the frame); only the properties and the length decoder look at them.   *)
(* One thread is modelled: a session's socket is used by its own thread    *)
(* only.  The daemon end is not under src/: DaemonServe and DaemonClose    *)
(* are modelled from spec.md sections 4.3 and 6.                           *)
(***************************************************************************)
EXTENDS Integers, Sequences, SequencesExt

CONSTANTS
    HdrLen,       \* units of the 4-byte length prefix
    ReqLen,       \* units of a request body
    RespLen,      \* units of a response body
    GarbageLens,  \* lengths decoded from units that are not a length prefix
    MaxCalls,     \* bound: calls the thread makes
    MaxConns,     \* bound: connections the daemon accepts
    WriteErrors,  \* TRUE: write () may fail with an errno other than
                  \* EPIPE, EAGAIN or EINTR
    ReadErrors,   \* TRUE: read () may fail likewise
    ReserveFails  \* TRUE: gkr_buffer_reserve of the response may fail

ASSUME /\ HdrLen \in Nat \ {0} /\ ReqLen \in Nat \ {0} /\ RespLen \in Nat \ {0}
       /\ GarbageLens \subseteq Nat
       /\ MaxCalls \in Nat \ {0} /\ MaxConns \in Nat \ {0}
       /\ {WriteErrors, ReadErrors, ReserveFails} \subseteq BOOLEAN

Conns  == 1..MaxConns
NoSock == -1
Statuses == {"CALL_INVALID", "CALL_READY", "CALL_PREP", "CALL_TRANSIT", "CALL_PARSE"}
Units  == [m : 1..MaxCalls, k : {"req", "resp"}, i : 1..HdrLen + ReqLen + RespLen]

\* The units of the frame of call m's request or response.
Frame(m, k, len) == [j \in 1..HdrLen + len |-> [m |-> m, k |-> k, i |-> j]]

VARIABLES
    status,   \* cs->call_status
    sock,     \* cs->socket: a connection or NoSock
    pc,       \* where the thread is: idle, wlen, wbody, rlen, reserve,
              \* rbody, or abort (an assert failed)
    left,     \* len argument of the running call_write / call_read
    got,      \* units read into buf by call_read (cs, buf, 4)
    len,      \* the response length call_send_recv decoded
    calls,    \* calls started
    ret,      \* value the last call returned
    conn,     \* daemon side of each connection: unused, open, closed
    up,       \* units written and not yet consumed by the daemon
    down      \* units the daemon sent and the client has not read

vars == <<status, sock, pc, left, got, len, calls, ret, conn, up, down>>

-----------------------------------------------------------------------------
\* gkr_buffer_decode_uint32 of the four bytes read: a response's length
\* prefix gives its length; any other bytes give some other number.
DecodedLens(s) ==
    IF \E m \in 1..MaxCalls : s = SubSeq(Frame(m, "resp", RespLen), 1, HdrLen)
    THEN {RespLen} ELSE GarbageLens

\* call_done, once the socket is s: CALL_INVALID when it was closed,
\* else CALL_READY; the call returns r.
CallDone(s, r) ==
    /\ sock' = s
    /\ status' = IF s = NoSock THEN "CALL_INVALID" ELSE "CALL_READY"
    /\ ret' = r
    /\ pc' = "idle"
    /\ left' = 0

\* call_lookup (connecting when CALL_INVALID: socket, fcntl, connect or
\* the credentials may fail), call_prepare, call_run and the start of
\* call_send_recv: CALL_TRANSIT, then call_write (cs, buf, 4).
Begin ==
    LET Send == /\ status' = "CALL_TRANSIT"
                /\ pc' = "wlen" /\ left' = HdrLen
                /\ UNCHANGED ret
    IN
    /\ pc = "idle" /\ calls < MaxCalls
    /\ calls' = calls + 1
    /\ \/ /\ status = "CALL_READY"
          /\ Send
          /\ UNCHANGED <<sock, conn>>
       \/ /\ status = "CALL_INVALID"
          /\ ret' = "CKR_DEVICE_ERROR"
          /\ UNCHANGED <<status, sock, pc, left, conn>>
       \/ /\ status = "CALL_INVALID"
          /\ \E c \in Conns :
               /\ conn[c] = "unused"
               /\ \A d \in Conns : d < c => conn[d] # "unused"
               /\ conn' = [conn EXCEPT ![c] = "open"]
               /\ sock' = c
          /\ Send
    /\ UNCHANGED <<got, len, up, down>>

\* One write () of call_write.  r > 0 advances the data; EPIPE closes the
\* socket; another errno returns CKR_DEVICE_ERROR with the socket open.
\* When the prefix is written the body follows; when the body is, the
\* reading half starts with call_read (cs, buf, 4).
CallWrite ==
    LET k    == IF pc = "wlen" THEN HdrLen ELSE HdrLen + ReqLen
        done == k - left
        req  == Frame(calls, "req", ReqLen)
    IN
    /\ pc \in {"wlen", "wbody"}
    /\ \/ /\ conn[sock] = "open"
          /\ \E r \in 1..left :
               /\ up' = [up EXCEPT ![sock] = @ \o SubSeq(req, done + 1, done + r)]
               /\ IF r < left
                  THEN /\ left' = left - r /\ UNCHANGED <<pc, got>>
                  ELSE IF pc = "wlen"
                  THEN /\ pc' = "wbody" /\ left' = ReqLen /\ UNCHANGED got
                  ELSE /\ pc' = "rlen" /\ left' = HdrLen /\ got' = <<>>
          /\ UNCHANGED <<status, sock, ret>>
       \/ /\ conn[sock] = "closed"
          /\ CallDone(NoSock, "CKR_DEVICE_ERROR")
          /\ UNCHANGED <<up, got>>
       \/ /\ WriteErrors /\ conn[sock] = "open"
          /\ CallDone(sock, "CKR_DEVICE_ERROR")
          /\ UNCHANGED <<up, got>>
    /\ UNCHANGED <<len, calls, conn, down>>

\* One read () of call_read.  r > 0 advances the data; 0 (the daemon
\* closed and everything it sent was read) closes the socket; another
\* errno returns CKR_DEVICE_ERROR with the socket open.  A whole body
\* ends call_send_recv, and call_run (CALL_PARSE, the call-id and error
\* checks) and call_done end the call.
CallRead ==
    /\ pc \in {"rlen", "rbody"}
    /\ \/ /\ down[sock] # <<>>
          /\ \E r \in 1..Min({left, Len(down[sock])}) :
               /\ down' = [down EXCEPT ![sock] = SubSeq(@, r + 1, Len(@))]
               /\ IF pc = "rlen"
                  THEN /\ got' = got \o SubSeq(down[sock], 1, r)
                       /\ left' = left - r
                       /\ pc' = IF r = left THEN "reserve" ELSE pc
                       /\ UNCHANGED <<status, sock, ret>>
                  ELSE IF r < left
                  THEN /\ left' = left - r
                       /\ UNCHANGED <<status, sock, pc, ret, got>>
                  ELSE /\ \E r2 \in {"CKR_OK", "CKR_DEVICE_ERROR"} : CallDone(sock, r2)
                       /\ UNCHANGED got
       \/ /\ down[sock] = <<>> /\ conn[sock] = "closed"
          /\ CallDone(NoSock, "CKR_DEVICE_ERROR")
          /\ UNCHANGED <<down, got>>
       \/ /\ ReadErrors
          /\ CallDone(sock, "CKR_DEVICE_ERROR")
          /\ UNCHANGED <<down, got>>
    /\ UNCHANGED <<len, calls, conn, up>>

\* call_send_recv between the two reads: decode the length and reserve
\* the response area (HOST_MEMORY when that fails), then
\* call_read (cs, resp->buffer.buf, len), which asserts len > 0.
Reserve ==
    /\ pc = "reserve"
    /\ \E n \in DecodedLens(got) :
         /\ len' = n
         /\ \/ /\ ReserveFails
               /\ CallDone(sock, "CKR_HOST_MEMORY")
            \/ /\ n = 0
               /\ pc' = "abort"
               /\ UNCHANGED <<status, sock, left, ret>>
            \/ /\ n > 0
               /\ pc' = "rbody" /\ left' = n
               /\ UNCHANGED <<status, sock, ret>>
    /\ UNCHANGED <<got, calls, conn, up, down>>

-----------------------------------------------------------------------------
(* The daemon end of each connection (spec-modelled): it takes a whole    *)
(* request frame off the stream and answers it with a whole response     *)
(* frame; it may close a connection at any time, and the bytes it had     *)
(* not read are then lost.                                                *)

DaemonServe(c) ==
    /\ conn[c] = "open"
    /\ \E m \in 1..MaxCalls :
         /\ IsPrefix(Frame(m, "req", ReqLen), up[c])
         /\ up' = [up EXCEPT ![c] = SubSeq(@, HdrLen + ReqLen + 1, Len(@))]
         /\ down' = [down EXCEPT ![c] = @ \o Frame(m, "resp", RespLen)]
    /\ UNCHANGED <<status, sock, pc, left, got, len, calls, ret, conn>>

DaemonClose(c) ==
    /\ conn[c] = "open"
    /\ conn' = [conn EXCEPT ![c] = "closed"]
    /\ up' = [up EXCEPT ![c] = <<>>]
    /\ UNCHANGED <<status, sock, pc, left, got, len, calls, ret, down>>

-----------------------------------------------------------------------------
Init ==
    /\ status = "CALL_INVALID"        \* call_create
    /\ sock = NoSock
    /\ pc = "idle"
    /\ left = 0
    /\ got = <<>>
    /\ len = 0
    /\ calls = 0
    /\ ret = "none"
    /\ conn = [c \in Conns |-> "unused"]
    /\ up = [c \in Conns |-> <<>>]
    /\ down = [c \in Conns |-> <<>>]

Next ==
    \/ Begin \/ CallWrite \/ CallRead \/ Reserve
    \/ \E c \in Conns : DaemonServe(c) \/ DaemonClose(c)

Spec == Init /\ [][Next]_vars

-----------------------------------------------------------------------------
TypeOK ==
    /\ status \in Statuses
    /\ sock \in Conns \cup {NoSock}
    /\ pc \in {"idle", "wlen", "wbody", "rlen", "reserve", "rbody", "abort"}
    /\ left \in Nat
    /\ got \in Seq(Units)
    /\ len \in {0, RespLen} \cup GarbageLens
    /\ calls \in 0..MaxCalls
    /\ ret \in {"none", "CKR_OK", "CKR_DEVICE_ERROR", "CKR_HOST_MEMORY"}
    /\ conn \in [Conns -> {"unused", "open", "closed"}]
    /\ up \in [Conns -> Seq(Units)]
    /\ down \in [Conns -> Seq(Units)]

\* A call that leaves the session CALL_READY leaves its connection on a
\* frame boundary with nothing owed in either direction, so the next call
\* starts with a fresh length prefix (spec.md section 7: transport errors
\* force the session to Invalid; a session returns to Ready only when the
\* bytes were fully drained).  It depends on every error path of
\* call_write, call_read and call_send_recv that keeps the socket.
ReadyOnlyWhenDrained ==
    pc = "idle" /\ status = "CALL_READY" =>
        up[sock] = <<>> /\ down[sock] = <<>>

=============================================================================
