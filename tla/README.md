# TLA+ models of gnome-keyring (PKCS#11 RPC client and prompting)

This directory holds TLA+ models of the code under `src/`, the TLC configurations
that check them, and `PROJECT.json`, which maps every modelled definition to the
source lines it translates and lists the runs, mutants, findings and hazards.

## The system and its parts

| Part | Source | State | Interacts with |
|---|---|---|---|
| RPC call session, transport, process init | `src/pkcs11/rpc-layer/p11-rpc-module.c` | per thread `CallState` (socket, status INVALID/READY/PREP/TRANSIT/PARSE, request/response buffers); per process `pkcs11_initialized`, `pkcs11_initialized_pid`, `pkcs11_socket_path`, `init_mutex` | the daemon over a Unix socket; other threads through the process state; a forked child through copied memory and the shared socket |
| RPC call catalog and argument codec | same file, the 66 `rpc_C_*` wrappers, `IN_*`/`OUT_*` macros, `proto_read_*` | `_ret`, the caller's buffers and lengths, the parse position in the response | the call session (`BEGIN_CALL` … `END_CALL` around `call_run`); the daemon's answer |
| Prompt process lifecycle | `src/daemon/prompt/gkd-prompt.c` | `pid`, I/O watches, `completed`, `failure`, `input`/`output` | the GLib main loop (child watch, I/O callbacks), the attention queues |
| Attention queues | same file, `*_attention_req` | `attention_reqs` hash of per-window queues, the active request, a sync waiter's `GCond` | the main loop (timeouts, the prompt's `completed` signal), waiting threads |
| Ask serialization | `src/ui/gkr-ask-daemon.c` | `current_ask`, `wait_condition` | cooperative `gkr_async` threads |
| DER key and cipher parsing | `src/pkcs11/gck/gck-data-der.c` | none (pure conversions between DER and gcrypt s-expressions) | libtasn1, libgcrypt; the files its callers load and save |
| Interface headers, GType template | `gck-transaction.h`, `gkr-pkcs11-rsa.h`, `gck-ssh-public-key.h`, `gcr-zzz.c` | none | — |

A PKCS#11 call walks `call_lookup` (create the CallState, connect when INVALID)
→ `call_prepare` and the `IN_*` writers → `call_run`/`call_send_recv` (write
length and request, read length and response) → the `OUT_*` readers →
`call_done` (READY, or INVALID if the socket was closed). `C_Initialize` and
`C_Finalize` make the same walk while holding `init_mutex`, then set or clear
the process state. Only `EPIPE` on write and `read () == 0` close the socket;
every other transport error leaves it open.

## Modules

* `RpcSession.tla` — the call session engine. VARIABLES: `cs` (each actor's
  CallState as `[status, sock]` or `NoCs` when `pthread_getspecific` is NULL),
  `pc` (where in a call each actor is), `op`, `ret`, the per-process
  `initialized`, `initPid`, `pathSet`, `lockHolder`, and per connection the
  daemon state `conn` and the frame queues `reqQ`/`respQ`. Ghost variables
  `seq`/`acc` and the `from`/`seq` fields of frames name the request an answer
  belongs to; they are not on the wire. Actions: `BeginCall` (BEGIN_CALL's
  unlocked check), `BeginInitialize`, `BeginFinalize`, `Locked` (the prologue
  of C_Initialize under `init_mutex`), `CallLookup` (call_lookup, call_create,
  call_connect, call_prepare and the IN_* writers), `CallSend` (the write half
  of call_send_recv), `CallRecv` = `RecvFrame` ∨ `RecvEof` ∨ `RecvError` (the
  read half, call_run and call_done; `RecvAnswer` = `RecvFrame` ∨ `RecvEof`
  is the part of it `read ()` is bound to do), `CallDestroy` (the key destructor at
  thread exit), `Fork`, and the spec-modelled daemon `DaemonServe` and
  `DaemonClose`. `Finish` is the common end of a call: END_CALL, or the
  `done:` bookkeeping of C_Initialize (`InitializeDone`) or the clearing
  of C_Finalize (`FinalizeDone`). `CallConnect` is call_connect's success
  path, and `InitializeResult` maps the daemon's
  CKR_CRYPTOKI_ALREADY_INITIALIZED to success for C_Initialize.
* `MC_RpcSession.tla` — model values for threads and small call-id sets.
* `RpcFraming.tla` — the transport of one session at the level of socket
  bytes, for one thread (a session's socket is its own thread's). A frame
  is `HdrLen` units of length prefix and a body; every unit carries ghost
  fields naming the call and position it belongs to. VARIABLES: `status`
  and `sock` (the CallState), `pc` (idle, writing the prefix or the body,
  reading the prefix, `reserve`, reading the body, or `abort` for a failed
  assert), `left` (the `len` of the running `call_write`/`call_read`),
  `got` (the four bytes read), `len` (the decoded length), `calls`, `ret`,
  and per connection `conn`, `up` (written, not yet read by the daemon) and
  `down` (sent by the daemon, not yet read). Actions: `Begin` (call_lookup
  with call_connect, call_prepare, the start of call_send_recv), `CallWrite`
  and `CallRead` (one `write ()`/`read ()` each: any partial count, EPIPE or
  EOF closing the socket, any other errno returning with it open),
  `Reserve` (decoding the prefix, `gkr_buffer_reserve`, and
  `call_read`'s `assert (len > 0)`), ending through `CallDone`; the
  spec-modelled daemon `DaemonServe` (takes one whole request frame off the
  stream, appends one whole response) and `DaemonClose` (unread request
  bytes are lost). Bytes that are not a length prefix decode to a length in
  `GarbageLens`. EAGAIN/EINTR are stuttering steps and are left out.
* `MC_RpcFraming.tla` — `GarbageLens = {0, 2}`.

* `CallCatalog.tla` — the call catalog. Each `rpc_C_<name>` wrapper is an
  `Entry` of its parameter kinds, its `return_val_if_fail` prechecks and its
  macro sequence (`C_GetInfo` … `C_GenerateRandom`, collected in `Catalog`,
  the analogue of `functionList`). One behaviour is one call: `Init` picks
  the wrapper and an abstract argument vector (`ArgChoices`: a pointer is
  NULL or not, a length/capacity is 0..`MaxLen`, a mechanism has no, sane or
  unserializable parameters), `pc` walks the macros and each macro kind is
  an action (`Begin`, `InScalar`, `InByteArray`, `InBuffer`,
  `InAttributes`, `InMechanismType`, `InMechanism`, `Process`, `OutScalar`,
  `OutByteArray`, `OutUlongArray`, `SetCount`, `OutAttributes`,
  `OutReturnCode`, `End` = `call_done`). The readers `proto_read_byte_array`,
  `proto_read_ulong_array`, `proto_read_attribute_array` and
  `proto_write_mechanism` are the operators `ReadByteArray`,
  `ReadUlongArray`, `ReadAttributeArray`, `WriteMechanism`. The daemon's
  answer (`DaemonAnswers`, spec-modelled from spec §4.2/§4.4) is a
  transport error or a code with, per sized slot, the true length; an array
  is answered "invalid" exactly when the capacity sent for it was 0. A
  response `short` ends before the first field the catalog reads.
  Allocation failure is a nondeterministic `CKR_HOST_MEMORY` at every write.
* `AttentionSpec.tla` — what the attention queues promise: each window has a
  FIFO of requests and shows at most one (`Join`, `Show`, `Skip`,
  `Release`).
* `AttentionQueue.tla` — the attention queues of `gkd-prompt.c`. VARIABLES:
  `win` (att->window_id), `reqPc` (each requesting thread), `pending`
  (timeouts not yet dispatched), `hash` (keys of `attention_reqs`), `queue`,
  per request `active`, `prompt`, `declined`, `freed`, `attCond`
  (att->cond), `condFreed` (the thread's `g_cond_free`), and the main loop's
  position `mainW`/`mainCont` inside `next_attention_req` and the
  `done_attention_req` that called it. Actions: `RequestAsync`,
  `RequestSync`, `Service` (service_attention_req), `NextEmpty`,
  `NextDecline`, `NextShow` (the three outcomes of one pass of
  next_attention_req), `Complete` (done_attention_req), `Dispose`
  (free_attention_req as the closure notify), `SyncReturn`,
  `SpuriousWakeup`. `Refines` checks it against `AttentionSpec` with the
  mapping seen = serviced requests, aqueue = `queue`, current = the active
  request of each window.
* `PromptLifecycle.tla` — one `GkdPrompt` from `gkd_prompt_init` to
  `gkd_prompt_dispose`. VARIABLES: `pv` (the private fields the control
  flow reads: `pid`, `input`, `inData`, `output` as none/valid/freed,
  `ioTag`, `completed`, `failure`, `transport` as none/nokey/key for the
  `TransportCrypto` and its cached key, `inTransport` for the input's
  "transport" group, and `aborted` for a failed `g_assert`),
  `pipes` (egg_spawn's stdin/stdout/stderr watches), `child` and `status`
  (every tool process spawned, by generation), `hup` (processes sent
  SIGHUP by `kill_process`), `spawned`, `shown`, `ownerRef`, `disposed`,
  `doubleFree` and `readFreed` (a getter read the freed output). Actions: `Display` (next_attention_req's
  `display_async_prompt`), `OnStandardInput`, `OnStandardRead`,
  `OnIoCompleted`, `ChildExit` (the tool process ending), `OnChildExited`,
  `Unref` (free_attention_req's `g_object_unref`), `Dispose` (the last
  `g_object_unref`: `gkd_prompt_dispose` and then `gkd_prompt_finalize`,
  whose asserts on `pid` and the freed fields set `aborted`). The helpers
  `MarkCompleted`, `MarkFailed`, `MarkResponded`, `DisplayAsync`, `Clear`
  and `SoftReset` are the static functions of the same names applied to
  `pv`, so each callback is one step with every call it makes. The
  prompt has no caller under `src/`; a "responded" override that soft-resets
  and returns TRUE (shows it again) is enabled by the constant `Redisplay`.
  The caller's reading of the response is the environment too: from its
  "completed" handler on, while it holds its reference, it may call
  `GetPassword` (`gkd_prompt_get_password` with
  `get_transport_password` and `calculate_transport_key`, for a plain or an
  encrypted password) or `ReadResponse(g)` for every other getter.
  `ReadsOutput` says which getters dereference the output key file in
  which state. `PrepareTransportCrypto` runs inside `DisplayAsync`
  (prepare_input_data), and `Clear` frees the `TransportCrypto`. The
  DH arithmetic and the encryption are not modelled: the tool is assumed
  to send its public value with an encrypted password, and the key
  derivation and decryption are taken to succeed.
* `DerKeyCodec.tla` — the compiled key codec of `gck-data-der.c`. A DER
  blob is a record of its ASN.1 type, its INTEGER fields under their ASN.1
  names and `absent`, the one field whose `gck_data_asn1_read_*` fails;
  decoding succeeds when the type is the one asked for. A gcrypt key is a
  record of the s-expression's parameters. The readers
  (`ReadPrivateKeyRsa` with the prime-swap `RsaFixup`, `ReadPrivateKeyDsa`,
  `ReadPrivateKeyDsaParts` computing y = g^x mod p with `PowM`,
  `ReadPublicKeyRsa`, `ReadPublicKeyDsa`, `ReadPublicKeyDsaParts`,
  `ReadPublicKeyInfo` (a SubjectPublicKeyInfo: OID dispatch to the RSA
  reader or to the DSA parts reader with `algorithm.parameters`), and the
  RSA-then-DSA dispatchers
  `ReadPrivateKey`/`ReadPublicKey`) return the UNRECOGNIZED/FAILURE/SUCCESS
  protocol of the code; the writers (`WritePrivateKeyRsa`, `…Dsa`,
  `…DsaPart`, `…DsaParams`, `WritePublicKeyRsa`/`…Dsa`, and the dispatchers
  `WritePrivateKey`/`WritePublicKey` with their NULL for a key of the other
  kind) return a blob or `NULL`. `InvM` and `PowM` are gcrypt's
  `gcry_mpi_invm` and `gcry_mpi_powm` by their definitions. VARIABLES
  `file`, `key`, `ret` are a caller holding one file and the key it loaded;
  the actions `LoadPrivateKey`, `LoadPublicKey`, `LoadPrivateKeyDsaParts`,
  `LoadPublicKeyInfo`,
  `SavePrivateKey`, `SavePublicKey`, `SavePrivateKeyDsaParts` call one entry
  point each. `Pkcs1Valid` (RFC 8017 A.1.2) and `GcryptValid` (what gcrypt
  expects: p < q, u = p^-1 mod q, y = g^x mod p) are reference definitions.
* `MC_CallCatalog.tla`, `MC_AttentionQueue.tla`, `MC_PromptLifecycle.tla`,
  `MC_DerKeyCodec.tla` — model values and bounds.

## Runs

| Run | cfg | Expect | What it shows |
|---|---|---|---|
| sessions | `RpcSession_forkpass.cfg` | pass | One thread per process, forking, with every allocation, connect, write and read failure, failed `C_Initialize` and `C_Finalize`: `TypeOK`, `ConnectHasPath` (a call that passed BEGIN_CALL's check finds a socket path at `call_connect`: the path is cleared and copied exactly with `pkcs11_initialized`). The same invariant fails in `finalize_race` with two threads, so the race needs the concurrency. |
| framing_drain | `RpcFraming_drain.cfg` | violation | `ReadyOnlyWhenDrained` fails: a write error other than EPIPE (the shortest trace: one unit of the prefix written), a read error other than EOF, or a failed response reserve returns with the socket open, and `call_done` makes the session READY with part of a request or an unread response on the stream. Each of the three switches alone (`WriteErrors`, `ReadErrors`, `ReserveFails`) gives a violation; with all three FALSE the property holds over the 219 reachable states, so no other path (partial counts, EPIPE, EOF, the daemon closing) leaves bytes behind. |
| finalize_race | `RpcSession_finalize.cfg` | violation | `ConnectHasPath` fails: a thread past BEGIN_CALL's unlocked check reaches call_connect after another thread cleared the socket path (`assert (pkcs11_socket_path[0])`). |
| catalog | `CallCatalog_all.cfg` | pass | All 66 wrappers over every abstract argument vector and daemon answer: `TypeOK`; `NoBufferOverrun` (a reader copies only when the caller's capacity holds the daemon's length); `TwoPhaseLength` (a reader returning OK or BUFFER_TOO_SMALL reports the true length, -1 for an invalid attribute, at most it after the mechanism purge). |
| return_code | `CallCatalog_daemonsuccessreturned.cfg` | violation | `DaemonSuccessReturned` fails for C_GetAttributeValue: OUT_RETURN_CODE returns the reader's TRUE, i.e. CKR_CANCEL. |
| attention | `AttentionQueue.cfg` | pass | Three requests (one sync), two windows, declining callbacks, prompts destroyed at any time, spurious wakeups: `TypeOK`, `Refines` (AttentionSpec), `EveryRequestServed`. |
| sync_hang | `AttentionQueue_syncwait.cfg` | violation | `SyncWaiterReturns` fails: free_attention_req clears att->cond without a broadcast when a sync request's prompt is destroyed while shown or its callback declines. |
| prompt | `PromptLifecycle.cfg` | pass | A tool exiting normally, pipes without errors, two rounds: `TypeOK`, `NoAssertAbort` (no g_assert fires in any dispatch order, including the late child watch of the process a soft reset killed), `CompletedWithResponse`, `PromptCompletes`. The caller's getters are modelled for which output they read (`NoFreedOutputUse`, run `prompt_double_free`). |
| prompt_child_failure | `PromptLifecycle_childfail.cfg` | violation | `NoAssertAbort` fails: the tool exits non-zero, its child watch runs before the pipes finish, mark_failed emits completed, and on_io_completed's `g_assert (!completed)` aborts. |
| prompt_double_free | `PromptLifecycle_doublefree.cfg` | violation | `NoFreedOutputUse` fails: an unparsable output is freed at line 259 but the pointer kept. The caller's `get_unlock_options` or `get_unlock_auto` (no failure check), or `is_widget_selected` (its failure test is the wrong way round, line 727), then reads the freed key file, and dispose frees it again. |
| der_keys | `DerKeyCodec.cfg` | pass | Every key file of the model loaded by every reader and every loaded key saved by every writer: `TypeOK`, `LoadedKeyUsable` (a key read from a well-formed file is in gcrypt's form, whichever order the file has its primes in), `SavedFileReadsBack` (a written file is read back as the key it was written from). |
| pkcs1_coefficient | `DerKeyCodec_pkcs1.cfg` | violation | `SavedRsaIsPkcs1` fails: the RSA writer stores gcrypt's u = p^-1 mod q as the PKCS#1 coefficient, which is prime2^-1 mod prime1 (p=3, q=7: 5 written, 1 required). gnome-keyring's own reader hides it by recomputing u. |

Defined in the modules and found violated while modelling, but not kept as
runs (twelve runs at most): `ZeroCapacityQuery` (CallCatalog,
`MaxLen = 2`: C_EncryptFinal with a non-NULL zero-capacity buffer returns
CKR_DEVICE_ERROR), `NoFreedCondUse` (AttentionQueue with `Declines = FALSE`,
`Spurious = TRUE`: a spurious wakeup frees the GCond that
done_attention_req broadcasts on), `ResponseMatchesRequest` of RpcSession
with `Threads = {t1}`, `IoErrors = TRUE`, `ForkEnabled = FALSE` (after a
non-EOF read error the next call of the same id accepts the previous
call's answer: the consequence of the framing_drain finding at the level
of whole frames) and with `ForkEnabled = TRUE` (the forked child's
C_Initialize reuses the parent's socket), `NoAssertAbort` with `IoErrors = TRUE` (a stdin write error and
a stdout read error call mark_failed twice), and `ContractRefusedLocally`
(CallCatalog with `Calls <- MCLogin`, `MaxLen = 2`: IN_BYTE_ARRAY's
CKR_ARGUMENTS_BAD for a NULL PIN of length 1 has no goto, PROCESS_CALL
overwrites it, the PIN is sent and the daemon's CKR_OK returned, where
spec §7 says contract errors are refused before anything is sent).

Bounds: `MaxCalls` (2–3 calls per actor) is enough for a call to follow a
failed one, which is where every stale-state hazard lives; `MaxConns = 2`
lets a session reconnect once after its first connection is closed. One
ordinary call id (`MCOneOp`) is enough together with `C_Initialize` and
`C_Finalize` for the call-id check to matter. The sessions run has two
actors, a thread and its forked child, on one socket (two threads and
every fault did not finish in ten minutes); finalize_race has two threads,
which gives every two-actor interleaving of init/finalize with a call.

CallCatalog: `MaxLen = 2` gives every capacity the interesting relations to
a daemon length (smaller, equal, larger, and 0); arrays and templates of
length 0..1 cover the NULL-with-count contract and the count-0 assert. The
catalog run covers all 66 wrappers at once (22,856 states, seconds).
AttentionQueue: three requests over two windows let two requests queue
behind a shown one on the same window while the other window is served;
one sync requester is enough for every waiter hazard.
DerKeyCodec: the primes {3, 5, 7, 11} in both orders give RSA keys with
prime1 > prime2 and prime1 < prime2, each exponent in {3, 5, 7} that is
invertible modulo (p-1)(q-1); two DSA groups (p, q, g) = (7, 3, 2),
(11, 5, 3) with every x. Each file also appears with a version of 1 and
with one field unreadable, and one file decodes as no key type, so every
UNRECOGNIZED and FAILURE exit is taken. SubjectPublicKeyInfo files wrap
every RSA public file and every DSA public value with its parameters, and
include an unknown algorithm and an unreadable one. Coefficients differ between the
two conventions for 3 and 7, 3 and 11, 5 and 11, 7 and 11 (not for 3
and 5 or 5 and 7).
RpcFraming: a 2-unit prefix lets a write or read stop inside the prefix;
1-unit bodies, three calls and two connections let a misframed stream be
read by a later call and a reconnect follow a closed socket. Larger
bodies only lengthen the partial-count cases.
PromptLifecycle: `MaxSpawns = 2` gives one redisplay, which is what makes a
killed process's child watch arrive while a newer process is current; the
three pipes are modelled separately so that their ends interleave with each
other and with the child watch.

## Fairness

RpcSession: no fairness. Its runs check invariants only; whether a call
returns depends on reads ending, which whole frames always do, so the
question is asked at the byte level instead (RpcFraming, `framing_drain`).
`CHECK_DEADLOCK FALSE`: the library is passive, and a behaviour stops when
every thread has used its call budget.

RpcFraming: no fairness; its one run checks an invariant, and
`CHECK_DEADLOCK FALSE` because a thread blocked in `read ()` on a
misframed stream the daemon does not close is a real end state.

CallCatalog: weak fairness on the single call's steps (a call runs to its
return once the session is ready); the runs check invariants only, and a
finished call is a final state (`CHECK_DEADLOCK FALSE`).

AttentionQueue: weak fairness on the main loop continuing
`next_attention_req` and on dispatching each pending timeout (the GLib main
loop dispatches every ready source), on a woken thread returning, and on
`Complete` for a shown prompt: the user eventually answers a prompt on
screen. Making a request and destroying a prompt are not forced.
`CHECK_DEADLOCK FALSE`: the daemon idles waiting for further requests.

PromptLifecycle: weak fairness on `MainLoop`, every step but the caller's
getters. Each of its steps is a main-loop dispatch of a ready source, the
tool process ending or the owner letting go, and the model has no cycles,
so this only says that the main loop runs and that the tool (the user
answering it, or SIGHUP) ends. The getters are the caller's choice and
get no fairness. `CHECK_DEADLOCK
FALSE`: a disposed prompt, or an aborted daemon, takes no further step.

## Not modelled, and why

* Byte-level framing is modelled for one thread only (`RpcFraming`);
  `RpcSession`, with several threads, fork and init/finalize, moves whole
  frames. What an unparsable response header makes `call_run` do
  (`p11_rpc_message_parse` is not under `src/`) is abstracted to
  CKR_OK or CKR_DEVICE_ERROR. `call_done`'s early CKR_GENERAL_ERROR
  return that leaves a session in CALL_PARSE is listed as a hazard: it
  needs a short response and an uninitialised stack value of 0.
* SIGPIPE: the EPIPE path is modelled as if the signal were ignored.
* The message codec (`p11-rpc-message.c`, `p11_rpc_mechanism_list_purge`)
  and the daemon's dispatcher are not under `src/`: their effect enters only
  as `DaemonAnswers` and the purge's "count may drop".
* `clear_attention_reqs`/`free_attention_queue` at daemon exit, and calling
  the sync attention request from the main-loop thread (a self-deadlock by
  calling convention).
* The prompt's DH arithmetic and password decryption (only which pieces
  of the `TransportCrypto` exist is modelled), and the setters that write
  text into the input key file (`set_title`, `set_warning`,
  `set_unlock_options`, ...): data, not control.
  `gkd_prompt_set_transport_param` is not modelled: it gives the input a
  "transport" group, so that `prepare_transport_crypto` skips the DH pair;
  that suits a caller doing its own decryption from
  `get_transport_password`, and no caller exists under `src/`.
  `ReadResponse` models which getters read the output, not the values
  they return. So the other effect of `is_widget_selected`'s inverted test
  (line 727), that a prompt that responded never reports a selected widget,
  is stated in the finding and not as a property.
* `g_key_file_to_data` failing in `prepare_input_data`: GLib's
  implementation never returns NULL.
* DER: `read_certificate` and
  `read_basic_constraints` (one decode each, no key state), and everything
  between `#ifdef UNTESTED_CODE` and its `#endif` (lines 878-1388: key
  usage, the PKCS#5/PKCS#12 cipher setup), which is not compiled. It has
  two defects, left out of the hazard list because no build reaches them:
  `res = GCK_DATA_FAILURE` where `ret` is meant in the PBES2 reader
  (line 1233), and the `guchar n_data` length of the RC2/DES parameter
  setup (line 1094).
* `gkd_prompt_set_unlock_options` casts a gulong timeout to `int`, and
  `get_unlock_options` clamps a negative value to 0 (no timeout), so a
  value of 2^31 or more does not survive the round trip. The round trip
  goes through the prompt tool, which is not under `src/`, and the model
  abstracts key-file values away. libtasn1 encoding is abstracted to the record; gcrypt
  allocation failure in `gcry_sexp_build` is not modelled.
* Ask serialization (`gkr-ask-daemon.c`): its wait loop runs under the
  cooperative `gkr_async` scheduler, whose wait/notify and yield semantics
  are in `src/common`, which is neither in this tree nor in the spec; any
  model would invent the behaviour its properties depend on.
