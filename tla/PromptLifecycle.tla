--------------------------- MODULE PromptLifecycle ---------------------------
(***************************************************************************)
(* One GkdPrompt of src/daemon/prompt/gkd-prompt.c from its construction  *)
(* to its dispose.  Everything runs on the GLib main loop, so each        *)
(* callback is one atomic step; what interleaves is the order in which    *)
(* the main loop dispatches them: the three pipe watches of the spawned   *)
(* prompt tool, egg_spawn's "completed" callback once all of them are     *)
(* finished, and the child watch of every tool process ever spawned,      *)
(* which the main loop may dispatch before or after the pipes close.      *)
(*                                                                         *)
(* The tool is an independent process: it may exit (normally, with a      *)
(* failure code, or killed) at any point and its pipes reach end of file  *)
(* independently.  The prompt's fields are a record pv; every g_assert of *)
(* the code that can fail sets pv.aborted and the process stops.          *)
(*                                                                         *)
(* The prompt has no caller in src/: its owner (displaying it once,       *)
(* dropping its reference) and an override of the "responded" signal     *)
(* that resets the prompt and returns TRUE to show it again are the       *)
(* environment, and so is its reading of the response through the       *)
(* public getters.  Output data are abstracted to what on_io_completed    *)
(* tells apart: empty, parsable, unparsable, one disjunct each.  The      *)
(* transport crypto (a Diffie-Hellman pair made for each display, the     *)
(* shared key derived when the caller asks for an encrypted password) is  *)
(* kept as which of its pieces exist.                                     *)
(***************************************************************************)
EXTENDS Naturals

CONSTANTS
    MaxSpawns,   \* bound on the tool processes one prompt spawns
    ChildFails,  \* the tool may exit with a failure code or a signal of its own
    IoErrors,    \* a write to or read from the tool's pipes may fail
    Redisplay    \* an overriding "responded" handler may ask to show it again

Gens == 1..MaxSpawns          \* the tool process spawned n-th, as its pid
Watches == {"in", "out", "err"}
Off == [w \in Watches |-> "off"]   \* no egg_spawn source

VARIABLES
    pv,        \* the GkdPrompt private fields the control flow depends on
    pipes,     \* watch -> "off" | "open" | "done": egg_spawn's pipe sources
    child,     \* gen -> "none" | "running" | "exited" | "reaped"
    status,    \* gen -> how the process ended: "none" | "ok" | "code" | "signal"
    hup,       \* gens sent SIGHUP by kill_process
    spawned,   \* tool processes spawned so far
    shown,     \* the owner has displayed the prompt
    ownerRef,  \* the owner still holds its reference
    disposed,  \* gkd_prompt_dispose has run
    doubleFree,\* clear_prompt_data freed an already freed output
    readFreed  \* a getter read the key file of an already freed output

vars == <<pv, pipes, child, status, hup, spawned, shown, ownerRef, disposed,
          doubleFree, readFreed>>

(* pv.output is "none" (NULL), "valid" (a parsed GKeyFile) or "freed": a   *)
(* pointer whose key file g_key_file_free already released.              *)
(* pv.transport is "none" (NULL), "nokey" (the DH pair only) or "key"     *)
(* (the derived key cached); pv.inTransport: the input has a "transport"  *)
(* group.                                                                 *)
Init ==
    /\ pv = [pid |-> 0, input |-> TRUE, inData |-> FALSE, output |-> "none",
             ioTag |-> FALSE, completed |-> FALSE, failure |-> FALSE,
             aborted |-> FALSE, transport |-> "none", inTransport |-> FALSE]
    /\ pipes = Off
    /\ child = [g \in Gens |-> "none"]
    /\ status = [g \in Gens |-> "none"]
    /\ hup = {}
    /\ spawned = 0
    /\ shown = FALSE
    /\ ownerRef = TRUE
    /\ disposed = FALSE
    /\ doubleFree = FALSE
    /\ readFreed = FALSE

Abort(p) == [p EXCEPT !.aborted = TRUE]

\* mark_completed: the "completed" signal must not be emitted twice.
MarkCompleted(p) ==
    IF p.completed THEN Abort(p) ELSE [p EXCEPT !.completed = TRUE]

\* mark_failed: asserts no earlier failure, completes if not yet completed.
MarkFailed(p) ==
    IF p.failure THEN Abort(p)
    ELSE LET q == [p EXCEPT !.failure = TRUE]
         IN  IF q.completed THEN q ELSE MarkCompleted(q)

\* clear_prompt_data: frees input, output and the buffers, removes the
\* egg_spawn source; completed is left as it is.
Clear(p) ==
    [p EXCEPT !.input = FALSE, !.output = "none", !.failure = FALSE,
              !.inData = FALSE, !.ioTag = FALSE, !.transport = "none",
              !.inTransport = FALSE]

Freed(p) == p.output = "freed"

(* prepare_transport_crypto: unless the input already has a "transport"  *)
(* group, assert there is no TransportCrypto, make one (its DH pair) and  *)
(* put the prime, base and public value in that group; then forget any    *)
(* derived key.                                                           *)
PrepareTransportCrypto(p) ==
    LET q == IF p.inTransport THEN p
             ELSE IF p.transport # "none" THEN Abort(p)
             ELSE [p EXCEPT !.transport = "nokey", !.inTransport = TRUE]
    IN  IF q.transport # "none" THEN [q EXCEPT !.transport = "nokey"] ELSE q

\* Mutant: a failed spawn leaves the pid egg_spawn wrote (no line 438).
DisplayAsyncNoPidReset(p, ps) ==
    IF p.pid # 0 \/ ~p.input
    THEN /\ pv' = Abort(p) /\ pipes' = ps /\ UNCHANGED <<child, spawned>>
    ELSE LET q == [PrepareTransportCrypto(p) EXCEPT !.input = FALSE,
                                                    !.inTransport = FALSE,
                                                    !.inData = TRUE]
         IN  \/ /\ pv' = [q EXCEPT !.pid = spawned + 1, !.ioTag = TRUE]
                /\ pipes' = [w \in Watches |-> "open"]
                /\ child' = [child EXCEPT ![spawned + 1] = "running"]
                /\ spawned' = spawned + 1
             \/ /\ pv' = MarkFailed([q EXCEPT !.pid = spawned + 1])
                /\ pipes' = ps /\ UNCHANGED <<child, spawned>>

(* display_async_prompt applied to the fields p: asserts no process,      *)
(* prepare_input_data asserts an input, prepares the transport crypto   *)
(* and turns the input into in_data, then                                 *)
(* egg_spawn either starts the tool with its pipe watches and a child     *)
(* watch, or fails and the prompt fails.                                  *)
DisplayAsync(p, ps) ==
    IF p.pid # 0 \/ ~p.input
    THEN /\ pv' = Abort(p)
         /\ pipes' = ps
         /\ UNCHANGED <<child, spawned>>
    ELSE LET q == [PrepareTransportCrypto(p) EXCEPT !.input = FALSE,
                                                    !.inTransport = FALSE,
                                                    !.inData = TRUE]
         IN  \/ /\ pv' = [q EXCEPT !.pid = spawned + 1, !.ioTag = TRUE]
                /\ pipes' = [w \in Watches |-> "open"]
                /\ child' = [child EXCEPT ![spawned + 1] = "running"]
                /\ spawned' = spawned + 1
             \/ /\ pv' = MarkFailed([q EXCEPT !.pid = 0])
                /\ pipes' = ps
                /\ UNCHANGED <<child, spawned>>

Live == ~pv.aborted

\* The owner shows the prompt (the attention queue's callback).
Display ==
    /\ Live /\ ~shown /\ ownerRef
    /\ shown' = TRUE
    /\ DisplayAsync(pv, pipes)
    /\ UNCHANGED <<status, hup, ownerRef, disposed, doubleFree, readFreed>>

PipeFrame == UNCHANGED <<child, status, hup, spawned, shown, ownerRef,
                         disposed, doubleFree, readFreed>>

(* on_standard_input: writes in_data until it is all written; a write     *)
(* returning <= 0 fails the prompt and ends the watch.                    *)
OnStandardInput ==
    /\ Live /\ pv.ioTag /\ pipes["in"] = "open"
    /\ \/ /\ pipes' = [pipes EXCEPT !["in"] = "done"]
          /\ UNCHANGED pv
       \/ /\ IoErrors
          /\ pipes' = [pipes EXCEPT !["in"] = "done"]
          /\ pv' = MarkFailed(pv)
    /\ PipeFrame

(* on_standard_output and on_standard_error: a read of 0 bytes is end of  *)
(* file and ends the watch; a read error fails the prompt and ends it.    *)
OnStandardRead(w) ==
    /\ Live /\ pv.ioTag /\ pipes[w] = "open"
    /\ \/ /\ pipes' = [pipes EXCEPT ![w] = "done"]
          /\ UNCHANGED pv
       \/ /\ IoErrors
          /\ pipes' = [pipes EXCEPT ![w] = "done"]
          /\ pv' = MarkFailed(pv)
    /\ PipeFrame

(* gkd_prompt_reset (soft) from an overriding "responded" handler:        *)
(* SIGHUP to the tool, pid cleared, the parsed output copied into a new   *)
(* input and cleared.                                                     *)
SoftReset(p) ==
    [Clear(p) EXCEPT !.pid = 0, !.input = TRUE]

\* Mutant: a handler that resets the prompt but never shows it again.
MarkRespondedNoRedisplay(p) ==
    \/ /\ pv' = MarkCompleted(p) /\ pipes' = Off
       /\ UNCHANGED <<child, spawned, hup>>
    \/ /\ Redisplay /\ spawned < MaxSpawns
       /\ hup' = IF p.pid # 0 THEN hup \cup {p.pid} ELSE hup
       /\ pv' = SoftReset(p) /\ pipes' = Off /\ UNCHANGED <<child, spawned>>

(* mark_responded: the "responded" signal; a handler returning TRUE       *)
(* shows the prompt again, otherwise the prompt completes.                *)
MarkResponded(p) ==
    \/ /\ pv' = MarkCompleted(p)
       /\ pipes' = Off
       /\ UNCHANGED <<child, spawned, hup>>
    \/ /\ Redisplay /\ spawned < MaxSpawns
       /\ hup' = IF p.pid # 0 THEN hup \cup {p.pid} ELSE hup
       /\ DisplayAsync(SoftReset(p), Off)

\* The output was read but held no data: the prompt fails.
NoData(p) == MarkFailed(p)

\* Mutant: a parse failure that completes instead of failing.
ParseFailedCompletes(p) == MarkCompleted([p EXCEPT !.output = "freed"])

\* g_key_file_load_from_data failed: the key file is freed, the pointer
\* kept, and the prompt fails.
ParseFailed(p) == MarkFailed([p EXCEPT !.output = "freed"])

(* on_io_completed: all pipe watches are finished.  Asserts no output,    *)
(* an io_tag and no earlier completion; then an empty output fails the    *)
(* prompt, an unparsable one fails it, a parsable one is the response.    *)
OnIoCompleted ==
    /\ Live /\ pv.ioTag /\ \A w \in Watches : pipes[w] = "done"
    /\ LET p == [pv EXCEPT !.ioTag = FALSE]
       IN  \/ /\ pv.output # "none" \/ pv.completed
              /\ pv' = Abort(pv)
              /\ UNCHANGED <<pipes, child, spawned, hup>>
           \/ /\ pv.output = "none" /\ ~pv.completed
              /\ \/ /\ pv.failure
                    /\ pv' = p
                    /\ pipes' = Off
                    /\ UNCHANGED <<child, spawned, hup>>
                 \/ /\ ~pv.failure
                    /\ \/ pv' = NoData(p)
                       \/ pv' = ParseFailed(p)
                    /\ pipes' = Off
                    /\ UNCHANGED <<child, spawned, hup>>
                 \/ /\ ~pv.failure
                    /\ MarkResponded([p EXCEPT !.output = "valid"])
    /\ UNCHANGED <<status, shown, ownerRef, disposed, doubleFree, readFreed>>

(* The tool process ends: killed if it was sent SIGHUP, otherwise with    *)
(* success or, where it can fail, with a failure code or a signal.        *)
ChildExit(g) ==
    /\ Live /\ child[g] = "running"
    /\ \E s \in IF g \in hup THEN {"signal"}
                ELSE IF ChildFails THEN {"ok", "code", "signal"} ELSE {"ok"} :
         status' = [status EXCEPT ![g] = s]
    /\ child' = [child EXCEPT ![g] = "exited"]
    /\ UNCHANGED <<pv, pipes, hup, spawned, shown, ownerRef, disposed,
                   doubleFree, readFreed>>

\* Mutant: on_child_exited without the pid == self->pv->pid check.
OnChildExitedNoPidCheck(g) ==
    /\ Live /\ child[g] = "exited"
    /\ child' = [child EXCEPT ![g] = "reaped"]
    /\ pv' = LET p == [pv EXCEPT !.pid = 0]
             IN  IF ~p.failure /\ status[g] # "ok" THEN MarkFailed(p) ELSE p
    /\ UNCHANGED <<pipes, status, hup, spawned, shown, ownerRef, disposed,
                   doubleFree, readFreed>>

(* on_child_exited: only the current process counts; its pid is cleared  *)
(* and, unless the prompt already failed, an abnormal end fails it.       *)
OnChildExited(g) ==
    /\ Live /\ child[g] = "exited"
    /\ child' = [child EXCEPT ![g] = "reaped"]
    /\ pv' = IF g # pv.pid THEN pv
             ELSE LET p == [pv EXCEPT !.pid = 0]
                  IN  IF ~p.failure /\ status[g] # "ok" THEN MarkFailed(p) ELSE p
    /\ UNCHANGED <<pipes, status, hup, spawned, shown, ownerRef, disposed,
                   doubleFree, readFreed>>

\* The owner drops its reference, at any time after showing the prompt.
Unref ==
    /\ Live /\ shown /\ ownerRef
    /\ ownerRef' = FALSE
    /\ UNCHANGED <<pv, pipes, child, status, hup, spawned, shown, disposed,
                   doubleFree, readFreed>>

-----------------------------------------------------------------------------
(* The caller reading the response, from its "completed" handler or later *)
(* while it still holds its reference.                                    *)

Reader == Live /\ ownerRef /\ pv.completed

ReaderFrame == UNCHANGED <<pipes, child, status, hup, spawned, shown, ownerRef,
                           disposed, doubleFree>>

(* Whether getter g dereferences the output key file: get_response,       *)
(* get_transport_param and get_transport_password return early on a       *)
(* failure; is_widget_selected returns early on success instead;          *)
(* get_unlock_options and get_unlock_auto do not look at failure; all of  *)
(* them return early (g_return_val_if_fail) on a NULL output, and         *)
(* has_response only tests the pointer.                                   *)
FailureChecked == {"get_response", "get_transport_param", "get_password"}
ReadsOutput(g, p) ==
    /\ p.output # "none"
    /\ CASE g \in FailureChecked     -> ~p.failure
         [] g = "is_widget_selected"  -> p.failure
         [] g = "has_response"        -> FALSE
         [] OTHER                     -> TRUE

\* calculate_transport_key: the cached key, or one derived from the tool's
\* public value and the prompt's DH pair; NULL without a TransportCrypto.
CalculateTransportKey(p) ==
    IF p.transport = "none" THEN p ELSE [p EXCEPT !.transport = "key"]

(* gkd_prompt_get_password: get_transport_password yields the password's *)
(* "parameter" and "value" (FALSE on a failure or without output); with a *)
(* parameter the value is encrypted and calculate_transport_key must give *)
(* a key (g_return_val_if_fail), without one it is the password itself.   *)
GetPassword ==
    /\ Reader
    /\ \E kind \in {"plain", "encrypted"} :
         LET ok  == ReadsOutput("get_password", pv)
             q   == IF ok /\ kind = "encrypted" THEN CalculateTransportKey(pv) ELSE pv
         IN  /\ pv' = q
             /\ readFreed' = (readFreed \/ (ok /\ Freed(pv)))
    /\ ReaderFrame

\* The other getters: has_response, get_response, is_widget_selected,
\* get_transport_param, get_unlock_options, get_unlock_auto.
ReadResponse(g) ==
    /\ Reader
    /\ readFreed' = (readFreed \/ (ReadsOutput(g, pv) /\ Freed(pv)))
    /\ UNCHANGED pv
    /\ ReaderFrame

Getters == {"has_response", "get_response", "is_widget_selected",
            "get_transport_param", "get_unlock_options", "get_unlock_auto"}

(* gkd_prompt_dispose and gkd_prompt_finalize, run by the g_object_unref *)
(* of the last reference: the owner's, the egg_spawn source's or the last *)
(* pending child watch's.  kill_process, then clear_prompt_data frees     *)
(* output again if it was already freed; finalize asserts that no process *)
(* is left (pid == 0) and that every field clear_prompt_data frees is     *)
(* NULL.                                                                  *)
Dispose ==
    /\ Live /\ ~ownerRef /\ ~disposed /\ ~pv.ioTag
    /\ \A g \in Gens : child[g] \in {"none", "reaped"}
    /\ disposed' = TRUE
    /\ doubleFree' = (doubleFree \/ Freed(pv))
    /\ pv' = LET q == Clear(pv)
             IN  IF q.pid # 0 \/ q.input \/ q.inData \/ q.output # "none" \/ q.ioTag
                    \/ q.transport # "none"
                 THEN Abort(q) ELSE q
    /\ UNCHANGED <<pipes, child, status, hup, spawned, shown, ownerRef,
                   readFreed>>

MainLoop ==
    \/ Display \/ OnStandardInput \/ OnIoCompleted \/ Unref \/ Dispose
    \/ \E w \in {"out", "err"} : OnStandardRead(w)
    \/ \E g \in Gens : ChildExit(g) \/ OnChildExited(g)

Next == MainLoop \/ GetPassword \/ \E g \in Getters : ReadResponse(g)

(* The main loop dispatches every ready source, a running tool process   *)
(* ends (the user answers it or it is killed), and the owner lets go of   *)
(* the prompt.  The caller's getters get no fairness.                     *)
Spec == Init /\ [][Next]_vars /\ WF_vars(MainLoop)

TypeOK ==
    /\ pv \in [pid : {0} \cup {g \in Gens : child[g] # "none"},
               input : BOOLEAN, inData : BOOLEAN,
               output : {"none", "valid", "freed"}, ioTag : BOOLEAN,
               completed : BOOLEAN, failure : BOOLEAN, aborted : BOOLEAN,
               transport : {"none", "nokey", "key"}, inTransport : BOOLEAN]
    /\ pipes \in [Watches -> {"off", "open", "done"}]
    /\ child \in [Gens -> {"none", "running", "exited", "reaped"}]
    /\ status \in [Gens -> {"none", "ok", "code", "signal"}]
    /\ hup \subseteq Gens /\ spawned \in 0..MaxSpawns
    /\ shown \in BOOLEAN /\ ownerRef \in BOOLEAN
    /\ disposed \in BOOLEAN /\ doubleFree \in BOOLEAN /\ readFreed \in BOOLEAN

(* No g_assert of the prompt fails: "completed" is emitted once per       *)
(* display (mark_completed, on_io_completed), mark_failed runs once, and  *)
(* display_async_prompt finds no process and an input, and finalize finds *)
(* no process and no data left, whatever order the main loop dispatches  *)
(* the pipe, completion and child-exit callbacks in.                      *)
NoAssertAbort == ~pv.aborted

(* A shown prompt emits "completed": every path through the pipe          *)
(* callbacks, on_io_completed and on_child_exited ends in mark_completed.  *)
PromptCompletes == shown ~> (pv.completed \/ pv.aborted)

(* When "completed" has been emitted without failure, the prompt holds a  *)
(* parsed response for gkd_prompt_get_response to read.                  *)
CompletedWithResponse ==
    pv.completed /\ ~pv.failure /\ ~disposed => pv.output = "valid"

(* The output key file is never used once freed: neither freed again by   *)
(* clear_prompt_data (reset, dispose) nor read by a getter of the caller.  *)
(* After an unparsable output on_io_completed must not leave the freed    *)
(* pointer behind, or every getter that does not return early on a       *)
(* failure (get_unlock_options, get_unlock_auto, and is_widget_selected,  *)
(* whose test is the wrong way round) reads it.                           *)
NoFreedOutputUse == ~doubleFree /\ ~readFreed
=============================================================================
