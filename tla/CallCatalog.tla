----------------------------- MODULE CallCatalog -----------------------------
(***************************************************************************)
(* The call catalog of src/pkcs11/rpc-layer/p11-rpc-module.c: every       *)
(* rpc_C_<name> wrapper is a sequence of the CALL MACROS (BEGIN_CALL,      *)
(* IN_*, PROCESS_CALL, OUT_*, END_CALL) over the caller's arguments.  One  *)
(* behaviour is one call by one thread on a connected, initialized        *)
(* session (RpcSession models how it got there): the caller's arguments   *)
(* are chosen in Init, each macro is one step, and PROCESS_CALL receives   *)
(* the daemon's answer.                                                    *)
(*                                                                         *)
(* An argument is abstracted to what the macros test: a pointer is NULL   *)
(* or not, a length or capacity is a small number, a mechanism is one     *)
(* with no parameters, with sane parameters, or one whose parameters      *)
(* cannot be sent.  The daemon end is not under src/: its answer          *)
(* (DaemonAnswers) is modelled from spec.md sections 4.2 and 4.4.          *)
(***************************************************************************)
EXTENDS Integers, Sequences, FiniteSets, TLC

CONSTANTS
    Calls,    \* names of the catalog entries to check
    MaxLen    \* bound: largest length, capacity or count a buffer has

ASSUME MaxLen \in Nat /\ MaxLen >= 2

Untouched == -2             \* an output the call never wrote (no length is < 0)
InvalidLen == -1            \* (CK_ULONG)-1, ulValueLen of an invalid attribute

\* Caller arguments, by the kind of parameter a macro reads.
\*  array    (CK_BYTE_PTR arr, CK_ULONG len)       IN_BYTE_ARRAY
\*  buffer   (arr, CK_ULONG_PTR len), lenp FALSE     IN_*_BUFFER + OUT_*_ARRAY
\*           for a NULL len
\*  localbuf (arr, &local_len)                      C_GenerateRandom
\*  out      a CK_ULONG_PTR or CK_*_INFO_PTR        OUT_ULONG, OUT_*_INFO
\*  mech     CK_MECHANISM_PTR                       IN_MECHANISM
\*  mechtype CK_MECHANISM_TYPE                      IN_MECHANISM_TYPE
\*  attrs    (CK_ATTRIBUTE_PTR, CK_ULONG count)     IN_ATTRIBUTE_ARRAY
\*  template a template of at most one attribute    IN_ATTRIBUTE_BUFFER +
\*           (pValue NULL or not, ulValueLen)       OUT_ATTRIBUTE_ARRAY
ArgChoices(k) ==
    CASE k = "array"    -> [ptr : BOOLEAN, len : 0..1]
      [] k = "buffer"   -> [ptr : BOOLEAN, lenp : {TRUE}, len : 0..MaxLen] \cup
                           [ptr : BOOLEAN, lenp : {FALSE}, len : {0}]
      [] k = "localbuf" -> [ptr : BOOLEAN, lenp : {TRUE}, len : 0..MaxLen]
      [] k = "out"      -> [ptr : BOOLEAN]
      [] k = "mech"     -> [ptr : {FALSE}, kind : {"none"}] \cup
                           [ptr : {TRUE}, kind : {"noparams", "sane", "unsafe"}]
      [] k = "mechtype" -> [ptr : {TRUE}, supported : BOOLEAN]
      [] k = "attrs"    -> [ptr : BOOLEAN, len : 0..1]
      [] k = "template" -> [ptr : BOOLEAN, len : 0..1, pv : BOOLEAN, cap : 0..MaxLen]

\* Kinds whose answer carries a length the daemon chooses.
Sized == {"buffer", "localbuf", "template"}

-----------------------------------------------------------------------------
(* Catalog entries.  slots: the kinds of the caller's parameters;          *)
(* pre: the return_val_if_fail checks before BEGIN_CALL; steps: the       *)
(* macros in order, a naming the slot of the pointer, l the slot of the   *)
(* length.                                                                 *)

Entry(slots, pre, steps) == [slots |-> slots, pre |-> pre, steps |-> steps]
M(m) == [m |-> m, a |-> 0, l |-> 0]
MA(m, s) == [m |-> m, a |-> s, l |-> s]
MAL(m, s, t) == [m |-> m, a |-> s, l |-> t]
PtrSet(s)  == [chk |-> "ptr", s |-> s]       \* return_val_if_fail (p, ...)
LenSet(s)  == [chk |-> "len", s |-> s]       \* return_val_if_fail (len, ...)
NonZero(s) == [chk |-> "nonzero", s |-> s]   \* return_val_if_fail (n, ...)
PROCESS == M("PROCESS_CALL")

\* Shapes several wrappers share.
SessionOnly == Entry(<<>>, {}, <<M("IN_ULONG"), PROCESS>>)
TwoHandles  == Entry(<<>>, {}, <<M("IN_ULONG"), M("IN_ULONG"), PROCESS>>)
InfoCall    == Entry(<<"out">>, {PtrSet(1)}, <<M("IN_ULONG"), PROCESS, MA("OUT_INFO", 1)>>)
DataIn      == Entry(<<"array">>, {}, <<M("IN_ULONG"), MA("IN_BYTE_ARRAY", 1), PROCESS>>)
MechInit    == Entry(<<"mech">>, {},
                     <<M("IN_ULONG"), MA("IN_MECHANISM", 1), M("IN_ULONG"), PROCESS>>)
DataInOut   == Entry(<<"array", "buffer">>, {LenSet(2)},
                     <<M("IN_ULONG"), MA("IN_BYTE_ARRAY", 1), MA("IN_BYTE_BUFFER", 2),
                       PROCESS, MA("OUT_BYTE_ARRAY", 2)>>)
DataOut     == Entry(<<"buffer">>, {LenSet(1)},
                     <<M("IN_ULONG"), MA("IN_BYTE_BUFFER", 1), PROCESS,
                       MA("OUT_BYTE_ARRAY", 1)>>)

C_GetInfo == Entry(<<"out">>, {PtrSet(1)}, <<PROCESS, MA("OUT_INFO", 1)>>)
C_GetSlotList == Entry(<<"buffer">>, {LenSet(1)},
    <<M("IN_BYTE"), MA("IN_ULONG_BUFFER", 1), PROCESS, MA("OUT_ULONG_ARRAY", 1)>>)
C_GetSlotInfo == InfoCall
C_GetTokenInfo == InfoCall
C_GetMechanismList == Entry(<<"buffer">>, {LenSet(1)},
    <<M("IN_ULONG"), MA("IN_ULONG_BUFFER", 1), PROCESS,
      MA("OUT_MECHANISM_TYPE_ARRAY", 1)>>)
C_GetMechanismInfo == Entry(<<"mechtype", "out">>, {PtrSet(2)},
    <<M("IN_ULONG"), MA("IN_MECHANISM_TYPE", 1), PROCESS, MA("OUT_INFO", 2)>>)
C_InitToken == Entry(<<"array">>, {},
    <<M("IN_ULONG"), MA("IN_BYTE_ARRAY", 1), M("IN_STRING"), PROCESS>>)
C_WaitForSlotEvent == Entry(<<"out">>, {PtrSet(1)},
    <<M("IN_ULONG"), PROCESS, MA("OUT_ULONG", 1)>>)
C_OpenSession == Entry(<<"out">>, {PtrSet(1)},
    <<M("IN_ULONG"), M("IN_ULONG"), PROCESS, MA("OUT_ULONG", 1)>>)
C_CloseSession == SessionOnly
C_CloseAllSessions == SessionOnly
C_GetFunctionStatus == SessionOnly
C_CancelFunction == SessionOnly
C_GetSessionInfo == InfoCall
C_InitPIN == DataIn
\* IN_BYTE_ARRAY (new_pin, old_pin_len): the new PIN is sent with the old
\* PIN's length.
C_SetPIN == Entry(<<"array", "array">>, {},
    <<M("IN_ULONG"), MA("IN_BYTE_ARRAY", 1), MAL("IN_BYTE_ARRAY", 2, 1), PROCESS>>)
C_GetOperationState == DataOut
C_SetOperationState == Entry(<<"array">>, {},
    <<M("IN_ULONG"), MA("IN_BYTE_ARRAY", 1), M("IN_ULONG"), M("IN_ULONG"), PROCESS>>)
C_Login == Entry(<<"array">>, {},
    <<M("IN_ULONG"), M("IN_ULONG"), MA("IN_BYTE_ARRAY", 1), PROCESS>>)
C_Logout == SessionOnly
C_CreateObject == Entry(<<"attrs", "out">>, {PtrSet(2)},
    <<M("IN_ULONG"), MA("IN_ATTRIBUTE_ARRAY", 1), PROCESS, MA("OUT_ULONG", 2)>>)
C_CopyObject == Entry(<<"attrs", "out">>, {PtrSet(2)},
    <<M("IN_ULONG"), M("IN_ULONG"), MA("IN_ATTRIBUTE_ARRAY", 1), PROCESS,
      MA("OUT_ULONG", 2)>>)
C_DestroyObject == TwoHandles
C_GetObjectSize == Entry(<<"out">>, {PtrSet(1)},
    <<M("IN_ULONG"), M("IN_ULONG"), PROCESS, MA("OUT_ULONG", 1)>>)
C_GetAttributeValue == Entry(<<"template">>, {},
    <<M("IN_ULONG"), M("IN_ULONG"), MA("IN_ATTRIBUTE_BUFFER", 1), PROCESS,
      MA("OUT_ATTRIBUTE_ARRAY", 1), M("OUT_RETURN_CODE")>>)
C_SetAttributeValue == Entry(<<"attrs">>, {},
    <<M("IN_ULONG"), M("IN_ULONG"), MA("IN_ATTRIBUTE_ARRAY", 1), PROCESS>>)
C_FindObjectsInit == Entry(<<"attrs">>, {},
    <<M("IN_ULONG"), MA("IN_ATTRIBUTE_ARRAY", 1), PROCESS>>)
\* IN_ULONG_BUFFER (objects, &max_count); *count = max_count; then
\* OUT_ULONG_ARRAY (objects, count).  The slot's len stands for max_count
\* and NULL for a NULL count, which the precheck refuses.
C_FindObjects == Entry(<<"buffer">>, {LenSet(1)},
    <<M("IN_ULONG"), MA("IN_ULONG_BUFFER", 1), PROCESS, MA("SET_COUNT", 1),
      MA("OUT_ULONG_ARRAY", 1)>>)
C_FindObjectsFinal == SessionOnly
C_EncryptInit == MechInit
C_Encrypt == DataInOut
C_EncryptUpdate == DataInOut
C_EncryptFinal == DataOut
C_DecryptInit == MechInit
C_Decrypt == DataInOut
C_DecryptUpdate == DataInOut
C_DecryptFinal == DataOut
C_DigestInit == Entry(<<"mech">>, {}, <<M("IN_ULONG"), MA("IN_MECHANISM", 1), PROCESS>>)
C_Digest == DataInOut
C_DigestUpdate == DataIn
C_DigestKey == TwoHandles
C_DigestFinal == DataOut
C_SignInit == MechInit
C_Sign == DataInOut
C_SignUpdate == Entry(<<"array">>, {NonZero(1)},
    <<M("IN_ULONG"), MA("IN_BYTE_ARRAY", 1), PROCESS>>)
C_SignFinal == DataOut
C_SignRecoverInit == MechInit
C_SignRecover == DataInOut
C_VerifyInit == MechInit
C_Verify == Entry(<<"array", "array">>, {},
    <<M("IN_ULONG"), MA("IN_BYTE_ARRAY", 1), MA("IN_BYTE_ARRAY", 2), PROCESS>>)
C_VerifyUpdate == DataIn
C_VerifyFinal == DataIn
C_VerifyRecoverInit == MechInit
C_VerifyRecover == DataInOut
C_DigestEncryptUpdate == DataInOut
C_DecryptDigestUpdate == DataInOut
C_SignEncryptUpdate == DataInOut
C_DecryptVerifyUpdate == DataInOut
C_GenerateKey == Entry(<<"mech", "attrs", "out">>, {},
    <<M("IN_ULONG"), MA("IN_MECHANISM", 1), MA("IN_ATTRIBUTE_ARRAY", 2), PROCESS,
      MA("OUT_ULONG", 3)>>)
C_GenerateKeyPair == Entry(<<"mech", "attrs", "attrs", "out", "out">>, {},
    <<M("IN_ULONG"), MA("IN_MECHANISM", 1), MA("IN_ATTRIBUTE_ARRAY", 2),
      MA("IN_ATTRIBUTE_ARRAY", 3), PROCESS, MA("OUT_ULONG", 4), MA("OUT_ULONG", 5)>>)
C_WrapKey == Entry(<<"mech", "buffer">>, {LenSet(2)},
    <<M("IN_ULONG"), MA("IN_MECHANISM", 1), M("IN_ULONG"), M("IN_ULONG"),
      MA("IN_BYTE_BUFFER", 2), PROCESS, MA("OUT_BYTE_ARRAY", 2)>>)
C_UnwrapKey == Entry(<<"mech", "array", "attrs", "out">>, {},
    <<M("IN_ULONG"), MA("IN_MECHANISM", 1), M("IN_ULONG"), MA("IN_BYTE_ARRAY", 2),
      MA("IN_ATTRIBUTE_ARRAY", 3), PROCESS, MA("OUT_ULONG", 4)>>)
C_DeriveKey == Entry(<<"mech", "attrs", "out">>, {},
    <<M("IN_ULONG"), MA("IN_MECHANISM", 1), M("IN_ULONG"), MA("IN_ATTRIBUTE_ARRAY", 2),
      PROCESS, MA("OUT_ULONG", 3)>>)
C_SeedRandom == DataIn
\* IN_BYTE_BUFFER (random_data, &random_len) and OUT_BYTE_ARRAY into the
\* local random_len: the length is never NULL and never reaches the caller.
C_GenerateRandom == Entry(<<"localbuf">>, {},
    <<M("IN_ULONG"), MA("IN_BYTE_BUFFER", 1), PROCESS, MA("OUT_BYTE_ARRAY", 1)>>)

Catalog ==
    ("C_GetInfo" :> C_GetInfo) @@ ("C_GetSlotList" :> C_GetSlotList) @@
    ("C_GetSlotInfo" :> C_GetSlotInfo) @@ ("C_GetTokenInfo" :> C_GetTokenInfo) @@
    ("C_GetMechanismList" :> C_GetMechanismList) @@
    ("C_GetMechanismInfo" :> C_GetMechanismInfo) @@ ("C_InitToken" :> C_InitToken) @@
    ("C_WaitForSlotEvent" :> C_WaitForSlotEvent) @@ ("C_OpenSession" :> C_OpenSession) @@
    ("C_CloseSession" :> C_CloseSession) @@ ("C_CloseAllSessions" :> C_CloseAllSessions) @@
    ("C_GetFunctionStatus" :> C_GetFunctionStatus) @@
    ("C_CancelFunction" :> C_CancelFunction) @@ ("C_GetSessionInfo" :> C_GetSessionInfo) @@
    ("C_InitPIN" :> C_InitPIN) @@ ("C_SetPIN" :> C_SetPIN) @@
    ("C_GetOperationState" :> C_GetOperationState) @@
    ("C_SetOperationState" :> C_SetOperationState) @@ ("C_Login" :> C_Login) @@
    ("C_Logout" :> C_Logout) @@ ("C_CreateObject" :> C_CreateObject) @@
    ("C_CopyObject" :> C_CopyObject) @@ ("C_DestroyObject" :> C_DestroyObject) @@
    ("C_GetObjectSize" :> C_GetObjectSize) @@
    ("C_GetAttributeValue" :> C_GetAttributeValue) @@
    ("C_SetAttributeValue" :> C_SetAttributeValue) @@
    ("C_FindObjectsInit" :> C_FindObjectsInit) @@ ("C_FindObjects" :> C_FindObjects) @@
    ("C_FindObjectsFinal" :> C_FindObjectsFinal) @@ ("C_EncryptInit" :> C_EncryptInit) @@
    ("C_Encrypt" :> C_Encrypt) @@ ("C_EncryptUpdate" :> C_EncryptUpdate) @@
    ("C_EncryptFinal" :> C_EncryptFinal) @@ ("C_DecryptInit" :> C_DecryptInit) @@
    ("C_Decrypt" :> C_Decrypt) @@ ("C_DecryptUpdate" :> C_DecryptUpdate) @@
    ("C_DecryptFinal" :> C_DecryptFinal) @@ ("C_DigestInit" :> C_DigestInit) @@
    ("C_Digest" :> C_Digest) @@ ("C_DigestUpdate" :> C_DigestUpdate) @@
    ("C_DigestKey" :> C_DigestKey) @@ ("C_DigestFinal" :> C_DigestFinal) @@
    ("C_SignInit" :> C_SignInit) @@ ("C_Sign" :> C_Sign) @@
    ("C_SignUpdate" :> C_SignUpdate) @@ ("C_SignFinal" :> C_SignFinal) @@
    ("C_SignRecoverInit" :> C_SignRecoverInit) @@ ("C_SignRecover" :> C_SignRecover) @@
    ("C_VerifyInit" :> C_VerifyInit) @@ ("C_Verify" :> C_Verify) @@
    ("C_VerifyUpdate" :> C_VerifyUpdate) @@ ("C_VerifyFinal" :> C_VerifyFinal) @@
    ("C_VerifyRecoverInit" :> C_VerifyRecoverInit) @@
    ("C_VerifyRecover" :> C_VerifyRecover) @@
    ("C_DigestEncryptUpdate" :> C_DigestEncryptUpdate) @@
    ("C_DecryptDigestUpdate" :> C_DecryptDigestUpdate) @@
    ("C_SignEncryptUpdate" :> C_SignEncryptUpdate) @@
    ("C_DecryptVerifyUpdate" :> C_DecryptVerifyUpdate) @@
    ("C_GenerateKey" :> C_GenerateKey) @@ ("C_GenerateKeyPair" :> C_GenerateKeyPair) @@
    ("C_WrapKey" :> C_WrapKey) @@ ("C_UnwrapKey" :> C_UnwrapKey) @@
    ("C_DeriveKey" :> C_DeriveKey) @@ ("C_SeedRandom" :> C_SeedRandom) @@
    ("C_GenerateRandom" :> C_GenerateRandom)

ASSUME Calls \subseteq DOMAIN Catalog

\* The caller's argument vectors for a list of slot kinds.
RECURSIVE ArgVectors(_)
ArgVectors(ks) ==
    IF ks = <<>> THEN {<<>>}
    ELSE {<<a>> \o rest : a \in ArgChoices(Head(ks)), rest \in ArgVectors(Tail(ks))}

-----------------------------------------------------------------------------
(* Result codes.  PARSE_ERROR is CKR_DEVICE_ERROR in the code.  CKR_CANCEL  *)
(* is the CK_RV numerically equal to TRUE (1).                             *)
OK == "CKR_OK"
PARSE_ERROR == "CKR_DEVICE_ERROR"
RetCodes == {OK, PARSE_ERROR, "CKR_ARGUMENTS_BAD", "CKR_HOST_MEMORY",
             "CKR_MECHANISM_INVALID", "CKR_BUFFER_TOO_SMALL", "CKR_GENERAL_ERROR",
             "CKR_FUNCTION_FAILED", "CKR_CANCEL"}
\* What the daemon may report for the token operation itself.
DaemonCodes == {OK, "CKR_FUNCTION_FAILED"}

\* A reader's outcome: its result, what it left in *len (or ulValueLen) and
\* whether it copied data into the caller's memory.
Read(r, len, cp) == [ret |-> r, rep |-> len, copied |-> cp]

\* Plausible faults of the readers and of PROCESS_CALL, each used to
\* confirm that a property fails when the code is wrong in that way.
\* proto_read_byte_array reporting an invalid array with the attribute
\* reader's (CK_ULONG)-1 instead of its length.
ReadByteArrayInvalidSentinel(arr, max, valid, vlen, short) ==
    CASE short           -> Read(PARSE_ERROR, Untouched, FALSE)
      [] ~valid /\ arr   -> Read(PARSE_ERROR, Untouched, FALSE)
      [] ~valid          -> Read(OK, InvalidLen, FALSE)
      [] ~arr            -> Read(OK, vlen, FALSE)
      [] max < vlen      -> Read("CKR_BUFFER_TOO_SMALL", vlen, FALSE)
      [] OTHER           -> Read(OK, vlen, TRUE)
\* proto_read_byte_array with "max + 1 < vlen", as if room for a NUL.
ReadByteArrayOffByOne(arr, max, valid, vlen, short) ==
    CASE short           -> Read(PARSE_ERROR, Untouched, FALSE)
      [] ~valid /\ arr   -> Read(PARSE_ERROR, Untouched, FALSE)
      [] ~valid          -> Read(OK, vlen, FALSE)
      [] ~arr            -> Read(OK, vlen, FALSE)
      [] max + 1 < vlen  -> Read("CKR_BUFFER_TOO_SMALL", vlen, FALSE)
      [] OTHER           -> Read(OK, vlen, TRUE)

\* proto_read_byte_array (msg, arr, len, max).  valid and vlen are the
\* array the daemon sent, short that the response ended early.
ReadByteArray(arr, max, valid, vlen, short) ==
    CASE short           -> Read(PARSE_ERROR, Untouched, FALSE)
      [] ~valid /\ arr   -> Read(PARSE_ERROR, Untouched, FALSE)
      [] ~valid          -> Read(OK, vlen, FALSE)
      [] ~arr            -> Read(OK, vlen, FALSE)
      [] max < vlen      -> Read("CKR_BUFFER_TOO_SMALL", vlen, FALSE)
      [] OTHER           -> Read(OK, vlen, TRUE)

\* proto_read_ulong_array writing *len = num only once the array is filled.
ReadUlongArrayLenLate(arr, max, valid, num, short) ==
    CASE short           -> Read(PARSE_ERROR, Untouched, FALSE)
      [] ~valid /\ arr   -> Read(PARSE_ERROR, Untouched, FALSE)
      [] ~valid          -> Read(OK, Untouched, FALSE)
      [] max < num       -> Read("CKR_BUFFER_TOO_SMALL", Untouched, FALSE)
      [] OTHER           -> Read(OK, num, arr)

\* proto_read_ulong_array: *len = num is written before the validity test.
ReadUlongArray(arr, max, valid, num, short) ==
    CASE short           -> Read(PARSE_ERROR, Untouched, FALSE)
      [] ~valid /\ arr   -> Read(PARSE_ERROR, num, FALSE)
      [] ~valid          -> Read(OK, num, FALSE)
      [] max < num       -> Read("CKR_BUFFER_TOO_SMALL", num, FALSE)
      [] OTHER           -> Read(OK, num, arr)

\* proto_read_attribute_array for a template of one attribute (len = 1;
\* the count the daemon echoes is the one sent).  valid is the attribute's
\* validity byte, alen the length of its value.
ReadAttributeArray(t, valid, alen, short) ==
    CASE short           -> Read(PARSE_ERROR, Untouched, FALSE)
      [] ~t.ptr          -> Read(OK, Untouched, FALSE)
      [] ~valid          -> Read(OK, InvalidLen, FALSE)
      [] ~t.pv           -> Read(OK, alen, FALSE)
      [] t.cap < alen    -> Read("CKR_BUFFER_TOO_SMALL", alen, FALSE)
      [] OTHER           -> Read(OK, alen, TRUE)

\* proto_write_mechanism for a non-NULL mechanism, grow failing or not.
WriteMechanism(mech, grown) ==
    CASE mech.kind \in {"noparams", "sane"} /\ grown -> OK
      [] mech.kind \in {"noparams", "sane"}          -> "CKR_HOST_MEMORY"
      [] OTHER                                       -> "CKR_MECHANISM_INVALID"

-----------------------------------------------------------------------------
VARIABLES
    call,     \* the wrapper being run
    args,     \* its arguments, slot -> record of ArgChoices
    pc,       \* 0: the prechecks and BEGIN_CALL; k: the k-th macro; Len+1: END_CALL
    ret,      \* _ret
    sent,     \* PROCESS_CALL has sent the request
    capSent,  \* slot -> the capacity an IN_*_BUFFER wrote ("arr ? *len : 0")
    resp,     \* the daemon's answer, once sent
    rep,      \* slot -> what the call left in *len or ulValueLen
    copied,   \* slot -> data was copied into the caller's buffer
    readRet,  \* slot -> the result of the reader that filled it
    perr,     \* a read failed: p11_rpc_message_buffer_error (cs->resp)
    status    \* "running", "done" (returned) or "crashed" (an assert fired)

vars == <<call, args, pc, ret, sent, capSent, resp, rep, copied, readRet, perr, status>>

Ent == Catalog[call]
Slots == DOMAIN Ent.slots
Kind(s) == Ent.slots[s]
EndAt == Len(Ent.steps) + 1
Step == Ent.steps[pc]
None == "none"

\* The daemon's answer to the request the catalog sent (spec.md 4.2, 4.4):
\* a transport error, or a result code with, for each sized slot, the true
\* length.  An array is answered "invalid" (length only) exactly when the
\* capacity sent for it is 0; an attribute's validity is the token's.
\* short: the body ends before everything the catalog reads.
DaemonAnswers ==
    [tx : {"error"}, code : {OK}, short : {FALSE},
     len : {[s \in Slots |-> 0]}, valid : {[s \in Slots |-> TRUE]}]
    \cup
    {[tx |-> "ok", code |-> c, short |-> sh, len |-> ln,
      valid |-> [s \in Slots |-> IF Kind(s) = "template" THEN v ELSE capSent[s] > 0]] :
        c \in DaemonCodes, sh \in BOOLEAN, v \in BOOLEAN,
        ln \in {f \in [Slots -> 0..MaxLen] : \A s \in Slots : Kind(s) \notin Sized => f[s] = 0}}

\* A return_val_if_fail check before BEGIN_CALL that fails.
Fails(p) ==
    CASE p.chk = "ptr"     -> ~args[p.s].ptr
      [] p.chk = "len"     -> ~args[p.s].lenp
      [] p.chk = "nonzero" -> args[p.s].len = 0

Init ==
    /\ call \in Calls
    /\ args \in ArgVectors(Catalog[call].slots)
    /\ pc = 0
    /\ ret = OK
    /\ sent = FALSE
    /\ capSent = [s \in DOMAIN Catalog[call].slots |-> 0]
    /\ resp = None
    /\ rep = [s \in DOMAIN Catalog[call].slots |-> Untouched]
    /\ copied = [s \in DOMAIN Catalog[call].slots |-> FALSE]
    /\ readRet = [s \in DOMAIN Catalog[call].slots |-> None]
    /\ perr = FALSE
    /\ status = "running"

Goto(r) == ret' = r /\ pc' = EndAt     \* _ret = r; goto _cleanup
Next1 == pc' = pc + 1

\* The prechecks, then BEGIN_CALL on a session that call_lookup found ready:
\* call_prepare fails only to allocate.
Begin ==
    /\ status = "running" /\ pc = 0
    /\ IF \E p \in Ent.pre : Fails(p)
       THEN ret' = "CKR_ARGUMENTS_BAD" /\ status' = "done" /\ UNCHANGED pc
       ELSE /\ \/ Next1 /\ UNCHANGED ret
               \/ Goto("CKR_HOST_MEMORY")
            /\ UNCHANGED status
    /\ UNCHANGED <<call, args, sent, capSent, resp, rep, copied, readRet, perr>>

\* A write into the request buffer: on failure "_ret = CKR_HOST_MEMORY; goto".
Write == \/ Next1 /\ UNCHANGED ret
         \/ Goto("CKR_HOST_MEMORY")

InActionFrame == UNCHANGED <<call, args, sent, resp, rep, copied, readRet, perr, status>>

\* IN_BYTE, IN_ULONG, IN_STRING.
InScalar ==
    /\ status = "running" /\ pc \in 1..Len(Ent.steps)
    /\ Step.m \in {"IN_BYTE", "IN_ULONG", "IN_STRING"}
    /\ Write
    /\ UNCHANGED capSent /\ InActionFrame

\* IN_BYTE_ARRAY (arr, len): ARGUMENTS_BAD without a goto, then the write.
InByteArray ==
    /\ status = "running" /\ pc \in 1..Len(Ent.steps)
    /\ Step.m = "IN_BYTE_ARRAY"
    /\ LET bad == args[Step.l].len # 0 /\ ~args[Step.a].ptr
       IN \/ Next1 /\ ret' = IF bad THEN "CKR_ARGUMENTS_BAD" ELSE ret
          \/ Goto("CKR_HOST_MEMORY")
    /\ UNCHANGED capSent /\ InActionFrame

\* IN_BYTE_BUFFER, IN_ULONG_BUFFER (arr, len).
InBuffer ==
    /\ status = "running" /\ pc \in 1..Len(Ent.steps)
    /\ Step.m \in {"IN_BYTE_BUFFER", "IN_ULONG_BUFFER"}
    /\ IF ~args[Step.l].lenp
       THEN Goto("CKR_ARGUMENTS_BAD") /\ UNCHANGED capSent
       ELSE /\ capSent' = [capSent EXCEPT ![Step.a] =
                              IF args[Step.a].ptr THEN args[Step.l].len ELSE 0]
            /\ Write
    /\ InActionFrame

\* IN_ATTRIBUTE_ARRAY, IN_ATTRIBUTE_BUFFER (arr, num).
InAttributes ==
    /\ status = "running" /\ pc \in 1..Len(Ent.steps)
    /\ Step.m \in {"IN_ATTRIBUTE_ARRAY", "IN_ATTRIBUTE_BUFFER"}
    /\ IF args[Step.a].len # 0 /\ ~args[Step.a].ptr
       THEN Goto("CKR_ARGUMENTS_BAD")
       ELSE Write
    /\ UNCHANGED capSent /\ InActionFrame

\* IN_MECHANISM_TYPE (val).
InMechanismType ==
    /\ status = "running" /\ pc \in 1..Len(Ent.steps)
    /\ Step.m = "IN_MECHANISM_TYPE"
    /\ IF ~args[Step.a].supported THEN Goto("CKR_MECHANISM_INVALID") ELSE Write
    /\ UNCHANGED capSent /\ InActionFrame

\* IN_MECHANISM (val): the ARGUMENTS_BAD for NULL is overwritten by
\* proto_write_mechanism, whose assert (mech) aborts (or, built with
\* NDEBUG, whose mech->mechanism dereferences NULL).
InMechanism ==
    /\ status = "running" /\ pc \in 1..Len(Ent.steps)
    /\ Step.m = "IN_MECHANISM"
    /\ IF ~args[Step.a].ptr
       THEN status' = "crashed" /\ UNCHANGED <<pc, ret>>
       ELSE /\ \E grown \in BOOLEAN :
                 LET r == WriteMechanism(args[Step.a], grown)
                 IN IF r = OK THEN Next1 /\ ret' = r ELSE Goto(r)
            /\ UNCHANGED status
    /\ UNCHANGED <<call, args, sent, resp, rep, copied, readRet, perr, capSent>>

\* PROCESS_CALL: call_run sends the request and parses the answer; a
\* transport error is CKR_DEVICE_ERROR, an error-call answer its code.
Process ==
    /\ status = "running" /\ pc \in 1..Len(Ent.steps)
    /\ Step.m = "PROCESS_CALL"
    /\ sent' = TRUE
    /\ \E r \in DaemonAnswers :
          LET code == IF r.tx = "error" THEN PARSE_ERROR ELSE r.code
          IN /\ resp' = r
             /\ ret' = code
             /\ pc' = IF code # OK THEN EndAt ELSE pc + 1
    /\ UNCHANGED <<call, args, capSent, rep, copied, readRet, perr, status>>

OutFrame == UNCHANGED <<call, args, sent, capSent, resp, status>>

\* OUT_ULONG (val), OUT_INFO (info) and the other fixed-shape readers: the
\* NULL check does not goto, and the read runs only while _ret is CKR_OK.
OutScalar ==
    /\ status = "running" /\ pc \in 1..Len(Ent.steps)
    /\ Step.m \in {"OUT_ULONG", "OUT_INFO"}
    /\ LET r1 == IF ~args[Step.a].ptr THEN "CKR_ARGUMENTS_BAD" ELSE ret
           reads == r1 = OK
       IN /\ ret' = IF reads /\ resp.short THEN PARSE_ERROR ELSE r1
          /\ copied' = [copied EXCEPT ![Step.a] = reads /\ ~resp.short]
          /\ perr' = (perr \/ (reads /\ resp.short))
    /\ Next1
    /\ UNCHANGED <<rep, readRet>> /\ OutFrame

\* Record a reader's outcome for slot s.
Took(s, rd) ==
    /\ ret' = rd.ret
    /\ rep' = [rep EXCEPT ![s] = IF rd.rep = Untouched THEN @ ELSE rd.rep]
    /\ copied' = [copied EXCEPT ![s] = rd.copied]
    /\ readRet' = [readRet EXCEPT ![s] = rd.ret]
    /\ perr' = (perr \/ resp.short)

\* OUT_BYTE_ARRAY (arr, len): proto_read_byte_array (resp, arr, len, *len).
OutByteArray ==
    /\ status = "running" /\ pc \in 1..Len(Ent.steps)
    /\ Step.m = "OUT_BYTE_ARRAY"
    /\ LET r1 == IF ~args[Step.l].lenp THEN "CKR_ARGUMENTS_BAD" ELSE ret
       IN IF r1 = OK
          THEN Took(Step.a, ReadByteArray(args[Step.a].ptr, args[Step.l].len,
                                          resp.valid[Step.a], resp.len[Step.a], resp.short))
          ELSE ret' = r1 /\ UNCHANGED <<rep, copied, readRet, perr>>
    /\ Next1 /\ OutFrame

\* OUT_ULONG_ARRAY (a, len) and OUT_MECHANISM_TYPE_ARRAY (arr, len); the
\* latter then drops the mechanisms this module cannot serialize
\* (p11_rpc_mechanism_list_purge), which may lower *len.
OutUlongArray ==
    /\ status = "running" /\ pc \in 1..Len(Ent.steps)
    /\ Step.m \in {"OUT_ULONG_ARRAY", "OUT_MECHANISM_TYPE_ARRAY"}
    /\ LET r1 == IF ~args[Step.l].lenp THEN "CKR_ARGUMENTS_BAD" ELSE ret
           rd == ReadUlongArray(args[Step.a].ptr, args[Step.l].len,
                                resp.valid[Step.a], resp.len[Step.a], resp.short)
           purges == Step.m = "OUT_MECHANISM_TYPE_ARRAY" /\ rd.ret = OK /\ args[Step.a].ptr
       IN IF r1 # OK
          THEN ret' = r1 /\ UNCHANGED <<rep, copied, readRet, perr>>
          ELSE \E kept \in (IF purges THEN 0..rd.rep ELSE {rd.rep}) :
                  Took(Step.a, [rd EXCEPT !.rep = IF rd.rep = Untouched THEN @ ELSE kept])
    /\ Next1 /\ OutFrame

\* *count = max_count (C_FindObjects, before OUT_ULONG_ARRAY).
SetCount ==
    /\ status = "running" /\ pc \in 1..Len(Ent.steps)
    /\ Step.m = "SET_COUNT"
    /\ rep' = [rep EXCEPT ![Step.a] = args[Step.a].len]
    /\ Next1
    /\ UNCHANGED <<ret, copied, readRet, perr>> /\ OutFrame

\* OUT_ATTRIBUTE_ARRAY (arr, num): proto_read_attribute_array asserts num.
OutAttributes ==
    /\ status = "running" /\ pc \in 1..Len(Ent.steps)
    /\ Step.m = "OUT_ATTRIBUTE_ARRAY"
    /\ IF ret # OK
       THEN Next1 /\ UNCHANGED <<ret, rep, copied, readRet, perr, status>>
       ELSE IF args[Step.a].len = 0
       THEN status' = "crashed" /\ UNCHANGED <<pc, ret, rep, copied, readRet, perr>>
       ELSE /\ Took(Step.a, ReadAttributeArray(args[Step.a], resp.valid[Step.a],
                                               resp.len[Step.a], resp.short))
            /\ Next1 /\ UNCHANGED status
    /\ UNCHANGED <<call, args, sent, capSent, resp>>

\* OUT_RETURN_CODE: "_ret = p11_rpc_message_read_ulong (...)" stores the
\* reader's boolean: a successful read makes _ret 1 (CKR_CANCEL); a failed
\* one makes it 0, and then "_ret = r" returns r, which nothing wrote.
OutReturnCode ==
    /\ status = "running" /\ pc \in 1..Len(Ent.steps)
    /\ Step.m = "OUT_RETURN_CODE"
    /\ IF ~resp.short
       THEN ret' = "CKR_CANCEL" /\ UNCHANGED perr
       ELSE (\E garbage \in DaemonCodes : ret' = garbage) /\ perr' = TRUE
    /\ pc' = EndAt
    /\ UNCHANGED <<rep, copied, readRet>> /\ OutFrame

\* END_CALL: call_done turns an unnoticed read failure into
\* CKR_GENERAL_ERROR once the answer is being parsed.
End ==
    /\ status = "running" /\ pc = EndAt
    /\ ret' = IF sent /\ ret = OK /\ perr THEN "CKR_GENERAL_ERROR" ELSE ret
    /\ status' = "done"
    /\ UNCHANGED <<call, args, pc, sent, capSent, resp, rep, copied, readRet, perr>>

Next ==
    \/ Begin \/ InScalar \/ InByteArray \/ InBuffer \/ InAttributes
    \/ InMechanismType \/ InMechanism \/ Process \/ OutScalar \/ OutByteArray
    \/ OutUlongArray \/ SetCount \/ OutAttributes \/ OutReturnCode \/ End

\* One call runs to its return; nothing else is scheduled.
Spec == Init /\ [][Next]_vars /\ WF_vars(Next)

-----------------------------------------------------------------------------
(* Properties.                                                             *)

Capacity(s) == IF Kind(s) = "template" THEN args[s].cap ELSE args[s].len

\* The caller broke the argument contract: a NULL pointer it must pass, or
\* a non-zero count for a NULL array (spec.md section 7, class 3).
ContractBroken ==
    \E s \in Slots :
        CASE Kind(s) \in {"array", "attrs", "template"} -> args[s].len # 0 /\ ~args[s].ptr
          [] Kind(s) = "buffer"                      -> ~args[s].lenp
          [] Kind(s) \in {"out", "mech"}             -> ~args[s].ptr
          [] OTHER                                   -> FALSE

\* The daemon performed the operation and answered in full.
DaemonSucceeded ==
    sent /\ resp.tx = "ok" /\ resp.code = OK /\ ~resp.short

\* Every variable has its type; a byte or ulong array's length is never
\* the attribute sentinel (CK_ULONG)-1.
TypeOK ==
    /\ call \in DOMAIN Catalog
    /\ pc \in 0..EndAt
    /\ ret \in RetCodes
    /\ sent \in BOOLEAN /\ perr \in BOOLEAN
    /\ status \in {"running", "done", "crashed"}
    /\ capSent \in [Slots -> 0..MaxLen]
    /\ IF sent THEN resp \in DaemonAnswers ELSE resp = None
    /\ \A s \in Slots :
          /\ \/ rep[s] = Untouched
             \/ rep[s] \in 0..MaxLen
             \/ Kind(s) = "template" /\ rep[s] = InvalidLen
          /\ copied[s] \in BOOLEAN
          /\ readRet[s] \in RetCodes \cup {None}

\* proto_read_byte_array / _ulong_array / _attribute_array copy data into
\* the caller's memory only when the capacity the caller gave holds all of
\* it: the daemon's length, which it alone chooses, never overruns arr.
NoBufferOverrun ==
    \A s \in Slots :
        copied[s] /\ Kind(s) \in Sized => resp.len[s] <= Capacity(s)

\* The two-phase size convention (spec.md section 8): whenever a reader
\* returns CKR_OK or CKR_BUFFER_TOO_SMALL it has reported the true length
\* the daemon computed in *len (ulValueLen: -1 for an invalid attribute),
\* or, for a mechanism list, no more than it after the purge of
\* unsupported mechanisms.  Involves the capacity the IN_*_BUFFER sent, the
\* daemon's valid/invalid choice from it, and the reader.
TwoPhaseLength ==
    \A s \in Slots :
        /\ Kind(s) \in Sized
        /\ readRet[s] \in {OK, "CKR_BUFFER_TOO_SMALL"}
        => LET true == IF Kind(s) = "template" /\ ~resp.valid[s]
                       THEN InvalidLen ELSE resp.len[s]
               purged == \E j \in DOMAIN Ent.steps :
                            Ent.steps[j] = MA("OUT_MECHANISM_TYPE_ARRAY", s)
           IN IF purged /\ args[s].ptr /\ readRet[s] = OK
              THEN rep[s] \in 0..true
              ELSE rep[s] = true

\* A call whose arguments break the contract returns an error before any
\* byte is sent (spec.md section 7, class 3).  IN_BYTE_ARRAY sets _ret
\* without a goto, so PROCESS_CALL sends the call anyway and overwrites it;
\* IN_MECHANISM on NULL aborts instead of returning.
ContractRefusedLocally ==
    status # "running" /\ ContractBroken =>
        status = "done" /\ ret # OK /\ ~sent

\* A size query with a zero-capacity buffer returns CKR_OK and reports the
\* true length (spec.md section 8): IN_BYTE_BUFFER sends "arr ? *len : 0",
\* so the daemon cannot tell it from a NULL buffer and answers invalid,
\* which proto_read_byte_array refuses for a non-NULL arr.
ZeroCapacityQuery ==
    status = "done" /\ ~ContractBroken /\ DaemonSucceeded =>
        \A s \in Slots :
            Kind(s) = "buffer" /\ args[s].len = 0 => ret = OK /\ rep[s] = resp.len[s]

\* A call with acceptable arguments, every buffer big enough, that the
\* daemon performed and answered in full returns CKR_OK.  OUT_RETURN_CODE
\* returns the reader's boolean TRUE, i.e. CKR_CANCEL, instead.
DaemonSuccessReturned ==
    LET fits(s) ==
          CASE Kind(s) = "template" -> args[s].len = 1 /\ (~args[s].pv \/ resp.len[s] <= args[s].cap)
            [] Kind(s) \in Sized    -> ~args[s].ptr \/ (0 < resp.len[s] /\ resp.len[s] <= args[s].len)
            [] Kind(s) = "mech"     -> args[s].kind # "unsafe"
            [] Kind(s) = "mechtype" -> args[s].supported
            [] OTHER                -> TRUE
    IN (/\ status = "done" /\ ~ContractBroken /\ DaemonSucceeded
        /\ \A s \in Slots : fits(s)
        /\ \A p \in Ent.pre : ~Fails(p))
       => ret = OK
=============================================================================
