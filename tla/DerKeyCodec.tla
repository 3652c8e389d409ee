---------------------------- MODULE DerKeyCodec ----------------------------
(***************************************************************************)
(* The private-key codec of src/pkcs11/gck/gck-data-der.c: the readers    *)
(* that turn a DER RSAPrivateKey (PKCS#1) or DSAPrivateKey into a gcrypt  *)
(* key s-expression, and the writers that turn a gcrypt key back into     *)
(* DER.                                                                   *)
(*                                                                         *)
(* A DER blob is a record: its ASN.1 type, the values of its INTEGER      *)
(* fields under their ASN.1 names, and "absent", the one field (if any)   *)
(* that gck_data_asn1_read_*mpi / read_uint fails to read.  Decoding      *)
(* succeeds exactly when the blob is of the type the reader asks for.     *)
(* A gcrypt key is a record with the s-expression's parameter names.     *)
(* Integers are small; gcrypt's MPI operations are their definitions.     *)
(*                                                                         *)
(* A caller holds one key file and one loaded key; it may load the file   *)
(* (gck_data_der_read_private_key) or save the loaded key over it          *)
(* (gck_data_der_write_private_key).                                       *)
(***************************************************************************)
EXTENDS Integers

CONSTANTS Blobs      \* the DER files the caller may start with

VARIABLES
    file,   \* the DER blob the caller holds
    key,    \* the gcrypt key it loaded last (NoKey when none)
    ret     \* the outcome of the last call

vars == <<file, key, ret>>

NoKey == [alg |-> "none"]

NULL == [type |-> "NULL"]

Results == {"none", "SUCCESS", "FAILURE", "UNRECOGNIZED", "written", "NULL"}

(* gck_data_asn1_decode: libtasn1 accepts the blob as the named type.     *)
Decodes(type, blob) == blob.type = type

(* gcry_mpi_invm: the inverse of a modulo m.                              *)
InvM(a, m) == CHOOSE x \in 1..(m - 1) : (a * x) % m = 1

(* gcry_mpi_powm: b^x modulo m.                                           *)
RECURSIVE PowM(_, _, _)
PowM(b, x, m) == IF x = 0 THEN 1 % m ELSE (b * PowM(b, x - 1, m)) % m

GcryRsa(b, p, q, u) ==
    [alg |-> "rsa", n |-> b.modulus, e |-> b.publicExponent,
     d |-> b.privateExponent, p |-> p, q |-> q, u |-> u]

(* Mutant: the fix-up swaps but never recomputes u.                       *)
RsaFixupNoInvm(b) ==
    IF b.prime1 > b.prime2
    THEN GcryRsa(b, b.prime2, b.prime1, b.coefficient)
    ELSE GcryRsa(b, b.prime1, b.prime2, b.coefficient)

(* The fix-up before gcry_sexp_build: gcrypt wants p < q and              *)
(* u = p^-1 mod q.  When prime1 > prime2 the primes are swapped and the   *)
(* PKCS#1 coefficient (prime2^-1 mod prime1) is kept as u; otherwise u is  *)
(* recomputed.                                                             *)
RsaFixup(b) ==
    IF b.prime1 > b.prime2
    THEN GcryRsa(b, b.prime2, b.prime1, b.coefficient)
    ELSE GcryRsa(b, b.prime1, b.prime2, InvM(b.prime1, b.prime2))

(* gck_data_der_read_private_key_rsa: UNRECOGNIZED until the blob         *)
(* decodes, FAILURE from then on, UNRECOGNIZED again for version # 0 so   *)
(* that the caller tries the next format, SUCCESS once the key is built.  *)
ReadPrivateKeyRsa(b) ==
    CASE ~Decodes("RSAPrivateKey", b) -> [ret |-> "UNRECOGNIZED", key |-> NoKey]
      [] b.absent = "version"         -> [ret |-> "FAILURE", key |-> NoKey]
      [] b.version # 0                -> [ret |-> "UNRECOGNIZED", key |-> NoKey]
      [] b.absent # "none"            -> [ret |-> "FAILURE", key |-> NoKey]
      [] OTHER                        -> [ret |-> "SUCCESS", key |-> RsaFixup(b)]

(* gck_data_der_read_private_key_dsa: p, q, g, Y and priv taken as read.  *)
ReadPrivateKeyDsa(b) ==
    CASE ~Decodes("DSAPrivateKey", b) -> [ret |-> "UNRECOGNIZED", key |-> NoKey]
      [] b.absent # "none"            -> [ret |-> "FAILURE", key |-> NoKey]
      [] OTHER -> [ret |-> "SUCCESS",
                   key |-> [alg |-> "dsa", p |-> b.p, q |-> b.q, g |-> b.g,
                            y |-> b.Y, x |-> b.priv]]

(* gck_data_der_read_private_key_dsa_parts (the key and the parameters   *)
(* of a PKCS#8 element): y is not stored and is computed as g^x mod p.    *)
ReadPrivateKeyDsaParts(kb, pb) ==
    CASE ~Decodes("DSAParameters", pb) \/ ~Decodes("DSAPrivatePart", kb)
                                      -> [ret |-> "UNRECOGNIZED", key |-> NoKey]
      [] pb.absent # "none" \/ kb.absent # "none"
                                      -> [ret |-> "FAILURE", key |-> NoKey]
      [] OTHER -> [ret |-> "SUCCESS",
                   key |-> [alg |-> "dsa", p |-> pb.p, q |-> pb.q, g |-> pb.g,
                            y |-> PowM(pb.g, kb.value, pb.p), x |-> kb.value]]

(* gck_data_der_read_public_key_rsa                                        *)
ReadPublicKeyRsa(b) ==
    CASE ~Decodes("RSAPublicKey", b) -> [ret |-> "UNRECOGNIZED", key |-> NoKey]
      [] b.absent # "none"           -> [ret |-> "FAILURE", key |-> NoKey]
      [] OTHER -> [ret |-> "SUCCESS",
                   key |-> [alg |-> "rsa", n |-> b.modulus, e |-> b.publicExponent]]

(* gck_data_der_read_public_key_dsa: p, q, g and Y; the version is not   *)
(* read.                                                                   *)
ReadPublicKeyDsa(b) ==
    CASE ~Decodes("DSAPublicKey", b) -> [ret |-> "UNRECOGNIZED", key |-> NoKey]
      [] b.absent # "none"           -> [ret |-> "FAILURE", key |-> NoKey]
      [] OTHER -> [ret |-> "SUCCESS",
                   key |-> [alg |-> "dsa", p |-> b.p, q |-> b.q, g |-> b.g, y |-> b.Y]]

(* gck_data_der_read_public_key_dsa_parts: the DSAPublicPart element is  *)
(* y itself, the parameters element p, q and g.                          *)
ReadPublicKeyDsaParts(kb, pb) ==
    CASE ~Decodes("DSAParameters", pb) \/ ~Decodes("DSAPublicPart", kb)
                                      -> [ret |-> "UNRECOGNIZED", key |-> NoKey]
      [] pb.absent # "none" \/ kb.absent # "none"
                                      -> [ret |-> "FAILURE", key |-> NoKey]
      [] OTHER -> [ret |-> "SUCCESS",
                   key |-> [alg |-> "dsa", p |-> pb.p, q |-> pb.q, g |-> pb.g,
                            y |-> kb.value]]

(* gck_data_der_read_public_key_info: a SubjectPublicKeyInfo whose        *)
(* algorithm OID picks the reader of the subjectPublicKey bit string (its *)
(* bit length divided by 8 is the byte length of the key element); DSA    *)
(* parameters are read from algorithm.parameters.  An unknown OID, or     *)
(* any field that cannot be read, is FAILURE; the RSA reader's own        *)
(* UNRECOGNIZED is passed on.                                              *)
ReadPublicKeyInfo(b) ==
    CASE ~Decodes("SubjectPublicKeyInfo", b) -> [ret |-> "UNRECOGNIZED", key |-> NoKey]
      [] b.absent \in {"algorithm", "subjectPublicKey"}
                                            -> [ret |-> "FAILURE", key |-> NoKey]
      [] b.oid = "rsa"                      -> ReadPublicKeyRsa(b.subjectPublicKey)
      [] b.oid = "dsa" /\ b.absent = "parameters"
                                            -> [ret |-> "FAILURE", key |-> NoKey]
      [] b.oid = "dsa"  -> ReadPublicKeyDsaParts(b.subjectPublicKey, b.parameters)
      [] OTHER                              -> [ret |-> "FAILURE", key |-> NoKey]

(* gck_data_der_read_public_key and gck_data_der_read_private_key: RSA   *)
(* first, DSA when RSA does not recognise the blob.                        *)
ReadPublicKey(b) ==
    LET r == ReadPublicKeyRsa(b)
    IN  IF r.ret = "UNRECOGNIZED" THEN ReadPublicKeyDsa(b) ELSE r

ReadPrivateKey(b) ==
    LET r == ReadPrivateKeyRsa(b)
    IN  IF r.ret = "UNRECOGNIZED" THEN ReadPrivateKeyDsa(b) ELSE r

(* Mutant: the version is never written, so the element has none.        *)
WritePrivateKeyRsaNoVersion(k) ==
    [type |-> "RSAPrivateKey", version |-> 0, absent |-> "version",
     modulus |-> k.n, publicExponent |-> k.e, privateExponent |-> k.d,
     prime1 |-> k.p, prime2 |-> k.q, coefficient |-> k.u,
     exponent1 |-> k.d % (k.p - 1), exponent2 |-> k.d % (k.q - 1)]

(* gck_data_der_write_private_key_rsa: gcrypt's p, q and u are written as *)
(* prime1, prime2 and coefficient; exponent1 and exponent2 are computed.  *)
WritePrivateKeyRsa(k) ==
    [type |-> "RSAPrivateKey", version |-> 0, absent |-> "none",
     modulus |-> k.n, publicExponent |-> k.e, privateExponent |-> k.d,
     prime1 |-> k.p, prime2 |-> k.q, coefficient |-> k.u,
     exponent1 |-> k.d % (k.p - 1), exponent2 |-> k.d % (k.q - 1)]

(* gck_data_der_write_private_key_dsa                                      *)
WritePrivateKeyDsa(k) ==
    [type |-> "DSAPrivateKey", absent |-> "none",
     p |-> k.p, q |-> k.q, g |-> k.g, Y |-> k.y, priv |-> k.x]

(* gck_data_der_write_private_key_dsa_part and _dsa_params: NULL when   *)
(* gck_crypto_sexp_extract_mpi finds no "dsa" x (or p, q, g) in the key.  *)
WritePrivateKeyDsaPart(k) ==
    IF k.alg = "dsa" /\ "x" \in DOMAIN k
    THEN [type |-> "DSAPrivatePart", absent |-> "none", value |-> k.x]
    ELSE NULL

WritePrivateKeyDsaParams(k) ==
    IF k.alg = "dsa"
    THEN [type |-> "DSAParameters", absent |-> "none", p |-> k.p, q |-> k.q, g |-> k.g]
    ELSE NULL

(* gck_data_der_write_public_key_rsa and _dsa.                             *)
WritePublicKeyRsa(k) ==
    [type |-> "RSAPublicKey", absent |-> "none",
     modulus |-> k.n, publicExponent |-> k.e]

WritePublicKeyDsa(k) ==
    [type |-> "DSAPublicKey", version |-> 0, absent |-> "none",
     p |-> k.p, q |-> k.q, g |-> k.g, Y |-> k.y]

(* gck_crypto_sexp_parse_key: a private key carries d (RSA) or x (DSA).  *)
IsPrivate(k) == "d" \in DOMAIN k \/ "x" \in DOMAIN k

(* gck_data_der_write_private_key and _public_key: NULL through           *)
(* g_return_val_if_fail for a key of the other kind, else dispatch on     *)
(* the algorithm.                                                          *)
WritePrivateKey(k) ==
    CASE ~IsPrivate(k)  -> NULL
      [] k.alg = "rsa"  -> WritePrivateKeyRsa(k)
      [] OTHER          -> WritePrivateKeyDsa(k)

WritePublicKey(k) ==
    CASE IsPrivate(k)   -> NULL
      [] k.alg = "rsa"  -> WritePublicKeyRsa(k)
      [] OTHER          -> WritePublicKeyDsa(k)

-----------------------------------------------------------------------------

Init ==
    /\ file \in Blobs
    /\ key = NoKey
    /\ ret = "none"

(* Load the held file with one of the readers; s_key is set only on      *)
(* SUCCESS.  A parts file holds the two elements of a PKCS#8 DSA key.     *)
LoadWith(r) ==
    /\ ret' = r.ret
    /\ key' = r.key
    /\ UNCHANGED file

LoadPrivateKey == LoadWith(ReadPrivateKey(file))

LoadPublicKey == LoadWith(ReadPublicKey(file))

LoadPrivateKeyDsaParts ==
    /\ file.type = "parts"
    /\ LoadWith(ReadPrivateKeyDsaParts(file.part, file.params))

LoadPublicKeyInfo == LoadWith(ReadPublicKeyInfo(file))

(* Mutant: the writer's NULL result is taken for a blob.                  *)
SaveWithNoNullCheck(w) ==
    /\ key # NoKey
    /\ file' = w
    /\ ret' = "written"
    /\ UNCHANGED key

(* Save the loaded key over the file; a NULL result leaves it as it was.  *)
SaveWith(w) ==
    /\ key # NoKey
    /\ file' = IF w = NULL THEN file ELSE w
    /\ ret' = IF w = NULL THEN "NULL" ELSE "written"
    /\ UNCHANGED key

SavePrivateKey == SaveWith(WritePrivateKey(key))

SavePublicKey == SaveWith(WritePublicKey(key))

SavePrivateKeyDsaParts ==
    LET kb == WritePrivateKeyDsaPart(key)
        pb == WritePrivateKeyDsaParams(key)
    IN  SaveWith(IF kb = NULL \/ pb = NULL THEN NULL
                 ELSE [type |-> "parts", absent |-> "none", part |-> kb, params |-> pb])

Next ==
    \/ LoadPrivateKey \/ LoadPublicKey \/ LoadPrivateKeyDsaParts
    \/ LoadPublicKeyInfo
    \/ SavePrivateKey \/ SavePublicKey \/ SavePrivateKeyDsaParts

Spec == Init /\ [][Next]_vars

-----------------------------------------------------------------------------
(* Reference definitions.                                                  *)

Phi(p, q) == (p - 1) * (q - 1)

(* RFC 8017 A.1.2: an RSAPrivateKey of two primes.                        *)
Pkcs1Valid(b) ==
    /\ b.type = "RSAPrivateKey" /\ b.version = 0
    /\ b.prime1 # b.prime2
    /\ b.modulus = b.prime1 * b.prime2
    /\ (b.publicExponent * b.privateExponent) % Phi(b.prime1, b.prime2) = 1
    /\ b.exponent1 = b.privateExponent % (b.prime1 - 1)
    /\ b.exponent2 = b.privateExponent % (b.prime2 - 1)
    /\ b.coefficient \in 1..(b.prime1 - 1)
    /\ (b.prime2 * b.coefficient) % b.prime1 = 1

(* What gcrypt requires of a key it is given.                             *)
GcryptValid(k) ==
    CASE k.alg = "rsa" /\ IsPrivate(k) ->
            /\ k.p < k.q
            /\ k.n = k.p * k.q
            /\ (k.e * k.d) % Phi(k.p, k.q) = 1
            /\ k.u \in 1..(k.q - 1)
            /\ (k.p * k.u) % k.q = 1
      [] k.alg = "rsa" -> k.n > 1
      [] k.alg = "dsa" ->
            /\ (k.p - 1) % k.q = 0
            /\ PowM(k.g, k.q, k.p) = 1
            /\ IF IsPrivate(k) THEN k.y = PowM(k.g, k.x, k.p)
                               ELSE PowM(k.y, k.q, k.p) = 1
      [] OTHER -> FALSE

(* The reader for the format a file was written in.                      *)
ReadBack(f) ==
    CASE f.type = "parts" -> ReadPrivateKeyDsaParts(f.part, f.params)
      [] f.type \in {"RSAPublicKey", "DSAPublicKey"} -> ReadPublicKey(f)
      [] OTHER -> ReadPrivateKey(f)

TypeOK ==
    /\ ret \in Results
    /\ key = NoKey \/ key.alg \in {"rsa", "dsa"}
    /\ file.type \in {"RSAPrivateKey", "DSAPrivateKey", "RSAPublicKey",
                      "DSAPublicKey", "parts", "SubjectPublicKeyInfo", "other"}

(* Every key a reader hands back from a well-formed file is one gcrypt    *)
(* accepts: the prime swap and the recomputed u of the RSA reader's       *)
(* fix-up put a PKCS#1 key in gcrypt's form, and the DSA parts reader     *)
(* computes y from the parameters and x.                                  *)
LoadedKeyUsable == key # NoKey => GcryptValid(key)

(* A file that gck_data_der_write_private_key, _write_public_key or the   *)
(* DSA part and parameter writers produced from the loaded key is read    *)
(* back by the matching reader as that same key.                          *)
SavedFileReadsBack ==
    ret = "written" => ReadBack(file) = [ret |-> "SUCCESS", key |-> key]

(* A file written by gck_data_der_write_private_key_rsa is a PKCS#1      *)
(* RSAPrivateKey that other readers of the format accept.                 *)
SavedRsaIsPkcs1 ==
    ret = "written" /\ file.type = "RSAPrivateKey" => Pkcs1Valid(file)

=============================================================================
