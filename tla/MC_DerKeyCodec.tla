--------------------------- MODULE MC_DerKeyCodec ---------------------------
EXTENDS DerKeyCodec

\* Two-prime RSA keys over small primes, both orders of prime1 and prime2.
MCPrimes == {3, 5, 7, 11}
MCExponents == {3, 5, 7}

\* Well-formed PKCS#1 files, and the same files with an unsupported
\* version or with one field the reader fails to read.
RsaBlob(p, q, e, v, a) ==
    LET d == InvM(e, Phi(p, q))
    IN  [type |-> "RSAPrivateKey", version |-> v, absent |-> a,
         modulus |-> p * q, publicExponent |-> e, privateExponent |-> d,
         prime1 |-> p, prime2 |-> q,
         exponent1 |-> d % (p - 1), exponent2 |-> d % (q - 1),
         coefficient |-> InvM(q, p)]

\* e is usable when it has an inverse modulo (p-1)(q-1).
MCRsaBlobs ==
    UNION { { RsaBlob(pq[1], pq[2], e, v, a) :
                e \in {x \in MCExponents :
                        \E y \in 1..Phi(pq[1], pq[2]) : (x * y) % Phi(pq[1], pq[2]) = 1},
                v \in {0, 1}, a \in {"none", "version", "coefficient"} } :
            pq \in {pq \in MCPrimes \X MCPrimes : pq[1] # pq[2]} }

\* RSAPublicKey files of the same moduli, whole or with the exponent
\* unreadable.
MCRsaPublicBlobs ==
    { [type |-> "RSAPublicKey", absent |-> a,
       modulus |-> b.modulus, publicExponent |-> b.publicExponent] :
         b \in MCRsaBlobs, a \in {"none", "publicExponent"} }

\* DSA groups (p, q, g) with g of order q, and every private value.
MCDsaGroups == {<<7, 3, 2>>, <<11, 5, 3>>}

MCDsaKeys ==
    UNION { { [p |-> grp[1], q |-> grp[2], g |-> grp[3], x |-> x,
               y |-> PowM(grp[3], x, grp[1])] : x \in 1..(grp[2] - 1) } :
            grp \in MCDsaGroups }

\* DSAPrivateKey and DSAPublicKey files, and PKCS#8 DSA key and parameter
\* elements, whole or with one field unreadable.
MCDsaBlobs ==
    { [type |-> "DSAPrivateKey", absent |-> a,
       p |-> k.p, q |-> k.q, g |-> k.g, Y |-> k.y, priv |-> k.x] :
         k \in MCDsaKeys, a \in {"none", "priv"} }
    \cup
    { [type |-> "DSAPublicKey", version |-> 0, absent |-> a,
       p |-> k.p, q |-> k.q, g |-> k.g, Y |-> k.y] :
         k \in MCDsaKeys, a \in {"none", "Y"} }
    \cup
    { [type |-> "parts", absent |-> "none",
       part |-> [type |-> "DSAPrivatePart", absent |-> a, value |-> k.x],
       params |-> [type |-> "DSAParameters", absent |-> "none",
                   p |-> k.p, q |-> k.q, g |-> k.g]] :
         k \in MCDsaKeys, a \in {"none", "value"} }

\* SubjectPublicKeyInfo files: RSA around every RSAPublicKey file above,
\* DSA around each public value with its parameters, whole or with the
\* key or the parameters unreadable; one file of an unsupported algorithm
\* and one whose algorithm cannot be read.
Spki(oid, a, k, prm) ==
    [type |-> "SubjectPublicKeyInfo", absent |-> a, oid |-> oid,
     subjectPublicKey |-> k, parameters |-> prm]

MCSpkiBlobs ==
    LET dsaParams(k) == [type |-> "DSAParameters", absent |-> "none",
                         p |-> k.p, q |-> k.q, g |-> k.g]
        dsaPart(k) == [type |-> "DSAPublicPart", absent |-> "none", value |-> k.y]
        anyRsa == CHOOSE b \in MCRsaPublicBlobs : b.absent = "none"
    IN  { Spki("rsa", "none", b, NULL) : b \in MCRsaPublicBlobs }
        \cup
        { Spki("dsa", a, dsaPart(k), dsaParams(k)) :
            k \in MCDsaKeys, a \in {"none", "parameters", "subjectPublicKey"} }
        \cup
        { Spki(oid, a, anyRsa, NULL) : <<oid, a>> \in {<<"ec", "none">>, <<"rsa", "algorithm">>} }

MCBlobs ==
    MCRsaBlobs \cup MCRsaPublicBlobs \cup MCDsaBlobs \cup MCSpkiBlobs
               \cup {[type |-> "other", absent |-> "none"]}
=============================================================================
