\* RSA and DSA private and public key files and PKCS#8 DSA elements, whole
\* or with a field unreadable, loaded with any reader and saved with any
\* writer in any order.
CONSTANTS
    Blobs <- MCBlobs
SPECIFICATION Spec
INVARIANTS TypeOK LoadedKeyUsable SavedFileReadsBack
