\* A loaded RSA key saved back to DER.
CONSTANTS
    Blobs <- MCBlobs
SPECIFICATION Spec
INVARIANTS SavedRsaIsPkcs1
