------------------------------- MODULE Tables -------------------------------
(***************************************************************************)
(* The judgement tables of the name matcher (proofstein/matching.py).      *)
(* A word of a name is the sequence of the fragments it is made of, so     *)
(* that <<"SHA", "256">> is SHA256 and a longer word shows what it holds.  *)
(***************************************************************************)
EXTENDS Sequences

AES == <<"AES">>
RSA == <<"RSA">>
DSA == <<"DSA">>
DES == <<"DES">>
TLS == <<"TLS">>
SSL == <<"SSL">>
ECDSA    == <<"EC", "DSA">>
Ed25519  == <<"ED", "25519">>
X25519   == <<"X", "25519">>
MLKEM    == <<"ML", "KEM">>
MLDSA    == <<"ML", "DSA">>
SLHDSA   == <<"SLH", "DSA">>
ChaCha20 == <<"CHACHA", "20">>
Salsa20  == <<"SALSA", "20">>
TripleDES == <<"3", "DES">>

\* Which spellings of a word are the same word.
Aliases ==
    {<<<<"AES", "GCM">>, AES>>, <<<<"AES", "256", "GCM">>, AES>>,
     <<<<"ED", "DSA">>, Ed25519>>, <<<<"ED", "25519", "PH">>, Ed25519>>,
     <<<<"CURVE", "25519">>, X25519>>,
     <<<<"SECP", "256", "R", "1">>, <<"P", "256">>>>,
     <<<<"PRIME", "256", "V", "1">>, <<"P", "256">>>>,
     <<<<"NIST", "P", "256">>, <<"P", "256">>>>,
     <<<<"SECP", "256", "K", "1">>, <<"P", "256", "K", "1">>>>,
     <<<<"SECP", "384", "R", "1">>, <<"P", "384">>>>,
     <<<<"KYBER">>, MLKEM>>, <<<<"DILITHIUM">>, MLDSA>>,
     <<<<"SHA", "2">>, <<"SHA", "256">>>>,
     <<<<"SHA", "256", "WITH", "RSA">>, RSA>>, <<<<"RSA", "SSA">>, RSA>>,
     <<<<"RSA", "PSS">>, RSA>>, <<<<"PSS">>, RSA>>, <<<<"PKCS", "1">>, RSA>>,
     <<<<"OAEP">>, RSA>>, <<<<"RS", "256">>, RSA>>,
     <<<<"ES", "256">>, ECDSA>>, <<<<"EC">>, ECDSA>>, <<<<"EC", "DH">>, ECDSA>>,
     <<<<"TLS", "V", "1">>, TLS>>, <<<<"TLS", "1">>, TLS>>,
     <<<<"X", "SALSA", "20">>, Salsa20>>,
     <<<<"CHACHA", "20", "POLY", "1305">>, ChaCha20>>, <<<<"POLY", "1305">>, ChaCha20>>,
     <<<<"ARC", "4">>, <<"RC", "4">>>>}

\* Words that say nothing about the algorithm.
Stopwords ==
    {<<w>> : w \in {"WITH", "AND", "KEY", "ALGORITHM", "CIPHER", "MODE", "NOPADDING",
                    "PADDING", "PRIVATE", "PUBLIC", "SECRET", "OTHER", "UNKNOWN",
                    "GENERIC", "UNSPECIFIED", "IN", "USE", "BLOCK"}}

CipherQualifiers ==
    {<<w>> : w \in {"CBC", "ECB", "CFB", "OFB", "CTR", "GCM", "CCM", "XTS", "EDE"}}
    \cup {<<"EDE", "2">>, <<"EDE", "3">>, <<"PKCS", "5">>, <<"PKCS", "7">>}

Families ==
    {AES, RSA, ECDSA, Ed25519, X25519, MLKEM, MLDSA, SLHDSA, ChaCha20, Salsa20,
     DES, TripleDES, DSA, TLS, SSL}
    \cup {<<w>> : w \in {"FALCON", "LMS", "XMSS", "BLOWFISH", "HMAC", "SCRYPT", "DH",
                         "SEED", "IDEA", "CAMELLIA"}}
    \cup {<<"SHA", n>> : n \in {"1", "256", "384", "512", "3"}}
    \cup {<<"MD", "5">>, <<"PBKDF", "2">>, <<"ARGON", "2">>, <<"MGF", "1">>,
          <<"RC", "2">>, <<"RC", "4">>, <<"CAST", "5">>}

\* Families whose names are words: they count only as a whole word of a name.
WholeTokenOnly ==
    {DES, <<"RC", "2">>, <<"RC", "4">>, <<"SEED">>, <<"IDEA">>, <<"CAST", "5">>,
     <<"CAMELLIA">>}

\* What shows a family inside a longer word, and the family.
FamilyMarkers ==
    {<<f, f>> : f \in (Families \ WholeTokenOnly) \ {<<"DH">>}}
    \cup {<<<<"KYBER">>, MLKEM>>, <<<<"DILITHIUM">>, MLDSA>>, <<<<"SPHINCS">>, SLHDSA>>,
          <<<<"FN", "DSA">>, <<"FALCON">>>>, <<<<"ED", "DSA">>, Ed25519>>,
          <<<<"CURVE", "25519">>, X25519>>, <<<<"POLY", "1305">>, ChaCha20>>,
          <<<<"X", "SALSA", "20">>, Salsa20>>, <<<<"TRIPLE", "DES">>, TripleDES>>,
          <<<<"EC", "DH">>, ECDSA>>, <<<<"SECP">>, ECDSA>>,
          <<<<"PRIME", "256", "V", "1">>, ECDSA>>, <<<<"NIST", "P">>, ECDSA>>,
          <<<<"RSA", "SSA">>, RSA>>}

\* What makes a DSA the end of another family's name.
DsaPrefixes == {"ML", "SLH", "FN"}

CurveTokens ==
    {<<"P", "256">>, <<"P", "384">>, <<"P", "521">>, <<"P", "256", "K", "1">>,
     <<"SECP", "256", "R", "1">>, <<"PRIME", "256", "V", "1">>}

CryptoSizes ==
    {"112", "128", "160", "192", "224", "233", "256", "283", "320", "384", "409", "448",
     "512", "521", "571", "768", "1024", "1536", "2048", "3072", "4096", "7680", "8192",
     "15360", "44", "65", "87"}

\* The fragments that are numbers; none of the others has a digit.
Numerals == CryptoSizes \cup {"1", "2", "3", "4", "5", "7", "8", "12", "20", "1305", "25519"}
=============================================================================
