------------------------------- MODULE Names --------------------------------
(***************************************************************************)
(* Whether a reported name may stand for a planted one                     *)
(* (proofstein/matching.py).  A name is what _clean leaves of it: its      *)
(* letters and digits without separators, as a sequence of fragments, and  *)
(* the positions at which a separator, or the beginning, put a new word.   *)
(* Two spellings that differ in their separators differ in starts only.    *)
(***************************************************************************)
EXTENDS Tables, Naturals

IsName(name) ==
    /\ DOMAIN name.atoms = 1..Len(name.atoms)
    /\ name.starts \subseteq DOMAIN name.atoms
    /\ name.atoms # <<>> => 1 \in name.starts

Occurs(marker, atoms, i) ==
    /\ i + Len(marker) <= Len(atoms) + 1
    /\ \A k \in DOMAIN marker : atoms[i + k - 1] = marker[k]

\* Faulty variant: a marker is looked for anywhere in the name.
MarkerAnywhere(name, marker) == \E i \in DOMAIN name.atoms : Occurs(marker, name.atoms, i)

MarkerMatches(name, marker) ==
    LET atoms == name.atoms
        after(i) == i + Len(marker)
    IN  \E i \in DOMAIN atoms :
            /\ Occurs(marker, atoms, i)
            /\ i \in name.starts \/ atoms[i - 1] \in Numerals
            /\ marker = DSA /\ i > 1 => atoms[i - 1] \notin DsaPrefixes
            /\ marker[Len(marker)] \in Numerals /\ after(i) \in DOMAIN atoms
                   => atoms[after(i)] \notin Numerals

\* The word that begins at i.
Part(name, i) ==
    SubSeq(name.atoms, i,
           CHOOSE j \in i..Len(name.atoms) :
               /\ j = Len(name.atoms) \/ j + 1 \in name.starts
               /\ \A k \in (i + 1)..j : k \notin name.starts)

Parts(name) == {Part(name, i) : i \in name.starts}

Alias(part) ==
    IF \E a \in Aliases : a[1] = part THEN (CHOOSE a \in Aliases : a[1] = part)[2] ELSE part

IsNumber(part) == \A k \in DOMAIN part : part[k] \in Numerals

\* The words a reader has to account for.
Significant(name) ==
    {Alias(part) : part \in {p \in Parts(name) : p \notin Stopwords /\ ~IsNumber(p)}}

\* The tail of ML-DSA, SLH-DSA or FN-DSA, set apart by a separator.
IsDsaTail(name, i) ==
    /\ Part(name, i) = DSA
    /\ i - 1 \in name.starts
    /\ name.atoms[i - 1] \in DsaPrefixes

ReadsAsAlgorithm(name, part) ==
    part \in WholeTokenOnly => Significant(name) \ {part} \subseteq CipherQualifiers

\* A word of letters and a trailing number also counts in two halves.
Halves(part) ==
    LET n == Len(part) IN
    IF n > 1 /\ part[n] \in Numerals /\ \A k \in 1..(n - 1) : part[k] \notin Numerals
    THEN {<<part[n]>>} \cup ({Alias(SubSeq(part, 1, n - 1))} \ Stopwords)
    ELSE {}

Tokens(name) ==
    UNION {{Alias(Part(name, i))} \cup Halves(Alias(Part(name, i))) :
           i \in {j \in name.starts :
                    /\ Part(name, j) \notin Stopwords
                    /\ ~IsDsaTail(name, j)
                    /\ Alias(Part(name, j)) \notin Stopwords
                    /\ ReadsAsAlgorithm(name, Alias(Part(name, j)))}}

NormalizeTokens(name) ==
    LET tokens == Tokens(name) \cup
                  {m[2] : m \in {p \in FamilyMarkers : MarkerMatches(name, p[1])}}
    IN  IF tokens \cap CurveTokens # {} THEN tokens \cup {ECDSA} ELSE tokens

FamiliesOf(name) == NormalizeTokens(name) \cap Families

\* Separators are dropped before the digits are read: neighbouring numbers run
\* together and are no size.  Names in which they would be one, as 5 and 12 are,
\* are left out.
Parameters(name) ==
    {name.atoms[i] : i \in {j \in DOMAIN name.atoms :
        /\ name.atoms[j] \in CryptoSizes
        /\ j > 1 => name.atoms[j - 1] \notin Numerals
        /\ j < Len(name.atoms) => name.atoms[j + 1] \notin Numerals}}

\* Faulty variant: any size is taken for any other.
ContradictsNever(planted, reported) == FALSE

Contradicts(planted, reported) ==
    /\ FamiliesOf(planted) # {}
    /\ FamiliesOf(planted) = FamiliesOf(reported)
    /\ Parameters(planted) # {}
    /\ Parameters(reported) # {}
    /\ Parameters(planted) \cap Parameters(reported) = {}

AlgorithmsCompatible(planted, reported) ==
    LET shared == NormalizeTokens(planted) \cap NormalizeTokens(reported) IN
    /\ IF FamiliesOf(planted) # {} /\ FamiliesOf(reported) # {}
       THEN FamiliesOf(planted) \cap FamiliesOf(reported) # {}
       ELSE /\ shared # {}
            /\ FamiliesOf(planted) # {} => ~(shared \subseteq CipherQualifiers)
    /\ ~Contradicts(planted, reported)
=============================================================================
