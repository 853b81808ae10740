---------------------------- MODULE PathsProofs -----------------------------
(***************************************************************************)
(* Paths, for files and reported paths of any length: which file the loop  *)
(* over suffixes ends in, and what normalization leaves of a path.         *)
(***************************************************************************)
EXTENDS Paths, Extrema

\* Files that agree in n segments agree in fewer.
LEMMA AgreeInFewer ==
    ASSUME NEW file, NEW path, NEW n \in Nat, NEW m \in Nat, m <= n, Agree(file, path, n),
           Len(file) \in Nat, Len(path) \in Nat
    PROVE  Agree(file, path, m)
  BY DEF Agree

\* Normalization drops leading segments, and what is left is a sequence of them.
LEMMA LeadingType ==
    ASSUME NEW T, NEW path \in Seq(T), NEW s, NEW limit \in Nat, limit <= Len(path)
    PROVE  Leading(path, s, limit) \in 0..limit
<1> DEFINE S == {n \in 0..limit : \A k \in 1..n : path[k] = s}
<1>1. 0 \in S
  OBVIOUS
<1>2. PICK m \in S : \A k \in S : k <= m
  BY <1>1, BoundedMax
<1>3. m < limit => path[m + 1] # s
  <2> SUFFICES ASSUME m < limit, path[m + 1] = s PROVE FALSE
    OBVIOUS
  <2>1. \A k \in 1..(m + 1) : k \in 1..m \/ k = m + 1
    OBVIOUS
  <2>2. m + 1 \in S
    BY <2>1
  <2> QED
    BY <1>2, <2>2
<1>4. \E n \in 0..limit : /\ \A k \in 1..n : path[k] = s
                          /\ n < limit => path[n + 1] # s
  BY <1>3
<1> QED
  BY <1>4 DEF Leading

LEMMA RestType ==
    ASSUME NEW T, NEW path \in Seq(T), NEW n \in 0..Len(path)
    PROVE  Rest(path, n) \in Seq(T)
<1>1. n + 1 \in 1..(Len(path) + 1) /\ Len(path) \in Nat
  OBVIOUS
<1>2. \A k \in 1..Len(path) : path[k] \in T
  OBVIOUS
<1> QED
  BY <1>1, <1>2 DEF Rest

LEMMA NormalizeType ==
    ASSUME NEW T, NEW path \in Seq(T), path # <<>>
    PROVE  NormalizePath(path) \in Seq(T)
<1> DEFINE undotted == Rest(path, Leading(path, Dot, Len(path) - 1))
<1>1. Len(path) - 1 \in Nat /\ Len(path) \in Nat
  OBVIOUS
<1>2. Leading(path, Dot, Len(path) - 1) \in 0..(Len(path) - 1)
  BY <1>1, LeadingType
<1>3. undotted \in Seq(T)
  BY <1>1, <1>2, RestType
<1> HIDE DEF undotted
<1>4. Len(undotted) \in Nat /\ Leading(undotted, Empty, Len(undotted)) \in 0..Len(undotted)
  BY <1>3, LeadingType
<1>5. Rest(undotted, Leading(undotted, Empty, Len(undotted))) \in Seq(T)
  BY <1>3, <1>4, RestType
<1> QED
  BY <1>5 DEF NormalizePath, undotted

-----------------------------------------------------------------------------
\* A file is the only one with some suffix of the path.
Singled(files, path, file) ==
    \E n \in 1..Len(path) : Candidates(files, path, n) = {file}

\* At most one file is: of two, one would have the shorter of their suffixes too.
LEMMA SingledIsOne ==
    ASSUME NEW files, \A f \in files : Len(f) \in Nat, NEW path, Len(path) \in Nat,
           NEW f \in files, NEW g \in files, Singled(files, path, f), Singled(files, path, g)
    PROVE  f = g
<1>1. PICK m \in 1..Len(path) : Candidates(files, path, m) = {f}
  BY DEF Singled
<1>2. PICK n \in 1..Len(path) : Candidates(files, path, n) = {g}
  BY DEF Singled
<1>3. Agree(f, path, m) /\ Agree(g, path, n)
  BY <1>1, <1>2 DEF Candidates
<1>4. CASE m <= n
  <2>1. Agree(g, path, m)
    BY <1>3, <1>4, AgreeInFewer
  <2> QED
    BY <2>1, <1>1 DEF Candidates
<1>5. CASE n <= m
  <2>1. Agree(f, path, n)
    BY <1>3, <1>5, AgreeInFewer
  <2> QED
    BY <2>1, <1>2 DEF Candidates
<1> QED
  BY <1>4, <1>5

\* The loop from the longest suffix down to the last segment finds the file that
\* is singled out by any suffix, and none when no suffix singles one out: that it
\* passes over an ambiguous suffix never makes it prefer a worse match.
THEOREM LongestSuffixFinds ==
    ASSUME NEW files, \A f \in files : Len(f) \in Nat, NEW path, Len(path) \in Nat
    PROVE  /\ \A f \in files : Singled(files, path, f) => LongestSuffix(files, path) = f
           /\ (\A f \in files : ~Singled(files, path, f)) => LongestSuffix(files, path) = None
<1> DEFINE hits == {n \in 1..Len(path) : Unique(files, path, n)}
           most == CHOOSE n \in hits : \A m \in hits : m <= n
<1>1. ASSUME NEW f \in files, Singled(files, path, f)
      PROVE  LongestSuffix(files, path) = f
  <2>1. hits # {}
    BY <1>1 DEF Singled, Unique
  <2>2. \E n \in hits : \A m \in hits : m <= n
    <3>1. hits \in SUBSET (0..Len(path))
      OBVIOUS
    <3> HIDE DEF hits
    <3> QED
      BY <2>1, <3>1, BoundedMax
  <2>3. most \in hits
    BY <2>2
  <2>4. PICK g \in files : Candidates(files, path, most) = {g}
    BY <2>3 DEF Unique
  <2>5. LongestSuffix(files, path) = CHOOSE h \in files : Candidates(files, path, most) = {h}
    BY <2>1 DEF LongestSuffix
  <2>6. LongestSuffix(files, path) = g
    BY <2>4, <2>5
  <2>7. Singled(files, path, g)
    BY <2>3, <2>4 DEF Singled
  <2> QED
    BY <1>1, <2>6, <2>7, SingledIsOne
<1>2. ASSUME \A f \in files : ~Singled(files, path, f)
      PROVE  LongestSuffix(files, path) = None
  <2>1. hits = {}
    BY <1>2 DEF Singled, Unique
  <2> QED
    BY <2>1 DEF LongestSuffix
<1> QED
  BY <1>1, <1>2
=============================================================================
