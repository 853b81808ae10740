--------------------------- MODULE PublishProofs ----------------------------
(***************************************************************************)
(* Proofs about Publish, for any projects, names, directories, deliveries  *)
(* and kills.                                                              *)
(***************************************************************************)
EXTENDS Publish, Extrema, SequenceTheorems, FiniteSetTheorems

-----------------------------------------------------------------------------
(***************************************************************************)
(* Whose CBOM a name says it is.                                           *)
(***************************************************************************)
LEMMA Prefixed ==
    ASSUME NEW T, NEW u \in T, NEW p \in Seq(T)
    PROVE  /\ <<u>> \o p \in Seq(T)
           /\ Len(p) \in Nat /\ Len(<<u>> \o p) = 1 + Len(p)
OBVIOUS

LEMMA LengthType ==
    ASSUME NEW T, NEW p \in Seq(T) PROVE Len(p) \in Nat
OBVIOUS

\* A project that is matched is a project: the longest of those a name ends like.
LEMMA MatchType ==
    ASSUME NEW known, \A p \in known : p \in Seq(Words), NEW words \in Seq(Words)
    PROVE  MatchProject(words, known) \in known \cup {None}
<1> DEFINE ends == {p \in known : EndsWith(words, <<Underscore>> \o p)}
           lengths == {Len(p) : p \in ends}
<1>1. CASE words \in known
  BY <1>1 DEF MatchProject
<1>2. CASE words \notin known /\ ends = {}
  BY <1>2 DEF MatchProject
<1>3. CASE words \notin known /\ ends # {}
  <2>1. \A p \in ends : Len(p) \in 0..Len(words)
    <3> SUFFICES ASSUME NEW p \in ends PROVE Len(p) \in 0..Len(words)
      OBVIOUS
    <3>1. p \in Seq(Words) /\ Len(<<Underscore>> \o p) <= Len(words)
      BY DEF EndsWith
    <3> HIDE DEF ends, lengths
    <3>2. Len(words) \in Nat
      BY LengthType
    <3>3. Underscore \in Words
      BY WordsAssumption
    <3>4. Len(p) \in Nat /\ Len(<<Underscore>> \o p) = 1 + Len(p)
      BY <3>1, <3>3, Prefixed
    <3> QED
      BY <3>1, <3>2, <3>4
  <2>2. lengths \in SUBSET (0..Len(words)) /\ lengths # {} /\ Len(words) \in Nat
    <3>1. Len(words) \in Nat
      BY LengthType
    <3> HIDE DEF ends
    <3> QED
      BY <2>1, <1>3, <3>1
  <2>3. PICK most \in lengths : \A n \in lengths : n <= most
    <3> HIDE DEF lengths
    <3> QED
      BY <2>2, BoundedMax
  <2>4. \E p \in ends : \A q \in ends : Len(q) <= Len(p)
    BY <2>3
  <2>5. MatchProject(words, known) = CHOOSE p \in ends : \A q \in ends : Len(q) <= Len(p)
    BY <1>3 DEF MatchProject
  <2> HIDE DEF ends
  <2>6. MatchProject(words, known) \in ends
    BY <2>4, <2>5
  <2> QED
    BY <2>6 DEF ends
<1> QED
  BY <1>1, <1>2, <1>3

LEMMA SplitType ==
    ASSUME NEW stem \in Seq(Words), SeparatorsIn(stem) # {}
    PROVE  SplitAt(stem) \in 1..(Len(stem) - 1)
<1> DEFINE S == SeparatorsIn(stem)
<1>1. S \subseteq 1..(Len(stem) - 1) /\ S \subseteq Nat
  BY DEF SeparatorsIn
<1> HIDE DEF S
<1>2. \E k \in S : \A j \in S : k <= j
  BY <1>1, SomeLeast DEF S
<1> QED
  BY <1>1, <1>2 DEF SplitAt, S

LEMMA UnderstoodIsKnown ==
    ASSUME NEW a \in Args, NEW files \in Inputs, NEW name \in DOMAIN files, Understood(a, name)
    PROVE  Pair(a, name)[1] \in Projects(a.corpus) /\ Pair(a, name)[2] # <<>>
<1> DEFINE known == Projects(a.corpus)
<1>1. \A p \in known : p \in Seq(Words)
  BY ArgsAssumption, WordsAssumption
<1>2. name.stem \in Seq(Words) /\ name.parent \in Seq(Words)
  BY WordsAssumption
<1> HIDE DEF known
<1>3. RawPair(name, known)[1] \in known \cup {None}
  <2>1. CASE SeparatorsIn(name.stem) # {}
    <3> DEFINE k == SplitAt(name.stem)
    <3>1. k \in 1..(Len(name.stem) - 1)
      BY <1>2, <2>1, SplitType
    <3>2. SubSeq(name.stem, 1, k - 1) \in Seq(Words)
      BY <1>2, <3>1
    <3>3. RawPair(name, known)[1] = MatchProject(SubSeq(name.stem, 1, k - 1), known)
      BY <2>1 DEF RawPair
    <3> QED
      BY <1>1, <3>2, <3>3, MatchType
  <2>2. CASE SeparatorsIn(name.stem) = {}
    BY <1>1, <1>2, <2>2, MatchType DEF RawPair
  <2> QED
    BY <2>1, <2>2
<1>4. BundlePair(name, known)[1] \in known \cup {None}
  <2> DEFINE suffix == <<Underscore>> \o name.parent
             stem   == IF EndsWith(name.stem, suffix)
                       THEN SubSeq(name.stem, 1, Len(name.stem) - Len(suffix)) ELSE name.stem
  <2>1. stem \in Seq(Words)
    <3>1. suffix \in Seq(Words)
      <4>1. Underscore \in Words
        BY WordsAssumption
      <4> QED
        BY <1>2, <4>1, Prefixed
    <3>2. CASE EndsWith(name.stem, suffix)
      <4> HIDE DEF suffix
      <4>1. Len(suffix) \in Nat /\ Len(name.stem) \in Nat
        BY <1>2, <3>1
      <4>2. Len(suffix) <= Len(name.stem)
        BY <3>2 DEF EndsWith
      <4>3. Len(name.stem) - Len(suffix) \in 0..Len(name.stem)
        BY <4>1, <4>2
      <4>4. \A n \in 0..Len(name.stem) : SubSeq(name.stem, 1, n) \in Seq(Words)
        BY <1>2
      <4> QED
        BY <3>2, <4>3, <4>4
    <3>3. CASE ~EndsWith(name.stem, suffix)
      BY <3>3, <1>2
    <3> QED
      BY <3>2, <3>3
  <2>2. BundlePair(name, known)[1]
            = IF name.parent = <<>> THEN None ELSE MatchProject(stem, known)
    BY DEF BundlePair
  <2> HIDE DEF stem
  <2> QED
    BY <1>1, <2>1, <2>2, MatchType
<1>5. Pair(a, name)[1] \in known \cup {None}
  BY <1>3, <1>4 DEF Pair, known
<1> QED
  BY <1>5 DEF Understood, known

-----------------------------------------------------------------------------
(***************************************************************************)
(* Type correctness, and that no file of the input is lost.  Sequence says *)
(* of the documents that they are one, which the locals' types leave open. *)
(***************************************************************************)
Sequence == \E S : documents \in Seq(S)

IdleIsEmpty == mode # "score" => documents = <<>>

FreshIsEmpty ==
    mode = "score" /\ phase = "load" => todo = {} /\ documents = <<>> /\ problems = {} /\ listed = {}

\* What is still to be read was a file's name when it was listed.
ListedAreNamed ==
    \A name \in todo : \E files \in Inputs : name \in DOMAIN files

PhaseIsScores == mode # "score" => phase = "load" /\ todo = {} /\ problems = {} /\ listed = {}

IInv == /\ TypeOK /\ EveryFileAccounted /\ Sequence /\ IdleIsEmpty /\ FreshIsEmpty
        /\ ListedAreNamed /\ PhaseIsScores

LEMMA InitIInv == Init => IInv
<1> SUFFICES ASSUME Init PROVE IInv
  OBVIOUS
<1>1. TypeOK
  BY BoundsAssumption DEF Init, TypeOK, NoArgs
<1>2. EveryFileAccounted
  BY DEF Init, EveryFileAccounted
<1>3. Sequence
  <2>1. documents \in Seq({})
    BY DEF Init
  <2> QED
    BY <2>1 DEF Sequence
<1>4. IdleIsEmpty /\ FreshIsEmpty /\ ListedAreNamed /\ PhaseIsScores
  BY DEF Init, IdleIsEmpty, FreshIsEmpty, ListedAreNamed, PhaseIsScores
<1> QED
  BY <1>1, <1>2, <1>3, <1>4 DEF IInv

\* A process that ends, however it ends, leaves nothing behind but its files.
LEMMA ExitIInv ==
    ASSUME IInv, mode \in {"score", "miss"}, NEW how \in {"ok", "error", "killed"}, Exit(how),
           kills' \in 0..MaxKills
    PROVE  IInv'
<1>1. TypeOK'
  BY DEF IInv, TypeOK, Exit, NoArgs
<1>2. EveryFileAccounted'
  BY DEF Exit, EveryFileAccounted
<1>3. Sequence'
  <2>1. documents' \in Seq({})
    BY DEF Exit
  <2> QED
    BY <2>1 DEF Sequence
<1>4. IdleIsEmpty' /\ FreshIsEmpty' /\ ListedAreNamed' /\ PhaseIsScores'
  BY DEF Exit, IdleIsEmpty, FreshIsEmpty, ListedAreNamed, PhaseIsScores
<1> QED
  BY <1>1, <1>2, <1>3, <1>4 DEF IInv

\* A file is read: the document is a project's and a tool's, and none before
\* it is of the same file.
LEMMA ReadIInv ==
    ASSUME IInv, NEW name \in todo, Read(name) PROVE IInv'
<1> DEFINE d == [project |-> Pair(args, name)[1], tool |-> Pair(args, name)[2],
                 source |-> name, content |-> directory[name]]
<1>1. PICK S : documents \in Seq(S)
  BY DEF IInv, Sequence
<1>2. documents' = Append(documents, d)
  BY DEF Read
<1>3. d.project \in Projects(args.corpus) /\ d.tool # <<>> /\ d.source = name
  <2>1. args \in Args /\ Understood(args, name) /\ name \in DOMAIN directory /\ directory \in Inputs
    BY DEF IInv, TypeOK, Read, Scoring
  <2>2. Pair(args, name)[1] \in Projects(args.corpus) /\ Pair(args, name)[2] # <<>>
    BY <2>1, UnderstoodIsKnown
  <2> QED
    BY <2>2
<1> HIDE DEF d
<1>4. /\ Len(documents) \in Nat /\ DOMAIN documents = 1..Len(documents)
      /\ DOMAIN documents' = 1..(Len(documents) + 1)
      /\ \A k \in 1..Len(documents) : documents'[k] = documents[k]
      /\ documents'[Len(documents) + 1] = d
  <2>1. documents \in Seq(S \cup {d}) /\ d \in S \cup {d}
    BY <1>1
  <2> QED
    BY <1>2, <2>1
<1>5. \A k \in DOMAIN documents' :
          (k \in DOMAIN documents /\ documents'[k] = documents[k])
          \/ (k = Len(documents) + 1 /\ documents'[k] = d)
  BY <1>4
<1>6. TypeOK'
  <2>1. \A k \in DOMAIN documents' :
            documents'[k].project \in Projects(args.corpus) /\ documents'[k].tool # <<>>
    BY <1>3, <1>5 DEF IInv, TypeOK
  <2> QED
    BY <2>1 DEF IInv, TypeOK, Read
<1>7. EveryFileAccounted'
  <2> DEFINE old == {documents[k].source : k \in DOMAIN documents}
             new == {documents'[k].source : k \in DOMAIN documents'}
  <2>1. new = old \cup {name}
    <3>1. new \subseteq old \cup {name}
      BY <1>3, <1>5
    <3>2. \A k \in DOMAIN documents : k \in DOMAIN documents' /\ documents'[k] = documents[k]
      BY <1>4
    <3>3. Len(documents) + 1 \in DOMAIN documents'
      BY <1>4
    <3>4. old \cup {name} \subseteq new
      BY <1>3, <1>4, <3>2, <3>3
    <3> QED
      BY <3>1, <3>4
  <2>2. name \notin old
    BY DEF IInv, EveryFileAccounted, Read, Scoring
  <2>3. \A j, k \in DOMAIN documents' : documents'[j].source = documents'[k].source => j = k
    <3> SUFFICES ASSUME NEW j \in DOMAIN documents', NEW k \in DOMAIN documents',
                        documents'[j].source = documents'[k].source
                 PROVE  j = k
      OBVIOUS
    <3>1. CASE j \in DOMAIN documents /\ k \in DOMAIN documents
      BY <3>1, <1>4 DEF IInv, EveryFileAccounted
    <3>2. CASE j \in DOMAIN documents /\ k \notin DOMAIN documents
      BY <3>2, <1>3, <1>4, <1>5, <2>2
    <3>3. CASE j \notin DOMAIN documents /\ k \in DOMAIN documents
      BY <3>3, <1>3, <1>4, <1>5, <2>2
    <3>4. CASE j \notin DOMAIN documents /\ k \notin DOMAIN documents
      BY <3>4, <1>5
    <3> QED
      BY <3>1, <3>2, <3>3, <3>4
  <2>4. /\ listed = todo \cup old \cup problems
        /\ todo \cap old = {} /\ todo \cap problems = {} /\ old \cap problems = {}
    BY DEF IInv, EveryFileAccounted, Read, Scoring
  <2>5. todo' = todo \ {name} /\ listed' = listed /\ problems' = problems
    BY DEF Read
  <2> HIDE DEF old, new
  <2>6. /\ listed' = todo' \cup new \cup problems'
        /\ todo' \cap new = {} /\ todo' \cap problems' = {} /\ new \cap problems' = {}
    BY <2>1, <2>2, <2>4, <2>5
  <2> QED
    BY <2>3, <2>6 DEF EveryFileAccounted, new
<1>8. Sequence'
  <2>1. documents' \in Seq(S \cup {d})
    <3>1. documents \in Seq(S \cup {d}) /\ d \in S \cup {d}
      BY <1>1
    <3> QED
      BY <1>2, <3>1
  <2> QED
    BY <2>1 DEF Sequence
<1>9. IdleIsEmpty' /\ FreshIsEmpty' /\ ListedAreNamed' /\ PhaseIsScores'
  BY DEF IInv, Read, Scoring, IdleIsEmpty, FreshIsEmpty, ListedAreNamed, PhaseIsScores
<1> QED
  BY <1>6, <1>7, <1>8, <1>9 DEF IInv

\* The steps that read no document and end no process.
LEMMA OtherIInv ==
    ASSUME IInv, List \/ (\E name \in todo : ReportProblem(name)) \/ Score \/ ReadManifest
                 \/ WriteMarkdown
    PROVE  IInv'
<1>1. documents' = documents /\ mode = "score" /\ mode' = mode /\ args' = args
  BY DEF List, ReportProblem, Score, ReadManifest, WriteMarkdown, Scoring
<1>2. TypeOK'
  BY <1>1 DEF IInv, TypeOK, List, ReportProblem, Score, ReadManifest, WriteMarkdown
<1>3. Sequence' /\ IdleIsEmpty'
  BY <1>1 DEF IInv, Sequence, IdleIsEmpty
<1>4. FreshIsEmpty' /\ PhaseIsScores'
  BY <1>1 DEF FreshIsEmpty, PhaseIsScores, List, ReportProblem, Score, ReadManifest,
              WriteMarkdown, Scoring, IInv
<1>5. ListedAreNamed'
  BY <1>1 DEF IInv, TypeOK, ListedAreNamed, List, ReportProblem, Score, ReadManifest,
              WriteMarkdown, Scoring
<1>6. EveryFileAccounted'
  <2> DEFINE read == {documents[k].source : k \in DOMAIN documents}
  <2>1. CASE List
    <3>1. documents = <<>> /\ problems = {} /\ problems' = {} /\ todo' = listed'
      BY <2>1 DEF IInv, FreshIsEmpty, List, Scoring
    <3> QED
      BY <1>1, <3>1 DEF EveryFileAccounted
  <2>2. ASSUME NEW name \in todo, ReportProblem(name) PROVE EveryFileAccounted'
    <3>1. /\ todo' = todo \ {name} /\ problems' = problems \cup {name} /\ listed' = listed
      BY <2>2 DEF ReportProblem
    <3>2. /\ listed = todo \cup read \cup problems
          /\ todo \cap read = {} /\ todo \cap problems = {} /\ read \cap problems = {}
      BY <1>1 DEF IInv, EveryFileAccounted
    <3>3. \A j, k \in DOMAIN documents : documents[j].source = documents[k].source => j = k
      BY DEF IInv, EveryFileAccounted
    <3> HIDE DEF read
    <3>4. /\ listed' = todo' \cup read \cup problems'
          /\ todo' \cap read = {} /\ todo' \cap problems' = {} /\ read \cap problems' = {}
      BY <3>1, <3>2
    <3> QED
      BY <1>1, <3>3, <3>4 DEF EveryFileAccounted, read
  <2>3. CASE Score \/ ReadManifest \/ WriteMarkdown
    <3>1. todo' = todo /\ problems' = problems /\ listed' = listed
      BY <2>3 DEF Score, ReadManifest, WriteMarkdown
    <3> QED
      BY <1>1, <3>1 DEF IInv, EveryFileAccounted
  <2> QED
    BY <2>1, <2>2, <2>3
<1> QED
  BY <1>2, <1>3, <1>4, <1>5, <1>6 DEF IInv

LEMMA StartIInv ==
    ASSUME IInv, (\E a \in Args : StartScore(a)) \/ (\E tool \in Tools : StartMiss(tool))
    PROVE  IInv'
<1>1. /\ mode = "idle" /\ mode' \in {"score", "miss"} /\ (mode' = "score" => args' \in Args)
      /\ last'.mode \in {"score", "miss"} /\ last'.exit = "none"
      /\ UNCHANGED <<directory, manifest, phase, listed, todo, documents, problems, deliveries,
                     kills>>
  BY DEF StartScore, StartMiss, Start
<1>2. /\ documents' = <<>> /\ phase' = "load" /\ todo' = {} /\ problems' = {} /\ listed' = {}
  BY <1>1 DEF IInv, IdleIsEmpty, PhaseIsScores
<1>3. TypeOK'
  BY <1>1, <1>2 DEF IInv, TypeOK
<1>4. EveryFileAccounted'
  BY <1>2 DEF EveryFileAccounted
<1>5. Sequence'
  BY <1>1 DEF IInv, Sequence
<1>6. IdleIsEmpty' /\ FreshIsEmpty' /\ ListedAreNamed' /\ PhaseIsScores'
  BY <1>2 DEF IdleIsEmpty, FreshIsEmpty, ListedAreNamed, PhaseIsScores
<1> QED
  BY <1>3, <1>4, <1>5, <1>6 DEF IInv

LEMMA NextIInv == IInv /\ [Next]_vars => IInv'
<1> SUFFICES ASSUME IInv, [Next]_vars PROVE IInv'
  OBVIOUS
<1>1. CASE UNCHANGED vars
  BY <1>1 DEF vars, disk, local, IInv, TypeOK, EveryFileAccounted, Sequence, IdleIsEmpty,
              FreshIsEmpty, ListedAreNamed, PhaseIsScores
<1>2. CASE Deliver
  <2>1. TypeOK'
    BY <1>2, BoundsAssumption DEF IInv, TypeOK, Deliver, local
  <2> QED
    BY <1>2, <2>1 DEF Deliver, local, IInv, EveryFileAccounted, Sequence, IdleIsEmpty,
                      FreshIsEmpty, ListedAreNamed, PhaseIsScores
<1>3. kills \in 0..MaxKills
  BY DEF IInv, TypeOK
<1>4. CASE Kill
  <2>1. mode \in {"score", "miss"} /\ Exit("killed")
    BY <1>4 DEF Kill, IInv, TypeOK
  <2>2. kills' \in 0..MaxKills
    BY <1>3, <1>4, BoundsAssumption DEF Kill
  <2> QED
    BY <2>1, <2>2, ExitIInv
<1>5. CASE Reject
  <2>1. mode \in {"score", "miss"} /\ Exit("error") /\ kills' = kills
    BY <1>5 DEF Reject, NoTruth, NoInput, NoCorpus, NoManifest, Scoring
  <2> QED
    BY <1>3, <2>1, ExitIInv
<1>6. ASSUME NEW name \in todo, Vanished(name) PROVE IInv'
  <2>1. mode \in {"score", "miss"} /\ Exit("error") /\ kills' = kills
    BY <1>6 DEF Vanished, Scoring
  <2> QED
    BY <1>3, <2>1, ExitIInv
<1>7. CASE RejectReport
  <2>1. mode \in {"score", "miss"} /\ Exit("error") /\ kills' = kills
    BY <1>7 DEF RejectReport
  <2> QED
    BY <1>3, <2>1, ExitIInv
<1>8. CASE WriteJson \/ WriteReport
  <2>1. mode \in {"score", "miss"} /\ Exit("ok") /\ kills' = kills
    BY <1>8 DEF WriteJson, WriteReport, Scoring
  <2> QED
    BY <1>3, <2>1, ExitIInv
<1>9. ASSUME NEW name \in todo, Read(name) PROVE IInv'
  BY <1>9, ReadIInv
<1>10. CASE List \/ (\E name \in todo : ReportProblem(name)) \/ Score \/ ReadManifest
            \/ WriteMarkdown
  BY <1>10, OtherIInv
<1>11. CASE (\E a \in Args : StartScore(a)) \/ (\E tool \in Tools : StartMiss(tool))
  BY <1>11, StartIInv
<1> QED
  BY <1>1, <1>2, <1>4, <1>5, <1>6, <1>7, <1>8, <1>9, <1>10, <1>11 DEF Next, Step

LEMMA Invariant == Spec => []IInv
<1>1. Spec => Init /\ [][Next]_vars
  BY PTL DEF Spec
<1> QED
  BY InitIInv, NextIInv, <1>1, PTL

\* The process is somewhere in its loop, and every document that is scored is a
\* project's of the corpus and some tool's, whatever the files are called.
THEOREM TypeCorrect == Spec => []TypeOK
<1>1. IInv => TypeOK
  BY DEF IInv
<1> QED
  BY Invariant, <1>1, PTL

\* For any directory, however it changes meanwhile: a file that was listed is
\* still to be read, scored once, or reported as a problem, and only one of these.
THEOREM NoFileIsLost == Spec => []EveryFileAccounted
<1>1. IInv => EveryFileAccounted
  BY DEF IInv
<1> QED
  BY Invariant, <1>1, PTL
-----------------------------------------------------------------------------
(***************************************************************************)
(* What a writer named is read back.                                       *)
(***************************************************************************)
\* Two sequences joined: each is where it was put.
IsJoined(r, s, t, T) ==
    /\ r \in Seq(T) /\ Len(s) \in Nat /\ Len(t) \in Nat
    /\ Len(r) = Len(s) + Len(t)
    /\ \A k \in 1..Len(s) : r[k] = s[k]
    /\ \A k \in 1..Len(t) : r[Len(s) + k] = t[k]

LEMMA Joined ==
    ASSUME NEW T, NEW s \in Seq(T), NEW t \in Seq(T) PROVE IsJoined(s \o t, s, t, T)
<1> DEFINE r == s \o t
<1>1. Len(s) \in Nat /\ Len(t) \in Nat
  BY LengthType
<1>2. /\ s \o t \in Seq(T) /\ Len(s \o t) = Len(s) + Len(t)
      /\ \A k \in 1..(Len(s) + Len(t)) : (s \o t)[k] = IF k <= Len(s) THEN s[k] ELSE t[k - Len(s)]
  <2>1. s \in Seq(T) /\ t \in Seq(T)
    OBVIOUS
  <2> QED
    BY ONLY <2>1, ConcatProperties, Zenon
<1> DEFINE m == Len(s)
           n == Len(t)
<1>3. m \in Nat /\ n \in Nat /\ \A k \in 1..(m + n) : r[k] = IF k <= m THEN s[k] ELSE t[k - m]
  BY <1>1, <1>2
<1> HIDE DEF m, n, r
<1>4. \A k \in 1..m : r[k] = s[k]
  BY ONLY <1>3
<1>5. \A k \in 1..n : m + k \in 1..(m + n) /\ ~(m + k <= m) /\ (m + k) - m = k
  BY <1>3
<1>6. \A k \in 1..n : r[m + k] = t[k]
  BY <1>3, <1>5
<1> QED
  BY <1>1, <1>2, <1>4, <1>6 DEF m, n, r, IsJoined

\* A stretch of a sequence.
LEMMA Stretch ==
    ASSUME NEW T, NEW s \in Seq(T), NEW m \in Nat \ {0}, NEW n \in Nat, m + n <= Len(s) + 1
    PROVE  LET r == SubSeq(s, m, (m + n) - 1) IN
           /\ r \in Seq(T) /\ Len(r) = n
           /\ \A k \in 1..n : r[k] = s[(m + k) - 1]
<1>1. \A i \in m..((m + n) - 1) : s[i] \in T
  <2>1. Len(s) \in Nat /\ \A i \in 1..Len(s) : s[i] \in T
    OBVIOUS
  <2> QED
    BY <2>1
<1>2. m \in Int /\ (m + n) - 1 \in Int
  OBVIOUS
<1> DEFINE e == (m + n) - 1
<1>3. e - m + 1 = n /\ (m <= e <=> n > 0)
  OBVIOUS
<1>4. /\ SubSeq(s, m, e) \in Seq(T)
      /\ Len(SubSeq(s, m, e)) = IF m <= e THEN e - m + 1 ELSE 0
      /\ \A i \in 1..e - m + 1 : SubSeq(s, m, e)[i] = s[m + i - 1]
  <2> HIDE DEF e
  <2>1. \A i \in m..e : s[i] \in T
    BY <1>1 DEF e
  <2>2. e \in Int
    BY <1>2 DEF e
  <2> QED
    BY <1>2, <2>1, <2>2, SubSeqProperties
<1> HIDE DEF e
<1>5. /\ SubSeq(s, m, e) \in Seq(T) /\ Len(SubSeq(s, m, e)) = n
      /\ \A k \in 1..n : SubSeq(s, m, e)[k] = s[(m + k) - 1]
  BY <1>3, <1>4
<1> QED
  BY <1>5 DEF e

\* The stretch that agrees with a sequence is that sequence.
LEMMA StretchIs ==
    ASSUME NEW T, NEW s \in Seq(T), NEW t \in Seq(T), NEW m \in Nat \ {0},
           m + Len(t) <= Len(s) + 1, \A k \in 1..Len(t) : s[(m + k) - 1] = t[k]
    PROVE  SubSeq(s, m, (m + Len(t)) - 1) = t
<1> DEFINE n == Len(t)
           r == SubSeq(s, m, (m + n) - 1)
<1>1. n \in Nat
  BY LengthType
<1> HIDE DEF n
<1>2. r \in Seq(T) /\ Len(r) = n /\ \A k \in 1..n : r[k] = s[(m + k) - 1]
  BY <1>1, Stretch DEF n
<1> HIDE DEF r
<1>3. Len(r) = Len(t) /\ \A k \in 1..Len(r) : r[k] = t[k]
  BY <1>2 DEF n
<1>4. r = t
  BY <1>2, <1>3, SeqEqual
<1> QED
  BY <1>4 DEF r, n

LEMMA SeparatorAt ==
    ASSUME NEW stem \in Seq(Words), NEW k \in 1..(Len(stem) - 1)
    PROVE  k \in SeparatorsIn(stem) <=> stem[k] = Underscore /\ stem[k + 1] = Underscore
<1> DEFINE r == SubSeq(stem, k, k + 1)
<1>1. Len(stem) \in Nat /\ k \in Nat \ {0} /\ k + 2 <= Len(stem) + 1 /\ (k + 2) - 1 = k + 1
  BY LengthType
<1>2. r \in Seq(Words) /\ Len(r) = 2 /\ \A i \in 1..2 : r[i] = stem[(k + i) - 1]
  <2>1. LET q == SubSeq(stem, k, (k + 2) - 1)
        IN  q \in Seq(Words) /\ Len(q) = 2 /\ \A i \in 1..2 : q[i] = stem[(k + i) - 1]
    BY <1>1, Stretch
  <2> QED
    BY <1>1, <2>1
<1>3. r[1] = stem[k] /\ r[2] = stem[k + 1]
  <2>1. 1 \in 1..2 /\ 2 \in 1..2 /\ (k + 1) - 1 = k /\ (k + 2) - 1 = k + 1
    OBVIOUS
  <2> HIDE DEF r
  <2> QED
    BY <1>2, <2>1
<1>4. k \in SeparatorsIn(stem) <=> r = Separator
  BY DEF SeparatorsIn
<1> HIDE DEF r
<1>5. r = Separator <=> r[1] = Underscore /\ r[2] = Underscore
  <2>1. /\ Separator \in Seq(Words) /\ Len(Separator) = 2
        /\ Separator[1] = Underscore /\ Separator[2] = Underscore
    BY WordsAssumption DEF Separator
  <2>2. ASSUME r[1] = Underscore, r[2] = Underscore PROVE r = Separator
    <3>1. \A i \in 1..Len(r) : r[i] = Separator[i]
      BY <1>2, <2>1, <2>2
    <3> HIDE DEF Separator
    <3> QED
      BY <1>2, <2>1, <3>1, SeqEqual
  <2> QED
    BY <2>1, <2>2
<1> QED
  BY <1>3, <1>4, <1>5

LEMMA EndsInOne ==
    ASSUME NEW T, NEW u \in T, NEW p \in Seq(T), Len(p) # 0, p[Len(p)] = u
    PROVE  EndsWith(p, <<u>>)
<1>1. Len(p) \in Nat \ {0} /\ <<u>> \in Seq(T) /\ Len(<<u>>) = 1 /\ <<u>>[1] = u
  BY LengthType
<1>2. SubSeq(p, Len(p), (Len(p) + Len(<<u>>)) - 1) = <<u>>
  <2>1. Len(p) + Len(<<u>>) <= Len(p) + 1
    BY <1>1
  <2>2. \A k \in 1..Len(<<u>>) : p[(Len(p) + k) - 1] = <<u>>[k]
    BY <1>1
  <2> DEFINE v == <<u>>
  <2>3. v \in Seq(T) /\ Len(p) + Len(v) <= Len(p) + 1 /\ \A k \in 1..Len(v) : p[(Len(p) + k) - 1] = v[k]
    BY <1>1, <2>1, <2>2
  <2> HIDE DEF v
  <2>4. SubSeq(p, Len(p), (Len(p) + Len(v)) - 1) = v
    BY <1>1, <2>3, StretchIs
  <2> QED
    BY <2>4 DEF v
<1> QED
  BY <1>1, <1>2 DEF EndsWith

\* A project that is named is matched.
LEMMA MatchItself ==
    ASSUME NEW known, NEW p \in known PROVE MatchProject(p, known) = p
BY DEF MatchProject

LEMMA WithTwo ==
    ASSUME NEW T, NEW u \in T, NEW p \in Seq(T), NEW r, r = p \o <<u, u>>
    PROVE  /\ r \in Seq(T) /\ Len(p) \in Nat /\ Len(r) = Len(p) + 2
           /\ \A k \in 1..Len(p) : r[k] = p[k]
           /\ r[Len(p) + 1] = u /\ r[Len(p) + 2] = u
<1> DEFINE two == <<u, u>>
<1>1. /\ two \in Seq(T) /\ Len(two) = 2 /\ two[1] = u /\ two[2] = u
      /\ 1 \in 1..Len(two) /\ 2 \in 1..Len(two)
  OBVIOUS
<1>2. r = p \o two /\ p \in Seq(T)
  OBVIOUS
<1> HIDE DEF two
<1>3. IsJoined(r, p, two, T)
  BY <1>1, <1>2, Joined
<1> QED
  BY ONLY <1>1, <1>3 DEF IsJoined

\* <project>__<tool>: the first separator is the one the writer put there.
LEMMA RawReads ==
    ASSUME NEW known, NEW p \in known, p \in Seq(Words), SeparatorsIn(p) = {},
           ~EndsWith(p, <<Underscore>>), NEW t \in Seq(Words)
    PROVE  RawPair(RawName(p, t), known) = <<p, t>>
<1> DEFINE stem == p \o Separator \o t
           front == p \o Separator
           n == Len(p)
           m == Len(t)
<1>1. Underscore \in Words /\ Separator \in Seq(Words) /\ Len(Separator) = 2
      /\ Separator[1] = Underscore /\ Separator[2] = Underscore
  BY WordsAssumption DEF Separator
<1>2. /\ front \in Seq(Words) /\ n \in Nat /\ Len(front) = n + 2
      /\ \A k \in 1..n : front[k] = p[k]
      /\ front[n + 1] = Underscore /\ front[n + 2] = Underscore
  <2>1. p \in Seq(Words) /\ front = p \o Separator
    OBVIOUS
  <2> HIDE DEF front
  <2> QED
    BY ONLY <1>1, <2>1, WithTwo DEF Separator
<1>3. /\ stem \in Seq(Words) /\ m \in Nat /\ Len(stem) = n + 2 + m
      /\ \A k \in 1..(n + 2) : stem[k] = front[k]
      /\ \A k \in 1..m : stem[n + 2 + k] = t[k]
  <2>1. stem = front \o t /\ front \in Seq(Words) /\ t \in Seq(Words)
    BY <1>2
  <2> HIDE DEF front, stem
  <2>2. IsJoined(stem, front, t, Words)
    BY <2>1, Joined
  <2>3. m = Len(t)
    OBVIOUS
  <2> HIDE DEF n, m
  <2> QED
    BY ONLY <1>2, <2>2, <2>3 DEF IsJoined
<1>4. RawName(p, t).stem = stem
  BY DEF RawName
<1> HIDE DEF stem, front
<1>5. n + 1 \in SeparatorsIn(stem)
  <2>1. n + 1 \in 1..(Len(stem) - 1) /\ stem[n + 1] = Underscore /\ stem[n + 1 + 1] = Underscore
    <3> HIDE DEF n, m
    <3>1. n + 1 \in 1..(n + 2) /\ n + 2 \in 1..(n + 2) /\ n + 1 + 1 = n + 2
      BY <1>2
    <3> QED
      BY <1>2, <1>3, <3>1
  <2> QED
    BY <1>3, <2>1, SeparatorAt
<1>6. \A k \in SeparatorsIn(stem) : n + 1 <= k
  <2> SUFFICES ASSUME NEW k \in SeparatorsIn(stem), k < n + 1 PROVE FALSE
    <3>1. SeparatorsIn(stem) \subseteq Int /\ n \in Int
      BY <1>2, <1>3 DEF SeparatorsIn
    <3> HIDE DEF n, m
    <3> QED
      BY <3>1
  <2>1. k \in 1..(Len(stem) - 1) /\ stem[k] = Underscore /\ stem[k + 1] = Underscore /\ k \in 1..n
    <3>1. k \in 1..(Len(stem) - 1)
      BY DEF SeparatorsIn
    <3>2. stem[k] = Underscore /\ stem[k + 1] = Underscore
      BY <1>3, <3>1, SeparatorAt
    <3> HIDE DEF n, m
    <3> QED
      BY <1>2, <1>3, <3>1, <3>2
  <2>2. p[k] = Underscore
    <3> HIDE DEF n, m
    <3> QED
      BY <1>2, <1>3, <2>1
  <2>3. CASE k = n
    BY <1>1, <1>2, <2>1, <2>2, <2>3, EndsInOne
  <2>4. CASE k # n
    <3>1. k \in 1..(n - 1) /\ k + 1 \in 1..n
      BY <1>2, <2>1, <2>4
    <3>2. p[k + 1] = Underscore
      <4> HIDE DEF n, m
      <4> QED
        BY <1>2, <1>3, <2>1, <3>1
    <3> QED
      BY <2>2, <3>1, <3>2, SeparatorAt
  <2> QED
    BY <2>3, <2>4
<1>7. SplitAt(stem) = n + 1
  <2> DEFINE S == SeparatorsIn(stem)
  <2>1. S \subseteq Int /\ n + 1 \in S /\ \A k \in S : n + 1 <= k
    <3>1. S \subseteq Int
      BY <1>3 DEF SeparatorsIn
    <3> HIDE DEF n
    <3> QED
      BY <1>5, <1>6, <3>1
  <2> HIDE DEF S, n
  <2>2. \A i \in S : (\A j \in S : i <= j) => i = n + 1
    BY <2>1, <1>2
  <2>3. SplitAt(stem) = CHOOSE k \in S : \A j \in S : k <= j
    BY DEF SplitAt, S
  <2>4. SplitAt(stem) \in S /\ \A j \in S : SplitAt(stem) <= j
    BY <2>1, <2>3
  <2> QED
    BY <2>2, <2>4
<1>8. SubSeq(stem, 1, (n + 1) - 1) = p
  <2>1. /\ 1 + Len(p) <= Len(stem) + 1 /\ (1 + Len(p)) - 1 = (n + 1) - 1
        /\ \A k \in 1..Len(p) : stem[(1 + k) - 1] = p[k]
    <3>1. \A k \in 1..n : k \in 1..(n + 2) /\ (1 + k) - 1 = k
      BY <1>2
    <3>2. n = Len(p)
      OBVIOUS
    <3> HIDE DEF n, m
    <3> QED
      BY <1>2, <1>3, <3>1, <3>2
  <2> HIDE DEF n, m
  <2> QED
    BY <1>3, <2>1, StretchIs
<1>9. SubSeq(stem, n + 1 + 2, Len(stem)) = t
  <2>1. /\ n + 3 \in Nat \ {0} /\ n + 3 + Len(t) <= Len(stem) + 1
        /\ (n + 3 + Len(t)) - 1 = Len(stem) /\ n + 3 = n + 1 + 2
        /\ \A k \in 1..Len(t) : stem[(n + 3 + k) - 1] = t[k]
    <3>1. \A k \in 1..m : (n + 3 + k) - 1 = n + 2 + k
      BY <1>2, <1>3
    <3>2. m = Len(t)
      OBVIOUS
    <3> HIDE DEF n, m
    <3> QED
      BY <1>2, <1>3, <3>1, <3>2
  <2>2. SubSeq(stem, n + 3, (n + 3 + Len(t)) - 1) = t
    <3> DEFINE j == n + 3
    <3>1. /\ j \in Nat \ {0} /\ j + Len(t) <= Len(stem) + 1
          /\ \A k \in 1..Len(t) : stem[(j + k) - 1] = t[k]
          /\ stem \in Seq(Words) /\ t \in Seq(Words)
      BY <1>3, <2>1
    <3> HIDE DEF j
    <3>2. SubSeq(stem, j, (j + Len(t)) - 1) = t
      BY ONLY <3>1, StretchIs, Zenon
    <3> QED
      BY <3>2 DEF j
  <2> HIDE DEF n, m
  <2> QED
    BY <2>1, <2>2
<1> HIDE DEF n, m
<1>10. RawPair(RawName(p, t), known) = <<MatchProject(p, known), t>>
  <2>1. SeparatorsIn(stem) # {}
    BY <1>5
  <2> DEFINE k == n + 1
             name == RawName(p, t)
  <2>2. SplitAt(stem) = k /\ SubSeq(stem, 1, k - 1) = p /\ SubSeq(stem, k + 2, Len(stem)) = t
    BY <1>7, <1>8, <1>9
  <2>3. name.stem = stem
    BY <1>4
  <2> HIDE DEF k, name
  <2>4. RawPair(name, known)
            = <<MatchProject(SubSeq(stem, 1, k - 1), known), SubSeq(stem, k + 2, Len(stem))>>
    BY ONLY <2>1, <2>2, <2>3 DEF RawPair
  <2> QED
    BY ONLY <2>2, <2>4 DEF name
<1> QED
  BY <1>10, MatchItself

\* <tool>/<project>.
LEMMA DirReads ==
    ASSUME NEW known, NEW p \in known, SeparatorsIn(p) = {}, NEW t, t # <<>>
    PROVE  RawPair(DirName(p, t), known) = <<p, t>>
<1> DEFINE name == DirName(p, t)
<1>1. name.stem = p /\ name.parent = t
  BY DEF DirName
<1> HIDE DEF name
<1>2. RawPair(name, known) = <<MatchProject(p, known), t>>
  BY <1>1 DEF RawPair
<1> QED
  BY <1>2, MatchItself DEF name

\* What is put at the end ends a sequence, and is cut off again.
LEMMA EndsJoined ==
    ASSUME NEW T, NEW s \in Seq(T), NEW t \in Seq(T)
    PROVE  LET r == s \o t
           IN  EndsWith(r, t) /\ SubSeq(r, 1, Len(r) - Len(t)) = s
<1> DEFINE r == s \o t
           n == Len(s)
           m == Len(t)
<1>1. IsJoined(r, s, t, T)
  BY Joined
<1> HIDE DEF r
<1>2. n \in Nat /\ m \in Nat /\ r \in Seq(T) /\ Len(r) = n + m
  BY <1>1 DEF IsJoined
<1>3. SubSeq(r, n + 1, (n + 1 + Len(t)) - 1) = t
  <2> DEFINE j == n + 1
  <2>1. \A k \in 1..Len(t) : (j + k) - 1 = n + k
    BY <1>2
  <2>2. /\ j \in Nat \ {0} /\ j + Len(t) <= Len(r) + 1 /\ r \in Seq(T) /\ t \in Seq(T)
        /\ \A k \in 1..Len(t) : r[(j + k) - 1] = t[k]
    BY <1>1, <1>2, <2>1 DEF IsJoined
  <2> HIDE DEF j
  <2>3. SubSeq(r, j, (j + Len(t)) - 1) = t
    BY ONLY <2>2, StretchIs, Zenon
  <2> QED
    BY <2>3 DEF j
<1>4. SubSeq(r, 1, (1 + Len(s)) - 1) = s
  <2> DEFINE j == 1
  <2>1. \A k \in 1..Len(s) : (j + k) - 1 = k
    BY <1>2
  <2>2. /\ j \in Nat \ {0} /\ j + Len(s) <= Len(r) + 1 /\ r \in Seq(T) /\ s \in Seq(T)
        /\ \A k \in 1..Len(s) : r[(j + k) - 1] = s[k]
    BY <1>1, <1>2, <2>1 DEF IsJoined
  <2> HIDE DEF j
  <2>3. SubSeq(r, j, (j + Len(s)) - 1) = s
    BY ONLY <2>2, StretchIs, Zenon
  <2> QED
    BY <2>3 DEF j
<1>5. /\ (n + 1 + Len(t)) - 1 = Len(r) /\ n + 1 = Len(r) - Len(t) + 1
      /\ (1 + Len(s)) - 1 = Len(r) - Len(t) /\ Len(t) <= Len(r)
  BY <1>2
<1> HIDE DEF n, m
<1>6. SubSeq(r, Len(r) - Len(t) + 1, Len(r)) = t /\ SubSeq(r, 1, Len(r) - Len(t)) = s
  BY ONLY <1>3, <1>4, <1>5
<1>7. EndsWith(r, t)
  BY <1>5, <1>6 DEF EndsWith
<1> QED
  BY <1>6, <1>7 DEF r

\* What two sequences of one length are, after one word, they are.
LEMMA SameTail ==
    ASSUME NEW T, NEW u \in T, NEW p \in Seq(T), NEW q \in Seq(T), <<u>> \o p = <<u>> \o q
    PROVE  p = q
<1> DEFINE one == <<u>>
           r == one \o p
<1>1. one \in Seq(T) /\ Len(one) = 1
  OBVIOUS
<1>2. r = one \o q
  OBVIOUS
<1> HIDE DEF one
<1>3. IsJoined(r, one, p, T) /\ IsJoined(r, one, q, T)
  BY <1>1, <1>2, Joined
<1> HIDE DEF r
<1>4. Len(p) = Len(q) /\ \A k \in 1..Len(p) : p[k] = q[k]
  BY ONLY <1>1, <1>3 DEF IsJoined
<1> QED
  BY <1>4, SeqEqual

LEMMA SameEnd ==
    ASSUME NEW words, NEW x, NEW y, EndsWith(words, x), EndsWith(words, y), Len(x) = Len(y)
    PROVE  x = y
BY DEF EndsWith

\* The full name of a repository matches its project.
LEMMA MatchFull ==
    ASSUME NEW known, \A q \in known : q \in Seq(Words), NEW p \in known, NEW o \in Seq(Words),
           NEW full, full = o \o <<Underscore>> \o p,
           \A q \in known : q = full \/ EndsWith(full, <<Underscore>> \o q) => Len(q) <= Len(p)
    PROVE  full \in Seq(Words) /\ MatchProject(full, known) = p
<1> DEFINE ends == {q \in known : EndsWith(full, <<Underscore>> \o q)}
           one == <<Underscore>>
           tail == one \o p
<1>1. p \in Seq(Words) /\ Underscore \in Words /\ one \in Seq(Words) /\ Len(one) = 1
  BY WordsAssumption
<1>2. full = o \o tail
  BY <1>1, ConcatAssociative
<1> HIDE DEF one
<1>3. IsJoined(tail, one, p, Words)
  BY <1>1, Joined
<1> HIDE DEF tail
<1>4. tail \in Seq(Words) /\ Len(p) \in Nat /\ Len(tail) = 1 + Len(p)
  BY ONLY <1>1, <1>3 DEF IsJoined
<1>5. IsJoined(full, o, tail, Words) /\ EndsWith(full, tail)
  <2>1. IsJoined(o \o tail, o, tail, Words)
    BY <1>4, Joined
  <2>2. EndsWith(o \o tail, tail)
    BY <1>4, EndsJoined
  <2> QED
    BY ONLY <1>2, <2>1, <2>2
<1>6. full \in Seq(Words) /\ Len(full) > Len(p)
  <2>1. full \in Seq(Words) /\ Len(o) \in Nat /\ Len(full) = Len(o) + Len(tail)
    BY <1>5 DEF IsJoined
  <2> QED
    BY ONLY <1>4, <2>1
<1>7. full \notin known
  <2>1. ASSUME full \in known PROVE Len(full) <= Len(p)
    BY <2>1, Zenon
  <2>2. ~(Len(full) <= Len(p))
    <3>1. Len(full) \in Nat
      BY <1>6, LengthType
    <3> QED
      BY ONLY <1>4, <1>6, <3>1
  <2> QED
    BY ONLY <2>1, <2>2
<1>8. p \in ends
  BY <1>5 DEF tail, one
<1>9. \A q \in ends : Len(q) \in Nat /\ Len(q) <= Len(p)
  BY LengthType
<1>10. MatchProject(full, known) = CHOOSE q \in ends : \A r \in ends : Len(r) <= Len(q)
  BY <1>7, <1>8 DEF MatchProject
<1>11. ASSUME NEW q \in ends, \A r \in ends : Len(r) <= Len(q) PROVE q = p
  <2>1. q \in Seq(Words) /\ EndsWith(full, <<Underscore>> \o q)
    OBVIOUS
  <2>2. Len(q) = Len(p)
    <3> HIDE DEF ends
    <3> QED
      BY <1>4, <1>8, <1>9, <1>11
  <2>3. Len(<<Underscore>> \o q) = 1 + Len(q)
    BY <1>1, <2>1, Prefixed
  <2>4. <<Underscore>> \o q = tail
    BY <1>4, <1>5, <2>1, <2>2, <2>3, SameEnd
  <2> QED
    BY <1>1, <2>1, <2>4, SameTail DEF tail, one
<1> HIDE DEF ends
<1>12. \E q \in ends : \A r \in ends : Len(r) <= Len(q)
  BY <1>8, <1>9
<1> QED
  BY <1>6, <1>10, <1>11, <1>12

\* <owner>_<project>_<tool>, in the directory of the tool.
LEMMA BundleReads ==
    ASSUME NEW known, \A q \in known : q \in Seq(Words), NEW p \in known, NEW o \in Seq(Words),
           NEW t \in Seq(Words), t # <<>>,
           \A q \in known : LET full == o \o <<Underscore>> \o p
                            IN  q = full \/ EndsWith(full, <<Underscore>> \o q) => Len(q) <= Len(p)
    PROVE  BundlePair(BundleName(o, p, t), known) = <<p, t>>
<1> DEFINE full == o \o <<Underscore>> \o p
           one == <<Underscore>>
           suffix == one \o t
           stem == full \o suffix
           name == BundleName(o, p, t)
<1>1. full \in Seq(Words) /\ MatchProject(full, known) = p
  BY MatchFull
<1>2. Underscore \in Words /\ one \in Seq(Words)
  BY WordsAssumption
<1>3. name.stem = full \o one \o t /\ name.parent = t
  BY DEF BundleName
<1> HIDE DEF full, name
<1>4. name.stem = stem
  BY <1>1, <1>2, <1>3, ConcatAssociative
<1> HIDE DEF one
<1>5. suffix \in Seq(Words)
  BY <1>2, ConcatProperties
<1> HIDE DEF suffix
<1>6. EndsWith(stem, suffix) /\ SubSeq(stem, 1, Len(stem) - Len(suffix)) = full
  BY <1>1, <1>5, EndsJoined
<1> HIDE DEF stem
<1>7. suffix = <<Underscore>> \o name.parent
  BY <1>3 DEF suffix, one
<1>8. BundlePair(name, known) = <<MatchProject(full, known), t>>
  BY ONLY <1>3, <1>4, <1>6, <1>7 , t # <<>> DEF BundlePair
<1> QED
  BY <1>1, <1>8 DEF name

-----------------------------------------------------------------------------
(***************************************************************************)
(* Every document is whose its file's name says it is, and every problem   *)
(* is a name that says nothing.                                            *)
(***************************************************************************)
ReadAsNamed ==
    mode = "score" =>
        /\ \A k \in DOMAIN documents :
               LET pair == Pair(args, documents[k].source)
               IN  documents[k].project = pair[1] /\ documents[k].tool = pair[2]
        /\ \A name \in problems : ~Understood(args, name)

LEMMA NextReadAsNamed == IInv /\ ReadAsNamed /\ [Next]_vars => ReadAsNamed'
<1> SUFFICES ASSUME IInv, ReadAsNamed, [Next]_vars PROVE ReadAsNamed'
  OBVIOUS
<1>1. CASE UNCHANGED <<mode, args, documents, problems>>
  BY <1>1 DEF ReadAsNamed
<1>2. CASE mode' # "score"
  BY <1>2 DEF ReadAsNamed
<1>3. ASSUME NEW name \in todo, Read(name) PROVE ReadAsNamed'
  <2> DEFINE d == [project |-> Pair(args, name)[1], tool |-> Pair(args, name)[2],
                   source |-> name, content |-> directory[name]]
  <2>1. mode = "score" /\ documents' = Append(documents, d) /\ UNCHANGED <<args, problems>>
    BY <1>3 DEF Read, Scoring
  <2>2. LET pair == Pair(args, d.source) IN d.project = pair[1] /\ d.tool = pair[2]
    OBVIOUS
  <2> HIDE DEF d
  <2>3. \A k \in DOMAIN documents' :
            (k \in DOMAIN documents /\ documents'[k] = documents[k]) \/ documents'[k] = d
    <3>1. PICK S : documents \in Seq(S)
      BY DEF IInv, Sequence
    <3>2. documents \in Seq(S \cup {d}) /\ d \in S \cup {d}
      BY <3>1
    <3> QED
      BY <2>1, <3>2
  <2>4. \A k \in DOMAIN documents' :
            LET pair == Pair(args, documents'[k].source)
            IN  documents'[k].project = pair[1] /\ documents'[k].tool = pair[2]
    BY <2>1, <2>2, <2>3 DEF ReadAsNamed
  <2> QED
    BY <2>1, <2>4 DEF ReadAsNamed
<1>4. ASSUME NEW name \in todo, ReportProblem(name) PROVE ReadAsNamed'
  BY <1>4 DEF ReportProblem, Scoring, ReadAsNamed
<1>5. CASE \E a \in Args : StartScore(a)
  <2>1. documents' = <<>> /\ problems' = {}
    BY <1>5 DEF StartScore, Start, IInv, IdleIsEmpty, PhaseIsScores
  <2> QED
    BY <2>1 DEF ReadAsNamed
<1>6. CASE \E tool \in Tools : StartMiss(tool)
  BY <1>6, <1>2 DEF StartMiss, Start
<1>7. ASSUME NEW how, Exit(how) PROVE ReadAsNamed'
  BY <1>7, <1>2 DEF Exit
<1>8. CASE Deliver \/ List \/ Score \/ ReadManifest \/ WriteMarkdown
  BY <1>8, <1>1 DEF Deliver, List, Score, ReadManifest, WriteMarkdown, local
<1>9. CASE Kill \/ Reject \/ (\E name \in todo : Vanished(name)) \/ WriteJson \/ RejectReport
           \/ WriteReport
  BY <1>9, <1>7 DEF Kill, Reject, Vanished, WriteJson, RejectReport, WriteReport
<1>10. CASE UNCHANGED vars
  BY <1>10, <1>1 DEF vars, local
<1> QED
  BY <1>3, <1>4, <1>5, <1>6, <1>8, <1>9, <1>10 DEF Next, Step

\* A name that a writer made for a project and a tool is read as theirs.
LEMMA WrittenPair ==
    ASSUME NEW a \in Args, NEW p \in Projects(a.corpus), NEW t \in Tools,
           NEW name \in IF a.layout = "raw" THEN {RawName(p, t), DirName(p, t)}
                        ELSE {BundleName(o, p, t) : o \in Owners}
    PROVE  Pair(a, name) = <<p, t>> /\ Understood(a, name)
<1> DEFINE known == Projects(a.corpus)
<1>1. a.corpus \in Corpora
  BY ArgsAssumption
<1>2. \A q \in known : q \in Seq(Words)
  BY <1>1, WordsAssumption
<1>3. p # None /\ SeparatorsIn(p) = {} /\ ~EndsWith(p, <<Underscore>>)
  BY <1>1, NamesAssumption
<1>4. t \in Seq(Words) /\ t # <<>>
  BY NamesAssumption
<1>5. CASE a.layout = "raw"
  <2>1. Pair(a, name) = RawPair(name, known) /\ name \in {RawName(p, t), DirName(p, t)}
    BY <1>5 DEF Pair
  <2> HIDE DEF known
  <2>2. p \in known
    BY DEF known
  <2>3. RawPair(RawName(p, t), known) = <<p, t>>
    BY <1>2, <1>3, <1>4, <2>2, RawReads
  <2>4. RawPair(DirName(p, t), known) = <<p, t>>
    BY <1>3, <1>4, <2>2, DirReads
  <2> QED
    BY <1>3, <1>4, <2>1, <2>3, <2>4 DEF Understood
<1>6. CASE a.layout # "raw"
  <2>1. Pair(a, name) = BundlePair(name, known)
    BY <1>6 DEF Pair
  <2>2. PICK o \in Owners : name = BundleName(o, p, t)
    BY <1>6
  <2>3. o \in Seq(Words)
    BY NamesAssumption
  <2>4. \A q \in known : LET full == o \o <<Underscore>> \o p
                         IN  q = full \/ EndsWith(full, <<Underscore>> \o q) => Len(q) <= Len(p)
    BY <1>1, NamesAssumption
  <2> HIDE DEF known
  <2>5. p \in known
    BY DEF known
  <2>6. BundlePair(BundleName(o, p, t), known) = <<p, t>>
    BY <1>2, <1>4, <2>3, <2>4, <2>5, BundleReads
  <2> QED
    BY <1>3, <1>4, <2>1, <2>2, <2>6 DEF Understood
<1> QED
  BY <1>5, <1>6

\* However projects, tools and owners are called, as long as their names keep
\* apart, each file of a writer is scored for the project and the tool it was
\* written for, and none of them is a problem.
THEOREM NamesAreReadBack == Spec => []NamesReadBack
<1>1. Init => ReadAsNamed
  BY DEF Init, ReadAsNamed
<1>2. Spec => []ReadAsNamed
  <2>1. Spec => Init /\ [][Next]_vars
    BY PTL DEF Spec
  <2> QED
    BY <1>1, <2>1, Invariant, NextReadAsNamed, PTL
<1>3. IInv /\ ReadAsNamed => NamesReadBack
  <2> SUFFICES ASSUME IInv, ReadAsNamed, mode = "score",
                      NEW p \in Projects(args.corpus), NEW t \in Tools
               PROVE  LET written == IF args.layout = "raw" THEN {RawName(p, t), DirName(p, t)}
                                     ELSE {BundleName(o, p, t) : o \in Owners}
                      IN  /\ written \cap problems = {}
                          /\ \A k \in DOMAIN documents : documents[k].source \in written =>
                                 documents[k].project = p /\ documents[k].tool = t
    BY DEF NamesReadBack
  <2> DEFINE written == IF args.layout = "raw" THEN {RawName(p, t), DirName(p, t)}
                        ELSE {BundleName(o, p, t) : o \in Owners}
  <2>1. args \in Args
    BY DEF IInv, TypeOK
  <2>2. \A name \in written : Pair(args, name) = <<p, t>> /\ Understood(args, name)
    BY <2>1, WrittenPair
  <2> HIDE DEF written
  <2>3. written \cap problems = {}
    BY <2>2 DEF ReadAsNamed
  <2>4. ASSUME NEW k \in DOMAIN documents, documents[k].source \in written
        PROVE  documents[k].project = p /\ documents[k].tool = t
    BY <2>2, <2>4 DEF ReadAsNamed
  <2> QED
    BY <2>3, <2>4 DEF written
<1> QED
  BY <1>2, <1>3, Invariant, PTL

-----------------------------------------------------------------------------
(***************************************************************************)
(* Counting: numbered things, of which each number k in K has the set X[k].*)
(***************************************************************************)
LEMMA SameSize ==
    ASSUME NEW S, NEW T, IsFiniteSet(S), NEW f \in [S -> T],
           \A x, y \in S : f[x] = f[y] => x = y, \A t \in T : \E x \in S : f[x] = t
    PROVE  IsFiniteSet(T) /\ Cardinality(T) = Cardinality(S)
<1>1. f \in Bijection(S, T)
  BY DEF Bijection, Injection, Surjection, IsInjective
<1>2. ExistsBijection(S, T)
  BY <1>1 DEF ExistsBijection
<1> QED
  BY <1>2, FS_Bijection

Numbered(K, X) == UNION {{<<k, x>> : x \in X[k]} : k \in K}

LEMMA InNumbered ==
    ASSUME NEW K, NEW X, NEW z
    PROVE  z \in Numbered(K, X) <=> \E k \in K : \E x \in X[k] : z = <<k, x>>
BY DEF Numbered

LEMMA NumberedOne ==
    ASSUME NEW n, NEW X, IsFiniteSet(X)
    PROVE  LET T == {<<n, x>> : x \in X} IN IsFiniteSet(T) /\ Cardinality(T) = Cardinality(X)
<1> DEFINE T == {<<n, x>> : x \in X}
           f == [x \in X |-> <<n, x>>]
<1>1. f \in [X -> T] /\ \A x \in X : f[x] = <<n, x>>
  OBVIOUS
<1>2. \A x, y \in X : f[x] = f[y] => x = y
  BY <1>1
<1>3. \A t \in T : \E x \in X : f[x] = t
  BY <1>1
<1> HIDE DEF f, T
<1>4. IsFiniteSet(T) /\ Cardinality(T) = Cardinality(X)
  BY <1>1, <1>2, <1>3, SameSize
<1> QED
  BY <1>4 DEF T

\* One number more has its own things more.
LEMMA NumberedAdds ==
    ASSUME NEW K, NEW X, NEW n, n \notin K, IsFiniteSet(Numbered(K, X)), IsFiniteSet(X[n])
    PROVE  /\ IsFiniteSet(Numbered(K \cup {n}, X))
           /\ Cardinality(Numbered(K \cup {n}, X)) = Cardinality(Numbered(K, X)) + Cardinality(X[n])
<1> DEFINE A == Numbered(K, X)
           B == {<<n, x>> : x \in X[n]}
<1>1. Numbered(K \cup {n}, X) = A \cup B
  BY DEF Numbered
<1>2. A \cap B = {}
  BY DEF Numbered
<1>3. IsFiniteSet(B) /\ Cardinality(B) = Cardinality(X[n])
  BY NumberedOne
<1>4. IsFiniteSet(A) /\ Cardinality(A) \in Nat /\ Cardinality(X[n]) \in Nat
  BY FS_CardinalityType
<1> HIDE DEF A, B
<1>5. /\ IsFiniteSet(A \cup B)
      /\ Cardinality(A \cup B) = Cardinality(A) + Cardinality(B) - Cardinality(A \cap B)
  BY <1>3, <1>4, FS_Union
<1>6. Cardinality(A \cap B) = 0
  BY <1>2, FS_EmptySet
<1>7. Cardinality(A \cup B) = Cardinality(A) + Cardinality(X[n])
  BY ONLY <1>3, <1>4, <1>5, <1>6
<1> QED
  BY <1>1, <1>5, <1>7 DEF A

LEMMA NumberedFinite ==
    ASSUME NEW n \in Nat, NEW K \in SUBSET (1..n), NEW X, \A k \in K : IsFiniteSet(X[k])
    PROVE  IsFiniteSet(Numbered(K, X))
<1> DEFINE Y(k) == {<<k, x>> : x \in X[k]}
           S == {Y(k) : k \in K}
           f == [k \in K |-> Y(k)]
<1>1. IsFiniteSet(K)
  <2>1. IsFiniteSet(1..n)
    BY FS_Interval
  <2> QED
    BY <2>1, FS_Subset
<1>2. f \in Surjection(K, S)
  BY DEF Surjection
<1>3. IsFiniteSet(S)
  <2> HIDE DEF S, f
  <2> QED
    BY <1>1, <1>2, FS_Surjection
<1>4. \A T \in S : IsFiniteSet(T)
  <2> SUFFICES ASSUME NEW k \in K PROVE IsFiniteSet(Y(k))
    OBVIOUS
  <2>1. IsFiniteSet(X[k])
    OBVIOUS
  <2> QED
    BY <2>1, NumberedOne
<1>5. IsFiniteSet(UNION S)
  <2> HIDE DEF S
  <2> QED
    BY <1>3, <1>4, FS_UNION
<1> QED
  BY <1>5 DEF Numbered

\* Renaming things one by one does not change how many there are.
Renamed(K, X, Y, h) ==
    /\ \A k \in K : Y[k] = {h[k][x] : x \in X[k]}
    /\ \A k \in K : \A x, y \in X[k] : h[k][x] = h[k][y] => x = y

LEMMA NumberedRenamed ==
    ASSUME NEW K, NEW X, NEW Y, NEW h, IsFiniteSet(Numbered(K, X)), Renamed(K, X, Y, h)
    PROVE  IsFiniteSet(Numbered(K, Y)) /\ Cardinality(Numbered(K, Y)) = Cardinality(Numbered(K, X))
<1> USE DEF Renamed
<1> DEFINE A == Numbered(K, X)
           B == Numbered(K, Y)
           f == [z \in A |-> <<z[1], h[z[1]][z[2]]>>]
<1>1. \A z \in A : \E k \in K : \E x \in X[k] : z = <<k, x>> /\ f[z] = <<k, h[k][x]>>
  BY DEF Numbered
<1>2. f \in [A -> B]
  <2> SUFFICES ASSUME NEW z \in A PROVE f[z] \in B
    OBVIOUS
  <2>1. PICK k \in K : \E x \in X[k] : f[z] = <<k, h[k][x]>>
    BY <1>1
  <2>2. PICK x \in X[k] : f[z] = <<k, h[k][x]>>
    BY <2>1
  <2>3. h[k][x] \in Y[k]
    OBVIOUS
  <2> QED
    BY <2>2, <2>3 DEF Numbered
<1>3. \A y, z \in A : f[y] = f[z] => y = z
  <2> SUFFICES ASSUME NEW y \in A, NEW z \in A, f[y] = f[z] PROVE y = z
    OBVIOUS
  <2>1. PICK j \in K : \E u \in X[j] : y = <<j, u>> /\ f[y] = <<j, h[j][u]>>
    BY <1>1
  <2>2. PICK k \in K : \E v \in X[k] : z = <<k, v>> /\ f[z] = <<k, h[k][v]>>
    BY <1>1
  <2>3. PICK u \in X[j] : y = <<j, u>> /\ f[y] = <<j, h[j][u]>>
    BY <2>1
  <2>4. PICK v \in X[k] : z = <<k, v>> /\ f[z] = <<k, h[k][v]>>
    BY <2>2
  <2> HIDE DEF f, A
  <2>5. j = k /\ h[j][u] = h[k][v]
    BY <2>3, <2>4
  <2>6. u = v
    BY <2>5
  <2> QED
    BY <2>3, <2>4, <2>5, <2>6
<1>4. \A t \in B : \E z \in A : f[z] = t
  <2> SUFFICES ASSUME NEW t \in B PROVE \E z \in A : f[z] = t
    OBVIOUS
  <2>1. PICK k \in K : \E y \in Y[k] : t = <<k, y>>
    BY InNumbered
  <2>2. PICK y \in Y[k] : t = <<k, y>>
    BY <2>1
  <2>3. PICK x \in X[k] : y = h[k][x]
    OBVIOUS
  <2>4. <<k, x>> \in A /\ f[<<k, x>>] = <<k, y>>
    BY <2>3 DEF Numbered
  <2> QED
    BY <2>2, <2>4
<1> HIDE DEF A, B, f
<1>5. IsFiniteSet(A)
  BY DEF A
<1>6. IsFiniteSet(B) /\ Cardinality(B) = Cardinality(A)
  BY <1>2, <1>3, <1>4, <1>5, SameSize
<1> QED
  BY <1>6 DEF A, B

-----------------------------------------------------------------------------
(***************************************************************************)
(* The sums of report.py.  Prefix is what the first n documents come to,   *)
(* counted; per_tool, which sums up document by document, comes to that.   *)
(***************************************************************************)
Hit(a, ds, ls) == [k \in DOMAIN ds |-> {y \in Detected(a, ds[k]) : y.layer \in ls}]
All(a, ds, ls) == [k \in DOMAIN ds |-> {y \in Plants[a.corpus][ds[k].project] : y.layer \in ls}]

First(ds, tool, n) == {k \in 1..n : ds[k].tool = tool}

Count(ds, X, tool, n) == Cardinality(Numbered(First(ds, tool, n), X))

RateUpTo(a, ds, tool, ls, n) == <<Count(ds, Hit(a, ds, ls), tool, n), Count(ds, All(a, ds, ls), tool, n)>>

Prefix(a, ds, n) ==
    [tool \in ToolsOf(ds) |->
        [all |-> RateUpTo(a, ds, tool, Layers, n),
         layer |-> [l \in Layers |-> RateUpTo(a, ds, tool, {l}, n)]]]

\* Documents that are read: a sequence, each of a project.
AreRead(a, ds) ==
    /\ Len(ds) \in Nat /\ DOMAIN ds = 1..Len(ds)
    /\ \A k \in DOMAIN ds : ds[k].project \in Projects(a.corpus)

\* A document detects some of the plants of its project.
LEMMA PlantsOf ==
    ASSUME NEW a \in Args, NEW ds, AreRead(a, ds), NEW k \in DOMAIN ds
    PROVE  LET plants == Plants[a.corpus][ds[k].project]
           IN  /\ IsFiniteSet(plants) /\ Detected(a, ds[k]) \subseteq plants
               /\ \A x \in plants : x.layer \in Layers /\ x = [id |-> x.id, layer |-> x.layer]
<1>1. a.corpus \in Corpora /\ ds[k].project \in Projects(a.corpus)
  BY ArgsAssumption DEF AreRead
<1> QED
  BY <1>1, PlantsAssumption DEF Detected

LEMMA PlantsFinite ==
    ASSUME NEW a \in Args, NEW ds, AreRead(a, ds), NEW k \in DOMAIN ds, NEW ls
    PROVE  IsFiniteSet(Hit(a, ds, ls)[k]) /\ IsFiniteSet(All(a, ds, ls)[k])
<1> DEFINE plants == Plants[a.corpus][ds[k].project]
<1>1. IsFiniteSet(plants) /\ Detected(a, ds[k]) \subseteq plants
  BY PlantsOf
<1>2. Hit(a, ds, ls)[k] \subseteq plants /\ All(a, ds, ls)[k] \subseteq plants
  BY <1>1 DEF Hit, All
<1> QED
  BY <1>1, <1>2, FS_Subset

\* The document after the first n - 1 counts for its own tool.
CountsFor(ds, X, tool, n) ==
    Count(ds, X, tool, n) = IF ds[n].tool = tool THEN Count(ds, X, tool, n - 1) + Cardinality(X[n])
                            ELSE Count(ds, X, tool, n - 1)

LEMMA CountStep ==
    ASSUME NEW ds, Len(ds) \in Nat, DOMAIN ds = 1..Len(ds), NEW X,
           \A k \in DOMAIN ds : IsFiniteSet(X[k]), NEW tool, NEW n \in 1..Len(ds)
    PROVE  CountsFor(ds, X, tool, n)
<1> DEFINE before == First(ds, tool, n - 1)
<1>1. n \in Nat /\ n - 1 \in Nat
  OBVIOUS
<1>2. before \in SUBSET (1..(n - 1)) /\ n \notin before /\ \A k \in before : k \in DOMAIN ds
  BY <1>1 DEF First
<1>3. IsFiniteSet(Numbered(before, X)) /\ Cardinality(Numbered(before, X)) \in Nat
  <2> HIDE DEF before
  <2>1. IsFiniteSet(Numbered(before, X))
    BY <1>1, <1>2, NumberedFinite
  <2> QED
    BY <2>1, FS_CardinalityType
<1>4. First(ds, tool, n) = IF ds[n].tool = tool THEN before \cup {n} ELSE before
  BY <1>1 DEF First
<1> HIDE DEF before
<1>5. CASE ds[n].tool = tool
  <2>1. Cardinality(Numbered(before \cup {n}, X))
            = Cardinality(Numbered(before, X)) + Cardinality(X[n])
    BY <1>2, <1>3, NumberedAdds
  <2> QED
    BY <1>4, <1>5, <2>1 DEF CountsFor, Count, before
<1>6. CASE ds[n].tool # tool
  BY <1>3, <1>4, <1>6 DEF CountsFor, Count, before
<1> QED
  BY <1>5, <1>6

LEMMA CountNone ==
    ASSUME NEW ds, NEW X, NEW tool PROVE Count(ds, X, tool, 0) = 0
<1>1. First(ds, tool, 0) = {}
  BY DEF First
<1>2. Numbered({}, X) = {}
  BY DEF Numbered
<1> QED
  BY <1>1, <1>2, FS_EmptySet DEF Count

LEMMA RateStep ==
    ASSUME NEW a \in Args, NEW ds, AreRead(a, ds), NEW tool, NEW ls, NEW n \in 1..Len(ds)
    PROVE  RateUpTo(a, ds, tool, ls, n)
               = IF ds[n].tool = tool
                 THEN Plus(RateUpTo(a, ds, tool, ls, n - 1),
                           Cardinality(Hit(a, ds, ls)[n]), Cardinality(All(a, ds, ls)[n]))
                 ELSE RateUpTo(a, ds, tool, ls, n - 1)
<1> DEFINE H == Hit(a, ds, ls)
           A == All(a, ds, ls)
<1>0. \A k \in DOMAIN ds : IsFiniteSet(H[k])
  BY PlantsFinite
<1>1. \A k \in DOMAIN ds : IsFiniteSet(A[k])
  BY PlantsFinite
<1>2. Len(ds) \in Nat /\ DOMAIN ds = 1..Len(ds)
  BY DEF AreRead
<1> HIDE DEF H, A
<1>3. CountsFor(ds, H, tool, n)
  BY <1>0, <1>2, CountStep
<1>4. CountsFor(ds, A, tool, n)
  BY <1>1, <1>2, CountStep
<1>5. \A i : RateUpTo(a, ds, tool, ls, i) = <<Count(ds, H, tool, i), Count(ds, A, tool, i)>>
  BY DEF RateUpTo, H, A
<1>6. CASE ds[n].tool = tool
  BY <1>3, <1>4, <1>5, <1>6 DEF Plus, CountsFor, H, A
<1>7. CASE ds[n].tool # tool
  BY <1>3, <1>4, <1>5, <1>7 DEF CountsFor
<1> QED
  BY <1>6, <1>7

\* How many plants of a document there are, and in each layer.
SizesOf(a, ds, n, hits, plants) ==
    /\ Sizes(hits).all = Cardinality(Hit(a, ds, Layers)[n])
    /\ Sizes(plants).all = Cardinality(All(a, ds, Layers)[n])
    /\ \A l \in Layers : /\ Sizes(hits).layer[l] = Cardinality(Hit(a, ds, {l})[n])
                         /\ Sizes(plants).layer[l] = Cardinality(All(a, ds, {l})[n])

LEMMA SizesAre ==
    ASSUME NEW a \in Args, NEW ds, AreRead(a, ds), NEW n \in DOMAIN ds
    PROVE  SizesOf(a, ds, n, Detected(a, ds[n]), Plants[a.corpus][ds[n].project])
<1> DEFINE hits   == Detected(a, ds[n])
           plants == Plants[a.corpus][ds[n].project]
<1>1. hits \subseteq plants /\ \A x \in plants : x.layer \in Layers
  BY PlantsOf
<1>2. Hit(a, ds, Layers)[n] = hits /\ All(a, ds, Layers)[n] = plants
  <2>1. /\ Hit(a, ds, Layers)[n] = {y \in hits : y.layer \in Layers}
        /\ All(a, ds, Layers)[n] = {y \in plants : y.layer \in Layers}
    BY DEF Hit, All
  <2> HIDE DEF hits, plants
  <2> QED
    BY <1>1, <2>1
<1>3. \A l : Hit(a, ds, {l})[n] = InLayer(hits, l) /\ All(a, ds, {l})[n] = InLayer(plants, l)
  BY DEF Hit, All, InLayer
<1> HIDE DEF hits, plants
<1>4. /\ Sizes(hits).all = Cardinality(hits) /\ Sizes(plants).all = Cardinality(plants)
      /\ \A l \in Layers : /\ Sizes(hits).layer[l] = Cardinality(InLayer(hits, l))
                           /\ Sizes(plants).layer[l] = Cardinality(InLayer(plants, l))
  BY DEF Sizes
<1> QED
  BY <1>2, <1>3, <1>4 DEF SizesOf, hits, plants

LEMMA PrefixStep ==
    ASSUME NEW a \in Args, NEW ds, AreRead(a, ds), NEW n \in 1..Len(ds)
    PROVE  Prefix(a, ds, n)
               = [Prefix(a, ds, n - 1) EXCEPT ![ds[n].tool] =
                      Add(@, Detected(a, ds[n]), Plants[a.corpus][ds[n].project])]
<1> DEFINE hits   == Detected(a, ds[n])
           plants == Plants[a.corpus][ds[n].project]
           old == Prefix(a, ds, n - 1)
           mine == ds[n].tool
           new == [old EXCEPT ![mine] = Add(old[mine], hits, plants)]
           R(tool, ls, i) == RateUpTo(a, ds, tool, ls, i)
<1>1. n \in DOMAIN ds
  BY DEF AreRead
<1>2. SizesOf(a, ds, n, hits, plants)
  BY <1>1, SizesAre
<1>3. \A tool, ls : R(tool, ls, n)
          = IF mine = tool
            THEN Plus(R(tool, ls, n - 1), Cardinality(Hit(a, ds, ls)[n]), Cardinality(All(a, ds, ls)[n]))
            ELSE R(tool, ls, n - 1)
  BY RateStep
<1>4. \A i : /\ DOMAIN Prefix(a, ds, i) = ToolsOf(ds)
             /\ \A tool \in ToolsOf(ds) :
                    Prefix(a, ds, i)[tool]
                        = [all |-> R(tool, Layers, i), layer |-> [l \in Layers |-> R(tool, {l}, i)]]
  BY DEF Prefix
<1> HIDE DEF R, hits, plants
<1>5. ASSUME NEW tool \in ToolsOf(ds) PROVE Prefix(a, ds, n)[tool] = new[tool]
  <2>1. old[tool] = [all |-> R(tool, Layers, n - 1), layer |-> [l \in Layers |-> R(tool, {l}, n - 1)]]
    BY <1>4
  <2>2. CASE tool = mine
    <3>1. new[tool] = Add(old[tool], hits, plants)
      BY <1>4, <2>2
    <3>2. Add(old[tool], hits, plants)
              = [all |-> Plus(R(tool, Layers, n - 1), Sizes(hits).all, Sizes(plants).all),
                 layer |-> [l \in Layers |-> Plus(R(tool, {l}, n - 1), Sizes(hits).layer[l],
                                                  Sizes(plants).layer[l])]]
      <4> HIDE DEF old
      <4>1. /\ old[tool].all = R(tool, Layers, n - 1)
            /\ \A l \in Layers : old[tool].layer[l] = R(tool, {l}, n - 1)
        BY <2>1
      <4> QED
        BY <4>1 DEF Add
    <3>3. /\ R(tool, Layers, n) = Plus(R(tool, Layers, n - 1), Sizes(hits).all, Sizes(plants).all)
          /\ \A l \in Layers : R(tool, {l}, n) = Plus(R(tool, {l}, n - 1), Sizes(hits).layer[l],
                                                      Sizes(plants).layer[l])
      BY <1>2, <1>3, <2>2 DEF SizesOf
    <3>4. Prefix(a, ds, n)[tool]
              = [all |-> R(tool, Layers, n), layer |-> [l \in Layers |-> R(tool, {l}, n)]]
      BY <1>4
    <3> QED
      BY <3>1, <3>2, <3>3, <3>4
  <2>3. CASE tool # mine
    <3>1. new[tool] = old[tool]
      BY <1>4, <2>3
    <3>2. R(tool, Layers, n) = R(tool, Layers, n - 1)
          /\ \A l \in Layers : R(tool, {l}, n) = R(tool, {l}, n - 1)
      BY <1>3, <2>3
    <3>3. Prefix(a, ds, n)[tool]
              = [all |-> R(tool, Layers, n), layer |-> [l \in Layers |-> R(tool, {l}, n)]]
      BY <1>4
    <3> QED
      BY <2>1, <3>1, <3>2, <3>3
  <2> QED
    BY <2>2, <2>3
<1>6. DOMAIN new = ToolsOf(ds) /\ DOMAIN Prefix(a, ds, n) = ToolsOf(ds)
  BY <1>4
<1>7. Prefix(a, ds, n) = [tool \in ToolsOf(ds) |-> Prefix(a, ds, n)[tool]]
      /\ new = [tool \in ToolsOf(ds) |-> new[tool]]
  BY <1>4 DEF Prefix
<1>8. Prefix(a, ds, n) = new
  BY <1>5, <1>7, Zenon
<1> QED
  BY <1>8 DEF hits, plants

\* A function that is one step after another is determined by its steps.
LEMMA SummingIsPrefix ==
    ASSUME NEW a \in Args, NEW ds, AreRead(a, ds)
    PROVE  PerTool(a, ds) = Prefix(a, ds, Len(ds))
<1> DEFINE zero == [all |-> <<0, 0>>, layer |-> [l \in Layers |-> <<0, 0>>]]
           Start0 == [tool \in ToolsOf(ds) |-> zero]
           After(was, n) == [was EXCEPT ![ds[n].tool] =
                                 Add(@, Detected(a, ds[n]), Plants[a.corpus][ds[n].project])]
           Summing(f) == [n \in 0..Len(ds) |-> IF n = 0 THEN Start0 ELSE After(f[n - 1], n)]
           upto == CHOOSE f : f = Summing(f)
           prefix == [n \in 0..Len(ds) |-> Prefix(a, ds, n)]
<1>1. PerTool(a, ds) = upto[Len(ds)]
  BY DEF PerTool
<1>2. Len(ds) \in Nat
  BY DEF AreRead
<1>3. Prefix(a, ds, 0) = Start0
  <2>1. \A X, tool : Count(ds, X, tool, 0) = 0
    BY CountNone
  <2>2. \A tool, ls : RateUpTo(a, ds, tool, ls, 0) = <<0, 0>>
    BY <2>1 DEF RateUpTo
  <2> QED
    BY <2>2 DEF Prefix
<1>4. \A n \in 1..Len(ds) : Prefix(a, ds, n) = After(Prefix(a, ds, n - 1), n)
  BY PrefixStep
<1> HIDE DEF Start0, After
<1>5. prefix = Summing(prefix)
  <2>1. ASSUME NEW n \in 0..Len(ds)
        PROVE  Prefix(a, ds, n) = IF n = 0 THEN Start0 ELSE After(prefix[n - 1], n)
    <3>1. CASE n = 0
      BY <1>3, <3>1
    <3>2. CASE n # 0
      <4>1. n \in 1..Len(ds) /\ n - 1 \in 0..Len(ds)
        BY <1>2, <3>2
      <4> QED
        BY <1>4, <3>2, <4>1
    <3> QED
      BY <3>1, <3>2
  <2> QED
    BY <2>1
<1>6. upto = Summing(upto)
  <2> HIDE DEF prefix, Summing
  <2> QED
    BY <1>5
<1>7. \A n \in 0..Len(ds) : /\ prefix[n] = IF n = 0 THEN Start0 ELSE After(prefix[n - 1], n)
                            /\ upto[n] = IF n = 0 THEN Start0 ELSE After(upto[n - 1], n)
  <2> HIDE DEF prefix, upto
  <2> QED
    BY <1>5, <1>6
<1> HIDE DEF prefix, upto, Summing
<1>8. \A n \in 0..Len(ds) : upto[n] = prefix[n]
  <2> DEFINE Differ == {n \in 0..Len(ds) : upto[n] # prefix[n]}
  <2> SUFFICES ASSUME Differ # {} PROVE FALSE
    OBVIOUS
  <2>1. PICK m \in Differ : \A k \in Differ : m <= k
    <3>1. Differ \subseteq Nat
      BY <1>2
    <3> HIDE DEF Differ
    <3> QED
      BY <3>1, SomeLeast
  <2>2. CASE m = 0
    BY <1>7, <2>2
  <2>3. CASE m # 0
    <3>1. m \in 0..Len(ds) /\ m - 1 \in 0..Len(ds) /\ ~(m <= m - 1)
      BY <1>2, <2>3
    <3>2. upto[m - 1] = prefix[m - 1]
      BY <2>1, <3>1
    <3>3. upto[m] = prefix[m]
      BY <1>7, <2>3, <3>1, <3>2
    <3> QED
      BY <3>3
  <2> QED
    BY <2>2, <2>3
<1>9. upto[Len(ds)] = prefix[Len(ds)] /\ prefix[Len(ds)] = Prefix(a, ds, Len(ds))
  <2>1. Len(ds) \in 0..Len(ds)
    BY <1>2
  <2> QED
    BY <1>8, <2>1 DEF prefix
<1> QED
  BY <1>1, <1>9

LEMMA RateIs ==
    ASSUME NEW a, NEW ds, NEW tool, NEW ls
    PROVE  LET mine == {k \in DOMAIN ds : ds[k].tool = tool}
           IN  Rate(a, ds, tool, ls) = <<Cardinality(Numbered(mine, Hit(a, ds, ls))),
                                         Cardinality(Numbered(mine, All(a, ds, ls)))>>
<1> DEFINE mine == {k \in DOMAIN ds : ds[k].tool = tool}
<1>1. Numbered(mine, Hit(a, ds, ls))
          = UNION {{<<k, x>> : x \in {y \in Detected(a, ds[k]) : y.layer \in ls}} : k \in mine}
  BY DEF Numbered, Hit
<1>2. Numbered(mine, All(a, ds, ls))
          = UNION {{<<k, x>> : x \in {y \in Plants[a.corpus][ds[k].project] : y.layer \in ls}} :
                   k \in mine}
  BY DEF Numbered, All
<1> QED
  BY <1>1, <1>2 DEF Rate

\* Both of report.py's ways to sum up come to the same.
LEMMA TwoWays ==
    ASSUME NEW a \in Args, NEW ds, AreRead(a, ds)
    PROVE  PerTool(a, ds) = MarkdownOf(a, ds)
<1>1. \A tool : First(ds, tool, Len(ds)) = {k \in DOMAIN ds : ds[k].tool = tool}
  BY DEF First, AreRead
<1>2. ASSUME NEW tool, NEW ls PROVE RateUpTo(a, ds, tool, ls, Len(ds)) = Rate(a, ds, tool, ls)
  <2> DEFINE mine == {k \in DOMAIN ds : ds[k].tool = tool}
  <2>1. Rate(a, ds, tool, ls)
            = <<Cardinality(Numbered(mine, Hit(a, ds, ls))), Cardinality(Numbered(mine, All(a, ds, ls)))>>
    BY RateIs
  <2> HIDE DEF mine
  <2>2. First(ds, tool, Len(ds)) = mine
    BY <1>1 DEF mine
  <2> QED
    BY <2>1, <2>2 DEF RateUpTo, Count
<1>3. Prefix(a, ds, Len(ds)) = MarkdownOf(a, ds)
  BY <1>2 DEF Prefix, MarkdownOf
<1> QED
  BY <1>3, SummingIsPrefix

-----------------------------------------------------------------------------
(***************************************************************************)
(* What results.json lists comes to the figures it states.                 *)
(***************************************************************************)
MineOf(docs, tool) == {k \in DOMAIN docs : docs[k].tool = tool}

Entries(docs, tool, ls) ==
    UNION {{<<k, x>> : x \in {y \in docs[k].assets : y.layer \in ls}} : k \in MineOf(docs, tool)}

Figures(docs, tool, ls) ==
    <<Cardinality({m \in Entries(docs, tool, ls) : m[2].detected}), Cardinality(Entries(docs, tool, ls))>>

Listed(a, ds) == [k \in DOMAIN ds |-> DocumentOf(a, ds[k])]

LEMMA EntriesCount ==
    ASSUME NEW a \in Args, NEW ds, AreRead(a, ds), NEW tool, NEW ls
    PROVE  /\ IsFiniteSet(Entries(Listed(a, ds), tool, ls))
           /\ Figures(Listed(a, ds), tool, ls) = Rate(a, ds, tool, ls)
<1> DEFINE docs == Listed(a, ds)
           mine == {k \in DOMAIN ds : ds[k].tool = tool}
           plants(k) == Plants[a.corpus][ds[k].project]
           entry(k, x) == [id |-> x.id, layer |-> x.layer, detected |-> x \in Detected(a, ds[k]),
                           file |-> a.corpus = "public"]
           h == [k \in DOMAIN ds |-> [x \in plants(k) |-> entry(k, x)]]
           H == Hit(a, ds, ls)
           A == All(a, ds, ls)
           E == [k \in DOMAIN ds |-> {y \in docs[k].assets : y.layer \in ls}]
           F == [k \in DOMAIN ds |-> {y \in E[k] : y.detected}]
<1>1. /\ DOMAIN docs = DOMAIN ds
      /\ \A k \in DOMAIN ds : docs[k].tool = ds[k].tool /\ docs[k].assets = {entry(k, x) : x \in plants(k)}
  BY DEF Listed, DocumentOf
<1>2. MineOf(docs, tool) = mine
  BY <1>1 DEF MineOf
<1>3. Len(ds) \in Nat /\ mine \in SUBSET (1..Len(ds)) /\ mine \subseteq DOMAIN ds
  BY DEF AreRead
<1>4. \A k \in DOMAIN ds : /\ H[k] = {x \in Detected(a, ds[k]) : x.layer \in ls}
                           /\ A[k] = {x \in plants(k) : x.layer \in ls}
                           /\ H[k] \subseteq A[k] /\ Detected(a, ds[k]) \subseteq plants(k)
  <2>1. \A k \in DOMAIN ds : Detected(a, ds[k]) \subseteq plants(k)
    BY PlantsOf
  <2> QED
    BY <2>1 DEF Hit, All
<1>5. \A k \in DOMAIN ds : \A x, y \in plants(k) : h[k][x] = h[k][y] => x = y
  <2> SUFFICES ASSUME NEW k \in DOMAIN ds, NEW x \in plants(k), NEW y \in plants(k), h[k][x] = h[k][y]
               PROVE  x = y
    OBVIOUS
  <2>1. x = [id |-> x.id, layer |-> x.layer] /\ y = [id |-> y.id, layer |-> y.layer]
    BY PlantsOf
  <2>2. entry(k, x) = entry(k, y)
    OBVIOUS
  <2>3. x.id = y.id /\ x.layer = y.layer
    BY <2>2
  <2> QED
    BY <2>1, <2>3
<1>6. \A k \in DOMAIN ds : E[k] = {h[k][x] : x \in A[k]}
  <2> SUFFICES ASSUME NEW k \in DOMAIN ds PROVE E[k] = {h[k][x] : x \in A[k]}
    OBVIOUS
  <2>1. E[k] = {y \in {entry(k, x) : x \in plants(k)} : y.layer \in ls}
    BY <1>1
  <2>2. \A x \in plants(k) : entry(k, x).layer = x.layer /\ h[k][x] = entry(k, x)
    OBVIOUS
  <2> HIDE DEF E, A, h, entry, plants
  <2> QED
    BY <1>4, <2>1, <2>2
<1>7. \A k \in DOMAIN ds : F[k] = {h[k][x] : x \in H[k]}
  <2> SUFFICES ASSUME NEW k \in DOMAIN ds PROVE F[k] = {h[k][x] : x \in H[k]}
    OBVIOUS
  <2>1. F[k] = {y \in {h[k][x] : x \in A[k]} : y.detected}
    BY <1>6
  <2>2. \A x \in plants(k) : h[k][x].detected <=> x \in Detected(a, ds[k])
    OBVIOUS
  <2> HIDE DEF E, F, A, H, h, plants
  <2>3. A[k] \subseteq plants(k) /\ \A x \in A[k] : x \in H[k] <=> x \in Detected(a, ds[k])
    BY <1>4
  <2> QED
    BY <1>4, <2>1, <2>2, <2>3
<1>8. Entries(docs, tool, ls) = Numbered(mine, E)
  BY <1>2, <1>3 DEF Entries, Numbered
<1>9. {m \in Numbered(mine, E) : m[2].detected} = Numbered(mine, F)
  <2>1. \A k \in mine : F[k] = {y \in E[k] : y.detected}
    BY <1>3
  <2> HIDE DEF mine, E, F
  <2> QED
    BY <2>1 DEF Numbered
<1>10. \A k \in mine : IsFiniteSet(A[k]) /\ IsFiniteSet(H[k])
  <2>1. \A k \in DOMAIN ds : IsFiniteSet(A[k])
    BY PlantsFinite
  <2>2. \A k \in DOMAIN ds : IsFiniteSet(H[k])
    BY PlantsFinite
  <2> HIDE DEF mine, A, H
  <2> QED
    BY <1>3, <2>1, <2>2
<1>11. Rate(a, ds, tool, ls) = <<Cardinality(Numbered(mine, H)), Cardinality(Numbered(mine, A))>>
  BY RateIs
<1>12. Renamed(mine, A, E, h) /\ Renamed(mine, H, F, h)
  <2>1. \A k \in mine : A[k] \subseteq plants(k) /\ H[k] \subseteq plants(k)
    BY <1>3, <1>4
  <2> HIDE DEF mine, E, F, A, H, h, plants
  <2> QED
    BY <1>3, <1>5, <1>6, <1>7, <2>1 DEF Renamed
<1> HIDE DEF docs, mine, plants, h, H, A, E, F
<1>13. IsFiniteSet(Numbered(mine, A)) /\ IsFiniteSet(Numbered(mine, H))
  <2>1. /\ Len(ds) \in Nat /\ mine \in SUBSET (1..Len(ds))
        /\ \A k \in mine : IsFiniteSet(A[k])
        /\ \A k \in mine : IsFiniteSet(H[k])
    BY <1>3, <1>10
  <2>2. IsFiniteSet(Numbered(mine, A))
    BY ONLY <2>1, NumberedFinite, Zenon
  <2>3. IsFiniteSet(Numbered(mine, H))
    BY ONLY <2>1, NumberedFinite, Zenon
  <2> QED
    BY <2>2, <2>3
<1>14. IsFiniteSet(Numbered(mine, E)) /\ Cardinality(Numbered(mine, E)) = Cardinality(Numbered(mine, A))
  BY <1>12, <1>13, NumberedRenamed
<1>15. Cardinality(Numbered(mine, F)) = Cardinality(Numbered(mine, H))
  BY <1>12, <1>13, NumberedRenamed
<1>16. Figures(docs, tool, ls) = <<Cardinality(Numbered(mine, F)), Cardinality(Numbered(mine, E))>>
  BY <1>8, <1>9 DEF Figures
<1> QED
  BY <1>8, <1>11, <1>14, <1>15, <1>16 DEF docs

\* Each pair of a project and a tool that is measured is scored or it is not.
LEMMA PairsCount ==
    ASSUME NEW a \in Args, NEW ds, AreRead(a, ds)
    PROVE  Cardinality(Unscored(a, ds)) + Cardinality(Scored(ds))
               = Cardinality(Projects(a.corpus)) * Cardinality(ToolsOf(ds))
<1> DEFINE P == Projects(a.corpus)
           T == ToolsOf(ds)
           N == DOMAIN ds
           f == [k \in N |-> ds[k].tool]
<1>1. IsFiniteSet(P)
  BY ArgsAssumption, PlantsAssumption
<1>2. IsFiniteSet(N)
  <2>1. Len(ds) \in Nat /\ N = 1..Len(ds)
    BY DEF AreRead
  <2>2. IsFiniteSet(1..Len(ds))
    BY <2>1, FS_Interval
  <2> QED
    BY <2>1, <2>2
<1>3. f \in Surjection(N, T)
  BY DEF Surjection, ToolsOf
<1>4. Scored(ds) \subseteq P \X T
  BY DEF Scored, ToolsOf, AreRead
<1> HIDE DEF P, T, N, f
<1>5. IsFiniteSet(T)
  BY <1>2, <1>3, FS_Surjection
<1>6. IsFiniteSet(P \X T) /\ Cardinality(P \X T) = Cardinality(P) * Cardinality(T)
  BY <1>1, <1>5, FS_Product
<1>7. (P \X T) \cap Scored(ds) = Scored(ds)
  BY <1>4
<1>8. Cardinality((P \X T) \ Scored(ds))
          = Cardinality(P \X T) - Cardinality((P \X T) \cap Scored(ds))
  BY <1>6, FS_Difference
<1>9. /\ Cardinality(P \X T) \in Nat /\ Cardinality(Scored(ds)) \in Nat
      /\ Cardinality(Unscored(a, ds)) = Cardinality((P \X T) \ Scored(ds))
  <2>1. IsFiniteSet(Scored(ds))
    BY <1>4, <1>6, FS_Subset
  <2> QED
    BY <1>6, <2>1, FS_CardinalityType DEF Unscored, P, T
<1> HIDE DEF Unscored, Scored
<1>10. Cardinality(Unscored(a, ds)) + Cardinality(Scored(ds)) = Cardinality(P) * Cardinality(T)
  <2> DEFINE u == Cardinality(Unscored(a, ds))
             c == Cardinality(Scored(ds))
             p == Cardinality(P \X T)
  <2>1. u = p - c /\ p \in Nat /\ c \in Nat
    BY <1>7, <1>8, <1>9
  <2>2. p = Cardinality(P) * Cardinality(T)
    BY <1>6
  <2> HIDE DEF u, c, p
  <2>3. u + c = p
    BY <2>1
  <2> QED
    BY <2>2, <2>3 DEF u, c
<1> QED
  BY <1>10 DEF P, T

-----------------------------------------------------------------------------
(***************************************************************************)
(* The figures of the published files.  Adds: each figure of the results j *)
(* is that of the documents it lists.                                      *)
(***************************************************************************)
Adds(j) ==
    /\ \A tool \in DOMAIN j.tools :
           /\ j.tools[tool].all = Figures(j.documents, tool, Layers)
           /\ \A l \in Layers : j.tools[tool].layer[l] = Figures(j.documents, tool, {l})
    /\ \A k \in DOMAIN j.documents : /\ j.documents[k].tool \in DOMAIN j.tools
                                     /\ \A y \in j.documents[k].assets : y.layer \in Layers
    /\ \A tool, ls : IsFiniteSet(Entries(j.documents, tool, ls))

JsonAdds == json \notin {None, Torn} => Adds(json)

\* What is carried from one write to the next is of the documents.
Carried ==
    mode = "score" =>
        /\ phase \in {"markdown", "json"} =>
               meta.args = args /\ meta.unscored = Cardinality(Unscored(args, documents))
        /\ phase = "json" => markdown = [meta |-> meta, tools |-> MarkdownOf(args, documents)]

LastIsOpen == mode # "idle" => last.exit = "none"

FInv == LastIsOpen /\ Carried /\ JsonAdds /\ FiguresAddUp /\ MissReportMatches

LEMMA DocumentsAreRead == IInv /\ mode = "score" => AreRead(args, documents) /\ args \in Args
<1> SUFFICES ASSUME IInv, mode = "score" PROVE AreRead(args, documents) /\ args \in Args
  OBVIOUS
<1>1. PICK S : documents \in Seq(S)
  BY DEF IInv, Sequence
<1>2. Len(documents) \in Nat /\ DOMAIN documents = 1..Len(documents)
  BY <1>1, LenProperties
<1> QED
  BY <1>2 DEF IInv, TypeOK, AreRead

\* The results that are made of documents add up.
LEMMA PublishedAdds ==
    ASSUME NEW a \in Args, NEW ds, AreRead(a, ds), NEW j, j.tools = PerTool(a, ds),
           j.documents = Listed(a, ds)
    PROVE  Adds(j) /\ j.tools = MarkdownOf(a, ds) /\ DOMAIN j.tools = ToolsOf(ds)
<1> DEFINE docs == Listed(a, ds)
<1>1. j.tools = MarkdownOf(a, ds)
  BY TwoWays
<1>2. \A tool, ls : /\ IsFiniteSet(Entries(docs, tool, ls))
                    /\ Figures(docs, tool, ls) = Rate(a, ds, tool, ls)
  BY EntriesCount
<1>3. DOMAIN docs = DOMAIN ds /\ \A k \in DOMAIN docs : docs[k] = DocumentOf(a, ds[k])
  BY DEF Listed
<1>4. ASSUME NEW k \in DOMAIN docs
      PROVE  docs[k].tool \in ToolsOf(ds) /\ \A y \in docs[k].assets : y.layer \in Layers
  <2>1. docs[k].tool = ds[k].tool
    BY <1>3, <1>4 DEF DocumentOf
  <2>2. \A x \in Plants[a.corpus][ds[k].project] : x.layer \in Layers
    BY <1>3, <1>4, PlantsOf
  <2>3. \A y \in docs[k].assets : \E x \in Plants[a.corpus][ds[k].project] : y.layer = x.layer
    BY <1>3, <1>4 DEF DocumentOf
  <2> QED
    BY <1>3, <1>4, <2>1, <2>2, <2>3 DEF ToolsOf
<1> HIDE DEF docs
<1>5. DOMAIN MarkdownOf(a, ds) = ToolsOf(ds)
      /\ \A tool \in ToolsOf(ds) :
             /\ MarkdownOf(a, ds)[tool].all = Rate(a, ds, tool, Layers)
             /\ \A l \in Layers : MarkdownOf(a, ds)[tool].layer[l] = Rate(a, ds, tool, {l})
  BY DEF MarkdownOf
<1>6. j.documents = docs
  BY DEF docs
<1>7. Adds(j)
  BY <1>1, <1>2, <1>4, <1>5, <1>6 DEF Adds
<1> QED
  BY <1>1, <1>5, <1>7

\* Of the entries of a tool those that are not detected are the others.
LEMMA MissesAre ==
    ASSUME NEW docs, NEW tool, NEW ls, IsFiniteSet(Entries(docs, tool, ls))
    PROVE  Cardinality({m \in Entries(docs, tool, ls) : ~m[2].detected})
               = Figures(docs, tool, ls)[2] - Figures(docs, tool, ls)[1]
<1> DEFINE E == Entries(docs, tool, ls)
           D == {m \in E : m[2].detected}
           M == {m \in E : ~m[2].detected}
<1>1. M = E \ D /\ E \cap D = D
  OBVIOUS
<1>2. Figures(docs, tool, ls) = <<Cardinality(D), Cardinality(E)>>
  BY DEF Figures
<1> HIDE DEF E, D, M
<1>3. Cardinality(E \ D) = Cardinality(E) - Cardinality(E \cap D)
  BY FS_Difference DEF E
<1>4. Cardinality(M) = Figures(docs, tool, ls)[2] - Figures(docs, tool, ls)[1]
  BY <1>1, <1>2, <1>3
<1> QED
  BY <1>4 DEF M, E

LEMMA ReportMatches ==
    ASSUME Adds(json), NEW tool, Mine(tool) # {}
    PROVE  LET made == MissReport(tool) IN
           /\ made.tool = tool
           /\ made.total = json.tools[tool].all[2]
           /\ made.misses = made.total - json.tools[tool].all[1]
           /\ \A l \in Layers :
                  made.layer[l] = json.tools[tool].layer[l][2] - json.tools[tool].layer[l][1]
<1> DEFINE docs == json.documents
           made == MissReport(tool)
           E(ls) == Entries(docs, tool, ls)
<1>1. Mine(tool) = MineOf(docs, tool)
  BY DEF Mine, MineOf
<1>2. tool \in DOMAIN json.tools
  BY DEF Mine, Adds
<1>3. \A k \in DOMAIN docs : \A y \in docs[k].assets : y.layer \in Layers
  BY DEF Adds
<1>4. UNION {{<<k, x>> : x \in docs[k].assets} : k \in Mine(tool)} = E(Layers)
  <2>1. \A k \in MineOf(docs, tool) : {y \in docs[k].assets : y.layer \in Layers} = docs[k].assets
    BY <1>3 DEF MineOf
  <2> HIDE DEF docs
  <2> QED
    BY <1>1, <2>1 DEF Entries
<1>5. Misses(tool) = {m \in E(Layers) : ~m[2].detected}
  <2>1. Misses(tool) = UNION {{<<k, x>> : x \in {y \in docs[k].assets : ~y.detected}} :
                              k \in MineOf(docs, tool)}
    BY <1>1 DEF Misses
  <2>2. \A k \in MineOf(docs, tool) : k \in DOMAIN docs
    BY DEF MineOf
  <2> HIDE DEF docs
  <2> QED
    BY <1>3, <2>1, <2>2 DEF Entries
<1>6. \A l \in Layers : {m \in Misses(tool) : m[2].layer = l} = {m \in E({l}) : ~m[2].detected}
  <2>1. \A l \in Layers : {m \in E(Layers) : m[2].layer = l} = E({l})
    <3> HIDE DEF docs
    <3> QED
      BY DEF Entries
  <2> HIDE DEF E
  <2> QED
    BY <1>5, <2>1
<1>7. /\ made.tool = tool /\ made.misses = Cardinality(Misses(tool))
      /\ made.total = Cardinality(E(Layers))
      /\ \A l \in Layers : made.layer[l] = Cardinality({m \in Misses(tool) : m[2].layer = l})
  <2> HIDE DEF E
  <2> QED
    BY <1>4 DEF MissReport
<1>8. \A ls : IsFiniteSet(E(ls))
  BY DEF Adds
<1>9. \A ls : Cardinality({m \in E(ls) : ~m[2].detected})
                  = Figures(docs, tool, ls)[2] - Figures(docs, tool, ls)[1]
  BY <1>8, MissesAre
<1>10. /\ json.tools[tool].all = Figures(docs, tool, Layers)
       /\ \A l \in Layers : json.tools[tool].layer[l] = Figures(docs, tool, {l})
  BY <1>2 DEF Adds
<1>11. \A ls : Figures(docs, tool, ls)[2] = Cardinality(E(ls))
  BY DEF Figures
<1> HIDE DEF docs, made, E
<1> QED
  BY <1>5, <1>6, <1>7, <1>9, <1>10, <1>11 DEF made

FiguresSaid ==
    Ended("score") =>
        /\ markdown.meta = json.meta /\ markdown.tools = json.tools
        /\ \A tool \in DOMAIN json.tools :
               /\ json.tools[tool].all = Figures(json.documents, tool, Layers)
               /\ \A l \in Layers : json.tools[tool].layer[l] = Figures(json.documents, tool, {l})
        /\ json.meta.unscored
               + Cardinality({<<json.documents[k].project, json.documents[k].tool>> :
                              k \in DOMAIN json.documents})
           = Cardinality(Projects(json.meta.args.corpus)) * Cardinality(DOMAIN json.tools)

LEMMA FiguresUnfold == FiguresAddUp <=> FiguresSaid
BY DEF FiguresAddUp, FiguresSaid, Figures, Entries, MineOf

LEMMA FiguresUnfoldNext == FiguresAddUp' <=> FiguresSaid'
BY FiguresUnfold, PTL

LEMMA WriteJsonFInv == IInv /\ FInv /\ WriteJson => FInv'
<1> SUFFICES ASSUME IInv, FInv, WriteJson PROVE FInv'
  OBVIOUS
<1> DEFINE ds == documents
<1>1. /\ mode = "score" /\ phase = "json" /\ AreRead(args, ds) /\ args \in Args
      /\ markdown' = markdown /\ report' = report
      /\ json' = [meta |-> meta, tools |-> PerTool(args, ds), documents |-> Listed(args, ds)]
      /\ mode' = "idle" /\ last' = [mode |-> "score", exit |-> "ok"]
  BY DocumentsAreRead DEF WriteJson, Scoring, Exit, Listed
<1>2. /\ json'.tools = PerTool(args, ds) /\ json'.documents = Listed(args, ds) /\ json'.meta = meta
  BY <1>1
<1>3. Adds(json') /\ json'.tools = MarkdownOf(args, ds) /\ DOMAIN json'.tools = ToolsOf(ds)
  BY <1>1, <1>2, PublishedAdds
<1>4. /\ meta.args = args /\ meta.unscored = Cardinality(Unscored(args, ds))
      /\ markdown = [meta |-> meta, tools |-> MarkdownOf(args, ds)]
  BY <1>1 DEF FInv, Carried
<1>5. {<<json'.documents[k].project, json'.documents[k].tool>> : k \in DOMAIN json'.documents}
          = Scored(ds)
  <2>1. DOMAIN Listed(args, ds) = DOMAIN ds
        /\ \A k \in DOMAIN ds : /\ Listed(args, ds)[k].project = ds[k].project
                                /\ Listed(args, ds)[k].tool = ds[k].tool
    BY DEF Listed, DocumentOf
  <2> QED
    BY <1>2, <2>1 DEF Scored
<1>6. Cardinality(Unscored(args, ds)) + Cardinality(Scored(ds))
          = Cardinality(Projects(args.corpus)) * Cardinality(ToolsOf(ds))
  BY <1>1, PairsCount
<1>7. FiguresAddUp'
  <2>1. markdown'.meta = json'.meta /\ markdown'.tools = json'.tools
    BY <1>1, <1>2, <1>3, <1>4
  <2>2. \A tool \in DOMAIN json'.tools :
            /\ json'.tools[tool].all = Figures(json'.documents, tool, Layers)
            /\ \A l \in Layers : json'.tools[tool].layer[l] = Figures(json'.documents, tool, {l})
    BY <1>3 DEF Adds
  <2>3. json'.meta.unscored
               + Cardinality({<<json'.documents[k].project, json'.documents[k].tool>> :
                              k \in DOMAIN json'.documents})
            = Cardinality(Projects(json'.meta.args.corpus)) * Cardinality(DOMAIN json'.tools)
    <3>1. json'.meta.unscored = Cardinality(Unscored(args, ds)) /\ json'.meta.args = args
      BY <1>2, <1>4
    <3> QED
      BY <1>3, <1>5, <1>6, <3>1
  <2> QED
    BY <2>1, <2>2, <2>3, FiguresUnfoldNext DEF FiguresSaid
<1>8. LastIsOpen' /\ Carried' /\ JsonAdds' /\ MissReportMatches'
  BY <1>1, <1>3 DEF LastIsOpen, Carried, JsonAdds, MissReportMatches, Ended
<1> QED
  BY <1>7, <1>8 DEF FInv

LEMMA WriteReportFInv == IInv /\ FInv /\ WriteReport => FInv'
<1> SUFFICES ASSUME IInv, FInv, WriteReport PROVE FInv'
  OBVIOUS
<1>1. /\ mode = "miss" /\ mode' = "idle" /\ last' = [mode |-> "miss", exit |-> "ok"]
      /\ json \notin {None, Torn} /\ json' = json /\ markdown' = markdown
      /\ Mine(args.tool) # {} /\ report' = MissReport(args.tool)
  BY DEF WriteReport, Exit
<1>2. Adds(json)
  BY <1>1 DEF FInv, JsonAdds
<1>3. LET made == MissReport(args.tool) IN
      /\ made.tool = args.tool
      /\ made.total = json.tools[args.tool].all[2]
      /\ made.misses = made.total - json.tools[args.tool].all[1]
      /\ \A l \in Layers :
             made.layer[l] = json.tools[args.tool].layer[l][2] - json.tools[args.tool].layer[l][1]
  BY <1>1, <1>2, ReportMatches
<1>4. MissReportMatches'
  BY <1>1, <1>3 DEF MissReportMatches
<1>5. LastIsOpen' /\ Carried' /\ JsonAdds' /\ FiguresAddUp'
  BY <1>1, <1>2 DEF LastIsOpen, Carried, JsonAdds, FiguresAddUp, Ended
<1> QED
  BY <1>4, <1>5 DEF FInv

\* A process that ends, but not well, leaves no figures that are new.
LEMMA ExitFInv ==
    ASSUME FInv, NEW how \in {"error", "killed"}, Exit(how), json' \in {json, Torn}
    PROVE  FInv'
<1>1. mode' = "idle" /\ last' = [mode |-> mode, exit |-> how]
  BY DEF Exit
<1>2. JsonAdds'
  BY DEF FInv, JsonAdds
<1> QED
  BY <1>1, <1>2 DEF FInv, LastIsOpen, Carried, FiguresAddUp, MissReportMatches, Ended

LEMMA NextFInv == IInv /\ FInv /\ [Next]_vars => FInv'
<1> SUFFICES ASSUME IInv, FInv, [Next]_vars PROVE FInv'
  OBVIOUS
<1>1. ASSUME UNCHANGED <<json, report, markdown, last, mode, args, phase, documents, meta>>
      PROVE  FInv'
  <2>0. FiguresSaid' <=> FiguresSaid
    BY <1>1 DEF FiguresSaid, Ended
  <2>1. FiguresAddUp' /\ MissReportMatches'
    <3>1. FiguresAddUp'
      BY <2>0, FiguresUnfold, FiguresUnfoldNext DEF FInv
    <3>2. MissReportMatches'
      BY <1>1 DEF FInv, MissReportMatches, Ended
    <3> QED
      BY <3>1, <3>2
  <2>2. LastIsOpen' /\ Carried' /\ JsonAdds'
    BY <1>1 DEF FInv, LastIsOpen, Carried, JsonAdds
  <2> QED
    BY <2>1, <2>2 DEF FInv
<1>2. ASSUME mode = "score", UNCHANGED <<json, report, last, mode>>, Carried' PROVE FInv'
  <2>1. last.exit = "none"
    BY <1>2 DEF FInv, LastIsOpen
  <2>2. LastIsOpen' /\ JsonAdds' /\ FiguresAddUp' /\ MissReportMatches'
    BY <1>2, <2>1 DEF FInv, LastIsOpen, JsonAdds, FiguresAddUp, MissReportMatches, Ended
  <2> QED
    BY <1>2, <2>2 DEF FInv
<1>3. CASE List \/ (\E name \in todo : Read(name) \/ ReportProblem(name)) \/ Score
  <2>1. mode = "score" /\ UNCHANGED <<json, report, last, mode>>
    BY <1>3 DEF List, Read, ReportProblem, Score, Scoring, disk
  <2>2. phase' \in {"read", "manifest"}
    BY <1>3 DEF List, Read, ReportProblem, Score, Scoring
  <2> QED
    BY <1>2, <2>1, <2>2 DEF Carried
<1>4. CASE ReadManifest
  <2>1. /\ mode = "score" /\ phase' = "markdown" /\ meta' = Now(args, documents)
        /\ UNCHANGED <<json, report, last, mode, args, documents>>
    BY <1>4 DEF ReadManifest, Scoring, disk
  <2>2. Carried'
    BY <2>1 DEF Carried, Now
  <2> QED
    BY <1>2, <2>1, <2>2
<1>5. CASE WriteMarkdown
  <2>1. /\ mode = "score" /\ phase = "markdown"
        /\ markdown' = [meta |-> meta, tools |-> MarkdownOf(args, documents)]
        /\ UNCHANGED <<json, report, last, mode, args, documents, meta>>
    BY <1>5 DEF WriteMarkdown, Scoring
  <2>2. Carried'
    BY <2>1 DEF FInv, Carried
  <2> QED
    BY <1>2, <2>1, <2>2
<1>6. CASE (\E a \in Args : StartScore(a)) \/ (\E tool \in Tools : StartMiss(tool))
  <2>1. /\ mode = "idle" /\ last'.exit = "none" /\ UNCHANGED <<json, phase>>
        /\ phase = "load"
    BY <1>6 DEF StartScore, StartMiss, Start, disk, IInv, PhaseIsScores
  <2> QED
    BY <2>1 DEF FInv, LastIsOpen, Carried, JsonAdds, FiguresAddUp, MissReportMatches, Ended
<1>7. CASE Kill
  <2>1. Exit("killed") /\ json' \in {json, Torn}
    BY <1>7 DEF Kill, disk
  <2> QED
    BY <2>1, ExitFInv
<1>8. CASE Reject \/ (\E name \in todo : Vanished(name)) \/ RejectReport
  <2>1. Exit("error") /\ json' \in {json, Torn}
    BY <1>8 DEF Reject, Vanished, RejectReport, disk
  <2> QED
    BY <2>1, ExitFInv
<1>9. CASE Deliver
  BY <1>9, <1>1 DEF Deliver, disk, local
<1>10. CASE UNCHANGED vars
  BY <1>10, <1>1 DEF vars, disk, local
<1> QED
  BY <1>3, <1>4, <1>5, <1>6, <1>7, <1>8, <1>9, <1>10, WriteJsonFInv, WriteReportFInv DEF Next, Step

LEMMA FiguresInvariant == Spec => []FInv
<1>1. Init => FInv
  BY DEF Init, FInv, LastIsOpen, Carried, JsonAdds, FiguresAddUp, MissReportMatches, Ended
<1>2. Spec => Init /\ [][Next]_vars
  BY PTL DEF Spec
<1> QED
  BY <1>1, <1>2, Invariant, NextFInv, PTL

\* For any corpus, directory and kills: when a scoring ended well its two files
\* state the same figures, each the count of what the entries list, and each
\* pair of a project and a tool is scored or counted as unscored.
THEOREM ReportsAddUp == Spec => []FiguresAddUp
<1>1. FInv => FiguresAddUp
  BY DEF FInv
<1> QED
  BY FiguresInvariant, <1>1, PTL

\* Whatever results.json it finds, when a miss report ended well it misses, in
\* each layer and in all, what the results of its tool do not detect.
THEOREM MissesAreTheRest == Spec => []MissReportMatches
<1>1. FInv => MissReportMatches
  BY DEF FInv
<1> QED
  BY FiguresInvariant, <1>1, PTL

=============================================================================
