---------------------------- MODULE CorpusProofs ----------------------------
(***************************************************************************)
(* Proofs about Corpus, for any projects, templates, edits and kills.      *)
(***************************************************************************)
EXTENDS Corpus, FiniteSetTheorems, SequenceTheorems, TLAPS

USE DEF Modes, Areas

-----------------------------------------------------------------------------
(***************************************************************************)
(* Type correctness.                                                       *)
(***************************************************************************)
LEMMA OrderFacts ==
    /\ Order \in Seq(Projects)
    /\ Len(Order) \in Nat
    /\ DOMAIN Order = 1..Len(Order)
    /\ \A n \in DOMAIN Order : Order[n] \in Projects
  BY OrderAssumption DEF IsSequence, Projects

LEMMA AreaType == Area \in Areas
  BY DEF Area

\* What a write leaves of the shape of the tree.
LEMMA PutKeepsShape ==
    ASSUME TypeOK, NEW content, Put(content)
    PROVE  /\ DOMAIN tree' = Areas
           /\ \A area \in Areas : DOMAIN tree'[area] = Projects
  BY DEF TypeOK, Shape, Put

\* Annotations of a file stand in it, at lines that are there.
LEMMA AnnotationsInFile ==
    ASSUME NEW path, NEW file, NEW a \in Annotations(path, file) \cup Aliases(path, file)
    PROVE  a.file = path /\ a.line \in DOMAIN file.lines
  BY DEF Annotations, Aliases, MarkedLines

LEMMA InitType == Init => TypeOK
<1>1. SUFFICES ASSUME Init PROVE TypeOK
  OBVIOUS
<1>2. Shape
  BY <1>1 DEF Init, Shape
<1>3. Control
  <2>1. /\ mode = "idle" /\ phase = "project" /\ at = 1 /\ source = None /\ stale = FALSE
        /\ last = [mode |-> "none", exit |-> "none"] /\ edits = 0 /\ kills = 0
    BY <1>1 DEF Init
  <2> QED
    BY <2>1 DEF Control
<1>5. Counters
  <2>1. at = 1 /\ phase = "project" /\ edits = 0 /\ kills = 0
    BY <1>1 DEF Init
  <2> QED
    BY <2>1, OrderFacts, BoundsAssumption DEF Counters
<1>4. Collected
  BY <1>1 DEF Init, Collected, Busy
<1> QED
  BY <1>2, <1>3, <1>4, <1>5 DEF TypeOK

\* The end of a process, whatever it does to the disk.
LEMMA ExitType ==
    ASSUME TypeOK, mode # "idle",
           NEW how \in {"ok", "error", "raised"}, Exit(how),
           DOMAIN tree' = Areas, \A area \in Areas : DOMAIN tree'[area] = Projects,
           UNCHANGED truth
    PROVE  TypeOK'
<1>1. Shape'
  BY DEF TypeOK, Shape, Exit
<1>2. Control'
  BY DEF TypeOK, Control, Exit
<1>4. Counters'
  BY OrderFacts DEF TypeOK, Counters, Exit
<1>3. Collected'
  BY DEF Exit, Collected, Busy
<1> QED
  BY <1>1, <1>2, <1>3, <1>4 DEF TypeOK

\* A step inside a process.
LEMMA InsideType ==
    ASSUME TypeOK, UNCHANGED <<templates, mode, last, edits, kills>>,
           Shape', Collected',
           phase' \in {"project", "vary", "emit", "truth"}, phase' = "vary" => mode = "holdout",
           at' \in 1..Len(Order) + 1, stale' \in BOOLEAN,
           phase' # "project" => at' <= Len(Order),
           mode # "idle", phase' = "project" => source' = None
    PROVE  TypeOK'
<1>1. Control'
  BY DEF TypeOK, Control
<1>2. Counters'
  BY DEF TypeOK, Counters
<1> QED
  BY <1>1, <1>2 DEF TypeOK

LEMMA NextType == TypeOK /\ [Next]_vars => TypeOK'
<1> SUFFICES ASSUME TypeOK, [Next]_vars PROVE TypeOK'
  OBVIOUS
<1>S. Shape /\ Control /\ Counters /\ Collected
  BY DEF TypeOK
<1>U. ASSUME UNCHANGED disk, UNCHANGED templates PROVE Shape'
  BY <1>U, <1>S DEF Shape, disk
<1>P. ASSUME NEW content, Put(content), UNCHANGED <<templates, truth>> PROVE Shape'
  BY <1>P, <1>S, PutKeepsShape DEF Shape
<1>1. CASE Edit
  <2>1. Shape'
    BY <1>1, <1>S DEF Edit, Shape, disk
  <2>2. Control'
    BY <1>1, <1>S DEF Edit, Control, local
  <2>4. Counters'
    BY <1>1, <1>S, OrderFacts, BoundsAssumption DEF Edit, Counters, Control, local
  <2>3. Collected'
    BY <1>1, <1>S DEF Edit, Collected, Busy, local
  <2> QED
    BY <2>1, <2>2, <2>3, <2>4 DEF TypeOK
<1>2. ASSUME NEW m \in Modes, Start(m) PROVE TypeOK'
  <2>1. Shape'
    BY <1>2, <1>U DEF Start
  <2>2. Control'
    BY <1>2, <1>S DEF Start, Control, local
  <2>4. Counters'
    BY <1>2, <1>S, OrderFacts, BoundsAssumption DEF Start, Counters, Control, local
  <2>3. Collected'
    BY <1>2, <1>S DEF Start, Collected, Busy
  <2> QED
    BY <2>1, <2>2, <2>3, <2>4 DEF TypeOK
<1>3. CASE RejectMetadata
  BY <1>3, ExitType, <1>S DEF RejectMetadata, Running, disk, Shape
<1>4. CASE BeginProject
  <2>1. Shape'
    BY <1>4, <1>P DEF BeginProject
  <2>2. Collected'
    BY <1>4 DEF BeginProject, Collected, Busy
  <2> QED
    BY <1>4, <2>1, <2>2, <1>S, InsideType DEF BeginProject, Running, Control, Counters
<1>17. CASE TakeTemplate
  <2>1. Shape'
    BY <1>17, <1>U DEF TakeTemplate
  <2>2. Collected'
    BY <1>17 DEF TakeTemplate, Collected, Busy
  <2> QED
    BY <1>17, <2>1, <2>2, <1>S, InsideType DEF TakeTemplate, Running, Control, Counters
<1>18. CASE RejectKeystore
  BY <1>18, ExitType, <1>S DEF RejectKeystore, Running, disk, Shape
<1>19. CASE ApplyRule
  <2>1. Shape'
    BY <1>19, <1>U DEF ApplyRule
  <2>2. Collected'
    BY <1>19 DEF ApplyRule, Collected, Busy, Running
  <2> QED
    BY <1>19, <2>1, <2>2, <1>S, InsideType DEF ApplyRule, Running, Control, Counters
<1>20. CASE BeginVariant
  <2>1. Shape'
    BY <1>20, <1>P DEF BeginVariant
  <2>2. Collected'
    BY <1>20 DEF BeginVariant, Collected, Busy
  <2> QED
    BY <1>20, <2>1, <2>2, <1>S, InsideType DEF BeginVariant, Running, Control, Counters
<1>5. ASSUME NEW path \in todo, EmitFile(path) PROVE TypeOK'
  <2>1. Shape'
    BY <1>5, <1>P DEF EmitFile
  <2>2. Collected'
    <3>1. SUFFICES ASSUME Busy PROVE
              /\ todo' \subseteq DOMAIN source.files
              /\ \A a \in annotations' \cup aliases' :
                     /\ a.file \in DOMAIN source.files \ todo'
                     /\ a.line \in DOMAIN source.files[a.file].lines
      BY <1>5 DEF EmitFile, Collected, Busy
    <3>2. todo' = todo \ {path} /\ path \in DOMAIN source.files
      BY <1>5, <1>S, <3>1 DEF EmitFile, Collected, Busy
    <3>3. SUFFICES ASSUME NEW a \in annotations' \cup aliases'
                   PROVE  /\ a.file \in DOMAIN source.files \ todo'
                          /\ a.line \in DOMAIN source.files[a.file].lines
      BY <3>2, <1>S, <3>1 DEF Collected, Busy
    <3>4. CASE a \in annotations \cup aliases
      BY <3>4, <3>1, <3>2, <1>S DEF Collected, Busy
    <3>5. CASE a \notin annotations \cup aliases
      <4>1. a \in Annotations(path, source.files[path]) \cup Aliases(path, source.files[path])
        BY <3>3, <3>5, <1>5 DEF EmitFile
      <4> QED
        BY <4>1, <3>2, AnnotationsInFile
    <3> QED
      BY <3>4, <3>5
  <2> QED
    BY <1>5, <2>1, <2>2, <1>S, InsideType DEF EmitFile, Running, Control, Counters
<1>6. ASSUME NEW path \in todo, RejectFile(path) PROVE TypeOK'
  BY <1>6, ExitType, <1>S DEF RejectFile, Running, disk, Shape
<1>7. ASSUME NEW path \in todo, RejectId(path) PROVE TypeOK'
  BY <1>7, ExitType, PutKeepsShape DEF RejectId, Running
<1>8. CASE RejectProject
  BY <1>8, ExitType, <1>S DEF RejectProject, Running, disk, Shape
<1>9. CASE CompareProject
  <2>1. Shape'
    BY <1>9, <1>P DEF CompareProject
  <2>2. Collected'
    BY <1>9, <1>S DEF CompareProject, Collected, Busy, Running
  <2>3. stale' \in BOOLEAN
    BY <1>9, <1>S DEF CompareProject, Control
  <2> QED
    BY <1>9, <2>1, <2>2, <2>3, <1>S, InsideType DEF CompareProject, Running, Control, Counters
<1>10. CASE FinishProject
  <2>1. Shape'
    BY <1>10, <1>U DEF FinishProject
  <2>2. Collected'
    BY <1>10, <1>S DEF FinishProject, Collected, Busy, Running
  <2> QED
    BY <1>10, <2>1, <2>2, <1>S, InsideType DEF FinishProject, Running, Control, Counters
<1>11. CASE RejectLayers
  BY <1>11, ExitType, <1>S DEF RejectLayers, Running, disk, Shape
<1>12. CASE CompareTruth
  <2>1. Shape'
    BY <1>12, <1>U DEF CompareTruth
  <2>2. Collected'
    BY <1>12 DEF CompareTruth, NextProject, Collected, Busy
  <2>3. stale' \in BOOLEAN
    BY <1>12, <1>S DEF CompareTruth, Control
  <2>4. at' \in 1..Len(Order) + 1
    BY <1>12, <1>S, OrderFacts DEF CompareTruth, NextProject, Running, Control, Counters
  <2> QED
    BY <1>12, <2>1, <2>2, <2>3, <2>4, InsideType DEF CompareTruth, NextProject, Running
<1>13. CASE WriteTruth
  <2>1. Shape'
    BY <1>13, <1>S DEF WriteTruth, Shape
  <2>2. Collected'
    BY <1>13 DEF WriteTruth, NextProject, Collected, Busy
  <2>4. at' \in 1..Len(Order) + 1
    BY <1>13, <1>S, OrderFacts DEF WriteTruth, NextProject, Running, Control, Counters
  <2> QED
    BY <1>13, <2>1, <2>2, <2>4, <1>S, InsideType DEF WriteTruth, NextProject, Running, Control, Counters
<1>14. CASE Return
  BY <1>14, ExitType, <1>S DEF Return, Running, disk, Shape
<1>15. CASE Kill
  <2>1. Shape'
    <3>1. CASE UNCHANGED disk
      BY <3>1, <1>U, <1>15 DEF Kill
    <3>2. CASE UNCHANGED truth /\ \E content : Put(content)
      BY <3>2, <1>P, <1>15 DEF Kill
    <3>3. CASE UNCHANGED tree /\ truth' = [truth EXCEPT ![Area][Project] = Torn]
      BY <3>3, <1>S, <1>15 DEF Kill, Shape
    <3> QED
      BY <3>1, <3>2, <3>3, <1>15 DEF Kill
  <2>2. Control'
    BY <1>15, <1>S DEF Kill, Control, local
  <2>4. Counters'
    BY <1>15, <1>S, OrderFacts, BoundsAssumption DEF Kill, Counters, Control, local
  <2>3. Collected'
    BY <1>15 DEF Kill, Collected, Busy
  <2> QED
    BY <2>1, <2>2, <2>3, <2>4 DEF TypeOK
<1>16. CASE UNCHANGED vars
  BY <1>16 DEF vars, disk, local, TypeOK, Shape, Control, Counters, Collected, Busy
<1> QED
  BY <1>1, <1>2, <1>3, <1>4, <1>5, <1>6, <1>7, <1>8, <1>9, <1>10, <1>11, <1>12, <1>13, <1>14,
     <1>15, <1>16, <1>17, <1>18, <1>19, <1>20 DEF Next, Step

\* For any projects, templates and edits, and wherever the tools are killed, every
\* variable keeps its type, and what was collected stands in emitted files.
THEOREM TypeCorrect == Spec => []TypeOK
<1>1. Init => TypeOK
  BY InitType
<1>2. TypeOK /\ [Next]_vars => TypeOK'
  BY NextType
<1> QED
  BY <1>1, <1>2, PTL DEF Spec

-----------------------------------------------------------------------------
(***************************************************************************)
(* Templates and their variants.                                           *)
(***************************************************************************)
LEMMA SequenceRange ==
    ASSUME NEW T, NEW s \in Seq(T)
    PROVE  IsSequence(s) /\ DOMAIN s = 1..Len(s) /\ Len(s) \in Nat
  BY DEF IsSequence

LEMMA SequenceDomain ==
    ASSUME NEW s, IsSequence(s)
    PROVE  DOMAIN s = 1..Len(s) /\ Len(s) \in Nat
  BY DEF IsSequence

\* What the holdout makes of a file is a file, and bytes stay unmarked.
LEMMA RewrittenIsFile ==
    ASSUME NEW rule, NEW file, IsFile(file)
    PROVE  IsFile(RewriteFile(rule, file)) /\ RewriteFile(rule, file).kind = file.kind
<1>1. CASE ~Rewritable(file)
  BY <1>1 DEF RewriteFile
<1>2. CASE Rewritable(file)
  <2> DEFINE lines == [n \in DOMAIN file.lines |-> RewriteLine(rule, file.lines[n])]
             new   == [file EXCEPT !.lines = lines]
  <2>1. RewriteFile(rule, file) = new
    BY <1>2 DEF RewriteFile
  <2>2. DOMAIN file.lines = 1..Len(file.lines) /\ Len(file.lines) \in Nat
    BY SequenceDomain DEF IsFile
  <2>3. IsSequence(lines)
    BY <2>2 DEF IsSequence
  <2> HIDE DEF lines
  <2>4. new.lines = lines /\ new.kind = file.kind /\ new.skipped = file.skipped
        /\ DOMAIN new = DOMAIN file
    BY DEF IsFile
  <2>5. IsFile(new)
    BY <2>3, <2>4, <1>2 DEF IsFile, Rewritable
  <2> QED
    BY <2>1, <2>4, <2>5
<1> QED
  BY <1>1, <1>2

\* A header is put in one place, and every line keeps its own: in the lines of
\* Shift, place says where each line went.
LEMMA ShiftPlaces ==
    ASSUME NEW rules, NEW file, NEW T, NEW lines \in Seq(T)
    PROVE  LET shifted == Shift(rules, file, lines) IN
           /\ IsSequence(shifted)
           /\ \E place \in [DOMAIN lines -> DOMAIN shifted] :
                  /\ \A m, n \in DOMAIN lines : place[m] = place[n] => m = n
                  /\ \A m \in DOMAIN lines : shifted[place[m]] = lines[m]
                  /\ \A n \in DOMAIN shifted :
                         \/ shifted[n] = Header
                         \/ \E m \in DOMAIN lines : place[m] = n
<1> DEFINE kept    == IF lines # <<>> /\ lines[1].text = "shebang" THEN 1 ELSE 0
           above   == SubSeq(lines, 1, kept)
           below   == SubSeq(lines, kept + 1, Len(lines))
           shifted == above \o <<Header>> \o below
           place   == [m \in DOMAIN lines |-> IF m <= kept THEN m ELSE m + 1]
<1>1. CASE rules.shift /\ file.commented
  <2>1. Shift(rules, file, lines) = shifted
    BY <1>1 DEF Shift
  <2>2. kept \in 0..1 /\ kept <= Len(lines) /\ Len(lines) \in Nat /\ DOMAIN lines = 1..Len(lines)
    OBVIOUS
  <2> HIDE DEF kept
  <2>3. /\ above \in Seq(T) /\ Len(above) = kept /\ \A n \in 1..kept : above[n] = lines[n]
        /\ below \in Seq(T) /\ Len(below) = Len(lines) - kept
        /\ \A n \in 1..(Len(lines) - kept) : below[n] = lines[n + kept]
    <3>1. CASE kept = 0
      <4>1. above = <<>> /\ below = lines
        BY <3>1
      <4> QED
        BY <2>2, <3>1, <4>1
    <3>2. CASE kept = 1
      <4>1. Len(lines) >= 1 /\ 1..kept = {1}
        BY <2>2, <3>2
      <4>2. above \in Seq(T) /\ Len(above) = 1 /\ above[1] = lines[1]
        BY <3>2, <4>1
      <4>3. below = Tail(lines)
        BY <3>2, <4>1
      <4>4. Tail(lines) \in Seq(T) /\ Len(Tail(lines)) = Len(lines) - 1
            /\ \A n \in 1..(Len(lines) - 1) : Tail(lines)[n] = lines[n + 1]
        BY <4>1
      <4> QED
        BY <3>2, <4>1, <4>2, <4>3, <4>4
    <3> HIDE DEF above, below
    <3>3. kept = 0 \/ kept = 1
      BY <2>2
    <3> QED
      BY <3>1, <3>2, <3>3
  <2> HIDE DEF above, below
  <2> DEFINE U == T \cup {Header}
  <2>4. above \in Seq(U) /\ <<Header>> \in Seq(U) /\ below \in Seq(U) /\ Len(<<Header>>) = 1
        /\ <<Header>>[1] = Header
    BY <2>3
  <2> DEFINE one == <<Header>>
  <2> HIDE DEF U, one
  <2>5. /\ shifted \in Seq(U) /\ Len(shifted) = Len(lines) + 1
        /\ DOMAIN shifted = 1..(Len(lines) + 1)
        /\ \A n \in 1..kept : shifted[n] = above[n]
        /\ shifted[kept + 1] = Header
        /\ \A n \in (kept + 2)..(Len(lines) + 1) : shifted[n] = below[n - kept - 1]
    <3> DEFINE top == above \o one
    <3>1. /\ one \in Seq(U) /\ Len(one) = 1 /\ one[1] = Header
      BY <2>4 DEF one
    <3>2. /\ top \in Seq(U) /\ Len(top) = kept + 1 /\ top[kept + 1] = Header
          /\ \A n \in 1..kept : top[n] = above[n]
      <4>1. above \in Seq(U) /\ Len(above) = kept /\ kept \in Nat
        BY <2>2, <2>3, <2>4
      <4>2. /\ top \in Seq(U) /\ Len(top) = Len(above) + Len(one)
            /\ \A n \in 1..Len(above) : top[n] = above[n]
            /\ top[Len(above) + 1] = one[1]
        <5>1. above \in Seq(U) /\ one \in Seq(U)
          BY <3>1, <4>1
        <5> HIDE DEF above, one
        <5>2. /\ top \in Seq(U) /\ Len(top) = Len(above) + Len(one)
              /\ \A n \in 1..(Len(above) + Len(one)) :
                     top[n] = IF n <= Len(above) THEN above[n] ELSE one[n - Len(above)]
          BY <5>1, ConcatProperties
        <5> HIDE DEF top
        <5>3. Len(above) \in Nat /\ Len(one) = 1 /\ (Len(above) + 1) - Len(above) = 1
          BY <3>1, <4>1
        <5> QED
          BY <5>2, <5>3
      <4> QED
        BY <3>1, <4>1, <4>2
    <3>3. shifted = top \o below
      BY Zenon DEF one
    <3> HIDE DEF top, shifted
    <3>4. /\ shifted \in Seq(U) /\ Len(shifted) = Len(lines) + 1
          /\ \A n \in 1..(kept + 1) : shifted[n] = top[n]
          /\ \A n \in (kept + 2)..(Len(lines) + 1) : shifted[n] = below[n - (kept + 1)]
      BY <2>2, <2>3, <2>4, <3>2, <3>3
    <3>5. DOMAIN shifted = 1..(Len(lines) + 1)
      BY <3>4
    <3>6. \A n \in (kept + 2)..(Len(lines) + 1) : n - (kept + 1) = n - kept - 1
      BY <2>2
    <3> QED
      BY <2>2, <3>2, <3>4, <3>5, <3>6
  <2> HIDE DEF shifted
  <2>6. IsSequence(shifted)
    BY <2>5, SequenceRange
  <2>7. \A m \in DOMAIN lines : shifted[place[m]] = lines[m] /\ place[m] \in DOMAIN shifted
    <3> SUFFICES ASSUME NEW m \in DOMAIN lines
                 PROVE  shifted[place[m]] = lines[m] /\ place[m] \in DOMAIN shifted
      OBVIOUS
    <3>1. CASE m <= kept
      BY <2>2, <2>3, <2>5, <3>1
    <3>2. CASE m > kept
      <4>1. m - kept \in 1..(Len(lines) - kept) /\ (m - kept) + kept = m
            /\ m + 1 \in (kept + 2)..(Len(lines) + 1) /\ (m + 1) - kept - 1 = m - kept
            /\ place[m] = m + 1
        BY <2>2, <3>2
      <4>2. shifted[m + 1] = below[m - kept] /\ below[m - kept] = lines[m]
        BY <2>3, <2>5, <4>1
      <4> QED
        BY <2>2, <2>5, <4>1, <4>2
    <3> QED
      BY <2>2, <3>1, <3>2
  <2>8. \A m, n \in DOMAIN lines : place[m] = place[n] => m = n
    BY <2>2
  <2>9. ASSUME NEW n \in DOMAIN shifted, shifted[n] # Header
        PROVE  \E m \in DOMAIN lines : place[m] = n
    <3>1. CASE n <= kept
      BY <2>2, <2>5, <3>1
    <3>2. CASE n > kept + 1
      <4>1. n - 1 \in DOMAIN lines /\ place[n - 1] = n
        BY <2>2, <2>5, <3>2
      <4> QED
        BY <4>1
    <3> QED
      BY <2>2, <2>5, <2>9, <3>1, <3>2
  <2>10. place \in [DOMAIN lines -> DOMAIN shifted]
    BY <2>7
  <2> HIDE DEF place
  <2> QED
    BY <2>1, <2>6, <2>7, <2>8, <2>9, <2>10
<1>2. CASE ~(rules.shift /\ file.commented)
  <2>1. Shift(rules, file, lines) = lines
    BY <1>2 DEF Shift
  <2>2. IsSequence(lines)
    BY SequenceRange
  <2> DEFINE same == [m \in DOMAIN lines |-> m]
  <2>3. /\ same \in [DOMAIN lines -> DOMAIN lines]
        /\ \A m \in DOMAIN lines : same[m] = m
    OBVIOUS
  <2> HIDE DEF same
  <2> QED
    BY <2>1, <2>2, <2>3
<1> QED
  BY <1>1, <1>2

\* A shuffle loses no line.
LEMMA ShuffleIsOnto ==
    ASSUME NEW file, IsFile(file), NEW order \in Shuffles(file), NEW m \in DOMAIN file.lines
    PROVE  \E n \in DOMAIN file.lines : order[n] = m
<1> DEFINE D == DOMAIN file.lines
<1>1. D = 1..Len(file.lines) /\ Len(file.lines) \in Nat
  BY SequenceDomain DEF IsFile
<1>2. IsFiniteSet(D)
  BY <1>1, FS_Interval
<1>3. order \in [D -> D] /\ \A k, n \in D : order[k] = order[n] => k = n
  BY DEF Shuffles
<1>4. order \in Injection(D, D)
  BY <1>3 DEF Injection, IsInjective
<1>5. order \in Surjection(D, D)
  BY <1>2, <1>4, FS_Injection
<1> QED
  BY <1>5 DEF Surjection

\* Where the lines of a file go when it is arranged: each to a place of its own,
\* as it is, and the other places hold no mark.
Places(file, arranged, place) ==
    /\ place \in [DOMAIN file.lines -> DOMAIN arranged.lines]
    /\ \A m, n \in DOMAIN file.lines : place[m] = place[n] => m = n
    /\ \A m \in DOMAIN file.lines : arranged.lines[place[m]] = file.lines[m]
    /\ \A n \in DOMAIN arranged.lines :
           \/ arranged.lines[n] = Header
           \/ \E m \in DOMAIN file.lines : place[m] = n

LEMMA ArrangedPlaces ==
    ASSUME NEW rules, NEW file, IsFile(file), NEW arranged \in ArrangedFiles(rules, file)
    PROVE  /\ IsFile(arranged) /\ arranged.kind = file.kind
           /\ \E place : Places(file, arranged, place)
<1>0. DOMAIN file.lines = 1..Len(file.lines) /\ Len(file.lines) \in Nat
  BY SequenceDomain DEF IsFile
<1>1. CASE ~Rewritable(file)
  <2>1. arranged = file
    BY <1>1 DEF ArrangedFiles
  <2> DEFINE same == [m \in DOMAIN file.lines |-> m]
  <2>2. /\ same \in [DOMAIN file.lines -> DOMAIN file.lines]
        /\ \A m \in DOMAIN file.lines : same[m] = m
    OBVIOUS
  <2> HIDE DEF same
  <2>3. Places(file, arranged, same)
    BY <2>1, <2>2 DEF Places
  <2> QED
    BY <2>1, <2>3
<1>2. CASE Rewritable(file)
  <2> DEFINE Lines(order) == [n \in DOMAIN order |-> file.lines[order[n]]]
  <2>1. PICK order \in Shuffles(file) :
            arranged = [file EXCEPT !.lines = Shift(rules, file, Lines(order))]
    BY <1>2 DEF ArrangedFiles
  <2>2. /\ order \in [DOMAIN file.lines -> DOMAIN file.lines] /\ DOMAIN order = DOMAIN file.lines
        /\ \A m, n \in DOMAIN file.lines : order[m] = order[n] => m = n
    BY DEF Shuffles
  <2> DEFINE lines == Lines(order)
             shifted == Shift(rules, file, lines)
  <2>3. /\ lines \in Seq({lines[n] : n \in DOMAIN order}) /\ DOMAIN lines = DOMAIN file.lines
        /\ \A n \in DOMAIN lines : lines[n] = file.lines[order[n]]
    BY <1>0, <2>2
  <2> HIDE DEF lines
  <2>4. /\ IsSequence(shifted)
        /\ \E place \in [DOMAIN lines -> DOMAIN shifted] :
               /\ \A m, n \in DOMAIN lines : place[m] = place[n] => m = n
               /\ \A m \in DOMAIN lines : shifted[place[m]] = lines[m]
               /\ \A n \in DOMAIN shifted :
                      \/ shifted[n] = Header
                      \/ \E m \in DOMAIN lines : place[m] = n
    BY <2>3, ShiftPlaces
  <2>5. PICK place \in [DOMAIN lines -> DOMAIN shifted] :
            /\ \A m, n \in DOMAIN lines : place[m] = place[n] => m = n
            /\ \A m \in DOMAIN lines : shifted[place[m]] = lines[m]
            /\ \A n \in DOMAIN shifted :
                   \/ shifted[n] = Header
                   \/ \E m \in DOMAIN lines : place[m] = n
    BY <2>4
  <2>6. /\ arranged.lines = shifted /\ arranged.kind = file.kind
        /\ arranged.skipped = file.skipped /\ DOMAIN arranged = DOMAIN file
    BY <2>1 DEF IsFile, lines
  <2> HIDE DEF shifted
  <2>7. IsFile(arranged)
    BY <1>2, <2>4, <2>6 DEF IsFile, Rewritable
  <2> DEFINE turn == [m \in DOMAIN file.lines |-> CHOOSE n \in DOMAIN file.lines : order[n] = m]
             goes == [m \in DOMAIN file.lines |-> place[turn[m]]]
  <2>8. \A m \in DOMAIN file.lines : turn[m] \in DOMAIN file.lines /\ order[turn[m]] = m
    BY ShuffleIsOnto
  <2>9. \A n \in DOMAIN file.lines : turn[order[n]] = n
    BY <2>2, <2>8
  <2> HIDE DEF turn
  <2>10. \A m \in DOMAIN file.lines : goes[m] = place[turn[m]] /\ goes[m] \in DOMAIN shifted
    BY <2>3, <2>5, <2>8
  <2>11. goes \in [DOMAIN file.lines -> DOMAIN shifted]
    BY <2>10
  <2> HIDE DEF goes
  <2>12. \A m, n \in DOMAIN file.lines : goes[m] = goes[n] => m = n
    <3> SUFFICES ASSUME NEW m \in DOMAIN file.lines, NEW n \in DOMAIN file.lines, goes[m] = goes[n]
                 PROVE  m = n
      OBVIOUS
    <3>1. turn[m] \in DOMAIN lines /\ turn[n] \in DOMAIN lines /\ place[turn[m]] = place[turn[n]]
      BY <2>3, <2>8, <2>10
    <3>2. turn[m] = turn[n]
      BY <2>5, <3>1
    <3> QED
      BY <2>8, <3>2
  <2>13. \A m \in DOMAIN file.lines : shifted[goes[m]] = file.lines[m]
    <3> SUFFICES ASSUME NEW m \in DOMAIN file.lines PROVE shifted[goes[m]] = file.lines[m]
      OBVIOUS
    <3>1. turn[m] \in DOMAIN lines /\ shifted[goes[m]] = lines[turn[m]]
      BY <2>3, <2>5, <2>8, <2>10
    <3> QED
      BY <2>3, <2>8, <3>1
  <2>14. ASSUME NEW n \in DOMAIN shifted, shifted[n] # Header
         PROVE  \E m \in DOMAIN file.lines : goes[m] = n
    <3>1. PICK k \in DOMAIN lines : place[k] = n
      BY <2>5, <2>14
    <3>2. order[k] \in DOMAIN file.lines /\ goes[order[k]] = n
      BY <2>2, <2>3, <2>9, <2>10, <3>1
    <3> QED
      BY <3>2
  <2>15. Places(file, arranged, goes)
    BY <2>6, <2>11, <2>12, <2>13, <2>14 DEF Places
  <2> QED
    BY <2>6, <2>7, <2>15
<1> QED
  BY <1>1, <1>2

\* Each file of an arrangement is a file arranged, at the place it was moved to, and
\* each file goes there.
LEMMA ArrangementFiles ==
    ASSUME NEW template, {"files", "assets", "holdout"} \subseteq DOMAIN template,
           \A p, q \in DOMAIN template.files :
               Relocated(template.holdout, p) = Relocated(template.holdout, q) => p = q,
           NEW variant \in Arrangements(template)
    PROVE  /\ variant.assets = template.assets
           /\ DOMAIN variant.files
                  = {Relocated(template.holdout, p) : p \in DOMAIN template.files}
           /\ \A old \in DOMAIN template.files :
                  variant.files[Relocated(template.holdout, old)]
                      \in ArrangedFiles(template.holdout, template.files[old])
<1> DEFINE rules == template.holdout
           moved == {Relocated(rules, p) : p \in DOMAIN template.files}
           from(q) == CHOOSE p \in DOMAIN template.files : Relocated(rules, p) = q
<1>1. PICK files : /\ variant = [template EXCEPT !.files = files]
                   /\ DOMAIN files = moved
                   /\ \A q \in moved : files[q] \in ArrangedFiles(rules, template.files[from(q)])
  BY DEF Arrangements
<1>2. variant.files = files /\ variant.assets = template.assets
  BY <1>1
<1>3. \A q \in moved : from(q) \in DOMAIN template.files /\ Relocated(rules, from(q)) = q
  OBVIOUS
<1>4. \A old \in DOMAIN template.files :
          Relocated(rules, old) \in moved /\ from(Relocated(rules, old)) = old
  BY <1>3
<1> HIDE DEF from
<1> QED
  BY <1>1, <1>2, <1>3, <1>4

-----------------------------------------------------------------------------
(***************************************************************************)
(* No answer is shipped.                                                   *)
(***************************************************************************)
LEMMA VisibleIsTemplate ==
    ASSUME NEW template, IsTemplate(template)
    PROVE  IsTemplate(Visible(template))
<1> DEFINE seen  == {path \in DOMAIN template.files : ~template.files[path].skipped}
           files == [path \in seen |-> template.files[path]]
<1>1. /\ Visible(template).files = files /\ Visible(template).holdout = template.holdout
      /\ DOMAIN Visible(template) = DOMAIN template
  BY DEF Visible, IsTemplate
<1>2. DOMAIN files \subseteq DOMAIN template.files
      /\ \A path \in DOMAIN files : files[path] = template.files[path]
  OBVIOUS
<1> HIDE DEF files
<1> QED
  BY <1>1, <1>2 DEF IsTemplate

\* What a rule leaves of a template.
LEMMA RewriteFields ==
    ASSUME NEW template, IsTemplate(template), template.holdout.rewrites # <<>>
    PROVE  LET new  == Rewrite(template)
               rule == Head(template.holdout.rewrites)
           IN  /\ IsTemplate(new)
               /\ new.assets = template.assets
               /\ new.holdout.relocate = template.holdout.relocate
               /\ new.holdout.rewrites = Tail(template.holdout.rewrites)
               /\ DOMAIN new.files = DOMAIN template.files
               /\ \A path \in DOMAIN template.files :
                      new.files[path] = RewriteFile(rule, template.files[path])
<1> DEFINE new     == Rewrite(template)
           rules   == template.holdout.rewrites
           rule    == Head(rules)
           files   == [path \in DOMAIN template.files |-> RewriteFile(rule, template.files[path])]
           holdout == [template.holdout EXCEPT !.rewrites = Tail(rules)]
<1>1. new.files = files /\ new.holdout = holdout /\ new.assets = template.assets
      /\ DOMAIN new = DOMAIN template
  BY DEF Rewrite, IsTemplate
<1>2. /\ holdout.relocate = template.holdout.relocate /\ holdout.rewrites = Tail(rules)
      /\ DOMAIN holdout = DOMAIN template.holdout
  BY DEF IsTemplate
<1>3. IsSequence(Tail(rules))
  <2>1. rules \in Seq({rules[n] : n \in DOMAIN rules}) /\ rules # <<>>
    BY DEF IsTemplate, IsSequence
  <2> DEFINE T == {rules[n] : n \in DOMAIN rules}
  <2> HIDE DEF T, rules
  <2>2. Tail(rules) \in Seq(T)
    BY <2>1 DEF T
  <2> QED
    BY <2>2, SequenceRange
<1>4. \A path \in DOMAIN template.files : IsFile(files[path])
  BY RewrittenIsFile DEF IsTemplate
<1>5. \A path : Relocated(holdout, path) = Relocated(template.holdout, path)
  BY <1>2 DEF Relocated
<1> HIDE DEF holdout, rule
<1>6. DOMAIN files = DOMAIN template.files
      /\ \A path \in DOMAIN template.files : files[path] = RewriteFile(rule, template.files[path])
  OBVIOUS
<1> HIDE DEF files, new
<1>7. IsTemplate(new)
  BY <1>1, <1>2, <1>3, <1>4, <1>5, <1>6 DEF IsTemplate
<1> QED
  BY <1>1, <1>2, <1>6, <1>7 DEF new, rule

LEMMA ArrangementIsOfFiles ==
    ASSUME NEW template, IsTemplate(template), NEW variant \in Arrangements(template),
           NEW path \in DOMAIN variant.files
    PROVE  IsFile(variant.files[path])
<1>1. PICK old \in DOMAIN template.files : path = Relocated(template.holdout, old)
  BY ArrangementFiles DEF IsTemplate
<1>2. variant.files[path] \in ArrangedFiles(template.holdout, template.files[old])
  BY <1>1, ArrangementFiles DEF IsTemplate
<1> QED
  BY <1>2, ArrangedPlaces DEF IsTemplate

FilesInv ==
    /\ Busy => \A path \in DOMAIN source.files : IsFile(source.files[path])
    /\ phase = "vary" => IsTemplate(source)

Unmarked(lines) == \A n \in DOMAIN lines : Marked(lines[n], "none")

LEMMA AcceptedIsUnmarked ==
    ASSUME NEW path \in DOMAIN source.files, FilesInv, Busy, Accepted(path)
    PROVE  Unmarked(Clean(source.files[path]))
<1>1. CASE source.files[path].kind \in {"binary", "keystore"}
  BY <1>1 DEF FilesInv, IsFile, Clean, Unmarked, Marked, NoMark
<1>2. CASE source.files[path].kind \notin {"binary", "keystore"}
  BY <1>2 DEF Accepted, MarkerSurvives, Unmarked
<1> QED
  BY <1>1, <1>2

LEMMA FilesInvKept ==
    ASSUME TypeOK, FilesInv, [Next]_vars
    PROVE  FilesInv'
<1>1. CASE BeginProject \/ TakeTemplate
  <2>1. Project \in Projects /\ templates[Project] \in Versions[Project]
    BY <1>1, OrderFacts DEF BeginProject, TakeTemplate, Running, TypeOK, Shape, Counters, Project
  <2>2. IsTemplate(templates[Project])
    BY <2>1, VersionsAssumption
  <2>3. CASE BeginProject
    BY <2>2, <2>3 DEF BeginProject, FilesInv, IsTemplate
  <2>4. CASE TakeTemplate
    BY <2>2, <2>4, VisibleIsTemplate DEF TakeTemplate, FilesInv, Busy
  <2> QED
    BY <1>1, <2>3, <2>4
<1>2. CASE ApplyRule
  BY <1>2, RewriteFields DEF ApplyRule, Running, Rewrites, FilesInv, Busy
<1>3. CASE BeginVariant
  BY <1>3, ArrangementIsOfFiles DEF BeginVariant, Running, FilesInv
<1>4. CASE (Busy' => Busy /\ UNCHANGED source) /\ phase' # "vary"
  BY <1>4 DEF FilesInv
<1>5. CASE Edit \/ UNCHANGED vars
  BY <1>5 DEF Edit, vars, local, Busy, FilesInv
<1>6. CASE Kill \/ \E m \in Modes : Start(m)
  BY <1>6, <1>4 DEF Kill, Start, Busy
<1>7. CASE Step /\ ~BeginProject /\ ~TakeTemplate /\ ~ApplyRule /\ ~BeginVariant
  BY <1>7, <1>4 DEF Step, RejectMetadata, RejectKeystore, EmitFile, RejectFile, RejectId, RejectProject,
              CompareProject, FinishProject, RejectLayers, CompareTruth, WriteTruth, Return, Exit,
              NextProject, Running, Busy
<1> QED
  BY <1>1, <1>2, <1>3, <1>5, <1>6, <1>7 DEF Next

\* A write keeps answers out when what it writes holds none.
LEMMA PutKeepsAnswers ==
    ASSUME TypeOK, NoAnswerKey, NEW content, Put(content),
           \A path \in DOMAIN content : Unmarked(content[path])
    PROVE  NoAnswerKey'
<1> SUFFICES ASSUME NEW area \in Areas, NEW p \in Projects,
                    NEW path \in DOMAIN tree'[area][p], NEW n \in DOMAIN tree'[area][p][path]
             PROVE  Marked(tree'[area][p][path][n], "none")
  BY DEF NoAnswerKey
<1>1. tree'[area][p] = IF area = Area /\ p = Project THEN content ELSE tree[area][p]
  BY DEF Put, TypeOK, Shape
<1>2. CASE area = Area /\ p = Project
  BY <1>1, <1>2 DEF Unmarked
<1>3. CASE ~(area = Area /\ p = Project)
  BY <1>1, <1>3 DEF NoAnswerKey
<1> QED
  BY <1>2, <1>3

LEMMA NextAnswers ==
    ASSUME TypeOK, FilesInv, NoAnswerKey, [Next]_vars
    PROVE  NoAnswerKey'
<1>0. ASSUME UNCHANGED tree PROVE NoAnswerKey'
  BY <1>0 DEF NoAnswerKey
<1>A. ASSUME Busy, phase = "emit" PROVE Area \in Areas /\ Project \in Projects
  BY <1>A, OrderFacts, AreaType DEF TypeOK, Counters, Project, Busy
<1>B. ASSUME Busy, phase = "emit" PROVE
          \A path \in DOMAIN tree[Area][Project] : Unmarked(tree[Area][Project][path])
  BY <1>A, <1>B DEF NoAnswerKey, Unmarked
<1>C. ASSUME NEW path \in todo, Busy PROVE path \in DOMAIN source.files
  BY <1>C DEF TypeOK, Collected
<1>1. ASSUME NEW path \in todo, Running("emit"), Accepted(path), Put(Emitted(path))
      PROVE  NoAnswerKey'
  <2>1. Busy /\ phase = "emit"
    BY <1>1 DEF Running, Busy
  <2>2. Unmarked(Clean(source.files[path]))
    BY <1>1, <1>C, <2>1, AcceptedIsUnmarked
  <2>3. \A q \in DOMAIN Emitted(path) : Unmarked(Emitted(path)[q])
    BY <2>2, <1>B, <2>1 DEF Emitted
  <2> QED
    BY <1>1, <2>3, PutKeepsAnswers
<1>2. ASSUME Put(Nothing) PROVE NoAnswerKey'
  BY <1>2, PutKeepsAnswers DEF Nothing
<1>3. CASE Kill
  <2>1. CASE UNCHANGED tree
    BY <2>1, <1>0
  <2>2. ASSUME NEW left \in SUBSET DOMAIN tree[Area][Project],
               Put([path \in left |-> tree[Area][Project][path]]),
               Area \in Areas, Project \in Projects
        PROVE  NoAnswerKey'
    <3>1. \A q \in left : Unmarked(tree[Area][Project][q])
      BY <2>2 DEF NoAnswerKey, Unmarked
    <3> QED
      BY <2>2, <3>1, PutKeepsAnswers
  <2>3. ASSUME NEW path \in todo, Accepted(path), Busy, phase = "emit",
               NEW n \in 0..Len(source.files[path].lines) - 1,
               Put([Emitted(path) EXCEPT ![path] = Beginning(path, n)])
        PROVE  NoAnswerKey'
    <3> DEFINE lines == source.files[path].lines
               torn  == [Emitted(path) EXCEPT ![path] = Beginning(path, n)]
    <3>1. Unmarked(Clean(source.files[path])) /\ IsSequence(lines)
      BY <2>3, <1>C, AcceptedIsUnmarked DEF FilesInv, IsFile
    <3>2. DOMAIN Clean(source.files[path]) = 1..Len(lines) /\ Len(lines) \in Nat
      BY <3>1, SequenceDomain DEF Clean
    <3>3. 1..n \subseteq 1..Len(lines)
      BY <3>2
    <3>4. Unmarked(Beginning(path, n))
      BY <3>1, <3>2, <3>3 DEF Beginning, Unmarked
    <3>5. \A q \in DOMAIN torn : Unmarked(torn[q])
      BY <3>4, <1>B, <2>3 DEF Emitted
    <3> QED
      BY <2>3, <3>5, PutKeepsAnswers
  <2>4. Area \in Areas /\ (at <= Len(Order) => Project \in Projects)
    BY OrderFacts, AreaType DEF TypeOK, Counters, Project
  <2>5. mode # "idle" /\ (phase = "emit" => Busy) /\ (phase # "project" => at <= Len(Order))
    BY <1>3 DEF Kill, Busy, TypeOK, Counters
  <2> QED
    BY <1>3, <2>1, <2>2, <2>3, <2>4, <2>5 DEF Kill, disk
<1>4. CASE Edit \/ (\E m \in Modes : Start(m)) \/ UNCHANGED vars
  BY <1>4, <1>0 DEF Edit, Start, vars, disk
<1>5. CASE BeginProject \/ BeginVariant \/ CompareProject
  BY <1>5, <1>2 DEF BeginProject, BeginVariant, CompareProject
<1>6. ASSUME NEW path \in todo, EmitFile(path) \/ RejectId(path) PROVE NoAnswerKey'
  BY <1>6, <1>1 DEF EmitFile, RejectId
<1>7. ASSUME NEW path \in todo, RejectFile(path) PROVE NoAnswerKey'
  BY <1>7, <1>0 DEF RejectFile, disk
<1>8. CASE \/ RejectMetadata \/ RejectProject \/ FinishProject \/ RejectLayers \/ CompareTruth
           \/ WriteTruth \/ Return \/ TakeTemplate \/ RejectKeystore \/ ApplyRule
  BY <1>8, <1>0 DEF RejectMetadata, RejectProject, FinishProject, RejectLayers, CompareTruth,
                    WriteTruth, Return, TakeTemplate, RejectKeystore, ApplyRule, disk
<1> QED
  BY <1>3, <1>4, <1>5, <1>6, <1>7, <1>8 DEF Next, Step

\* In every area and at every moment, a kill in the middle of a file included,
\* no file that a generator may read holds an annotation.
THEOREM NoAnswerIsShipped == Spec => []NoAnswerKey
<1> DEFINE Inv == TypeOK /\ FilesInv /\ NoAnswerKey
<1>1. Init => Inv
  BY InitType DEF Init, FilesInv, Busy, NoAnswerKey, Nothing
<1>2. Inv /\ [Next]_vars => Inv'
  BY NextType, FilesInvKept, NextAnswers
<1>3. Inv => NoAnswerKey
  OBVIOUS
<1> QED
  BY <1>1, <1>2, <1>3, PTL DEF Spec

-----------------------------------------------------------------------------
\* Whatever its outcome, and killed anywhere, --check changes neither the corpus,
\* nor the holdout, nor a ground truth.
THEOREM CheckLeavesAll == Spec => CheckWritesNothing
<1>1. ASSUME TypeOK, Next, mode = "check"
      PROVE  /\ \A area \in Areas \ {"staging"} : tree'[area] = tree[area]
             /\ truth' = truth
  <2>1. Area = "staging"
    BY <1>1 DEF Area
  <2>2. ASSUME NEW content, Put(content)
        PROVE  \A area \in Areas \ {"staging"} : tree'[area] = tree[area]
    BY <1>1, <2>1, <2>2 DEF Put, TypeOK, Shape
  <2>3. ~Edit /\ ~WriteTruth /\ \A m \in Modes : ~Start(m)
    BY <1>1 DEF Edit, WriteTruth, Start
  <2>4. CASE Kill
    BY <2>4, <2>2, <1>1 DEF Kill, disk
  <2>5. CASE Step
    BY <2>5, <2>2, <2>3 DEF Step, RejectMetadata, BeginProject, TakeTemplate, RejectKeystore,
           ApplyRule, BeginVariant, EmitFile, RejectFile, RejectId, RejectProject, CompareProject,
           FinishProject, RejectLayers, CompareTruth, Return, disk
  <2> QED
    BY <1>1, <2>3, <2>4, <2>5 DEF Next
<1>2. TypeOK /\ [Next]_vars =>
          [mode = "check" =>
              /\ \A area \in Areas \ {"staging"} : tree'[area] = tree[area]
              /\ truth' = truth]_vars
  BY <1>1
<1> QED
  BY <1>2, TypeCorrect, PTL DEF Spec, CheckWritesNothing

-----------------------------------------------------------------------------
(***************************************************************************)
(* What a build and a check that end well say.  IInv follows a process     *)
(* through its loop: what it has emitted of the project it is in           *)
(* (EmitInv), and what holds of the projects behind it (BuildInv,          *)
(* CheckInv).                                                              *)
(***************************************************************************)
Emittable == DOMAIN source.files \ todo

SourceInv ==
    Busy => /\ mode # "holdout" => source = templates[Project]
            /\ phase = "truth" => todo = {}

EmitInv ==
    Busy => /\ annotations = UNION {Annotations(path, source.files[path]) : path \in Emittable}
            /\ aliases = UNION {Aliases(path, source.files[path]) : path \in Emittable}
            /\ phase = "emit" => tree[Area][Project]
                                   = [path \in Emittable |-> Clean(source.files[path])]

Exact(p) == /\ tree["corpus"][p] = CorpusOf(templates[p])
            /\ truth["corpus"][p] = TruthOf(templates[p])

Shipped(p) == \A path \in DOMAIN templates[p].files :
                  /\ path \in DOMAIN tree["corpus"][p]
                  /\ tree["corpus"][p][path] = CorpusOf(templates[p])[path]

BuildInv ==
    mode = "build" =>
        /\ phase = "truth" => tree["corpus"][Project] = CorpusOf(templates[Project])
        /\ \A n \in 1..(at - 1) : Exact(Order[n])

CheckInv ==
    mode = "check" =>
        /\ phase = "truth" => /\ tree["staging"][Project] = Nothing
                              /\ ~stale => Shipped(Project)
        /\ \A n \in 1..(at - 1) :
               /\ tree["staging"][Order[n]] = Nothing
               /\ ~stale => /\ Shipped(Order[n])
                            /\ truth["corpus"][Order[n]] = TruthOf(templates[Order[n]])

LastInv == mode # "idle" => last.exit = "none"

Ends == BuiltIsExact /\ CheckedIsInSync

IInv == SourceInv /\ EmitInv /\ BuildInv /\ CheckInv /\ LastInv /\ Ends

\* All the files are emitted: the ground truth to write is the template's.
LEMMA BuiltIsTruth ==
    ASSUME SourceInv, EmitInv, Busy, todo = {}, mode # "holdout"
    PROVE  Built = TruthOf(templates[Project])
<1>1. Emittable = DOMAIN source.files
  BY DEF Emittable
<1>2. annotations = AnnotationsOf(source) /\ aliases = AliasesOf(source)
  BY <1>1 DEF AnnotationsOf, AliasesOf, EmitInv
<1>3. source = templates[Project]
  BY DEF SourceInv
<1> QED
  BY <1>2, <1>3 DEF Built, TruthOf

LEMMA ProjectIsProject ==
    ASSUME TypeOK, at <= Len(Order)
    PROVE  at \in DOMAIN Order /\ Project \in Projects
  BY OrderFacts DEF TypeOK, Counters, Project

\* The projects behind the cursor are others than the one at it.
LEMMA Behind ==
    ASSUME TypeOK, at <= Len(Order), NEW n \in 1..(at - 1)
    PROVE  Order[n] \in Projects /\ Order[n] # Project
  BY OrderFacts, OrderAssumption DEF TypeOK, Counters, Project

LEMMA PutElsewhere ==
    ASSUME TypeOK, NEW content, Put(content), NEW area \in Areas, NEW p \in Projects,
           Project \in Projects
    PROVE  tree'[area][p] = IF area = Area /\ p = Project THEN content ELSE tree[area][p]
  BY DEF Put, TypeOK, Shape

\* A process that ends without a word on the corpus.
LEMMA SilentEnd ==
    ASSUME mode' = "idle", last'.exit # "ok"
    PROVE  IInv'
  BY DEF IInv, SourceInv, EmitInv, BuildInv, CheckInv, LastInv, Ends, BuiltIsExact, CheckedIsInSync,
         Ended, Busy

LEMMA NoEnd ==
    ASSUME LastInv, mode # "idle", UNCHANGED <<mode, last>>
    PROVE  LastInv' /\ Ends'
  BY DEF LastInv, Ends, BuiltIsExact, CheckedIsInSync, Ended

LEMMA ExitSays ==
    ASSUME NEW how, Exit(how)
    PROVE  mode' = "idle" /\ last'.exit = how /\ last'.mode = mode /\ UNCHANGED templates
  BY DEF Exit

LEMMA BeginKeeps ==
    ASSUME TypeOK, IInv, BeginProject \/ BeginVariant
    PROVE  IInv'
<1>1. /\ mode # "idle" /\ at <= Len(Order) /\ Project \in Projects
      /\ mode' = mode /\ at' = at /\ phase' = "emit" /\ stale' = stale /\ templates' = templates
      /\ truth' = truth /\ last' = last /\ Put(Nothing)
      /\ todo' = DOMAIN source'.files /\ annotations' = {} /\ aliases' = {}
  BY ProjectIsProject DEF BeginProject, BeginVariant, Running, TypeOK, Counters
<1>2. Area' = Area /\ Project' = Project
  BY <1>1 DEF Area, Project
<1>3. SourceInv'
  <2>1. mode # "holdout" => source' = templates[Project]
    BY DEF BeginProject, BeginVariant, Running, TypeOK, Control
  <2> QED
    BY <1>1, <1>2, <2>1 DEF SourceInv
<1>4. EmitInv'
  <2>1. Emittable' = {}
    BY <1>1 DEF Emittable
  <2>2. tree'[Area][Project] = Nothing
    BY <1>1, AreaType, PutElsewhere
  <2> QED
    BY <1>1, <1>2, <2>1, <2>2 DEF EmitInv, Nothing
<1>5. \A n \in 1..(at - 1), area \in Areas : tree'[area][Order[n]] = tree[area][Order[n]]
  BY <1>1, Behind, PutElsewhere
<1>6. BuildInv'
  BY <1>1, <1>5 DEF IInv, BuildInv, Exact
<1>7. CheckInv'
  BY <1>1, <1>5 DEF IInv, CheckInv, Shipped
<1> QED
  BY <1>1, <1>3, <1>4, <1>6, <1>7, NoEnd DEF IInv

LEMMA VaryKeeps ==
    ASSUME TypeOK, IInv, TakeTemplate \/ ApplyRule
    PROVE  IInv'
<1>1. mode = "holdout" /\ phase' = "vary" /\ UNCHANGED <<mode, last>>
  BY DEF TakeTemplate, ApplyRule, Running, TypeOK, Control
<1> QED
  BY <1>1, NoEnd DEF IInv, SourceInv, EmitInv, BuildInv, CheckInv, Busy

LEMMA EmitKeeps ==
    ASSUME TypeOK, IInv, NEW path \in todo, EmitFile(path)
    PROVE  IInv'
<1>1. /\ mode # "idle" /\ at <= Len(Order) /\ Project \in Projects /\ Busy /\ Busy'
      /\ mode' = mode /\ at' = at /\ phase = "emit" /\ phase' = "emit" /\ stale' = stale
      /\ templates' = templates /\ truth' = truth /\ last' = last /\ source' = source
      /\ Put(Emitted(path)) /\ todo' = todo \ {path}
      /\ annotations' = annotations \cup Annotations(path, source.files[path])
      /\ aliases' = aliases \cup Aliases(path, source.files[path])
  BY ProjectIsProject DEF EmitFile, Running, Busy, TypeOK, Counters
<1>2. Area' = Area /\ Project' = Project
  BY <1>1 DEF Area, Project
<1>3. SourceInv'
  BY <1>1, <1>2 DEF IInv, SourceInv
<1>4. EmitInv'
  <2>1. Emittable' = Emittable \cup {path}
    BY <1>1 DEF Emittable, TypeOK, Collected
  <2>2. tree'[Area][Project] = Emitted(path)
    BY <1>1, AreaType, PutElsewhere
  <2>3. tree[Area][Project] = [q \in Emittable |-> Clean(source.files[q])]
    BY <1>1 DEF IInv, EmitInv
  <2>4. Emitted(path) = [q \in Emittable \cup {path} |-> Clean(source.files[q])]
    BY <2>3 DEF Emitted
  <2>5. annotations' = UNION {Annotations(q, source.files[q]) : q \in Emittable'}
    BY <1>1, <2>1 DEF IInv, EmitInv
  <2>6. aliases' = UNION {Aliases(q, source.files[q]) : q \in Emittable'}
    BY <1>1, <2>1 DEF IInv, EmitInv
  <2> QED
    BY <1>1, <1>2, <2>1, <2>2, <2>4, <2>5, <2>6 DEF EmitInv
<1>5. \A n \in 1..(at - 1), area \in Areas : tree'[area][Order[n]] = tree[area][Order[n]]
  BY <1>1, Behind, PutElsewhere
<1>6. BuildInv'
  BY <1>1, <1>5 DEF IInv, BuildInv, Exact
<1>7. CheckInv'
  BY <1>1, <1>5 DEF IInv, CheckInv, Shipped
<1> QED
  BY <1>1, <1>3, <1>4, <1>6, <1>7, NoEnd DEF IInv

LEMMA CompareProjectKeeps ==
    ASSUME TypeOK, IInv, CompareProject
    PROVE  IInv'
<1>1. /\ mode = "check" /\ at <= Len(Order) /\ Project \in Projects /\ Busy /\ Busy'
      /\ mode' = mode /\ at' = at /\ phase = "emit" /\ phase' = "truth"
      /\ stale' = (stale \/ ~SameFiles) /\ todo = {} /\ todo' = todo
      /\ templates' = templates /\ truth' = truth /\ last' = last /\ source' = source
      /\ Put(Nothing) /\ annotations' = annotations /\ aliases' = aliases
  BY ProjectIsProject DEF CompareProject, Running, Busy, TypeOK, Counters
<1>2. Area = "staging" /\ Area' = Area /\ Project' = Project
  BY <1>1 DEF Area, Project
<1>3. SourceInv' /\ EmitInv' /\ BuildInv'
  BY <1>1, <1>2 DEF IInv, SourceInv, EmitInv, BuildInv, Emittable
<1>4. \A area \in Areas, p \in Projects :
          tree'[area][p] = IF area = "staging" /\ p = Project THEN Nothing ELSE tree[area][p]
  BY <1>1, <1>2, PutElsewhere
<1>5. \A n \in 1..(at - 1), area \in Areas : tree'[area][Order[n]] = tree[area][Order[n]]
  BY <1>1, <1>4, Behind
<1>6. SameFiles => Shipped(Project)'
  <2>1. tree["staging"][Project] = CorpusOf(templates[Project])
    BY <1>1, <1>2 DEF IInv, SourceInv, EmitInv, Emittable, CorpusOf
  <2>2. DOMAIN tree["staging"][Project] = DOMAIN templates[Project].files
    BY <2>1 DEF CorpusOf
  <2>3. SameFiles => Shipped(Project)
    BY <2>1, <2>2 DEF SameFiles, Shipped
  <2> QED
    BY <2>3, <1>1, <1>2, <1>4 DEF Shipped
<1>7. CheckInv'
  <2>1. tree'["staging"][Project] = Nothing
    BY <1>1, <1>4
  <2>2. ~stale' => ~stale /\ Shipped(Project)'
    BY <1>1, <1>6
  <2>3. \A n \in 1..(at - 1) :
            /\ tree'["staging"][Order[n]] = Nothing
            /\ ~stale => /\ Shipped(Order[n])'
                         /\ truth'["corpus"][Order[n]] = TruthOf(templates'[Order[n]])
    BY <1>1, <1>5 DEF IInv, CheckInv, Shipped
  <2> QED
    BY <1>1, <1>2, <2>1, <2>2, <2>3 DEF CheckInv, Shipped
<1> QED
  BY <1>1, <1>3, <1>7, NoEnd DEF IInv

LEMMA FinishKeeps ==
    ASSUME TypeOK, IInv, FinishProject
    PROVE  IInv'
<1>1. /\ mode \in {"build", "holdout"} /\ Busy /\ Busy'
      /\ mode' = mode /\ at' = at /\ phase = "emit" /\ phase' = "truth" /\ stale' = stale
      /\ todo = {} /\ todo' = todo /\ tree' = tree
      /\ templates' = templates /\ truth' = truth /\ last' = last /\ source' = source
      /\ annotations' = annotations /\ aliases' = aliases
  BY DEF FinishProject, Running, Busy, TypeOK, Control, disk
<1>2. Project' = Project /\ (mode = "build" => Area = "corpus")
  BY <1>1 DEF Area, Project
<1>3. SourceInv' /\ EmitInv' /\ CheckInv'
  BY <1>1, <1>2 DEF IInv, SourceInv, EmitInv, CheckInv, Emittable
<1>4. mode = "build" => tree["corpus"][Project] = CorpusOf(templates[Project])
  BY <1>1, <1>2 DEF IInv, SourceInv, EmitInv, Emittable, CorpusOf
<1>5. BuildInv'
  BY <1>1, <1>2, <1>4 DEF IInv, BuildInv, Exact
<1> QED
  BY <1>1, <1>3, <1>5, NoEnd DEF IInv

\* The loop goes on to the next project.
LEMMA NextRange ==
    ASSUME TypeOK, at' = at + 1
    PROVE  \A n \in 1..(at' - 1) : n \in 1..(at - 1) \/ Order[n] = Project
  BY DEF TypeOK, Counters, Project

LEMMA CompareTruthKeeps ==
    ASSUME TypeOK, IInv, CompareTruth
    PROVE  IInv'
<1>1. /\ mode = "check" /\ at <= Len(Order) /\ Busy /\ todo = {}
      /\ mode' = mode /\ at' = at + 1 /\ phase = "truth" /\ phase' = "project"
      /\ stale' = (stale \/ truth["corpus"][Project] # Built)
      /\ tree' = tree /\ truth' = truth /\ templates' = templates /\ last' = last
  BY DEF CompareTruth, NextProject, Running, Busy, TypeOK, Counters, disk, IInv, SourceInv
<1>2. Built = TruthOf(templates[Project])
  BY <1>1, BuiltIsTruth DEF IInv
<1>R. \A n \in 1..(at' - 1) : n \in 1..(at - 1) \/ Order[n] = Project
  BY <1>1, NextRange
<1>N. /\ tree["staging"][Project] = Nothing
      /\ ~stale' => /\ Shipped(Project)
                    /\ truth["corpus"][Project] = TruthOf(templates[Project])
  BY <1>1, <1>2 DEF IInv, CheckInv
<1>3. \A n \in 1..(at' - 1) :
          /\ tree["staging"][Order[n]] = Nothing
          /\ ~stale' => /\ Shipped(Order[n])
                        /\ truth["corpus"][Order[n]] = TruthOf(templates[Order[n]])
  <2> SUFFICES ASSUME NEW n \in 1..(at' - 1)
               PROVE  /\ tree["staging"][Order[n]] = Nothing
                      /\ ~stale' => /\ Shipped(Order[n])
                                    /\ truth["corpus"][Order[n]] = TruthOf(templates[Order[n]])
    OBVIOUS
  <2>1. CASE Order[n] = Project
    BY <2>1, <1>N
  <2>2. CASE n \in 1..(at - 1)
    BY <2>2, <1>1 DEF IInv, CheckInv
  <2> QED
    BY <2>1, <2>2, <1>R
<1>4. SourceInv' /\ EmitInv' /\ BuildInv' /\ CheckInv'
  BY <1>1, <1>3 DEF SourceInv, EmitInv, BuildInv, CheckInv, Busy, Shipped
<1> QED
  BY <1>1, <1>4, NoEnd DEF IInv

LEMMA WriteTruthKeeps ==
    ASSUME TypeOK, IInv, WriteTruth
    PROVE  IInv'
<1>1. /\ mode \in {"build", "holdout"} /\ at <= Len(Order) /\ Project \in Projects /\ Busy
      /\ todo = {} /\ mode' = mode /\ at' = at + 1 /\ phase = "truth" /\ phase' = "project"
      /\ truth' = [truth EXCEPT ![Area][Project] = Built]
      /\ tree' = tree /\ templates' = templates /\ last' = last /\ stale' = stale
  BY ProjectIsProject
     DEF WriteTruth, NextProject, Running, Busy, TypeOK, Control, Counters, IInv, SourceInv
<1>2. CASE mode = "build"
  <2>1. Built = TruthOf(templates[Project]) /\ Area = "corpus"
    BY <1>1, <1>2, BuiltIsTruth DEF IInv, Area
  <2>2. /\ truth'["corpus"][Project] = Built
        /\ \A p \in Projects \ {Project} : truth'["corpus"][p] = truth["corpus"][p]
    BY <1>1, <2>1 DEF TypeOK, Shape
  <2>3. /\ tree["corpus"][Project] = CorpusOf(templates[Project])
        /\ truth'["corpus"][Project] = TruthOf(templates[Project])
    BY <1>1, <1>2, <2>1, <2>2 DEF IInv, BuildInv
  <2>4. \A n \in 1..(at - 1) :
            /\ tree["corpus"][Order[n]] = CorpusOf(templates[Order[n]])
            /\ truth'["corpus"][Order[n]] = TruthOf(templates[Order[n]])
    BY <1>1, <1>2, <2>2, Behind DEF IInv, BuildInv, Exact
  <2>5. \A n \in 1..(at' - 1) :
            /\ tree["corpus"][Order[n]] = CorpusOf(templates[Order[n]])
            /\ truth'["corpus"][Order[n]] = TruthOf(templates[Order[n]])
    <3>1. \A n \in 1..(at' - 1) : n \in 1..(at - 1) \/ Order[n] = Project
      BY <1>1, NextRange
    <3> QED
      BY <2>3, <2>4, <3>1
  <2>6. BuildInv'
    BY <1>1, <2>5 DEF BuildInv, Exact
  <2>7. SourceInv' /\ EmitInv' /\ CheckInv'
    BY <1>1, <1>2 DEF SourceInv, EmitInv, CheckInv, Busy
  <2> QED
    BY <1>1, <2>6, <2>7, NoEnd DEF IInv
<1>3. CASE mode = "holdout"
  BY <1>1, <1>3, NoEnd DEF IInv, SourceInv, EmitInv, BuildInv, CheckInv, Busy
<1> QED
  BY <1>1, <1>2, <1>3

LEMMA ReturnKeeps ==
    ASSUME TypeOK, IInv, Return
    PROVE  IInv'
<1>1. /\ mode # "idle" /\ at > Len(Order) /\ UNCHANGED <<tree, truth, templates>>
  <2>1. mode # "idle" /\ at > Len(Order)
    BY DEF Return, Running
  <2>2. UNCHANGED <<tree, truth>>
    BY DEF Return, disk
  <2>3. UNCHANGED templates
    BY ExitSays DEF Return
  <2> QED
    BY <2>1, <2>2, <2>3
<1>2. mode' = "idle" /\ last'.mode = mode /\ last'.exit = (IF stale THEN "error" ELSE "ok")
  BY ExitSays DEF Return
<1>3. \A p \in Projects : \E n \in 1..(at - 1) : Order[n] = p
  BY <1>1, OrderFacts DEF TypeOK, Counters, Projects
<1>4. BuiltIsExact'
  <2> SUFFICES ASSUME mode = "build", NEW p \in Projects PROVE Exact(p)
    BY <1>1, <1>2 DEF BuiltIsExact, Ended, Exact
  <2> QED
    BY <1>3 DEF IInv, BuildInv
<1>5. CheckedIsInSync'
  <2> SUFFICES ASSUME mode = "check", ~stale, NEW p \in Projects
               PROVE  /\ Shipped(p) /\ truth["corpus"][p] = TruthOf(templates[p])
                      /\ tree["staging"][p] = Nothing
    BY <1>1, <1>2 DEF CheckedIsInSync, Ended, Shipped
  <2> QED
    BY <1>3 DEF IInv, CheckInv
<1> QED
  BY <1>2, <1>4, <1>5 DEF IInv, SourceInv, EmitInv, BuildInv, CheckInv, LastInv, Ends, Busy

LEMMA NextIInv ==
    ASSUME TypeOK, IInv, [Next]_vars
    PROVE  IInv'
<1>1. CASE Edit
  BY <1>1, SilentEnd DEF Edit
<1>2. ASSUME NEW m \in Modes, Start(m) PROVE IInv'
  <2>1. mode' = m /\ phase' = "project" /\ at' = 1 /\ last'.exit = "none"
    BY <1>2 DEF Start
  <2> QED
    BY <2>1 DEF IInv, SourceInv, EmitInv, BuildInv, CheckInv, LastInv, Ends, Busy, BuiltIsExact,
                CheckedIsInSync, Ended
<1>3. CASE Kill
  BY <1>3, SilentEnd DEF Kill
<1>4. ASSUME NEW path \in todo, RejectFile(path) \/ RejectId(path) PROVE IInv'
  BY <1>4, SilentEnd, ExitSays DEF RejectFile, RejectId
<1>5. CASE RejectMetadata \/ RejectKeystore \/ RejectProject \/ RejectLayers
  BY <1>5, SilentEnd, ExitSays DEF RejectMetadata, RejectKeystore, RejectProject, RejectLayers
<1>6. CASE UNCHANGED vars
  <2>1. /\ UNCHANGED <<templates, tree, truth, mode, phase, at, source, todo>>
        /\ UNCHANGED <<annotations, aliases, stale, last>>
    BY <1>6 DEF vars, disk, local
  <2>2. SourceInv' /\ EmitInv' /\ LastInv'
    BY <2>1 DEF IInv, SourceInv, EmitInv, LastInv, Busy, Emittable, Area, Project
  <2>3. BuildInv' /\ CheckInv'
    BY <2>1 DEF IInv, BuildInv, CheckInv, Exact, Shipped, Project
  <2>4. Ends'
    BY <2>1 DEF IInv, Ends, BuiltIsExact, CheckedIsInSync, Ended
  <2> QED
    BY <2>2, <2>3, <2>4 DEF IInv
<1> QED
  BY <1>1, <1>2, <1>3, <1>4, <1>5, <1>6, BeginKeeps, VaryKeeps, EmitKeeps, CompareProjectKeeps, FinishKeeps,
     CompareTruthKeeps, WriteTruthKeeps, ReturnKeeps DEF Next, Step

LEMMA InitIInv == Init => IInv
  BY DEF Init, IInv, SourceInv, EmitInv, BuildInv, CheckInv, LastInv, Ends, Busy, BuiltIsExact,
         CheckedIsInSync, Ended

LEMMA Inductive == Spec => [](TypeOK /\ IInv)
<1>1. Init => TypeOK /\ IInv
  BY InitType, InitIInv
<1>2. TypeOK /\ IInv /\ [Next]_vars => (TypeOK /\ IInv)'
  BY NextType, NextIInv
<1> QED
  BY <1>1, <1>2, PTL DEF Spec

\* A build that ends well leaves what the templates say and nothing else,
\* whatever it found and however earlier processes ended.
THEOREM BuildsAreExact == Spec => []BuiltIsExact
<1>1. IInv => BuiltIsExact
  BY DEF IInv, Ends
<1> QED
  BY <1>1, Inductive, PTL

\* A check that ends well vouches for corpus and ground truth of every project.
THEOREM ChecksAreSound == Spec => []CheckedIsInSync
<1>1. IInv => CheckedIsInSync
  BY DEF IInv, Ends
<1> QED
  BY <1>1, Inductive, PTL

\* The marks of a template stand at the lines of what is shipped of it: a mark is
\* taken out of a line, and no line is.
LEMMA CleanKeepsLines ==
    ASSUME NEW file, NEW n \in DOMAIN file.lines
    PROVE  n \in DOMAIN Clean(file) /\ Does(Clean(file)[n]) = Does(file.lines[n])
  BY DEF Clean, Does

LEMMA TruthIsThere ==
    ASSUME NEW template, IsHonest(template), template.assets # None,
           ~AssetError(template, AnnotationsOf(template)),
           NEW e \in TruthOf(template)
    PROVE  /\ e.file \in DOMAIN template.files
           /\ e.line \in DOMAIN template.files[e.file].lines
           /\ Does(template.files[e.file].lines[e.line]) = e.algorithm
           /\ \A a \in e.accept : /\ a.file \in DOMAIN template.files
                                  /\ a.line \in DOMAIN template.files[a.file].lines
<1> DEFINE Planted(p) ==
             [id |-> p.id, file |-> p.file, line |-> p.line,
              algorithm |-> template.files[p.file].lines[p.line].mark.algorithm,
              layer     |-> template.files[p.file].lines[p.line].mark.layer,
              note      |-> template.files[p.file].lines[p.line].mark.note,
              accept    |-> {[file |-> a.file, line |-> a.line] :
                                a \in {b \in AliasesOf(template) : b.id = p.id}}]
           Asset(a) == [id |-> a.id, file |-> a.file, line |-> 1, algorithm |-> a.algorithm,
                        layer |-> a.layer, note |-> a.note, accept |-> {}]
<1>1. \/ \E p \in AnnotationsOf(template) : e = Planted(p)
      \/ \E a \in template.assets : e = Asset(a)
  BY DEF TruthOf, Entries
<1>2. ASSUME NEW p \in AnnotationsOf(template), e = Planted(p)
      PROVE  /\ p.file \in DOMAIN template.files
             /\ p.line \in DOMAIN template.files[p.file].lines
             /\ Marked(template.files[p.file].lines[p.line], "plant")
  <2> HIDE DEF Planted
  <2> QED
    BY DEF AnnotationsOf, Annotations, MarkedLines
<1>3. ASSUME NEW a \in AliasesOf(template)
      PROVE  /\ a.file \in DOMAIN template.files
             /\ a.line \in DOMAIN template.files[a.file].lines
  BY <1>3 DEF AliasesOf, Aliases, MarkedLines
<1>4. ASSUME NEW p \in AnnotationsOf(template), e = Planted(p)
      PROVE  /\ e.file \in DOMAIN template.files
             /\ e.line \in DOMAIN template.files[e.file].lines
             /\ Does(template.files[e.file].lines[e.line]) = e.algorithm
             /\ \A a \in e.accept : /\ a.file \in DOMAIN template.files
                                    /\ a.line \in DOMAIN template.files[a.file].lines
  <2>1. /\ e.file = p.file /\ e.line = p.line
        /\ e.algorithm = template.files[p.file].lines[p.line].mark.algorithm
        /\ \A a \in e.accept : \E b \in AliasesOf(template) : a.file = b.file /\ a.line = b.line
    BY <1>4
  <2>2. Does(template.files[p.file].lines[p.line])
            = template.files[p.file].lines[p.line].mark.algorithm
    BY <1>2, <1>4 DEF IsHonest
  <2> QED
    BY <2>1, <2>2, <1>2, <1>3, <1>4
<1>5. ASSUME NEW a \in template.assets, e = Asset(a)
      PROVE  /\ e.file \in DOMAIN template.files
             /\ e.line \in DOMAIN template.files[e.file].lines
             /\ Does(template.files[e.file].lines[e.line]) = e.algorithm
             /\ e.accept = {}
  <2>1. a.file \in DOMAIN template.files
    BY DEF AssetError
  <2> QED
    BY <2>1, <1>5 DEF IsHonest
<1> QED
  BY <1>1, <1>4, <1>5

\* The file assets of a template are as build_project wants them.
Settled(template) ==
    template.assets # None /\ ~AssetError(template, AnnotationsOf(template))

SettledInv ==
    /\ mode \in {"build", "check"} =>
           /\ phase # "project" => templates[Project].assets # None
           /\ phase = "truth" => Settled(templates[Project])
           /\ \A n \in 1..(at - 1) : Settled(templates[Order[n]])
    /\ Ended({"build", "check"}) => \A p \in Projects : Settled(templates[p])

\* A step that stays with its project, and one that has it settled.
LEMMA SettledKeeps ==
    ASSUME TypeOK, IInv, SettledInv, [Next]_vars
    PROVE  SettledInv'
<1>1. CASE mode' = "idle" /\ last'.exit # "ok"
  BY <1>1 DEF SettledInv, Ended
<1>2. ASSUME NEW m \in Modes, Start(m) PROVE SettledInv'
  <2>1. phase' = "project" /\ at' = 1 /\ last'.exit = "none"
    BY <1>2 DEF Start
  <2> QED
    BY <2>1 DEF SettledInv, Ended
<1>3. CASE BeginProject
  <2>1. /\ UNCHANGED <<templates, mode, at, last>> /\ phase' = "emit"
        /\ templates[Project].assets # None
    BY <1>3 DEF BeginProject, HasMetadata
  <2> QED
    BY <2>1 DEF SettledInv, Ended, Project
<1>4. ASSUME NEW path \in todo, EmitFile(path) PROVE SettledInv'
  <2>1. UNCHANGED <<templates, mode, at, last, phase>>
    BY <1>4 DEF EmitFile
  <2> QED
    BY <2>1 DEF SettledInv, Ended, Project
<1>5. CASE CompareProject \/ FinishProject
  <2>1. /\ UNCHANGED <<templates, mode, at, last>> /\ phase = "emit" /\ phase' = "truth"
        /\ mode # "idle" /\ todo = {} /\ ~Faulty
    BY <1>5 DEF CompareProject, FinishProject, Running
  <2>2. mode # "holdout" => annotations = AnnotationsOf(source) /\ source = templates[Project]
    BY <2>1 DEF IInv, SourceInv, EmitInv, Emittable, AnnotationsOf, Busy
  <2>3. mode # "holdout" => ~AssetError(templates[Project], AnnotationsOf(templates[Project]))
    BY <2>1, <2>2 DEF Faulty
  <2> QED
    BY <2>1, <2>3 DEF SettledInv, Settled, Ended, Project
<1>6. CASE CompareTruth \/ WriteTruth
  <2>1. /\ UNCHANGED <<templates, mode, last>> /\ phase = "truth" /\ phase' = "project"
        /\ at' = at + 1
    BY <1>6 DEF CompareTruth, WriteTruth, NextProject, Running
  <2>2. \A n \in 1..(at' - 1) : n \in 1..(at - 1) \/ Order[n] = Project
    BY <2>1, NextRange
  <2> QED
    BY <2>1, <2>2 DEF SettledInv, Ended
<1>7. CASE Return
  <2>1. /\ mode # "idle" /\ mode' = "idle" /\ last'.mode = mode /\ UNCHANGED templates
        /\ at > Len(Order)
    BY <1>7, ExitSays DEF Return, Running
  <2>2. \A p \in Projects : \E n \in 1..(at - 1) : Order[n] = p
    BY <2>1, OrderFacts DEF TypeOK, Counters, Projects
  <2> QED
    BY <2>1, <2>2 DEF SettledInv, Ended
<1>8. ASSUME NEW path \in todo, RejectFile(path) \/ RejectId(path)
      PROVE  mode' = "idle" /\ last'.exit # "ok"
  BY <1>8, ExitSays DEF RejectFile, RejectId
<1>9. CASE RejectMetadata \/ RejectKeystore \/ RejectProject \/ RejectLayers
  BY <1>1, <1>9, ExitSays DEF RejectMetadata, RejectKeystore, RejectProject, RejectLayers
<1>12. CASE TakeTemplate \/ ApplyRule \/ BeginVariant
  <2>1. mode = "holdout" /\ UNCHANGED <<templates, mode, last>>
    BY <1>12 DEF TakeTemplate, ApplyRule, BeginVariant, Running, TypeOK, Control
  <2> QED
    BY <2>1 DEF SettledInv, Ended
<1>10. CASE Edit \/ Kill
  BY <1>1, <1>10 DEF Edit, Kill
<1>11. CASE UNCHANGED vars
  <2>1. UNCHANGED <<templates, mode, at, last, phase>>
    BY <1>11 DEF vars, local
  <2> QED
    BY <2>1 DEF SettledInv, Ended, Project
<1> QED
  BY <1>1, <1>2, <1>3, <1>4, <1>5, <1>6, <1>7, <1>8, <1>9, <1>10, <1>11, <1>12 DEF Next, Step

LEMMA TruthIsShipped ==
    ASSUME TypeOK, IInv, SettledInv
    PROVE  TruthMatchesCorpus
<1> SUFFICES ASSUME Ended({"build", "check"}), NEW p \in Projects, NEW e \in truth["corpus"][p]
             PROVE  /\ e.file \in DOMAIN tree["corpus"][p]
                    /\ e.line \in DOMAIN tree["corpus"][p][e.file]
                    /\ Does(tree["corpus"][p][e.file][e.line]) = e.algorithm
                    /\ \A a \in e.accept : /\ a.file \in DOMAIN tree["corpus"][p]
                                           /\ a.line \in DOMAIN tree["corpus"][p][a.file]
  BY DEF TruthMatchesCorpus
<1> DEFINE template == templates[p]
<1>1. Settled(template) /\ IsHonest(template)
  BY HonestAssumption DEF SettledInv, TypeOK, Shape
<1>2. /\ truth["corpus"][p] = TruthOf(template)
      /\ \A path \in DOMAIN template.files :
             /\ path \in DOMAIN tree["corpus"][p]
             /\ tree["corpus"][p][path] = Clean(template.files[path])
  <2>1. CASE Ended({"build"})
    BY <2>1 DEF IInv, Ends, BuiltIsExact, CorpusOf
  <2>2. CASE Ended({"check"})
    BY <2>2 DEF IInv, Ends, CheckedIsInSync, CorpusOf
  <2> QED
    BY <2>1, <2>2 DEF Ended
<1>3. /\ e.file \in DOMAIN template.files
      /\ e.line \in DOMAIN template.files[e.file].lines
      /\ Does(template.files[e.file].lines[e.line]) = e.algorithm
      /\ \A a \in e.accept : /\ a.file \in DOMAIN template.files
                             /\ a.line \in DOMAIN template.files[a.file].lines
  BY <1>1, <1>2, TruthIsThere DEF Settled
<1> QED
  BY <1>2, <1>3, CleanKeepsLines

\* What a build wrote or a check vouched for names lines that are there, and the
\* algorithm at work in each.
THEOREM TruthIsOfTheCorpus == Spec => []TruthMatchesCorpus
<1> DEFINE Inv == TypeOK /\ IInv /\ SettledInv
<1>1. Init => Inv
  <2>1. Init => SettledInv
    BY DEF Init, SettledInv, Ended
  <2> QED
    BY <2>1, InitType, InitIInv
<1>2. Inv /\ [Next]_vars => Inv'
  BY NextType, NextIInv, SettledKeeps
<1>3. Inv => TruthMatchesCorpus
  BY TruthIsShipped
<1> QED
  BY <1>1, <1>2, <1>3, PTL DEF Spec

-----------------------------------------------------------------------------
(***************************************************************************)
(* A holdout plants what its template plants.  Three steps lead from a     *)
(* template to its variant: the visible files, the rules, the              *)
(* arrangement.  Kept relates a line to what the rules made of it, where r *)
(* says what has become of the ids; Placed follows the lines to the places *)
(* that the arrangement gives them; and what is built of the variant names *)
(* no id twice, so no two ids have become one.                             *)
(***************************************************************************)
HasId(line) == Marked(line, "plant") \/ Marked(line, "alias")

Kept(r, old, new) ==
    /\ IsLine(new) /\ new.text = old.text
    /\ new.mark.kind = old.mark.kind
    /\ HasId(old) => old.mark.id \in DOMAIN r /\ new.mark.id = r[old.mark.id]
    /\ Marked(old, "plant") => new.mark.layer = old.mark.layer

\* A text in which a rule does not find its name stays.
LEMMA RenamedText ==
    ASSUME NEW rule, rule.from = rule.from_algorithm, NEW text, IsSequence(text)
    PROVE  /\ IsSequence(Renamed(rule, text))
           /\ ~Occurs(rule.from, text) => Renamed(rule, text) = text
<1> DEFINE new == [n \in DOMAIN text |-> IF text[n] = rule.from THEN rule.to_algorithm ELSE text[n]]
<1>1. Renamed(rule, text) = new
  BY DEF Renamed, Replace
<1>2. /\ DOMAIN text = 1..Len(text) /\ Len(text) \in Nat
      /\ text = [n \in DOMAIN text |-> text[n]]
  BY SequenceDomain DEF IsSequence
<1>3. IsSequence(new)
  BY <1>2 DEF IsSequence
<1>4. ASSUME ~Occurs(rule.from, text) PROVE new = text
  <2>1. \A n \in DOMAIN text : text[n] # rule.from
    BY <1>4 DEF Occurs
  <2>2. new = [n \in DOMAIN text |-> text[n]]
    BY <2>1
  <2> QED
    BY <1>2, <2>2
<1> QED
  BY <1>1, <1>3, <1>4

\* A rule renames the ids of all marks alike, in the lines it touches and in those
\* it does not.
LEMMA RuleRenames ==
    ASSUME NEW rule, rule.from = rule.from_algorithm, NEW line, IsLine(line)
    PROVE  LET new == RewriteLine(rule, line) IN
           /\ IsLine(new) /\ new.text = line.text /\ new.mark.kind = line.mark.kind
           /\ HasId(line) => new.mark.id = Renamed(rule, line.mark.id)
           /\ Marked(line, "plant") => new.mark.layer = line.mark.layer
<1> DEFINE new == RewriteLine(rule, line)
           found == \E text \in {line.code} \cup Annotation(line.mark) : Occurs(rule.from, text)
<1>1. /\ {"text", "code", "calls", "mark"} \subseteq DOMAIN new /\ new.text = line.text
      /\ new.mark = IF found THEN RenamedMark(rule, line.mark) ELSE line.mark
  BY DEF RewriteLine, IsLine
<1>2. ~found => \A text \in Annotation(line.mark) : ~Occurs(rule.from, text)
  OBVIOUS
<1> HIDE DEF new, found
<1>3. CASE line.mark \in {NoMark, Malformed}
  <2>1. line.mark.kind \notin {"plant", "alias"}
    BY <1>3 DEF NoMark, Malformed
  <2>2. new.mark = line.mark
    BY <1>1, <2>1 DEF RenamedMark
  <2> QED
    BY <1>1, <1>3, <2>1, <2>2 DEF IsLine, HasId, Marked, Annotation, new
<1>4. CASE line.mark = AliasOf(line.mark.id)
  <2> DEFINE id == line.mark.id
  <2>1. line.mark.kind = "alias" /\ Annotation(line.mark) = {id}
    BY <1>4 DEF AliasOf, Annotation
  <2>2. IsSequence(id)
    BY <2>1 DEF IsLine
  <2>3. RenamedMark(rule, line.mark) = AliasOf(Renamed(rule, id))
    BY <2>1 DEF RenamedMark
  <2>4. new.mark = AliasOf(Renamed(rule, id)) /\ IsSequence(Renamed(rule, id))
    BY <1>1, <1>2, <1>4, <2>1, <2>2, <2>3, RenamedText
  <2> HIDE DEF id
  <2>5. new.mark.kind = "alias" /\ new.mark.id = Renamed(rule, id)
        /\ Annotation(new.mark) = {Renamed(rule, id)}
    BY <2>4 DEF AliasOf, Annotation
  <2> QED
    BY <1>1, <2>1, <2>4, <2>5 DEF IsLine, HasId, Marked, new, id
<1>5. CASE line.mark = Plant(line.mark.id, line.mark.algorithm, line.mark.layer, line.mark.note)
  <2> DEFINE id == line.mark.id
             algorithm == line.mark.algorithm
             layer == line.mark.layer
             note == line.mark.note
             renamed == Plant(Renamed(rule, id), Renamed(rule, algorithm), layer,
                              Renamed(rule, note))
  <2>1. line.mark.kind = "plant" /\ Annotation(line.mark) = {id, algorithm, note}
    BY <1>5 DEF Plant, Annotation
  <2>2. IsSequence(id) /\ IsSequence(algorithm) /\ IsSequence(note)
    BY <2>1 DEF IsLine
  <2>3. RenamedMark(rule, line.mark) = renamed
    BY <2>1 DEF RenamedMark
  <2>4. /\ new.mark = renamed
        /\ IsSequence(Renamed(rule, id)) /\ IsSequence(Renamed(rule, algorithm))
        /\ IsSequence(Renamed(rule, note))
    <3>1. ASSUME ~found PROVE renamed = line.mark
      <4>1. /\ Renamed(rule, id) = id /\ Renamed(rule, algorithm) = algorithm
            /\ Renamed(rule, note) = note
        BY <1>2, <2>1, <2>2, <3>1, RenamedText
      <4> QED
        BY <1>5, <4>1
    <3> QED
      BY <1>1, <2>2, <2>3, <3>1, RenamedText
  <2> HIDE DEF id, algorithm, layer, note
  <2>5. /\ new.mark.kind = "plant" /\ new.mark.id = Renamed(rule, id) /\ new.mark.layer = layer
        /\ new.mark = Plant(new.mark.id, new.mark.algorithm, new.mark.layer, new.mark.note)
        /\ Annotation(new.mark) = {Renamed(rule, id), Renamed(rule, algorithm), Renamed(rule, note)}
    BY <2>4 DEF Plant, Annotation
  <2> QED
    BY <1>1, <2>1, <2>4, <2>5 DEF IsLine, HasId, Marked, new, id, layer
<1> QED
  BY <1>3, <1>4, <1>5 DEF IsLine

LEMMA RuleKeeps ==
    ASSUME NEW rule, rule.from = rule.from_algorithm, NEW r, NEW old, NEW line, Kept(r, old, line)
    PROVE  Kept([id \in DOMAIN r |-> Renamed(rule, r[id])], old, RewriteLine(rule, line))
<1> DEFINE new == RewriteLine(rule, line)
           s   == [id \in DOMAIN r |-> Renamed(rule, r[id])]
<1>1. /\ IsLine(new) /\ new.text = line.text /\ new.mark.kind = line.mark.kind
      /\ HasId(line) => new.mark.id = Renamed(rule, line.mark.id)
      /\ Marked(line, "plant") => new.mark.layer = line.mark.layer
  BY RuleRenames DEF Kept
<1>2. HasId(line) = HasId(old) /\ Marked(line, "plant") = Marked(old, "plant")
  BY DEF Kept, HasId, Marked
<1> HIDE DEF new
<1>3. HasId(old) => old.mark.id \in DOMAIN s /\ new.mark.id = s[old.mark.id]
  BY <1>1, <1>2 DEF Kept
<1> HIDE DEF s
<1>4. Kept(s, old, new)
  BY <1>1, <1>2, <1>3 DEF Kept
<1> QED
  BY <1>4 DEF s, new

-----------------------------------------------------------------------------
FileKept(r, old, new) ==
    /\ ~Rewritable(old) => new = old
    /\ Rewritable(old) =>
           /\ new.kind = old.kind /\ DOMAIN new.lines = DOMAIN old.lines
           /\ \A n \in DOMAIN old.lines : Kept(r, old.lines[n], new.lines[n])

\* What the rules that were applied so far made of a template; the rest are Regular.
Rewritten(template, new, r) ==
    /\ DOMAIN new.files = DOMAIN Visible(template).files
    /\ new.assets = template.assets
    /\ new.holdout.relocate = template.holdout.relocate
    /\ \A n \in DOMAIN new.holdout.rewrites :
           new.holdout.rewrites[n].from = new.holdout.rewrites[n].from_algorithm
    /\ \A path \in DOMAIN new.files : FileKept(r, template.files[path], new.files[path])

LEMMA VisibleFiles ==
    ASSUME NEW template, IsTemplate(template)
    PROVE  LET new == Visible(template) IN
           /\ DOMAIN new.files = {path \in DOMAIN template.files : ~template.files[path].skipped}
           /\ \A path \in DOMAIN new.files : new.files[path] = template.files[path]
           /\ new.assets = template.assets /\ new.holdout = template.holdout
  BY DEF Visible, IsTemplate

LEMMA TakenIsRewritten ==
    ASSUME NEW template, IsTemplate(template), IsMovable(template), Regular(template)
    PROVE  \E r : Rewritten(template, Visible(template), r)
<1> DEFINE IdsOf(file) == {file.lines[n].mark.id : n \in DOMAIN file.lines}
           ids == UNION {IdsOf(template.files[path]) : path \in DOMAIN template.files}
           r   == [id \in ids |-> id]
           new == Visible(template)
<1>1. ASSUME NEW path \in DOMAIN template.files
      PROVE  FileKept(r, template.files[path], template.files[path])
  <2> DEFINE file == template.files[path]
  <2>1. ASSUME NEW n \in DOMAIN file.lines PROVE Kept(r, file.lines[n], file.lines[n])
    <3>1. IsLine(file.lines[n])
      BY DEF IsMovable
    <3>2. file.lines[n].mark.id \in ids
      OBVIOUS
    <3>3. file.lines[n].mark.id \in DOMAIN r /\ r[file.lines[n].mark.id] = file.lines[n].mark.id
      BY <3>2
    <3> QED
      BY <3>1, <3>3 DEF Kept
  <2> QED
    BY <2>1 DEF FileKept
<1> HIDE DEF r
<1>2. Rewritten(template, new, r)
  BY <1>1, VisibleFiles DEF Rewritten, Regular
<1> QED
  BY <1>2

LEMMA AppliedIsRewritten ==
    ASSUME NEW template, NEW old, NEW r, IsTemplate(old), Rewritten(template, old, r),
           old.holdout.rewrites # <<>>
    PROVE  \E s : Rewritten(template, Rewrite(old), s)
<1> DEFINE new   == Rewrite(old)
           rules == old.holdout.rewrites
           rule  == Head(rules)
           s     == [id \in DOMAIN r |-> Renamed(rule, r[id])]
<1>1. /\ new.assets = old.assets
      /\ new.holdout.relocate = old.holdout.relocate
      /\ new.holdout.rewrites = Tail(rules)
      /\ DOMAIN new.files = DOMAIN old.files
      /\ \A path \in DOMAIN old.files : new.files[path] = RewriteFile(rule, old.files[path])
  BY RewriteFields
<1>2. /\ rule.from = rule.from_algorithm
      /\ \A n \in DOMAIN Tail(rules) : Tail(rules)[n].from = Tail(rules)[n].from_algorithm
  <2> DEFINE T == {rules[n] : n \in DOMAIN rules}
  <2>1. rules \in Seq(T) /\ rules # <<>>
    BY DEF IsTemplate, IsSequence
  <2>2. \A t \in T : t.from = t.from_algorithm
    BY DEF Rewritten
  <2> HIDE DEF T, rules
  <2>3. Head(rules) \in T /\ Tail(rules) \in Seq(T)
    BY <2>1
  <2>4. \A n \in DOMAIN Tail(rules) : Tail(rules)[n] \in T
    BY <2>3
  <2> QED
    BY <2>2, <2>3, <2>4
<1> HIDE DEF s, rule, new
<1>3. ASSUME NEW path \in DOMAIN old.files
      PROVE  FileKept(s, template.files[path], new.files[path])
  <2> DEFINE base == template.files[path]
             file == old.files[path]
             made == RewriteFile(rule, file)
  <2>1. FileKept(r, base, file) /\ new.files[path] = made
    BY <1>1 DEF Rewritten
  <2>2. made.kind = file.kind /\ IsFile(file)
    BY RewrittenIsFile DEF IsTemplate
  <2>3. CASE Rewritable(base)
    <3>1. Rewritable(file)
      BY <2>1, <2>3 DEF FileKept, Rewritable
    <3>2. made.lines = [n \in DOMAIN file.lines |-> RewriteLine(rule, file.lines[n])]
      BY <2>2, <3>1 DEF RewriteFile, IsFile
    <3>3. \A n \in DOMAIN base.lines : Kept(s, base.lines[n], made.lines[n])
      <4> SUFFICES ASSUME NEW n \in DOMAIN base.lines
                   PROVE  Kept(s, base.lines[n], made.lines[n])
        OBVIOUS
      <4> HIDE DEF made
      <4>1. /\ n \in DOMAIN file.lines /\ Kept(r, base.lines[n], file.lines[n])
            /\ made.lines[n] = RewriteLine(rule, file.lines[n])
        BY <2>1, <2>3, <3>2 DEF FileKept
      <4>2. Kept(s, base.lines[n], RewriteLine(rule, file.lines[n]))
        BY <1>2, <4>1, RuleKeeps DEF s
      <4> QED
        BY <4>1, <4>2
    <3> QED
      BY <2>1, <2>2, <2>3, <3>2, <3>3 DEF FileKept
  <2>4. CASE ~Rewritable(base)
    <3>1. file = base /\ made = file
      BY <2>1, <2>4 DEF FileKept, RewriteFile
    <3> QED
      BY <2>1, <2>4, <3>1 DEF FileKept
  <2> QED
    BY <2>3, <2>4
<1>4. Rewritten(template, new, s)
  BY <1>1, <1>2, <1>3 DEF Rewritten
<1> QED
  BY <1>4 DEF new

\* A variant of a template: with its rules applied and its files arranged.
IsVariant(template, variant) ==
    \E new, r : /\ IsTemplate(new) /\ Rewritten(template, new, r)
                /\ variant \in Arrangements(new)

\* The same, of a file and of all files of a template: where each line is by now.
FilePlaced(r, old, new, place) ==
    /\ ~Rewritable(old) => new = old
    /\ Rewritable(old) =>
           /\ new.kind = old.kind
           /\ place \in [DOMAIN old.lines -> DOMAIN new.lines]
           /\ \A m, n \in DOMAIN old.lines : place[m] = place[n] => m = n
           /\ \A m \in DOMAIN old.lines : Kept(r, old.lines[m], new.lines[place[m]])
           /\ \A n \in DOMAIN new.lines :
                  HasId(new.lines[n]) => \E m \in DOMAIN old.lines : place[m] = n

Placed(template, variant, r, place) ==
    LET seen == {path \in DOMAIN template.files : ~template.files[path].skipped} IN
    /\ variant.assets = template.assets
    /\ DOMAIN variant.files = {Relocated(template.holdout, path) : path \in seen}
    /\ \A path \in seen :
           FilePlaced(r, template.files[path],
                      variant.files[Relocated(template.holdout, path)], place[path])

LEMMA VariantIsPlaced ==
    ASSUME NEW template, IsTemplate(template), NEW variant, IsVariant(template, variant)
    PROVE  \E r, place : Placed(template, variant, r, place)
<1> DEFINE seen == {path \in DOMAIN template.files : ~template.files[path].skipped}
           rules == template.holdout
<1>1. PICK new, r : /\ IsTemplate(new) /\ Rewritten(template, new, r)
                    /\ variant \in Arrangements(new)
  BY DEF IsVariant
<1>2. DOMAIN new.files = seen /\ \A path \in seen : FileKept(r, template.files[path], new.files[path])
  BY <1>1, VisibleFiles DEF Rewritten
<1>3. \A path : Relocated(new.holdout, path) = Relocated(rules, path)
  BY <1>1 DEF Rewritten, Relocated
<1>4. /\ variant.assets = template.assets
      /\ DOMAIN variant.files = {Relocated(rules, path) : path \in seen}
      /\ \A path \in seen :
             variant.files[Relocated(rules, path)] \in ArrangedFiles(new.holdout, new.files[path])
  BY <1>1, <1>2, <1>3, ArrangementFiles DEF IsTemplate, Rewritten
<1>5. ASSUME NEW path \in seen
      PROVE  \E goes : FilePlaced(r, template.files[path], variant.files[Relocated(rules, path)],
                                  goes)
  <2> DEFINE old == template.files[path]
             mid == new.files[path]
             got == variant.files[Relocated(rules, path)]
  <2>1. /\ FileKept(r, old, mid) /\ got \in ArrangedFiles(new.holdout, mid) /\ IsFile(mid)
    BY <1>1, <1>2, <1>4 DEF IsTemplate
  <2> HIDE DEF old, mid, got
  <2>2. CASE ~Rewritable(old)
    <3>1. mid = old /\ got = old
      BY <2>1, <2>2 DEF FileKept, ArrangedFiles
    <3> QED
      BY <2>2, <3>1 DEF FilePlaced, old, got
  <2>3. CASE Rewritable(old)
    <3>1. PICK goes : Places(mid, got, goes)
      BY <2>1, ArrangedPlaces
    <3>2. /\ got.kind = old.kind /\ DOMAIN mid.lines = DOMAIN old.lines
          /\ \A n \in DOMAIN old.lines : Kept(r, old.lines[n], mid.lines[n])
      BY <2>1, <2>3, ArrangedPlaces DEF FileKept
    <3>3. \A m \in DOMAIN old.lines : Kept(r, old.lines[m], got.lines[goes[m]])
      BY <3>1, <3>2 DEF Places
    <3>4. ~HasId(Header)
      BY DEF HasId, Header, Marked, NoMark
    <3>5. FilePlaced(r, old, got, goes)
      BY <2>3, <3>1, <3>2, <3>3, <3>4 DEF FilePlaced, Places
    <3> QED
      BY <3>5 DEF old, got
  <2> QED
    BY <2>2, <2>3
<1> DEFINE place == [path \in seen |->
                        CHOOSE goes : FilePlaced(r, template.files[path],
                                                 variant.files[Relocated(rules, path)], goes)]
<1>6. \A path \in seen : FilePlaced(r, template.files[path], variant.files[Relocated(rules, path)],
                                   place[path])
  BY <1>5
<1> HIDE DEF place
<1>7. Placed(template, variant, r, place)
  BY <1>4, <1>6 DEF Placed
<1> QED
  BY <1>7

-----------------------------------------------------------------------------
\* The marks of a kind in a template, and where they stand.
MarksOf(template, kind) ==
    UNION {MarkedLines(path, template.files[path], kind) : path \in DOMAIN template.files}

LineAt(template, a) == template.files[a.file].lines[a.line]

LEMMA MarksUnfold ==
    ASSUME NEW template
    PROVE  AnnotationsOf(template) = MarksOf(template, "plant")
           /\ AliasesOf(template) = MarksOf(template, "alias")
  BY DEF AnnotationsOf, AliasesOf, MarksOf, Annotations, Aliases

IsMark(template, kind, a) ==
    /\ a.file \in DOMAIN template.files
    /\ template.files[a.file].kind = "text"
    /\ a.line \in DOMAIN template.files[a.file].lines
    /\ Marked(LineAt(template, a), kind)
    /\ a = [id |-> LineAt(template, a).mark.id, file |-> a.file, line |-> a.line]

LEMMA MarkIsMark ==
    ASSUME NEW template, NEW kind, NEW a
    PROVE  a \in MarksOf(template, kind) <=> IsMark(template, kind, a)
<1>1. ASSUME a \in MarksOf(template, kind) PROVE IsMark(template, kind, a)
  <2>1. PICK path \in DOMAIN template.files : a \in MarkedLines(path, template.files[path], kind)
    BY <1>1 DEF MarksOf
  <2>2. PICK n \in DOMAIN template.files[path].lines :
            /\ template.files[path].kind = "text" /\ Marked(template.files[path].lines[n], kind)
            /\ a = [id |-> template.files[path].lines[n].mark.id, file |-> path, line |-> n]
    BY <2>1 DEF MarkedLines
  <2>3. a.file = path /\ a.line = n
    BY <2>2
  <2> QED
    BY <2>2, <2>3 DEF IsMark, LineAt
<1>2. ASSUME IsMark(template, kind, a) PROVE a \in MarksOf(template, kind)
  <2>1. a \in MarkedLines(a.file, template.files[a.file], kind)
    BY <1>2 DEF IsMark, LineAt, MarkedLines
  <2> QED
    BY <1>2, <2>1 DEF IsMark, MarksOf
<1> QED
  BY <1>1, <1>2

\* Where a mark of the template is in the variant, and under which id.
Went(template, r, place, b) ==
    [id |-> r[b.id], file |-> Relocated(template.holdout, b.file), line |-> place[b.file][b.line]]

LEMMA MarkGoesTo ==
    ASSUME NEW template, Regular(template), NEW variant, NEW r, NEW place,
           Placed(template, variant, r, place),
           NEW kind \in {"plant", "alias"}, NEW b \in MarksOf(template, kind)
    PROVE  LET a == Went(template, r, place, b) IN
           /\ a \in MarksOf(variant, kind)
           /\ b.id \in DOMAIN r
           /\ b.line \in DOMAIN place[b.file]
           /\ "text" \in DOMAIN LineAt(variant, a) /\ "mark" \in DOMAIN LineAt(variant, a)
           /\ LineAt(variant, a).text = LineAt(template, b).text
           /\ kind = "plant" => LineAt(variant, a).mark.layer = LineAt(template, b).mark.layer
<1> DEFINE a   == Went(template, r, place, b)
           old == template.files[b.file]
           new == variant.files[a.file]
<1>1. IsMark(template, kind, b)
  BY MarkIsMark
<1>2. /\ b.file \in DOMAIN template.files /\ old.kind = "text" /\ Rewritable(old)
      /\ b.line \in DOMAIN old.lines /\ HasId(old.lines[b.line]) /\ Marked(old.lines[b.line], kind)
      /\ b.id = old.lines[b.line].mark.id
  BY <1>1 DEF IsMark, LineAt, Rewritable, HasId
<1>3. ~old.skipped
  BY <1>2 DEF Regular, Marked
<1>4. a.file = Relocated(template.holdout, b.file) /\ a.line = place[b.file][b.line] /\ a.id = r[b.id]
  BY DEF Went
<1>5. FilePlaced(r, old, new, place[b.file]) /\ a.file \in DOMAIN variant.files
  BY <1>2, <1>3, <1>4 DEF Placed
<1>6. /\ a.line \in DOMAIN new.lines /\ Kept(r, old.lines[b.line], new.lines[a.line])
      /\ new.kind = "text" /\ b.line \in DOMAIN place[b.file]
  <2> HIDE DEF a, old, new
  <2>1. place[b.file] \in [DOMAIN old.lines -> DOMAIN new.lines]
        /\ new.kind = old.kind
        /\ \A m \in DOMAIN old.lines : Kept(r, old.lines[m], new.lines[place[b.file][m]])
    BY <1>2, <1>5 DEF FilePlaced
  <2> QED
    BY <1>2, <1>4, <2>1
<1>7. /\ Marked(new.lines[a.line], kind) /\ new.lines[a.line].mark.id = a.id /\ b.id \in DOMAIN r
      /\ {"text", "mark"} \subseteq DOMAIN new.lines[a.line]
      /\ new.lines[a.line].text = old.lines[b.line].text
      /\ kind = "plant" => new.lines[a.line].mark.layer = old.lines[b.line].mark.layer
  BY <1>2, <1>4, <1>6 DEF Kept, Marked, IsLine
<1>8. a = [id |-> LineAt(variant, a).mark.id, file |-> a.file, line |-> a.line]
  BY <1>4, <1>7 DEF LineAt, Went
<1> HIDE DEF a
<1>9. IsMark(variant, kind, a)
  BY <1>5, <1>6, <1>7, <1>8 DEF IsMark, LineAt
<1>10. a \in MarksOf(variant, kind)
  BY <1>9, MarkIsMark
<1> QED
  BY <1>6, <1>7, <1>10 DEF LineAt, a

LEMMA MarkComesFrom ==
    ASSUME NEW template, Regular(template), NEW variant, NEW r, NEW place,
           Placed(template, variant, r, place),
           NEW kind \in {"plant", "alias"}, NEW a \in MarksOf(variant, kind)
    PROVE  \E b \in MarksOf(template, kind) : a = Went(template, r, place, b)
<1> DEFINE seen == {path \in DOMAIN template.files : ~template.files[path].skipped}
<1>1. IsMark(variant, kind, a)
  BY MarkIsMark
<1>2. PICK path \in seen : a.file = Relocated(template.holdout, path)
  BY <1>1 DEF IsMark, Placed
<1> DEFINE old == template.files[path]
           new == variant.files[a.file]
<1>3. FilePlaced(r, old, new, place[path])
  BY <1>2 DEF Placed
<1>4. /\ new.kind = "text" /\ a.line \in DOMAIN new.lines /\ Marked(new.lines[a.line], kind)
      /\ HasId(new.lines[a.line]) /\ new.lines[a.line].mark.id = a.id
  BY <1>1 DEF IsMark, LineAt, HasId
<1>5. Rewritable(old) /\ old.kind = "text"
  BY <1>3, <1>4 DEF FilePlaced, Rewritable
<1>6. PICK n \in DOMAIN old.lines : place[path][n] = a.line
  BY <1>3, <1>4, <1>5 DEF FilePlaced
<1>7. Kept(r, old.lines[n], new.lines[a.line])
  BY <1>3, <1>5, <1>6 DEF FilePlaced
<1>8. Marked(old.lines[n], kind) /\ a.id = r[old.lines[n].mark.id]
  BY <1>4, <1>7 DEF Kept, Marked, HasId
<1> DEFINE b == [id |-> old.lines[n].mark.id, file |-> path, line |-> n]
<1>9. IsMark(template, kind, b)
  BY <1>5, <1>8 DEF IsMark, LineAt
<1>10. a = Went(template, r, place, b)
  BY <1>1, <1>2, <1>6, <1>8 DEF Went, IsMark
<1> HIDE DEF b
<1> QED
  BY <1>9, <1>10, MarkIsMark

\* What is built of a variant, if it is: no id twice, and no fault in the assets.
Sane(variant) ==
    /\ \A a, b \in AnnotationsOf(variant) : a.id = b.id => a = b
    /\ ~AssetError(variant, AnnotationsOf(variant))

\* No two ids of plants have become one.
LEMMA IdsStayApart ==
    ASSUME NEW template, IsTemplate(template), Regular(template), NEW variant, NEW r, NEW place,
           Placed(template, variant, r, place), Sane(variant),
           NEW b \in MarksOf(template, "plant"), NEW c \in MarksOf(template, "plant"),
           r[b.id] = r[c.id]
    PROVE  b.id = c.id
<1> DEFINE x == Went(template, r, place, b)
           y == Went(template, r, place, c)
<1>1. x \in AnnotationsOf(variant) /\ y \in AnnotationsOf(variant)
  BY MarkGoesTo, MarksUnfold
<1>2. x.id = y.id
  BY DEF Went
<1>3. x = y
  BY <1>1, <1>2 DEF Sane
<1>4. /\ Relocated(template.holdout, b.file) = Relocated(template.holdout, c.file)
      /\ place[b.file][b.line] = place[c.file][c.line]
  BY <1>3 DEF Went
<1>5. IsMark(template, "plant", b) /\ IsMark(template, "plant", c)
  BY MarkIsMark
<1>6. b.file = c.file
  BY <1>4, <1>5 DEF IsMark, IsTemplate
<1>7. /\ Rewritable(template.files[b.file]) /\ ~template.files[b.file].skipped
      /\ b.line \in DOMAIN template.files[b.file].lines
      /\ c.line \in DOMAIN template.files[b.file].lines
  BY <1>5, <1>6 DEF IsMark, LineAt, Rewritable, Regular, Marked
<1>8. b.line = c.line
  BY <1>4, <1>5, <1>6, <1>7 DEF IsMark, Placed, FilePlaced
<1> QED
  BY <1>5, <1>6, <1>8 DEF IsMark, LineAt
-----------------------------------------------------------------------------
PlantedAt(template, p) ==
    [id |-> p.id, file |-> p.file, line |-> p.line,
     algorithm |-> LineAt(template, p).mark.algorithm, layer |-> LineAt(template, p).mark.layer,
     note |-> LineAt(template, p).mark.note,
     accept |-> {[file |-> a.file, line |-> a.line] :
                     a \in {b \in MarksOf(template, "alias") : b.id = p.id}}]

FileAsset(a) == [id |-> a.id, file |-> a.file, line |-> 1, algorithm |-> a.algorithm,
                 layer |-> a.layer, note |-> a.note, accept |-> {}]

LEMMA TruthUnfold ==
    ASSUME NEW template
    PROVE  TruthOf(template) = {PlantedAt(template, p) : p \in MarksOf(template, "plant")}
                               \cup {FileAsset(a) : a \in template.assets}
  BY MarksUnfold DEF TruthOf, Entries, PlantedAt, FileAsset, LineAt

\* The accepted locations of a plant are those of the aliases that have its id.
LEMMA AcceptIsAt ==
    ASSUME NEW template, NEW p
    PROVE  LET accept  == PlantedAt(template, p).accept
               aliased == {b \in MarksOf(template, "alias") : b.id = p.id}
           IN  /\ \A a \in accept : \E b \in aliased : a.file = b.file /\ a.line = b.line
               /\ \A b \in aliased : \E a \in accept : a.file = b.file /\ a.line = b.line
<1> DEFINE aliased == {b \in MarksOf(template, "alias") : b.id = p.id}
           accept  == {[file |-> b.file, line |-> b.line] : b \in aliased}
<1>1. PlantedAt(template, p).accept = accept
  BY DEF PlantedAt
<1> HIDE DEF aliased
<1>2. ASSUME NEW a \in accept PROVE \E b \in aliased : a.file = b.file /\ a.line = b.line
  <2>1. PICK b \in aliased : a = [file |-> b.file, line |-> b.line]
    OBVIOUS
  <2> QED
    BY <2>1
<1>3. ASSUME NEW b \in aliased PROVE \E a \in accept : a.file = b.file /\ a.line = b.line
  <2> DEFINE a == [file |-> b.file, line |-> b.line]
  <2>1. a \in accept
    OBVIOUS
  <2> QED
    BY <2>1
<1> HIDE DEF accept
<1> QED
  BY <1>1, <1>2, <1>3 DEF aliased

\* What the holdout says of a place of its own, and what stood at one of the template.
Said(variant, a) == <<a.file, Text(CorpusOf(variant)[a.file], a.line)>>
Stood(template, b) ==
    <<Relocated(template.holdout, b.file), Text(template.files[b.file].lines, b.line)>>

LEMMA MarkSaysWhatStood ==
    ASSUME NEW template, Regular(template), NEW variant, NEW r, NEW place,
           Placed(template, variant, r, place),
           NEW kind \in {"plant", "alias"}, NEW b \in MarksOf(template, kind)
    PROVE  Said(variant, Went(template, r, place, b)) = Stood(template, b)
<1> DEFINE a == Went(template, r, place, b)
<1>1. /\ a \in MarksOf(variant, kind)
      /\ "text" \in DOMAIN LineAt(variant, a) /\ "mark" \in DOMAIN LineAt(variant, a)
      /\ LineAt(variant, a).text = LineAt(template, b).text
  BY MarkGoesTo
<1>2. a.file = Relocated(template.holdout, b.file)
  BY DEF Went
<1> HIDE DEF a
<1>3. IsMark(variant, kind, a)
  BY <1>1, MarkIsMark
<1>4. Text(CorpusOf(variant)[a.file], a.line) = LineAt(variant, a).text
  BY <1>1, <1>3 DEF IsMark, CorpusOf, Clean, LineAt, Text
<1>5. Said(variant, a) = Stood(template, b)
  BY <1>1, <1>2, <1>4 DEF Said, Stood, LineAt, Text
<1> QED
  BY <1>5 DEF a

LEMMA AcceptsCorrespond ==
    ASSUME NEW template, IsTemplate(template), Regular(template), NEW variant, NEW r, NEW place,
           Placed(template, variant, r, place), Sane(variant),
           ~AliasError(AnnotationsOf(template), AliasesOf(template)),
           NEW b \in MarksOf(template, "plant")
    PROVE  {Said(variant, x) : x \in PlantedAt(variant, Went(template, r, place, b)).accept}
               = {Stood(template, y) : y \in PlantedAt(template, b).accept}
<1> DEFINE a   == Went(template, r, place, b)
           New == {c \in MarksOf(variant, "alias") : c.id = a.id}
           Old == {d \in MarksOf(template, "alias") : d.id = b.id}
           NewAccept == PlantedAt(variant, a).accept
           OldAccept == PlantedAt(template, b).accept
<1>1. /\ \A x \in NewAccept : \E c \in New : x.file = c.file /\ x.line = c.line
      /\ \A c \in New : \E x \in NewAccept : x.file = c.file /\ x.line = c.line
  BY AcceptIsAt
<1>2. /\ \A y \in OldAccept : \E d \in Old : y.file = d.file /\ y.line = d.line
      /\ \A d \in Old : \E y \in OldAccept : y.file = d.file /\ y.line = d.line
  BY AcceptIsAt
<1>3. a.id = r[b.id]
  BY DEF Went
<1> HIDE DEF a
<1>4. ASSUME NEW c \in New PROVE \E d \in Old : Said(variant, c) = Stood(template, d)
  <2>1. PICK d \in MarksOf(template, "alias") : c = Went(template, r, place, d)
    BY MarkComesFrom
  <2>2. PICK q \in MarksOf(template, "plant") : q.id = d.id
    BY MarksUnfold DEF AliasError
  <2>3. c.id = r[d.id]
    BY <2>1 DEF Went
  <2>4. r[q.id] = r[b.id]
    BY <1>3, <2>2, <2>3
  <2>5. d.id = b.id
    BY <2>2, <2>4, IdsStayApart
  <2> QED
    BY <2>1, <2>5, MarkSaysWhatStood
<1>5. ASSUME NEW d \in Old PROVE \E c \in New : Said(variant, c) = Stood(template, d)
  <2> DEFINE c == Went(template, r, place, d)
  <2>1. c \in MarksOf(variant, "alias") /\ Said(variant, c) = Stood(template, d)
    BY MarkGoesTo, MarkSaysWhatStood
  <2>2. c.id = r[d.id]
    BY DEF Went
  <2> HIDE DEF c
  <2> QED
    BY <1>3, <2>1, <2>2
<1> HIDE DEF New, Old, NewAccept, OldAccept
<1>6. ASSUME NEW x \in NewAccept PROVE \E y \in OldAccept : Said(variant, x) = Stood(template, y)
  <2>1. PICK c \in New : x.file = c.file /\ x.line = c.line
    BY <1>1
  <2>2. PICK d \in Old : Said(variant, c) = Stood(template, d)
    BY <1>4
  <2>3. PICK y \in OldAccept : y.file = d.file /\ y.line = d.line
    BY <1>2
  <2> QED
    BY <2>1, <2>2, <2>3 DEF Said, Stood
<1>7. ASSUME NEW y \in OldAccept PROVE \E x \in NewAccept : Said(variant, x) = Stood(template, y)
  <2>1. PICK d \in Old : y.file = d.file /\ y.line = d.line
    BY <1>2
  <2>2. PICK c \in New : Said(variant, c) = Stood(template, d)
    BY <1>5
  <2>3. PICK x \in NewAccept : x.file = c.file /\ x.line = c.line
    BY <1>1
  <2> QED
    BY <2>1, <2>2, <2>3 DEF Said, Stood
<1>8. {Said(variant, x) : x \in NewAccept} = {Stood(template, y) : y \in OldAccept}
  BY <1>6, <1>7
<1> QED
  BY <1>8 DEF NewAccept, OldAccept, a

\* What the holdout copies is where it was.
LEMMA AssetIsThere ==
    ASSUME NEW template, IsMovable(template), template.assets # None,
           NEW variant, NEW r, NEW place, Placed(template, variant, r, place),
           NEW a \in template.assets, a.file \in DOMAIN variant.files
    PROVE  Said(variant, FileAsset(a)) = Stood(template, FileAsset(a))
<1>1. PICK path \in DOMAIN template.files :
          /\ ~template.files[path].skipped /\ a.file = Relocated(template.holdout, path)
          /\ FilePlaced(r, template.files[path], variant.files[a.file], place[path])
  BY DEF Placed
<1>2. path = a.file /\ template.files[path].kind \in {"binary", "opaque", "keystore"}
  BY <1>1 DEF IsMovable, KeepsAssets
<1>3. variant.files[a.file] = template.files[a.file]
  BY <1>1, <1>2 DEF FilePlaced, Rewritable
<1>4. Text(CorpusOf(variant)[a.file], 1) = Text(template.files[a.file].lines, 1)
  BY <1>2, <1>3 DEF CorpusOf, Clean
<1> QED
  BY <1>1, <1>2, <1>4 DEF Said, Stood, FileAsset

\* The ids that the plants and the assets of a template have in its variant.
IdOf(template, r) ==
    LET planted == {b.id : b \in MarksOf(template, "plant")} IN
    [id \in {o.id : o \in TruthOf(template)} |-> IF id \in planted THEN r[id] ELSE id]

\* Each entry of the template has one in the variant, which has its new id.
LEMMA EntriesFollow ==
    ASSUME NEW template, IsTemplate(template), IsMovable(template), Buildable(template),
           Regular(template), NEW variant, NEW r, NEW place,
           Placed(template, variant, r, place), Sane(variant),
           NEW o \in TruthOf(template)
    PROVE  \E e \in TruthOf(variant) :
               /\ e.id = IdOf(template, r)[o.id] /\ e.layer = o.layer
               /\ Said(variant, e) = Stood(template, o)
               /\ {Said(variant, x) : x \in e.accept} = {Stood(template, y) : y \in o.accept}
<1> DEFINE planted == {b.id : b \in MarksOf(template, "plant")}
<1>0. IdOf(template, r)[o.id] = IF o.id \in planted THEN r[o.id] ELSE o.id
  BY DEF IdOf
<1>1. \/ \E b \in MarksOf(template, "plant") : o = PlantedAt(template, b)
      \/ \E a \in template.assets : o = FileAsset(a)
  BY TruthUnfold
<1>2. ASSUME NEW b \in MarksOf(template, "plant"), o = PlantedAt(template, b)
      PROVE  \E e \in TruthOf(variant) :
                 /\ e.id = IdOf(template, r)[o.id] /\ e.layer = o.layer
                 /\ Said(variant, e) = Stood(template, o)
                 /\ {Said(variant, x) : x \in e.accept} = {Stood(template, y) : y \in o.accept}
  <2> DEFINE a == Went(template, r, place, b)
             e == PlantedAt(variant, a)
  <2>1. /\ a \in MarksOf(variant, "plant") /\ a.id = r[b.id]
        /\ LineAt(variant, a).mark.layer = LineAt(template, b).mark.layer
    BY MarkGoesTo DEF Went
  <2>2. Said(variant, a) = Stood(template, b)
    BY MarkSaysWhatStood
  <2>3. {Said(variant, x) : x \in e.accept} = {Stood(template, y) : y \in o.accept}
    BY <1>2, AcceptsCorrespond DEF Buildable
  <2> HIDE DEF a
  <2>4. e \in TruthOf(variant)
    BY <2>1, TruthUnfold
  <2>5. /\ e.id = a.id /\ e.file = a.file /\ e.line = a.line
        /\ e.layer = LineAt(variant, a).mark.layer
        /\ o.id = b.id /\ o.file = b.file /\ o.line = b.line
        /\ o.layer = LineAt(template, b).mark.layer
    BY <1>2 DEF PlantedAt
  <2>6. Said(variant, e) = Stood(template, o)
    BY <2>2, <2>5 DEF Said, Stood
  <2> HIDE DEF e
  <2> QED
    BY <1>0, <2>1, <2>3, <2>4, <2>5, <2>6
<1>3. ASSUME NEW a \in template.assets, o = FileAsset(a)
      PROVE  \E e \in TruthOf(variant) :
                 /\ e.id = IdOf(template, r)[o.id] /\ e.layer = o.layer
                 /\ Said(variant, e) = Stood(template, o)
                 /\ {Said(variant, x) : x \in e.accept} = {Stood(template, y) : y \in o.accept}
  <2>1. o \in TruthOf(variant) /\ o.accept = {} /\ o.id = a.id
    BY <1>3, TruthUnfold DEF Placed, FileAsset
  <2>2. o.id \notin planted
    BY <2>1, MarksUnfold DEF Buildable, AssetError
  <2>3. a.file \in DOMAIN variant.files
    BY DEF Sane, AssetError, Placed
  <2>4. Said(variant, o) = Stood(template, o)
    BY <1>3, <2>3, AssetIsThere DEF Buildable
  <2> QED
    BY <1>0, <2>1, <2>2, <2>4
<1> QED
  BY <1>1, <1>2, <1>3

\* In the ground truth of the variant, an id is one entry's.
LEMMA EntriesApart ==
    ASSUME NEW variant, Sane(variant), NEW e \in TruthOf(variant), NEW f \in TruthOf(variant),
           e.id = f.id
    PROVE  e = f
<1>1. ASSUME NEW p \in MarksOf(variant, "plant") PROVE PlantedAt(variant, p).id = p.id
  BY DEF PlantedAt
<1>2. ASSUME NEW a \in variant.assets PROVE FileAsset(a).id = a.id
  BY DEF FileAsset
<1>3. ASSUME NEW p \in MarksOf(variant, "plant"), NEW q \in MarksOf(variant, "plant"), p.id = q.id
      PROVE  p = q
  BY <1>3, MarksUnfold DEF Sane
<1>4. ASSUME NEW a \in variant.assets, NEW b \in variant.assets, a.id = b.id
      PROVE  a = b
  BY <1>4 DEF Sane, AssetError
<1>5. ASSUME NEW p \in MarksOf(variant, "plant"), NEW a \in variant.assets PROVE p.id # a.id
  BY <1>5, MarksUnfold DEF Sane, AssetError
<1>6. \/ \E p \in MarksOf(variant, "plant") : e = PlantedAt(variant, p)
      \/ \E a \in variant.assets : e = FileAsset(a)
  BY TruthUnfold
<1>7. \/ \E p \in MarksOf(variant, "plant") : f = PlantedAt(variant, p)
      \/ \E a \in variant.assets : f = FileAsset(a)
  BY TruthUnfold
<1> QED
  BY <1>1, <1>2, <1>3, <1>4, <1>5, <1>6, <1>7

\* The plants of a holdout, and those of its template.
Corresponds(template, shipped, new) ==
    LET old == TruthOf(template)
        text(place) == <<place.file, Text(shipped[place.file], place.line)>>
    IN  \E renamed \in Bijection({o.id : o \in old}, {e.id : e \in new}) :
            \A o \in old, e \in new :
                e.id = renamed[o.id] =>
                    /\ e.layer = o.layer
                    /\ {text(e)} = Moved(template, {o})
                    /\ {text(a) : a \in e.accept} = Moved(template, o.accept)

LEMMA VariantCorresponds ==
    ASSUME NEW template, IsTemplate(template), IsMovable(template), Buildable(template),
           Regular(template), NEW variant, IsVariant(template, variant), Sane(variant)
    PROVE  Corresponds(template, CorpusOf(variant), TruthOf(variant))
<1> DEFINE old == TruthOf(template)
           new == TruthOf(variant)
           S   == {o.id : o \in old}
           T   == {e.id : e \in new}
           planted == {b.id : b \in MarksOf(template, "plant")}
<1>1. PICK r, place : Placed(template, variant, r, place)
  BY VariantIsPlaced
<1> DEFINE name == IdOf(template, r)
<1>2. DOMAIN name = S /\ \A id \in S : name[id] = IF id \in planted THEN r[id] ELSE id
  BY DEF IdOf
<1>3. ASSUME NEW o \in old
      PROVE  \E e \in new :
                 /\ e.id = name[o.id] /\ e.layer = o.layer
                 /\ Said(variant, e) = Stood(template, o)
                 /\ {Said(variant, x) : x \in e.accept} = {Stood(template, y) : y \in o.accept}
  BY <1>1, EntriesFollow
<1>4. ASSUME NEW id \in S, id \notin planted PROVE \E a \in template.assets : id = a.id
  <2>1. PICK o \in old : id = o.id
    OBVIOUS
  <2>2. ASSUME NEW b \in MarksOf(template, "plant") PROVE o # PlantedAt(template, b)
    BY <1>4, <2>1 DEF PlantedAt
  <2>3. PICK a \in template.assets : o = FileAsset(a)
    BY <2>2, TruthUnfold
  <2> QED
    BY <2>1, <2>3 DEF FileAsset
<1>5. ASSUME NEW a \in template.assets PROVE a.id \notin planted
  BY <1>5, MarksUnfold DEF Buildable, AssetError
<1>6. ASSUME NEW b \in MarksOf(template, "plant"), NEW a \in template.assets PROVE r[b.id] # a.id
  <2>1. /\ Went(template, r, place, b) \in AnnotationsOf(variant)
        /\ Went(template, r, place, b).id = r[b.id]
    BY <1>1, MarkGoesTo, MarksUnfold DEF Went
  <2>2. a \in variant.assets
    BY <1>1 DEF Placed
  <2> QED
    BY <2>1, <2>2 DEF Sane, AssetError
<1>7. ASSUME NEW i \in S, NEW j \in S, name[i] = name[j] PROVE i = j
  <2>1. CASE i \in planted /\ j \in planted
    <3>1. PICK b \in MarksOf(template, "plant"), c \in MarksOf(template, "plant") :
              i = b.id /\ j = c.id
      BY <2>1
    <3>2. r[b.id] = r[c.id]
      BY <1>2, <1>7, <2>1, <3>1
    <3> QED
      BY <1>1, <3>1, <3>2, IdsStayApart
  <2>2. CASE i \in planted /\ j \notin planted
    BY <1>2, <1>4, <1>6, <1>7, <2>2
  <2>3. CASE i \notin planted /\ j \in planted
    BY <1>2, <1>4, <1>6, <1>7, <2>3
  <2>4. CASE i \notin planted /\ j \notin planted
    BY <1>2, <1>7, <2>4
  <2> QED
    BY <2>1, <2>2, <2>3, <2>4
<1>8. ASSUME NEW e \in new PROVE \E o \in old : name[o.id] = e.id
  <2>1. ASSUME NEW a \in MarksOf(variant, "plant"), e = PlantedAt(variant, a)
        PROVE  \E o \in old : name[o.id] = e.id
    <3>1. PICK b \in MarksOf(template, "plant") : a = Went(template, r, place, b)
      BY <1>1, MarkComesFrom
    <3>2. PlantedAt(template, b) \in old /\ PlantedAt(template, b).id = b.id
      BY TruthUnfold DEF PlantedAt
    <3>3. e.id = r[b.id]
      BY <2>1, <3>1 DEF PlantedAt, Went
    <3> HIDE DEF old
    <3>4. b.id \in S /\ b.id \in planted
      BY <3>2
    <3> QED
      BY <1>2, <3>2, <3>3, <3>4
  <2>2. ASSUME NEW a \in variant.assets, e = FileAsset(a)
        PROVE  \E o \in old : name[o.id] = e.id
    <3>1. e \in old /\ e.id = a.id /\ a \in template.assets
      BY <1>1, <2>2, TruthUnfold DEF Placed, FileAsset
    <3> HIDE DEF old
    <3>2. e.id \in S /\ e.id \notin planted
      BY <1>5, <3>1
    <3> QED
      BY <1>2, <3>1, <3>2
  <2> QED
    BY <2>1, <2>2, TruthUnfold
<1> HIDE DEF old, new, name
<1>9. name \in [S -> T]
  <2>1. \A id \in S : name[id] \in T
    BY <1>3
  <2>2. name = [id \in S |-> name[id]]
    BY DEF name, IdOf, old
  <2> QED
    BY <1>2, <2>1, <2>2
<1>10. \A t \in T : \E id \in S : name[id] = t
  BY <1>8
<1>11. name \in Bijection(S, T)
  BY <1>2, <1>7, <1>9, <1>10 DEF Bijection, Injection, Surjection, IsInjective
<1>12. ASSUME NEW o \in old, NEW e \in new, e.id = name[o.id]
       PROVE  /\ e.layer = o.layer
              /\ {Said(variant, e)} = Moved(template, {o})
              /\ {Said(variant, a) : a \in e.accept} = Moved(template, o.accept)
  <2>1. PICK f \in new :
            /\ f.id = name[o.id] /\ f.layer = o.layer
            /\ Said(variant, f) = Stood(template, o)
            /\ {Said(variant, x) : x \in f.accept} = {Stood(template, y) : y \in o.accept}
    BY <1>3
  <2>2. e = f
    BY <1>12, <2>1, EntriesApart DEF new
  <2>3. Moved(template, {o}) = {Stood(template, o)}
        /\ Moved(template, o.accept) = {Stood(template, y) : y \in o.accept}
    BY DEF Moved, Stood
  <2> QED
    BY <2>1, <2>2, <2>3
<1> QED
  BY <1>11, <1>12 DEF Corresponds, Said, old, new

-----------------------------------------------------------------------------
\* What the holdout of a project was made of.
Derived(p) ==
    Regular(templates[p]) =>
        \E variant : /\ IsVariant(templates[p], variant) /\ Sane(variant)
                     /\ tree["holdout"][p] = CorpusOf(variant)
                     /\ truth["holdout"][p] = TruthOf(variant)

\* The variant a holdout is in, all of it emitted.
Emptied ==
    /\ Sane(source)
    /\ tree["holdout"][Project] = CorpusOf(source)
    /\ Built = TruthOf(source)

Making ==
    mode = "holdout" /\ phase # "project" /\ Regular(templates[Project]) =>
        IF phase = "vary" THEN \E r : Rewritten(templates[Project], source, r)
                          ELSE IsVariant(templates[Project], source)

OneEach == Busy => \A a, b \in annotations : a.id = b.id => a = b

HoldoutInv ==
    /\ Making /\ OneEach
    /\ mode = "holdout" =>
           /\ phase = "truth" => Emptied
           /\ \A n \in 1..(at - 1) : Derived(Order[n])
    /\ Ended({"holdout"}) => \A p \in Projects : Derived(p)

LEMMA DerivedElsewhere ==
    ASSUME NEW p, UNCHANGED templates, tree'["holdout"][p] = tree["holdout"][p],
           truth'["holdout"][p] = truth["holdout"][p], Derived(p)
    PROVE  Derived(p)'
  BY DEF Derived

LEMMA MakingKept ==
    ASSUME TypeOK, FilesInv, Making, [Next]_vars
    PROVE  Making'
<1>1. CASE mode' # "holdout" \/ phase' = "project"
  BY <1>1 DEF Making
<1>2. CASE TakeTemplate
  <2>1. /\ Project \in Projects /\ templates[Project] \in Versions[Project]
        /\ templates' = templates /\ Project' = Project /\ phase' = "vary"
        /\ source' = Visible(templates[Project])
    BY <1>2, ProjectIsProject DEF TakeTemplate, Running, TypeOK, Shape, Project
  <2>2. IsTemplate(templates[Project]) /\ IsMovable(templates[Project])
    BY <2>1, VersionsAssumption, MovableAssumption
  <2> QED
    BY <2>1, <2>2, TakenIsRewritten DEF Making
<1>3. CASE ApplyRule
  <2>1. /\ templates' = templates /\ Project' = Project /\ phase = "vary" /\ phase' = "vary"
        /\ source' = Rewrite(source) /\ source.holdout.rewrites # <<>> /\ IsTemplate(source)
        /\ mode' = mode
    BY <1>3 DEF ApplyRule, Running, Project, Rewrites, FilesInv
  <2> QED
    BY <2>1, AppliedIsRewritten DEF Making
<1>4. CASE BeginVariant
  <2>1. /\ templates' = templates /\ Project' = Project /\ phase = "vary" /\ phase' = "emit"
        /\ source' \in Arrangements(source) /\ IsTemplate(source) /\ mode' = mode
    BY <1>4 DEF BeginVariant, Running, Project, FilesInv
  <2> QED
    BY <2>1 DEF Making, IsVariant
<1>5. CASE /\ UNCHANGED <<templates, mode, at, source>>
           /\ phase' = phase \/ (phase = "emit" /\ phase' = "truth")
  BY <1>5 DEF Making, Project
<1>6. ASSUME NEW path \in todo, EmitFile(path) \/ RejectFile(path) \/ RejectId(path) PROVE Making'
  BY <1>1, <1>5, <1>6, ExitSays DEF EmitFile, RejectFile, RejectId
<1>7. CASE CompareProject \/ FinishProject \/ UNCHANGED vars
  BY <1>5, <1>7 DEF CompareProject, FinishProject, Running, vars, local
<1>8. CASE \/ RejectMetadata \/ RejectKeystore \/ RejectProject \/ RejectLayers \/ Return
           \/ Kill \/ Edit \/ BeginProject \/ CompareTruth \/ WriteTruth
           \/ \E m \in Modes : Start(m)
  BY <1>1, <1>8, ExitSays DEF RejectMetadata, RejectKeystore, RejectProject, RejectLayers, Return,
         Kill, Edit, BeginProject, CompareTruth, WriteTruth, Start, NextProject
<1> QED
  BY <1>2, <1>3, <1>4, <1>6, <1>7, <1>8 DEF Next, Step

LEMMA OneEachKept ==
    ASSUME TypeOK, OneEach, [Next]_vars
    PROVE  OneEach'
<1>1. CASE ~Busy' \/ annotations' = {}
  BY <1>1 DEF OneEach
<1>2. ASSUME NEW path \in todo, EmitFile(path) PROVE OneEach'
  <2>1. /\ Busy /\ ~Duplicates(path)
        /\ annotations' = annotations \cup Annotations(path, source.files[path])
    BY <1>2 DEF EmitFile, Running, Busy
  <2> QED
    BY <2>1 DEF OneEach, Duplicates
<1>3. CASE Busy /\ UNCHANGED annotations
  BY <1>3 DEF OneEach
<1>4. CASE CompareProject \/ FinishProject
  BY <1>3, <1>4 DEF CompareProject, FinishProject, Running, Busy
<1>5. CASE UNCHANGED vars
  BY <1>5 DEF vars, local, OneEach, Busy
<1>6. CASE BeginProject \/ BeginVariant \/ TakeTemplate \/ ApplyRule \/ CompareTruth \/ WriteTruth
  BY <1>1, <1>6 DEF BeginProject, BeginVariant, TakeTemplate, ApplyRule, CompareTruth, WriteTruth,
                    NextProject, Running, Busy
<1>7. CASE \/ RejectMetadata \/ RejectKeystore \/ RejectProject \/ RejectLayers \/ Return
           \/ Kill \/ Edit \/ \E m \in Modes : Start(m)
  BY <1>1, <1>7, ExitSays DEF RejectMetadata, RejectKeystore, RejectProject, RejectLayers, Return,
         Kill, Edit, Start, Busy
<1>8. ASSUME NEW path \in todo, RejectFile(path) \/ RejectId(path) PROVE OneEach'
  BY <1>1, <1>8, ExitSays DEF RejectFile, RejectId, Busy
<1> QED
  BY <1>2, <1>4, <1>5, <1>6, <1>7, <1>8 DEF Next, Step

LEMMA HoldoutKeeps ==
    ASSUME TypeOK, IInv, FilesInv, HoldoutInv, [Next]_vars
    PROVE  HoldoutInv'
<1>0. Making' /\ OneEach'
  BY MakingKept, OneEachKept DEF HoldoutInv
<1>1. CASE mode' = "idle" /\ last'.exit # "ok"
  BY <1>0, <1>1 DEF HoldoutInv, Ended
<1>2. ASSUME NEW m \in Modes, Start(m) PROVE HoldoutInv'
  <2>1. phase' = "project" /\ at' = 1 /\ last'.exit = "none"
    BY <1>2 DEF Start
  <2> QED
    BY <1>0, <2>1 DEF HoldoutInv, Ended
\* A write of the project at hand, in which no other is disturbed.
<1>3. ASSUME NEW content, Put(content), UNCHANGED <<templates, truth, mode, at, last>>,
             phase' = "emit", mode # "idle", at <= Len(Order), Project \in Projects
      PROVE  HoldoutInv'
  <2>1. ~Ended({"holdout"})'
    BY <1>3 DEF IInv, LastInv, Ended
  <2>2. ASSUME mode = "holdout", NEW n \in 1..(at - 1) PROVE Derived(Order[n])'
    <3>1. Area = "holdout" /\ Derived(Order[n])
      BY <2>2 DEF Area, HoldoutInv
    <3>2. tree'["holdout"][Order[n]] = tree["holdout"][Order[n]]
      BY <1>3, <2>2, <3>1, Behind, PutElsewhere
    <3> QED
      BY <1>3, <3>1, <3>2, DerivedElsewhere
  <2> QED
    BY <1>0, <1>3, <2>1, <2>2 DEF HoldoutInv
<1>4. CASE BeginProject \/ BeginVariant
  <2>1. /\ UNCHANGED <<templates, truth, mode, at, last>> /\ Put(Nothing) /\ phase' = "emit"
        /\ mode # "idle" /\ at <= Len(Order) /\ Project \in Projects
    BY <1>4, ProjectIsProject DEF BeginProject, BeginVariant, Running, TypeOK, Counters
  <2> QED
    BY <2>1, <1>3
<1>5. ASSUME NEW path \in todo, EmitFile(path) PROVE HoldoutInv'
  <2>1. /\ UNCHANGED <<templates, truth, mode, at, last>> /\ phase' = "emit"
        /\ Put(Emitted(path)) /\ mode # "idle" /\ at <= Len(Order) /\ Project \in Projects
    BY <1>5, ProjectIsProject DEF EmitFile, Running, TypeOK, Counters
  <2> QED
    BY <2>1, <1>3
<1>6. CASE CompareProject \/ CompareTruth
  <2>1. mode = "check" /\ UNCHANGED <<mode, last>>
    BY <1>6 DEF CompareProject, CompareTruth
  <2> QED
    BY <1>0, <2>1 DEF HoldoutInv, IInv, LastInv, Ended
\* A step that leaves the disk.
<1>7. ASSUME UNCHANGED <<templates, tree, truth, mode, at, last>>, mode # "idle",
             phase' = "truth" /\ mode = "holdout" => Emptied'
      PROVE  HoldoutInv'
  <2>1. ~Ended({"holdout"})'
    BY <1>7 DEF IInv, LastInv, Ended
  <2>2. ASSUME mode = "holdout", NEW n \in 1..(at - 1) PROVE Derived(Order[n])'
    BY <1>7, <2>2, DerivedElsewhere DEF HoldoutInv
  <2> QED
    BY <1>0, <1>7, <2>1, <2>2 DEF HoldoutInv
<1>8. CASE TakeTemplate \/ ApplyRule
  BY <1>7, <1>8 DEF TakeTemplate, ApplyRule, Running, disk
<1>9. CASE FinishProject
  <2>1. /\ UNCHANGED <<templates, tree, truth, mode, at, last, source, annotations, aliases>>
        /\ phase = "emit" /\ phase' = "truth" /\ mode # "idle" /\ todo = {} /\ ~Faulty
    BY <1>9 DEF FinishProject, Running, disk
  <2>2. Busy /\ Emittable = DOMAIN source.files
    BY <2>1 DEF Busy, Emittable
  <2>3. annotations = AnnotationsOf(source) /\ aliases = AliasesOf(source)
    BY <2>2 DEF IInv, EmitInv, AnnotationsOf, AliasesOf
  <2>4. mode = "holdout" => tree["holdout"][Project] = CorpusOf(source)
    BY <2>1, <2>2 DEF IInv, EmitInv, CorpusOf, Area
  <2>5. Built = TruthOf(source) /\ Sane(source)
    BY <2>1, <2>2, <2>3 DEF Built, TruthOf, Faulty, Sane, HoldoutInv, OneEach
  <2>6. mode = "holdout" => Emptied'
    BY <2>1, <2>4, <2>5 DEF Emptied, Built, Project
  <2> QED
    BY <1>7, <2>1, <2>6
<1>10. CASE WriteTruth
  <2>1. /\ UNCHANGED <<templates, tree, mode, last>> /\ phase = "truth" /\ phase' = "project"
        /\ at' = at + 1 /\ truth' = [truth EXCEPT ![Area][Project] = Built] /\ mode # "idle"
        /\ at <= Len(Order) /\ Project \in Projects
    BY <1>10, ProjectIsProject DEF WriteTruth, NextProject, Running, TypeOK, Counters
  <2>2. ~Ended({"holdout"})'
    BY <2>1 DEF IInv, LastInv, Ended
  <2>3. ASSUME mode = "holdout", NEW n \in 1..(at' - 1) PROVE Derived(Order[n])'
    <3>1. Area = "holdout" /\ DOMAIN truth = Areas /\ DOMAIN truth["holdout"] = Projects
      BY <2>3 DEF Area, TypeOK, Shape
    <3>2. /\ truth'["holdout"][Project] = Built
          /\ \A p \in Projects : p # Project => truth'["holdout"][p] = truth["holdout"][p]
      BY <2>1, <3>1
    <3>3. Making /\ Emptied
      BY <2>1, <2>3 DEF HoldoutInv
    <3>4. CASE Order[n] = Project
      <4>1. Regular(templates[Project]) => IsVariant(templates[Project], source)
        BY <2>1, <2>3, <3>3 DEF Making
      <4>2. /\ Sane(source) /\ tree'["holdout"][Project] = CorpusOf(source)
            /\ truth'["holdout"][Project] = TruthOf(source)
        BY <2>1, <3>2, <3>3 DEF Emptied
      <4> HIDE DEF Project
      <4> QED
        BY <2>1, <3>4, <4>1, <4>2 DEF Derived
    <3>5. CASE n \in 1..(at - 1)
      <4>1. Order[n] \in Projects /\ Order[n] # Project
        BY <2>1, <3>5, Behind
      <4>2. Derived(Order[n])
        BY <2>3, <3>5 DEF HoldoutInv
      <4> QED
        BY <2>1, <3>2, <4>1, <4>2, DerivedElsewhere
    <3> QED
      BY <2>1, <3>4, <3>5, NextRange
  <2> QED
    BY <1>0, <2>1, <2>2, <2>3 DEF HoldoutInv
<1>11. CASE Return
  <2>1. /\ mode # "idle" /\ mode' = "idle" /\ last'.mode = mode
        /\ UNCHANGED <<templates, tree, truth>> /\ at > Len(Order)
    BY <1>11, ExitSays DEF Return, Running, disk
  <2>2. \A p \in Projects : \E n \in 1..(at - 1) : Order[n] = p
    BY <2>1, OrderFacts DEF TypeOK, Counters, Projects
  <2>3. mode = "holdout" => \A p \in Projects : Derived(p)
    BY <2>2 DEF HoldoutInv
  <2>4. mode = "holdout" => \A p \in Projects : Derived(p)'
    BY <2>1, <2>3, DerivedElsewhere
  <2> QED
    BY <1>0, <2>1, <2>4 DEF HoldoutInv, Ended
<1>12. ASSUME NEW path \in todo, RejectFile(path) \/ RejectId(path)
       PROVE  mode' = "idle" /\ last'.exit # "ok"
  BY <1>12, ExitSays DEF RejectFile, RejectId
<1>13. CASE RejectMetadata \/ RejectKeystore \/ RejectProject \/ RejectLayers
  BY <1>1, <1>13, ExitSays DEF RejectMetadata, RejectKeystore, RejectProject, RejectLayers
<1>14. CASE Kill
  BY <1>1, <1>14 DEF Kill
<1>15. CASE Edit
  <2>1. mode' = "idle" /\ last'.exit = "none"
    BY <1>15 DEF Edit
  <2> QED
    BY <1>1, <2>1
<1>16. CASE UNCHANGED vars
  <2>1. UNCHANGED <<templates, tree, truth, mode, at, last, phase, source, annotations, aliases>>
    BY <1>16 DEF vars, local, disk
  <2>2. \A p : Derived(p) => Derived(p)'
    BY <2>1, DerivedElsewhere
  <2>3. Emptied => Emptied'
    BY <2>1 DEF Emptied, Project, Built
  <2>4. Ended({"holdout"})' <=> Ended({"holdout"})
    BY <2>1 DEF Ended
  <2> QED
    BY <1>0, <2>1, <2>2, <2>3, <2>4 DEF HoldoutInv, Project
<1> QED
  BY <1>1, <1>2, <1>4, <1>5, <1>6, <1>8, <1>9, <1>10, <1>11, <1>12, <1>13, <1>14, <1>15, <1>16
     DEF Next, Step

LEMMA DerivedCorresponds ==
    ASSUME TypeOK, HoldoutInv
    PROVE  HoldoutCorresponds
<1> SUFFICES ASSUME Ended({"holdout"}), NEW p \in Projects,
                    Buildable(templates[p]), Regular(templates[p])
             PROVE  Corresponds(templates[p], tree["holdout"][p], truth["holdout"][p])
  BY DEF HoldoutCorresponds, Corresponds
<1>1. IsTemplate(templates[p]) /\ IsMovable(templates[p])
  BY VersionsAssumption, MovableAssumption DEF TypeOK, Shape
<1>2. Derived(p)
  BY DEF HoldoutInv
<1> QED
  BY <1>1, <1>2, VariantCorresponds DEF Derived

\* A holdout that ended well plants what its template plants, under new names and
\* ids, each plant on the line and in the layer it had there, with the same lines
\* accepted for it: whatever was renamed in codes, ids, notes and alias targets,
\* shuffled, shifted and moved, and whatever an earlier holdout left.
THEOREM HoldoutsCorrespond == Spec => []HoldoutCorresponds
<1> DEFINE Inv == TypeOK /\ IInv /\ FilesInv /\ HoldoutInv
<1>1. Init => Inv
  <2>1. Init => FilesInv /\ HoldoutInv
    BY DEF Init, FilesInv, HoldoutInv, Making, OneEach, Busy, Ended
  <2> QED
    BY <2>1, InitType, InitIInv
<1>2. Inv /\ [Next]_vars => Inv'
  BY NextType, NextIInv, FilesInvKept, HoldoutKeeps
<1>3. Inv => HoldoutCorresponds
  BY DerivedCorresponds
<1> QED
  BY <1>1, <1>2, <1>3, PTL DEF Spec
=============================================================================
