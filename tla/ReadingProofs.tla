--------------------------- MODULE ReadingProofs ----------------------------
(***************************************************************************)
(* Proofs about Reading, for documents, paths and projects of any size.    *)
(***************************************************************************)
EXTENDS Reading, PathsProofs, SequenceTheorems

-----------------------------------------------------------------------------
(***************************************************************************)
(* Type correctness.                                                       *)
(***************************************************************************)
LEMMA LineType ==
    ASSUME NEW line \in RawLines
    PROVE  CoerceLine(line) \in Lines \cup {None}
  BY DEF CoerceLine, RawLines, Lines

\* The first value that is not None is one of them.
LEMMA FirstIsOne ==
    ASSUME NEW values, NEW n \in Nat, DOMAIN values = 1..n
    PROVE  \/ FirstOf(values) = None
           \/ \E k \in DOMAIN values : FirstOf(values) = values[k]
<1> DEFINE S == {k \in 1..n : values[k] # None}
<1>1. CASE S = {}
  BY <1>1 DEF FirstOf
<1>2. CASE S # {}
  <2>1. PICK m \in S : \A k \in S : m <= k
    <3>1. S \subseteq Nat
      OBVIOUS
    <3> HIDE DEF S
    <3> QED
      BY <1>2, <3>1, SomeLeast
  <2>2. \A j \in 1..(m - 1) : values[j] = None
    BY <2>1
  <2>3. \E k \in DOMAIN values : values[k] # None /\ \A j \in 1..(k - 1) : values[j] = None
    BY <2>1, <2>2
  <2>4. FirstOf(values) = values[CHOOSE k \in DOMAIN values :
                                    values[k] # None /\ \A j \in 1..(k - 1) : values[j] = None]
    BY <1>2 DEF FirstOf
  <2> QED
    BY <2>3, <2>4
<1> QED
  BY <1>1, <1>2

LEMMA EvidenceType ==
    ASSUME NEW entry \in [location : ReportedPaths \cup {None}, line : RawLines]
    PROVE  EvidenceOccurrence(entry) \in Occurrences
<1>1. CoerceLine(entry.line) \in Lines \cup {None}
  BY LineType
<1> QED
  BY <1>1 DEF EvidenceOccurrence, Occurrences

LEMMA PropertiesType ==
    ASSUME NEW c, IsComponent(c)
    PROVE  PropertiesOccurrence(c) \in Occurrences
<1> DEFINE said  == [k \in DOMAIN c.properties |->
                        IF c.properties[k].leaf = "file" THEN c.properties[k].value ELSE None]
           lines == [k \in DOMAIN c.properties |->
                        IF c.properties[k].leaf = "line" THEN CoerceLine(c.properties[k].value)
                        ELSE None]
<1>1. PICK n \in Nat : DOMAIN c.properties = 1..n
  BY DEF IsComponent
<1>2. FirstOf(said) \in ReportedPaths \cup {None}
  <2>1. \A k \in DOMAIN said : said[k] \in ReportedPaths \cup {None}
    BY DEF IsComponent
  <2>2. DOMAIN said = 1..n
    BY <1>1
  <2> HIDE DEF said
  <2> QED
    BY <2>1, <2>2, FirstIsOne
<1>3. FirstOf(lines) \in Lines \cup {None}
  <2>1. \A k \in DOMAIN lines : lines[k] \in Lines \cup {None}
    BY LineType DEF IsComponent
  <2>2. DOMAIN lines = 1..n
    BY <1>1
  <2> HIDE DEF lines
  <2> QED
    BY <2>1, <2>2, FirstIsOne
<1>4. PropertiesOccurrence(c) = [file |-> FirstOf(said), line |-> FirstOf(lines)]
  BY DEF PropertiesOccurrence
<1> HIDE DEF said, lines
<1> QED
  BY <1>2, <1>3, <1>4 DEF Occurrences

LEMMA AssetType ==
    ASSUME NEW n \in Nat, index \in Nat, NEW c, IsComponent(c)
    PROVE  Asset(n, c) \in Assets /\ Asset(n, c).index = index /\ Asset(n, c).node = n
           /\ Asset(n, c).occurrences = ExtractOccurrences(c)
<1>1. Dependency(c) \in BOOLEAN
  BY DEF IsComponent, Dependency
<1>2. ExtractNames(c) \in SUBSET DOMAIN Meaning
  BY DEF IsComponent, ExtractNames
<1>3. ExtractOccurrences(c) \in SUBSET Occurrences
  <2>1. \A k \in DOMAIN c.evidence : EvidenceOccurrence(c.evidence[k]) \in Occurrences
    <3> DEFINE Entry == [location : ReportedPaths \cup {None}, line : RawLines]
    <3>1. c.evidence \in Seq(Entry)
      BY DEF IsComponent
    <3>2. \A entry \in Entry : EvidenceOccurrence(entry) \in Occurrences
      BY EvidenceType
    <3> HIDE DEF Entry
    <3> QED
      BY <3>1, <3>2
  <2> QED
    BY <2>1, PropertiesType DEF ExtractOccurrences
<1> QED
  BY <1>1, <1>2, <1>3 DEF Asset, Assets

LEMMA UnwrappedType ==
    ASSUME document \in Documents, Unwrapped.form = "object"
    PROVE  Unwrapped.components \in Seq(Nat)
  BY DocumentsAssumption DEF Unwrapped

\* What an asset says of where is what its component says.
ReadInv ==
    /\ document \in Documents
    /\ \A k \in DOMAIN assets :
           /\ assets[k].node \in DOMAIN document.node
           /\ assets[k].occurrences = ExtractOccurrences(document.node[assets[k].node])

IInv == TypeOK /\ ReadInv

LEMMA InitIInv == Init => IInv
  BY DocumentsAssumption DEF Init, IInv, TypeOK, ReadInv

LEMMA VisitKeeps == IInv /\ Visit => IInv'
<1> SUFFICES ASSUME IInv, Visit PROVE IInv'
  OBVIOUS
<1> DEFINE c == document.node[Top]
           asset == Asset(Top, c)
<1>1. /\ document \in Documents /\ Top \in DOMAIN document.node /\ Top \in Nat
      /\ IsComponent(c) /\ index \in Nat
  BY DocumentsAssumption DEF IInv, ReadInv, TypeOK, Visit
<1>2. asset \in Assets /\ asset.index = index /\ asset.node = Top
      /\ asset.occurrences = ExtractOccurrences(c)
  BY <1>1, AssetType
<1>3. UNCHANGED <<document, outcome>> /\ index' = index + 1
  BY DEF Visit
<1>4. stack' \in Seq(Nat)
  <2>1. Popped \in Seq(Nat)
    BY DEF IInv, TypeOK, Visit, Popped
  <2>2. c.nested \in Seq(Nat)
    BY <1>1 DEF IsComponent
  <2>3. stack' = Popped \o c.nested
    BY DEF Visit
  <2> QED
    BY <2>1, <2>2, <2>3
<1>5. assets' = assets \/ assets' = Append(assets, asset)
  BY DEF Visit
<1> HIDE DEF asset, c
<1>6. /\ assets' \in Seq(Assets)
      /\ \A k \in DOMAIN assets' : assets'[k] = asset \/ (k \in DOMAIN assets /\ assets'[k] = assets[k])
  <2>1. assets \in Seq(Assets)
    BY DEF IInv, TypeOK
  <2> QED
    BY <2>1, <1>2, <1>5
<1>7. \A k \in DOMAIN assets' : assets'[k].index < index'
  <2> SUFFICES ASSUME NEW k \in DOMAIN assets' PROVE assets'[k].index < index'
    OBVIOUS
  <2>1. CASE assets'[k] = asset
    BY <2>1, <1>1, <1>2, <1>3
  <2>2. CASE k \in DOMAIN assets /\ assets'[k] = assets[k]
    <3>1. assets[k].index < index /\ assets[k] \in Assets
      BY <2>2 DEF IInv, TypeOK
    <3>2. assets[k].index \in Nat
      BY <3>1 DEF Assets
    <3> QED
      BY <2>2, <3>1, <3>2, <1>1, <1>3
  <2> QED
    BY <2>1, <2>2, <1>6
<1>8. TypeOK'
  BY <1>1, <1>3, <1>4, <1>6, <1>7 DEF IInv, TypeOK
<1>9. ReadInv'
  BY <1>1, <1>2, <1>3, <1>6 DEF IInv, ReadInv, c
<1> QED
  BY <1>8, <1>9 DEF IInv

LEMMA NextIInv == IInv /\ [Next]_vars => IInv'
<1> SUFFICES ASSUME IInv, [Next]_vars PROVE IInv'
  OBVIOUS
<1>1. CASE Refuse \/ Raise \/ Return
  BY <1>1 DEF Refuse, Raise, Return, IInv, TypeOK, ReadInv
<1>2. CASE Enter
  <2>1. stack' \in Seq(Nat) /\ outcome' = "reading" /\ UNCHANGED <<document, index, assets>>
    BY <1>2, UnwrappedType DEF Enter, IInv, ReadInv
  <2> QED
    BY <2>1 DEF IInv, TypeOK, ReadInv
<1>3. CASE SkipJunk
  <2>1. stack' \in Seq(Nat) /\ UNCHANGED <<document, index, assets, outcome>>
    BY <1>3 DEF SkipJunk, Popped, IInv, TypeOK
  <2> QED
    BY <2>1 DEF IInv, TypeOK, ReadInv
<1>4. CASE Visit
  BY <1>4, VisitKeeps
<1>5. CASE UNCHANGED vars
  BY <1>5 DEF vars, IInv, TypeOK, ReadInv
<1> QED
  BY <1>1, <1>2, <1>3, <1>4, <1>5 DEF Next

LEMMA Inductive == Spec => []IInv
  BY InitIInv, NextIInv, PTL DEF Spec

\* Whatever is in a document, the parser's locals keep their types: what is called
\* a location or a line in an asset is one, and names are names.
THEOREM TypeCorrect == Spec => []TypeOK
  BY Inductive, PTL DEF IInv

-----------------------------------------------------------------------------
(***************************************************************************)
(* One location, two shapes.                                               *)
(***************************************************************************)
\* Of two values, the first that is not None.
LEMMA FirstOfTwo ==
    ASSUME NEW values, DOMAIN values = 1..2
    PROVE  FirstOf(values) = IF values[1] # None THEN values[1] ELSE values[2]
<1> DEFINE First(k) == values[k] # None /\ \A j \in 1..(k - 1) : values[j] = None
<1>1. CASE values[1] # None
  <2>1. \A k \in 1..2 : First(k) <=> k = 1
    BY <1>1
  <2>2. FirstOf(values) = values[CHOOSE k \in 1..2 : First(k)]
    BY <1>1 DEF FirstOf
  <2> HIDE DEF First
  <2>3. (CHOOSE k \in 1..2 : First(k)) = 1
    BY <2>1
  <2> QED
    BY <1>1, <2>2, <2>3
<1>2. CASE values[1] = None /\ values[2] # None
  <2>1. \A k \in 1..2 : First(k) <=> k = 2
    BY <1>2
  <2>2. FirstOf(values) = values[CHOOSE k \in 1..2 : First(k)]
    BY <1>2 DEF FirstOf
  <2> HIDE DEF First
  <2>3. (CHOOSE k \in 1..2 : First(k)) = 2
    BY <2>1
  <2> QED
    BY <1>2, <2>2, <2>3
<1>3. CASE values[1] = None /\ values[2] = None
  <2>1. \A k \in 1..2 : values[k] = None
    BY <1>3
  <2> QED
    BY <1>3, <2>1 DEF FirstOf
<1> QED
  BY <1>1, <1>2, <1>3

LEMMA ShapesAgree ==
    ASSUME NEW c, IsComponent(c),
           Len(c.evidence) = 1, c.properties = <<>>
    PROVE  ExtractOccurrences(c) = ExtractOccurrences(InProperties(c))
<1> DEFINE e == c.evidence[1]
           moved == InProperties(c)
           properties == <<[leaf |-> "line", value |-> e.line],
                           [leaf |-> "file", value |-> e.location]>>
           occurrence == [file |-> e.location, line |-> CoerceLine(e.line)]
<1>1. DOMAIN c.evidence = {1}
  BY DEF IsComponent
<1>2. moved.evidence = <<>> /\ moved.properties = properties
  BY DEF IsComponent, InProperties
<1>3. {EvidenceOccurrence(c.evidence[k]) : k \in DOMAIN c.evidence} = {occurrence}
  BY <1>1 DEF EvidenceOccurrence
<1>4. PropertiesOccurrence(c) = [file |-> None, line |-> None]
  BY DEF PropertiesOccurrence, FirstOf
<1>5. PropertiesOccurrence(moved) = occurrence
  <2> DEFINE said  == [k \in DOMAIN properties |->
                          IF properties[k].leaf = "file" THEN properties[k].value ELSE None]
             lines == [k \in DOMAIN properties |->
                          IF properties[k].leaf = "line" THEN CoerceLine(properties[k].value)
                          ELSE None]
  <2>1. DOMAIN said = 1..2 /\ said[1] = None /\ said[2] = e.location
    OBVIOUS
  <2>2. DOMAIN lines = 1..2 /\ lines[1] = CoerceLine(e.line) /\ lines[2] = None
    OBVIOUS
  <2>3. PropertiesOccurrence(moved) = [file |-> FirstOf(said), line |-> FirstOf(lines)]
    BY <1>2 DEF PropertiesOccurrence
  <2> HIDE DEF said, lines
  <2>4. FirstOf(said) = e.location /\ FirstOf(lines) = CoerceLine(e.line)
    BY <2>1, <2>2, FirstOfTwo
  <2> QED
    BY <2>3, <2>4
<1>6. ExtractOccurrences(c) = {o \in {occurrence} : o.file # None \/ o.line # None}
  BY <1>3, <1>4 DEF ExtractOccurrences
<1>7. ExtractOccurrences(moved) = {o \in {occurrence} : o.file # None \/ o.line # None}
  BY <1>2, <1>5 DEF ExtractOccurrences
<1> QED
  BY <1>6, <1>7

\* However many components a document has, one that says where in evidence is read
\* as it would be if it said the same in properties.
THEOREM ShapesDoNotMatter == Spec => []ShapesReadAlike
<1>1. IInv => ShapesReadAlike
  <2> SUFFICES ASSUME IInv, NEW k \in DOMAIN assets
               PROVE  LET c == document.node[assets[k].node] IN
                      Len(c.evidence) = 1 /\ c.properties = <<>> =>
                          assets[k].occurrences = ExtractOccurrences(InProperties(c))
    BY DEF ShapesReadAlike
  <2> DEFINE c == document.node[assets[k].node]
  <2>1. IsComponent(c) /\ assets[k].occurrences = ExtractOccurrences(c)
    BY DocumentsAssumption DEF IInv, ReadInv
  <2> HIDE DEF c
  <2>2. Len(c.evidence) = 1 /\ c.properties = <<>> =>
            assets[k].occurrences = ExtractOccurrences(InProperties(c))
    BY <2>1, ShapesAgree
  <2> QED
    BY <2>2 DEF c
<1> QED
  BY <1>1, Inductive, PTL

-----------------------------------------------------------------------------
(***************************************************************************)
(* The file a path means.                                                  *)
(***************************************************************************)
\* Shared(file, path) segments are as many as agree.
LEMMA SharedIsMost ==
    ASSUME NEW file, Len(file) \in Nat, NEW path, Len(path) \in Nat
    PROVE  /\ Shared(file, path) \in 0..Len(path)
           /\ \A n \in Nat : Agree(file, path, n) <=> n <= Shared(file, path)
<1> DEFINE S == {n \in 0..Len(path) : Agree(file, path, n)}
<1>1. 0 \in S
  BY DEF Agree
<1>2. PICK m \in S : \A k \in S : k <= m
  BY <1>1, BoundedMax
<1>3. ~Agree(file, path, m + 1)
  <2>1. Agree(file, path, m + 1) => m + 1 \in S
    BY DEF Agree
  <2> QED
    BY <1>2, <2>1
<1>4. \E n \in 0..Len(path) : Agree(file, path, n) /\ ~Agree(file, path, n + 1)
  BY <1>3
<1>5. PICK s \in 0..Len(path) : /\ s = Shared(file, path)
                                /\ Agree(file, path, s) /\ ~Agree(file, path, s + 1)
  BY <1>4 DEF Shared
<1>6. ASSUME NEW n \in Nat, Agree(file, path, n) PROVE n <= s
  <2>1. CASE s + 1 <= n
    BY <2>1, <1>5, <1>6, AgreeInFewer
  <2> QED
    BY <2>1
<1>7. ASSUME NEW n \in Nat, n <= s PROVE Agree(file, path, n)
  BY <1>5, <1>7, AgreeInFewer
<1> QED
  BY <1>5, <1>6, <1>7

\* To be singled out is to share more of the path than any other file.
LEMMA SingledIsBest ==
    ASSUME NEW files, \A f \in files : Len(f) \in Nat, NEW path, Len(path) \in Nat,
           NEW f \in files
    PROVE  Singled(files, path, f)
               <=> /\ Shared(f, path) > 0
                   /\ \A g \in files \ {f} : Shared(g, path) < Shared(f, path)
<1>1. \A g \in files : /\ Shared(g, path) \in 0..Len(path)
                       /\ \A n \in Nat : Agree(g, path, n) <=> n <= Shared(g, path)
  BY SharedIsMost
<1>2. ASSUME Singled(files, path, f)
      PROVE  /\ Shared(f, path) > 0
             /\ \A g \in files \ {f} : Shared(g, path) < Shared(f, path)
  <2>1. PICK n \in 1..Len(path) : Candidates(files, path, n) = {f}
    BY <1>2 DEF Singled
  <2>2. Agree(f, path, n) /\ \A g \in files \ {f} : ~Agree(g, path, n)
    BY <2>1 DEF Candidates
  <2> QED
    BY <1>1, <2>2
<1>3. ASSUME Shared(f, path) > 0, \A g \in files \ {f} : Shared(g, path) < Shared(f, path)
      PROVE  Singled(files, path, f)
  <2> DEFINE n == Shared(f, path)
  <2>1. n \in 1..Len(path)
    BY <1>1, <1>3
  <2>2. Agree(f, path, n)
    BY <1>1, <2>1
  <2>3. \A g \in files \ {f} : ~Agree(g, path, n)
    BY <1>1, <1>3, <2>1
  <2>4. Candidates(files, path, n) = {f}
    BY <2>2, <2>3 DEF Candidates
  <2> QED
    BY <2>1, <2>4 DEF Singled
<1> QED
  BY <1>2, <1>3

LEMMA BestMatch ==
    ASSUME NEW reported \in ReportedPaths
    PROVE  LET path    == NormalizePath(reported)
               best(f) == /\ Shared(f, path) > 0
                          /\ \A g \in ProjectFiles \ {f} : Shared(g, path) < Shared(f, path)
               file    == ResolvePath(ProjectFiles, reported)
           IN  IF path \in ProjectFiles THEN file = path
               ELSE \A f \in ProjectFiles : file = f <=> best(f)
<1> DEFINE path == NormalizePath(reported)
           file == ResolvePath(ProjectFiles, reported)
<1>1. path \in Seq(Segments \cup {Dot, Empty}) /\ Len(path) \in Nat
  BY NormalizeType DEF ReportedPaths
<1>2. \A f \in ProjectFiles : Len(f) \in Nat /\ f # <<>> /\ f # None
  BY FilesAssumption, SegmentsAssumption DEF ProjectPaths
<1> HIDE DEF path
<1>3. CASE path \in ProjectFiles
  <2>1. file = path
    BY <1>2, <1>3 DEF ResolvePath, path
  <2> QED
    BY <1>3, <2>1 DEF path
<1>4. CASE path \notin ProjectFiles
  <2>1. \A f \in ProjectFiles :
            Singled(ProjectFiles, path, f)
                <=> /\ Shared(f, path) > 0
                    /\ \A g \in ProjectFiles \ {f} : Shared(g, path) < Shared(f, path)
    BY <1>1, <1>2, SingledIsBest
  <2>2. \A f \in ProjectFiles : file = f <=> Singled(ProjectFiles, path, f)
    <3>1. CASE path = <<>>
      <4>1. file = None
        BY <3>1 DEF ResolvePath, path
      <4>2. Len(path) = 0
        BY <3>1
      <4>3. \A f \in ProjectFiles : ~Singled(ProjectFiles, path, f)
        BY <4>2 DEF Singled
      <4> QED
        BY <4>1, <4>3, <1>2
    <3>2. CASE path # <<>>
      <4>1. file = LongestSuffix(ProjectFiles, path)
        BY <3>2, <1>4 DEF ResolvePath, path
      <4>2. \A f \in ProjectFiles : Singled(ProjectFiles, path, f) => file = f
        BY <4>1, <1>1, <1>2, LongestSuffixFinds
      <4>3. (\A f \in ProjectFiles : ~Singled(ProjectFiles, path, f)) => file = None
        BY <4>1, <1>1, <1>2, LongestSuffixFinds
      <4> HIDE DEF file
      <4> QED
        BY <4>2, <4>3, <1>2
    <3> QED
      BY <3>1, <3>2
  <2> QED
    BY <1>4, <2>1, <2>2 DEF path
<1> QED
  BY <1>3, <1>4

\* In a project of any files, a path resolves to the file it names or shares most
\* of its end with, and to none when two share as much.
THEOREM PathsResolveToBest == Spec => []BestMatchWins
<1>1. IInv => BestMatchWins
  <2> SUFFICES ASSUME IInv, NEW k \in DOMAIN assets, NEW o \in assets[k].occurrences,
                      o.file # None
               PROVE  LET path    == NormalizePath(o.file)
                          best(f) == /\ Shared(f, path) > 0
                                     /\ \A g \in ProjectFiles \ {f} :
                                            Shared(g, path) < Shared(f, path)
                          file    == ResolvePath(ProjectFiles, o.file)
                      IN  IF path \in ProjectFiles THEN file = path
                          ELSE \A f \in ProjectFiles : file = f <=> best(f)
    BY DEF BestMatchWins
  <2>1. assets[k] \in Assets
    BY DEF IInv, TypeOK
  <2>2. o \in Occurrences
    BY <2>1 DEF Assets
  <2>3. o.file \in ReportedPaths
    BY <2>2 DEF Occurrences
  <2> QED
    BY <2>3, BestMatch
<1> QED
  BY <1>1, Inductive, PTL

-----------------------------------------------------------------------------
(***************************************************************************)
(* Every component once.  What a walk has still to read is what lies below *)
(* its stack; it has read the rest of the document.                        *)
(***************************************************************************)
LEMMA BelowIsLeast ==
    ASSUME NEW node, NEW top
    PROVE  /\ Below(node, top) \subseteq DOMAIN node
           /\ top \cap DOMAIN node \subseteq Below(node, top)
           /\ Closed(node, Below(node, top))
           /\ \A S \in SUBSET DOMAIN node :
                  top \cap DOMAIN node \subseteq S /\ Closed(node, S) => Below(node, top) \subseteq S
<1>1. Closed(node, Below(node, top))
  <2> SUFFICES ASSUME NEW n \in Below(node, top), NEW c \in Children(node, n)
               PROVE  c \in Below(node, top)
    BY DEF Closed
  <2>1. ASSUME NEW S \in SUBSET DOMAIN node, top \cap DOMAIN node \subseteq S, Closed(node, S)
        PROVE  c \in S
    <3>1. n \in S
      BY <2>1 DEF Below
    <3> QED
      BY <2>1, <3>1 DEF Closed
  <2> QED
    BY <2>1 DEF Below, Children
<1> QED
  BY <1>1 DEF Below

AssetNodes == {assets[k].node : k \in DOMAIN assets}
Pending    == Below(document.node, Members(stack))

OnceOnStack ==
    \A j, k \in DOMAIN stack : stack[j] = stack[k] /\ stack[k] \in DOMAIN document.node => j = k

\* What holds a component that is on the stack has been read.
HoldersVisited ==
    \A n \in Pending : \A k \in DOMAIN stack : stack[k] \notin Children(document.node, n)

RestIsRead ==
    /\ Pending \subseteq Reachable
    /\ AssetNodes = {n \in Reachable \ Pending : Classified(document.node[n])}

ReadOnce == \A j, k \in DOMAIN assets : j # k => assets[j].node # assets[k].node
Indexed  == \A j, k \in DOMAIN assets : j # k => assets[j].index # assets[k].index

WalkInv ==
    /\ outcome = "reading" => OnceOnStack /\ HoldersVisited /\ RestIsRead
    /\ outcome = "unread" => assets = <<>>
    /\ outcome = "parsed" => AssetNodes = {n \in Reachable : Classified(document.node[n])}
    /\ ReadOnce /\ Indexed

\* In a document a component that is held is held by one other and not on top.
LEMMA HeldOnce ==
    ASSUME document \in Documents, Unwrapped.form = "object"
    PROVE  LET top == Unwrapped.components
               node == document.node
           IN  /\ \A j, k \in DOMAIN top : top[j] = top[k] /\ top[k] \in DOMAIN node => j = k
               /\ \A n \in DOMAIN node : \A k \in DOMAIN top : top[k] \notin Children(node, n)
<1> DEFINE left == Cardinality(Stripped) + 1
<1>1. CASE left > Len(document.wrappers)
  <2>1. Unwrapped = document.bom
    BY <1>1 DEF Unwrapped
  <2>2. StandsOnce(document) /\ document.bom.form = "object"
    BY <2>1, TreeAssumption
  <2> QED
    BY <2>1, <2>2 DEF StandsOnce, Children
<1>2. CASE ~(left > Len(document.wrappers))
  <2>1. Unwrapped.components = <<>>
    BY <1>2 DEF Unwrapped
  <2> QED
    BY <2>1
<1> QED
  BY <1>1, <1>2

LEMMA OneHolder ==
    ASSUME document \in Documents,
           NEW m \in DOMAIN document.node, NEW n \in DOMAIN document.node
    PROVE  LET node == document.node IN
           /\ \A j, k \in DOMAIN node[n].nested :
                  node[n].nested[j] = node[n].nested[k] /\ node[n].nested[k] \in DOMAIN node => j = k
           /\ m # n => Children(node, m) \cap Children(node, n) = {}
<1>1. StandsOnce(document)
  BY TreeAssumption
<1> QED
  BY <1>1 DEF StandsOnce, Children

\* Taking one off the stack leaves what else is below it.
LEMMA VisitLeaves ==
    ASSUME NEW node, NEW old, NEW new, NEW n \in DOMAIN node, n \in old,
           new \cap DOMAIN node = ((old \ {n}) \cap DOMAIN node) \cup Children(node, n),
           \A m \in Below(node, old) : \A c \in old : c \notin Children(node, m)
    PROVE  Below(node, new) = Below(node, old) \ {n}
<1> DEFINE B == Below(node, old)
           C == Below(node, new)
<1>1. /\ B \subseteq DOMAIN node /\ old \cap DOMAIN node \subseteq B /\ Closed(node, B)
      /\ C \subseteq DOMAIN node /\ new \cap DOMAIN node \subseteq C /\ Closed(node, C)
  BY BelowIsLeast
<1>2. n \in B
  BY <1>1
<1> HIDE DEF B, C
<1>3. \A m \in B : n \notin Children(node, m)
  BY DEF B
<1>4. C \subseteq B \ {n}
  <2>1. new \cap DOMAIN node \subseteq B \ {n}
    BY <1>1, <1>2, <1>3 DEF Closed
  <2>2. Closed(node, B \ {n})
    BY <1>1, <1>3 DEF Closed
  <2> QED
    BY <1>1, <2>1, <2>2, BelowIsLeast DEF C
<1>5. B \subseteq C \cup {n}
  <2>1. old \cap DOMAIN node \subseteq C \cup {n}
    BY <1>1
  <2>2. Closed(node, C \cup {n})
    BY <1>1 DEF Closed
  <2> QED
    BY <1>1, <2>1, <2>2, BelowIsLeast DEF B
<1> QED
  BY <1>4, <1>5 DEF B, C

LEMMA BelowOfComponents ==
    ASSUME NEW node, NEW old, NEW new, new \cap DOMAIN node = old \cap DOMAIN node
    PROVE  Below(node, new) = Below(node, old)
  BY DEF Below

LEMMA EnterWalks == IInv /\ WalkInv /\ Enter => WalkInv'
<1> SUFFICES ASSUME IInv, WalkInv, Enter PROVE WalkInv'
  OBVIOUS
<1>1. /\ stack' = Unwrapped.components /\ outcome' = "reading"
      /\ UNCHANGED <<document, index, assets>> /\ assets = <<>> /\ document \in Documents
  BY DEF Enter, WalkInv, IInv, ReadInv
<1>2. OnceOnStack'
  BY <1>1, HeldOnce DEF Enter, OnceOnStack
<1>3. Reachable' = Reachable /\ Pending' = Reachable
  BY <1>1 DEF Reachable, Pending, Unwrapped, Stripped, Holds
<1>4. HoldersVisited'
  <2>1. Reachable \subseteq DOMAIN document.node
    BY DEF Reachable, Below
  <2> QED
    BY <1>1, <1>3, <2>1, HeldOnce DEF Enter, HoldersVisited
<1>5. RestIsRead'
  BY <1>1, <1>3 DEF RestIsRead, AssetNodes
<1>6. ReadOnce' /\ Indexed'
  BY <1>1 DEF ReadOnce, Indexed
<1> QED
  BY <1>1, <1>2, <1>4, <1>5, <1>6 DEF WalkInv

LEMMA SkipJunkWalks == IInv /\ WalkInv /\ SkipJunk => WalkInv'
<1> SUFFICES ASSUME IInv, WalkInv, SkipJunk PROVE WalkInv'
  OBVIOUS
<1>1. /\ stack' = Popped /\ outcome = "reading" /\ outcome' = "reading"
      /\ UNCHANGED <<document, index, assets>> /\ stack \in Seq(Nat) /\ stack # <<>>
      /\ Top \notin DOMAIN document.node
  BY DEF SkipJunk, IInv, TypeOK
<1>2. /\ \A k \in DOMAIN stack' : k \in DOMAIN stack /\ stack'[k] = stack[k]
      /\ \A k \in DOMAIN stack : k \in DOMAIN stack' \/ stack[k] = Top
  BY <1>1 DEF Popped, Top
<1>3. OnceOnStack'
  BY <1>1, <1>2 DEF WalkInv, OnceOnStack
<1>4. Reachable' = Reachable /\ Pending' = Pending
  <2>1. Reachable' = Reachable
    BY <1>1 DEF Reachable, Unwrapped, Stripped, Holds
  <2>2. Members(stack') \cap DOMAIN document.node = Members(stack) \cap DOMAIN document.node
    BY <1>1, <1>2 DEF Members
  <2>3. Below(document.node, Members(stack')) = Below(document.node, Members(stack))
    BY <2>2, BelowOfComponents
  <2> QED
    BY <1>1, <2>1, <2>3 DEF Pending
<1>5. HoldersVisited' /\ RestIsRead'
  BY <1>1, <1>2, <1>4 DEF WalkInv, HoldersVisited, RestIsRead, AssetNodes
<1>6. ReadOnce' /\ Indexed'
  BY <1>1 DEF WalkInv, ReadOnce, Indexed
<1> QED
  BY <1>1, <1>3, <1>5, <1>6 DEF WalkInv

\* The last of a sequence replaced by another sequence.
LEMMA Replaced ==
    ASSUME NEW s \in Seq(Nat), s # <<>>, NEW t \in Seq(Nat)
    PROVE  LET n == Len(s) - 1
               r == SubSeq(s, 1, n) \o t
           IN  /\ \A k \in DOMAIN r : \/ k \in DOMAIN s /\ k # Len(s) /\ r[k] = s[k]
                                      \/ k - n \in DOMAIN t /\ r[k] = t[k - n]
               /\ \A k \in DOMAIN s \ {Len(s)} : k \in DOMAIN r /\ r[k] = s[k]
               /\ \A k \in DOMAIN t : k + n \in DOMAIN r /\ r[k + n] = t[k]
<1> DEFINE n == Len(s) - 1
           q == SubSeq(s, 1, n)
<1>1. n \in Nat /\ Len(s) = n + 1 /\ DOMAIN s = 1..(n + 1) /\ \A k \in 1..(n + 1) : s[k] \in Nat
  <2>1. Len(s) \in Nat /\ DOMAIN s = 1..Len(s) /\ \A k \in 1..Len(s) : s[k] \in Nat
    OBVIOUS
  <2>2. Len(s) # 0
    BY EmptySeq
  <2> QED
    BY <2>1, <2>2
<1>2. q \in Seq(Nat) /\ Len(q) = n /\ \A k \in 1..n : q[k] = s[k]
  <2> HIDE DEF n
  <2>1. \A k \in 1..n : s[k] \in Nat
    BY <1>1
  <2>2. /\ SubSeq(s, 1, n) \in Seq(Nat)
        /\ Len(SubSeq(s, 1, n)) = IF 1 <= n THEN n - 1 + 1 ELSE 0
        /\ \A k \in 1..n - 1 + 1 : SubSeq(s, 1, n)[k] = s[1 + k - 1]
    BY <1>1, <2>1, SubSeqProperties
  <2> QED
    BY <1>1, <2>2
<1> HIDE DEF q, n
<1>3. /\ q \o t \in Seq(Nat) /\ DOMAIN (q \o t) = 1..(n + Len(t))
      /\ Len(t) \in Nat /\ DOMAIN t = 1..Len(t)
      /\ \A k \in 1..(n + Len(t)) : (q \o t)[k] = IF k <= n THEN q[k] ELSE t[k - n]
  <2>1. /\ q \o t \in Seq(Nat) /\ Len(q \o t) = Len(q) + Len(t)
        /\ \A k \in 1..(Len(q) + Len(t)) : (q \o t)[k] = IF k <= Len(q) THEN q[k] ELSE t[k - Len(q)]
    <3>1. q \in Seq(Nat) /\ t \in Seq(Nat)
      BY <1>2
    <3> QED
      BY ONLY <3>1, ConcatProperties, Zenon
  <2>2. DOMAIN (q \o t) = 1..Len(q \o t) /\ Len(t) \in Nat /\ DOMAIN t = 1..Len(t)
    BY <2>1
  <2>3. Len(q) = n
    BY <1>2
  <2> QED
    BY <2>1, <2>2, <2>3
<1>4. DOMAIN s = 1..(n + 1)
  BY <1>1
<1>5. \A k \in 1..(n + Len(t)) : k <= n \/ k - n \in 1..Len(t)
  BY <1>1, <1>3
<1>6. \A k \in 1..Len(t) : k + n \in 1..(n + Len(t)) /\ ~(k + n <= n) /\ (k + n) - n = k
  BY <1>1, <1>3
<1>7. \A k \in 1..(n + Len(t)) :
          \/ k \in 1..(n + 1) /\ k # n + 1 /\ (q \o t)[k] = s[k]
          \/ k - n \in 1..Len(t) /\ (q \o t)[k] = t[k - n]
  <2> SUFFICES ASSUME NEW k \in 1..(n + Len(t))
               PROVE  \/ k \in 1..(n + 1) /\ k # n + 1 /\ (q \o t)[k] = s[k]
                      \/ k - n \in 1..Len(t) /\ (q \o t)[k] = t[k - n]
    OBVIOUS
  <2>1. (q \o t)[k] = IF k <= n THEN q[k] ELSE t[k - n]
    BY <1>3
  <2>2. CASE k <= n
    <3>1. k \in 1..n /\ k \in 1..(n + 1) /\ k # n + 1
      BY <1>1, <1>3, <2>2
    <3> QED
      BY <1>2, <2>1, <2>2, <3>1
  <2>3. CASE ~(k <= n)
    BY <1>5, <2>1, <2>3
  <2> QED
    BY <2>2, <2>3
<1>8. \A k \in 1..(n + 1) \ {n + 1} : k \in 1..(n + Len(t)) /\ (q \o t)[k] = s[k]
  <2> SUFFICES ASSUME NEW k \in 1..(n + 1), k # n + 1
               PROVE  k \in 1..(n + Len(t)) /\ (q \o t)[k] = s[k]
    OBVIOUS
  <2>1. k \in 1..(n + Len(t)) /\ k \in 1..n /\ k <= n
    BY <1>1, <1>3
  <2> QED
    BY <1>2, <1>3, <2>1
<1>9. \A k \in 1..Len(t) : k + n \in 1..(n + Len(t)) /\ (q \o t)[k + n] = t[k]
  BY <1>3, <1>6
<1>10. Len(s) - 1 = n /\ SubSeq(s, 1, Len(s) - 1) = q
  BY <1>1 DEF q, n
<1> QED
  BY <1>1, <1>3, <1>4, <1>7, <1>8, <1>9, <1>10

LEMMA VisitWalks == IInv /\ WalkInv /\ Visit => WalkInv'
<1> SUFFICES ASSUME IInv, WalkInv, Visit PROVE WalkInv'
  OBVIOUS
<1> DEFINE node  == document.node
           c     == node[Top]
           asset == Asset(Top, c)
<1>1. /\ outcome = "reading" /\ outcome' = "reading" /\ UNCHANGED document /\ index' = index + 1
      /\ document \in Documents /\ stack \in Seq(Nat) /\ stack # <<>>
      /\ Top \in DOMAIN node /\ IsComponent(c) /\ c.nested \in Seq(Nat)
      /\ stack' = Popped \o c.nested
  BY DocumentsAssumption DEF Visit, IInv, ReadInv, TypeOK, IsComponent
<1>2. OnceOnStack /\ HoldersVisited /\ RestIsRead /\ ReadOnce /\ Indexed
  BY <1>1 DEF WalkInv
<1>3. Len(stack) \in DOMAIN stack /\ Top = stack[Len(stack)]
  BY <1>1 DEF Top
<1>4. \* Where what is on the stack comes from.
      /\ \A k \in DOMAIN stack' :
             \/ k \in DOMAIN stack /\ k # Len(stack) /\ stack'[k] = stack[k]
             \/ /\ k - (Len(stack) - 1) \in DOMAIN c.nested
                /\ stack'[k] = c.nested[k - (Len(stack) - 1)]
      /\ \A k \in DOMAIN stack \ {Len(stack)} : k \in DOMAIN stack' /\ stack'[k] = stack[k]
      /\ \A k \in DOMAIN c.nested : /\ k + (Len(stack) - 1) \in DOMAIN stack'
                                    /\ stack'[k + (Len(stack) - 1)] = c.nested[k]
  <2> HIDE DEF c
  <2> QED
    BY <1>1, Replaced DEF Popped
<1>5. Children(node, Top) = Members(c.nested) \cap DOMAIN node
  BY DEF Children, Members
<1>6. /\ Pending \subseteq DOMAIN node /\ Members(stack) \cap DOMAIN node \subseteq Pending
      /\ Top \in Pending
  BY <1>1, <1>3, BelowIsLeast DEF Pending, Members
<1> HIDE DEF c, asset
<1>7. Members(stack') \cap DOMAIN node
          = ((Members(stack) \ {Top}) \cap DOMAIN node) \cup Children(node, Top)
  <2>1. \A x \in Members(stack') \cap DOMAIN node :
            x \in Members(stack) \ {Top} \/ x \in Members(c.nested)
    BY <1>1, <1>2, <1>3, <1>4 DEF Members, OnceOnStack
  <2>2. \A x \in Members(stack) \ {Top} : x \in Members(stack')
    BY <1>3, <1>4 DEF Members
  <2>3. Members(c.nested) \subseteq Members(stack')
    BY <1>4 DEF Members
  <2> QED
    BY <1>5, <2>1, <2>2, <2>3
<1>8. Pending' = Pending \ {Top}
  <2>1. \A m \in Pending : \A x \in Members(stack) : x \notin Children(node, m)
    BY <1>2 DEF HoldersVisited, Members
  <2>2. Below(node, Members(stack')) = Below(node, Members(stack)) \ {Top}
    <3>1. Top \in Members(stack)
      BY <1>3 DEF Members
    <3> HIDE DEF node
    <3> QED
      BY <1>1, <1>7, <2>1, <3>1, VisitLeaves DEF Pending, node
  <2> QED
    BY <1>1, <2>2 DEF Pending
<1>9. Reachable' = Reachable
  BY <1>1 DEF Reachable, Unwrapped, Stripped, Holds
<1>10. OnceOnStack'
  <2> SUFFICES ASSUME NEW j \in DOMAIN stack', NEW k \in DOMAIN stack',
                      stack'[j] = stack'[k], stack'[k] \in DOMAIN node
               PROVE  j = k
    BY <1>1 DEF OnceOnStack
  <2> DEFINE n == Len(stack) - 1
             Old(i) == i \in DOMAIN stack /\ stack'[i] = stack[i]
             New(i) == i - n \in DOMAIN c.nested /\ stack'[i] = c.nested[i - n]
  <2>1. (Old(j) \/ New(j)) /\ (Old(k) \/ New(k))
    BY <1>4
  <2>2. \A i \in DOMAIN stack' : New(i) /\ stack'[i] \in DOMAIN node => stack'[i] \in Children(node, Top)
    BY <1>5 DEF Members
  <2>3. CASE Old(j) /\ Old(k)
    BY <1>2, <2>3 DEF OnceOnStack
  <2>4. CASE New(j) /\ New(k)
    <3>1. j - n = k - n
      BY <1>1, <2>4, OneHolder DEF c
    <3> QED
      BY <1>1, <3>1
  <2>5. CASE (Old(j) /\ New(k)) \/ (New(j) /\ Old(k))
    BY <1>2, <1>6, <2>2, <2>5 DEF HoldersVisited
  <2> QED
    BY <2>1, <2>3, <2>4, <2>5
<1>11. HoldersVisited'
  <2> SUFFICES ASSUME NEW m \in Pending \ {Top}, NEW k \in DOMAIN stack',
                      stack'[k] \in Children(node, m)
               PROVE  FALSE
    BY <1>1, <1>8 DEF HoldersVisited
  <2>1. CASE k \in DOMAIN stack /\ stack'[k] = stack[k]
    BY <1>2, <2>1 DEF HoldersVisited
  <2>2. CASE k - (Len(stack) - 1) \in DOMAIN c.nested /\ stack'[k] = c.nested[k - (Len(stack) - 1)]
    <3>1. stack'[k] \in Children(node, Top)
      BY <1>5, <2>2 DEF Members, Children
    <3> QED
      BY <1>1, <1>6, <3>1, OneHolder
  <2> QED
    BY <1>4, <2>1, <2>2
<1>12. /\ assets' = IF Classified(c) THEN Append(assets, asset) ELSE assets
       /\ asset.node = Top /\ asset.index = index /\ assets \in Seq(Assets)
  <2>1. Top \in Nat /\ index \in Nat /\ assets \in Seq(Assets)
    BY <1>1, DocumentsAssumption DEF IInv, TypeOK
  <2> QED
    BY <1>1, <2>1, AssetType DEF Visit, c, asset
<1>13. /\ \A k \in DOMAIN assets : k \in DOMAIN assets' /\ assets'[k] = assets[k]
       /\ \A k \in DOMAIN assets' :
              \/ k \in DOMAIN assets
              \/ k = Len(assets) + 1 /\ assets'[k] = asset /\ Classified(c)
       /\ Classified(c) => Len(assets) + 1 \in DOMAIN assets' /\ assets'[Len(assets) + 1] = asset
  <2>1. asset \in Assets
    BY <1>1, DocumentsAssumption, AssetType DEF IInv, TypeOK, asset
  <2> QED
    BY <1>12, <2>1
<1>14. AssetNodes' = IF Classified(c) THEN AssetNodes \cup {Top} ELSE AssetNodes
  BY <1>12, <1>13 DEF AssetNodes
<1>15. RestIsRead'
  BY <1>1, <1>2, <1>6, <1>8, <1>9, <1>14 DEF RestIsRead, c
<1>16. ReadOnce' /\ Indexed'
  <2>1. \A k \in DOMAIN assets : assets[k].node # Top
    BY <1>2, <1>6 DEF RestIsRead, AssetNodes
  <2>2. \A k \in DOMAIN assets : assets[k].index # index
    <3>1. \A k \in DOMAIN assets : assets[k] \in Assets /\ assets[k].index < index
      BY DEF IInv, TypeOK
    <3>2. \A k \in DOMAIN assets : assets[k].index \in Nat
      BY <3>1 DEF Assets
    <3> QED
      BY <3>1, <3>2 DEF IInv, TypeOK
  <2> QED
    BY <1>2, <1>12, <1>13, <2>1, <2>2 DEF ReadOnce, Indexed
<1> QED
  BY <1>1, <1>10, <1>11, <1>15, <1>16 DEF WalkInv

LEMMA NextWalks == IInv /\ WalkInv /\ [Next]_vars => WalkInv'
<1> SUFFICES ASSUME IInv, WalkInv, [Next]_vars PROVE WalkInv'
  OBVIOUS
<1>1. CASE Enter \/ SkipJunk \/ Visit
  BY <1>1, EnterWalks, SkipJunkWalks, VisitWalks
<1>2. CASE Refuse \/ Raise
  BY <1>2 DEF Refuse, Raise, WalkInv, ReadOnce, Indexed
<1>3. CASE Return
  <2>1. /\ outcome = "reading" /\ stack = <<>> /\ outcome' = "parsed"
        /\ UNCHANGED <<document, stack, index, assets>>
    BY <1>3 DEF Return
  <2>2. Pending = {}
    <3>1. Members(stack) = {}
      BY <2>1 DEF Members
    <3>2. Closed(document.node, {})
      BY DEF Closed
    <3> QED
      BY <3>1, <3>2, BelowIsLeast DEF Pending
  <2>3. Reachable' = Reachable /\ AssetNodes' = AssetNodes
    BY <2>1 DEF Reachable, AssetNodes, Unwrapped, Stripped, Holds
  <2> QED
    BY <2>1, <2>2, <2>3 DEF WalkInv, RestIsRead, ReadOnce, Indexed
<1>4. CASE UNCHANGED vars
  <2>1. Reachable' = Reachable /\ AssetNodes' = AssetNodes
    BY <1>4 DEF vars, Reachable, AssetNodes, Unwrapped, Stripped, Holds
  <2>2. Pending' = Pending
    BY <1>4 DEF vars, Pending, Members
  <2> QED
    BY <1>4, <2>1, <2>2 DEF vars, WalkInv, OnceOnStack, HoldersVisited, RestIsRead, ReadOnce, Indexed
<1> QED
  BY <1>1, <1>2, <1>3, <1>4 DEF Next

\* In any document, however deep its components lie, the walk reads each of those
\* that are assets or dependencies once and under an index of its own, whatever
\* else lies beside them.
THEOREM ComponentsAreRead == Spec => []EveryComponentRead
<1>1. Init => WalkInv
  BY DEF Init, WalkInv, ReadOnce, Indexed
<1>2. Spec => []WalkInv
  BY <1>1, NextWalks, Inductive, PTL DEF Spec
<1>3. WalkInv => EveryComponentRead
  BY DEF WalkInv, EveryComponentRead, AssetNodes, ReadOnce, Indexed
<1> QED
  BY <1>2, <1>3, PTL
-----------------------------------------------------------------------------
(***************************************************************************)
(* Names.  That the tables read a name as a reader does is a fact about    *)
(* each name of a vocabulary, and TLC's; what follows from it is not.      *)
(***************************************************************************)
WellRead == DOMAIN Meaning \ Misread

VocabularyRead == \A name \in WellRead : FamiliesOf(name) = Meaning[name]

\* Plants name an algorithm and are read so, and of one that a name may mean no
\* size runs into another number.
PlantsAreNamed ==
    \A planted \in Planted :
        /\ planted \in WellRead /\ Meaning[planted] # {}
        /\ \A name \in WellRead :
               Meaning[name] = Meaning[planted] => Parameters(name) = Sizes(name)

LEMMA NamesAreInVocabulary ==
    ASSUME TypeOK, NEW k \in DOMAIN assets
    PROVE  assets[k].names \subseteq DOMAIN Meaning
<1>1. assets[k] \in Assets
  BY DEF TypeOK
<1> QED
  BY <1>1 DEF Assets

\* Of two names with families: they share one, and not all of them at different
\* sizes.
LEMMA CompatibleIs ==
    ASSUME NEW planted, NEW name, FamiliesOf(planted) # {}, FamiliesOf(name) # {}
    PROVE  AlgorithmsCompatible(planted, name)
               <=> /\ FamiliesOf(planted) \cap FamiliesOf(name) # {}
                   /\ FamiliesOf(planted) = FamiliesOf(name) =>
                          \/ Parameters(planted) = {} \/ Parameters(name) = {}
                          \/ Parameters(planted) \cap Parameters(name) # {}
  BY DEF AlgorithmsCompatible, Contradicts

\* Where the tables read the names outside Misread as meant, each of these answers
\* the plants of its families at no other size, and no others, whatever tokens the
\* two share besides.
THEOREM AnswersFollowReadings ==
    VocabularyRead /\ PlantsAreNamed => (Spec => []NamesAnswerAsMeant)
<1> SUFFICES ASSUME VocabularyRead, PlantsAreNamed PROVE Spec => []NamesAnswerAsMeant
  OBVIOUS
<1>1. TypeOK => NamesAnswerAsMeant
  <2> SUFFICES ASSUME TypeOK, NEW k \in DOMAIN assets, NEW name \in assets[k].names \ Misread,
                      NEW planted \in Planted, Meaning[name] # {}
               PROVE  AlgorithmsCompatible(planted, name)
                          <=> /\ Meaning[planted] \cap Meaning[name] # {}
                              /\ Meaning[planted] = Meaning[name] =>
                                     \/ Sizes(planted) = {} \/ Sizes(name) = {}
                                     \/ Sizes(planted) \cap Sizes(name) # {}
    BY DEF NamesAnswerAsMeant
  <2>1. name \in WellRead /\ planted \in WellRead /\ Meaning[planted] # {}
    BY NamesAreInVocabulary DEF PlantsAreNamed, WellRead
  <2>2. FamiliesOf(name) = Meaning[name] /\ FamiliesOf(planted) = Meaning[planted]
    BY <2>1 DEF VocabularyRead
  <2>3. Meaning[planted] = Meaning[name] =>
            Parameters(planted) = Sizes(planted) /\ Parameters(name) = Sizes(name)
    BY <2>1 DEF PlantsAreNamed
  <2> QED
    BY <2>1, <2>2, <2>3, CompatibleIs
<1> QED
  BY <1>1, TypeCorrect, PTL

\* By components that are read as meant a different family is credited through
\* names without a family only, the bare numbers among them: where no name lacks
\* one it never is.
THEOREM OnlyTheNamelessAreCredited ==
    VocabularyRead /\ PlantsAreNamed /\ (\A name \in WellRead : Meaning[name] # {})
        => (Spec => []DifferentFamilyNeverCredited)
<1> SUFFICES ASSUME VocabularyRead, PlantsAreNamed,
                    \A name \in WellRead : Meaning[name] # {}
             PROVE  Spec => []DifferentFamilyNeverCredited
  OBVIOUS
<1>1. TypeOK => DifferentFamilyNeverCredited
  <2> SUFFICES ASSUME TypeOK, NEW k \in DOMAIN assets, NEW planted \in Planted,
                      assets[k].names \cap Misread = {}, NEW name \in assets[k].names,
                      (UNION {Meaning[n] : n \in assets[k].names}) \cap Meaning[planted] = {}
               PROVE  ~AlgorithmsCompatible(planted, name)
    BY DEF DifferentFamilyNeverCredited
  <2>1. name \in WellRead /\ planted \in WellRead
    BY NamesAreInVocabulary DEF PlantsAreNamed, WellRead
  <2>2. /\ FamiliesOf(name) = Meaning[name] /\ FamiliesOf(planted) = Meaning[planted]
        /\ Meaning[name] # {} /\ Meaning[planted] # {}
    BY <2>1 DEF VocabularyRead
  <2>3. Meaning[planted] \cap Meaning[name] = {}
    OBVIOUS
  <2> QED
    BY <2>2, <2>3, CompatibleIs
<1> QED
  BY <1>1, TypeCorrect, PTL
=============================================================================
