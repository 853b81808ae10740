------------------------------- MODULE Reading ------------------------------
(***************************************************************************)
(* Reading a CBOM (proofstein/cbom.py): from the parsed JSON a generator   *)
(* wrote to the assets that are scored, with the matcher (Names) and the   *)
(* resolver (Paths) applied to what was read.  The components of a         *)
(* document are numbered; they lie in a forest.                            *)
(***************************************************************************)
EXTENDS Names, Paths, Integers, FiniteSets

CONSTANTS
    Documents,       \* documents to read
    Meaning,         \* the families a reader sees in a name
    Misread,         \* the names, known to us, in which the tables see others
    Planted,         \* names of planted algorithms
    ProjectFiles     \* the files of the project that was scanned

\* A line as JSON has it, and a component.
RawLines == [form : {"number", "text", "boolean", "prose"}, value : Int]

CryptoFields == {"oid", "parameterSetIdentifier", "primitive", "curve", "material",
                 "protocol", "protocolVersion"}
Fields       == {"name", "version"} \cup CryptoFields

MaxUnwraps == 8

IsComponent(c) ==
    /\ {"evidence", "properties"} \subseteq DOMAIN c
    /\ c.crypto \in BOOLEAN
    /\ c.fields \in SUBSET (Fields \X DOMAIN Meaning)
    /\ c.evidence \in Seq([location : ReportedPaths \cup {None}, line : RawLines])
    /\ Len(c.properties) \in Nat /\ DOMAIN c.properties = 1..Len(c.properties)
    /\ \A k \in DOMAIN c.properties :
           LET p == c.properties[k] IN
           /\ p.leaf = "file" => p.value \in ReportedPaths \cup {None}
           /\ p.leaf = "line" => p.value \in RawLines
    /\ c.nested \in Seq(Nat)

ASSUME DocumentsAssumption ==
    \A d \in Documents :
        /\ d.wrappers \in Seq({"list", "bom"})
        /\ d.bom.form \in {"object", "other", "invalid", "uniterable"}
        /\ d.bom.form = "object" => d.bom.components \in Seq(Nat)
        /\ DOMAIN d.node \subseteq Nat
        /\ \A n \in DOMAIN d.node : IsComponent(d.node[n])

\* JSON is a tree: an object stands in one place of it.
StandsOnce(d) ==
    LET top       == IF d.bom.form = "object" THEN d.bom.components ELSE <<>>
        nested(n) == d.node[n].nested
    IN  /\ \A j, k \in DOMAIN top : top[j] = top[k] /\ top[k] \in DOMAIN d.node => j = k
        /\ \A n \in DOMAIN d.node : \A k \in DOMAIN nested(n) :
               nested(n)[k] \in DOMAIN d.node =>
                   /\ \A j \in DOMAIN top : top[j] # nested(n)[k]
                   /\ \A m \in DOMAIN d.node : \A j \in DOMAIN nested(m) :
                          nested(m)[j] = nested(n)[k] => m = n /\ j = k

ASSUME TreeAssumption == \A d \in Documents : StandsOnce(d)

ASSUME MisreadAssumption == Misread \subseteq DOMAIN Meaning

ASSUME FilesAssumption == ProjectFiles \subseteq ProjectPaths

VARIABLES document, stack, index, assets, outcome

vars == <<document, stack, index, assets, outcome>>

-----------------------------------------------------------------------------
(***************************************************************************)
(* One component: c.  A line is told with its JSON form: a number, text    *)
(* that spells one, a boolean (an int to Python), or anything else.        *)
(***************************************************************************)
\* Faulty variant: zero and negative numbers are lines.
CoerceLineSigned(line) == IF line.form \in {"number", "text"} THEN line.value ELSE None

CoerceLine(line) ==
    IF line.form \in {"number", "text"} /\ line.value > 0 THEN line.value ELSE None

Dependency(c) == ~c.crypto /\ c.type \in {"library", "framework"}

Classified(c) == Dependency(c) \/ c.type = "cryptographic-asset" \/ c.crypto

ExtractNames(c) == {f[2] : f \in {g \in c.fields : g[1] \in CryptoFields => c.crypto}}

\* The first of the values that is not None.
FirstOf(values) ==
    IF \A k \in DOMAIN values : values[k] = None THEN None
    ELSE values[CHOOSE k \in DOMAIN values :
                    values[k] # None /\ \A j \in 1..(k - 1) : values[j] = None]

\* properties[]: the first file and the first line that can be read make one
\* occurrence between them, whichever properties they stand in.
PropertiesOccurrence(c) ==
    LET said(leaf) == [k \in DOMAIN c.properties |->
                          IF c.properties[k].leaf = leaf THEN c.properties[k].value ELSE None]
        lines == [k \in DOMAIN c.properties |->
                     IF c.properties[k].leaf = "line" THEN CoerceLine(c.properties[k].value)
                     ELSE None]
    IN  [file |-> FirstOf(said("file")), line |-> FirstOf(lines)]

\* Faulty variant: in evidence, a line that is spelled out is not read.
EvidenceOccurrenceNumbers(entry) ==
    [file |-> entry.location,
     line |-> IF entry.line.form = "number" THEN CoerceLine(entry.line) ELSE None]

EvidenceOccurrence(entry) == [file |-> entry.location, line |-> CoerceLine(entry.line)]

\* Said once or twice, a location is the same location.
ExtractOccurrences(c) ==
    {o \in {EvidenceOccurrence(c.evidence[k]) : k \in DOMAIN c.evidence}
            \cup {PropertiesOccurrence(c)} : o.file # None \/ o.line # None}

Asset(n, c) ==
    [node |-> n, index |-> index, dependency |-> Dependency(c),
     names |-> ExtractNames(c), occurrences |-> ExtractOccurrences(c)]

-----------------------------------------------------------------------------
Init ==
    /\ document \in Documents
    /\ stack = <<>>
    /\ index = 0
    /\ assets = <<>>
    /\ outcome = "unread"

(***************************************************************************)
(* unwrap_bom: a list stands for its first element, {"bom": {...}} for     *)
(* what it holds, and neither more than eight deep.                        *)
(***************************************************************************)
Holds(k) ==
    IF k < Len(document.wrappers) THEN document.wrappers[k + 1] = "bom"
    ELSE document.bom.form \in {"object", "uniterable"}

Stripped ==
    {k \in 1..Len(document.wrappers) :
        /\ k <= MaxUnwraps
        /\ \A j \in 1..k : document.wrappers[j] = "list" \/ Holds(j)}

Unwrapped ==
    LET left == Cardinality(Stripped) + 1 IN
    IF left > Len(document.wrappers) THEN document.bom
    ELSE IF document.wrappers[left] = "bom" THEN [form |-> "object", components |-> <<>>]
    ELSE [form |-> "other"]

\* invalid JSON, and a document without a BOM object
Refuse ==
    /\ outcome = "unread"
    /\ Unwrapped.form \in {"invalid", "other"}
    /\ outcome' = "refused"
    /\ UNCHANGED <<document, stack, index, assets>>

\* components is a number: list() raises
Raise ==
    /\ outcome = "unread"
    /\ Unwrapped.form = "uniterable"
    /\ outcome' = "raised"
    /\ UNCHANGED <<document, stack, index, assets>>

Enter ==
    /\ outcome = "unread"
    /\ Unwrapped.form = "object"
    /\ outcome' = "reading"
    /\ stack' = Unwrapped.components
    /\ UNCHANGED <<document, index, assets>>

Top    == stack[Len(stack)]
Popped == SubSeq(stack, 1, Len(stack) - 1)

\* Faulty variant: what is no object is looked at and left on the stack.
SkipJunkKeeping ==
    /\ outcome = "reading"
    /\ stack # <<>>
    /\ Top \notin DOMAIN document.node
    /\ UNCHANGED vars

SkipJunk ==
    /\ outcome = "reading"
    /\ stack # <<>>
    /\ Top \notin DOMAIN document.node
    /\ stack' = Popped
    /\ UNCHANGED <<document, index, assets, outcome>>

\* Faulty variant: what a component holds takes the place of its siblings.
VisitReplacing ==
    /\ outcome = "reading"
    /\ stack # <<>>
    /\ Top \in DOMAIN document.node
    /\ LET c == document.node[Top] IN
       /\ assets' = IF Classified(c) THEN Append(assets, Asset(Top, c)) ELSE assets
       /\ stack' = IF c.nested = <<>> THEN Popped ELSE c.nested
    /\ index' = index + 1
    /\ UNCHANGED <<document, outcome>>

Visit ==
    /\ outcome = "reading"
    /\ stack # <<>>
    /\ Top \in DOMAIN document.node
    /\ LET c == document.node[Top] IN
       /\ assets' = IF Classified(c) THEN Append(assets, Asset(Top, c)) ELSE assets
       /\ stack' = Popped \o c.nested
    /\ index' = index + 1
    /\ UNCHANGED <<document, outcome>>

Return ==
    /\ outcome = "reading"
    /\ stack = <<>>
    /\ outcome' = "parsed"
    /\ UNCHANGED <<document, stack, index, assets>>

Next == Refuse \/ Raise \/ Enter \/ SkipJunk \/ Visit \/ Return

Spec == Init /\ [][Next]_vars /\ WF_vars(Next)

-----------------------------------------------------------------------------
Lines == Nat \ {0}

Occurrences == [file : ReportedPaths \cup {None}, line : Lines \cup {None}]
Assets ==
    [node : Nat, index : Nat, dependency : BOOLEAN, names : SUBSET DOMAIN Meaning,
     occurrences : SUBSET Occurrences]

\* The parser's locals keep their types, whatever the document holds.
TypeOK ==
    /\ document.wrappers \in Seq({"list", "bom"})
    /\ outcome \in {"unread", "refused", "raised", "reading", "parsed"}
    /\ index \in Nat
    /\ stack \in Seq(Nat)
    /\ assets \in Seq(Assets)
    /\ \A k \in DOMAIN assets : assets[k].index < index

\* The components one holds, and those in top with all they hold: the least set
\* that has the ones and, with a component, what it holds.
Children(node, n) == {node[n].nested[k] : k \in DOMAIN node[n].nested} \cap DOMAIN node

Closed(node, S) == \A n \in S : Children(node, n) \subseteq S

Below(node, top) ==
    {n \in DOMAIN node :
        \A S \in SUBSET DOMAIN node :
            top \cap DOMAIN node \subseteq S /\ Closed(node, S) => n \in S}

Members(list) == {list[k] : k \in DOMAIN list}

Reachable == Below(document.node, Members(Unwrapped.components))

(***************************************************************************)
(* However deep it lies and whatever junk lies beside it, every component  *)
(* that is an asset or a dependency is read exactly once, and no two share *)
(* the index that credited claims are keyed by.                            *)
(***************************************************************************)
EveryComponentRead ==
    /\ \A j, k \in DOMAIN assets :
           j # k => assets[j].node # assets[k].node /\ assets[j].index # assets[k].index
    /\ outcome = "parsed" =>
           {assets[k].node : k \in DOMAIN assets}
               = {n \in Reachable : Classified(document.node[n])}

\* What evidence says, said in properties.
InProperties(c) ==
    [c EXCEPT !.evidence = <<>>,
              !.properties = <<[leaf |-> "line", value |-> c.evidence[1].line],
                               [leaf |-> "file", value |-> c.evidence[1].location]>>]

(***************************************************************************)
(* A generator that says where in evidence.occurrences and one that says   *)
(* it in properties are read alike, whatever the form of the line: the     *)
(* shape of a document decides no score.                                   *)
(***************************************************************************)
ShapesReadAlike ==
    \A k \in DOMAIN assets :
        LET c == document.node[assets[k].node] IN
        Len(c.evidence) = 1 /\ c.properties = <<>> =>
            assets[k].occurrences = ExtractOccurrences(InProperties(c))

(***************************************************************************)
(* A name claims the families a reader sees in it and no others, and prose *)
(* that contains one claims none, but for the spellings in Misread: these, *)
(* and these only, claim something else.  The claims are what a tool is    *)
(* charged for, and "separators carry no meaning" (matching.py 301) is     *)
(* true of the names of which Misread has no spelling.                     *)
(***************************************************************************)
NamesReadAsMeant ==
    \A k \in DOMAIN assets : \A name \in assets[k].names :
        FamiliesOf(name) = Meaning[name] <=> name \notin Misread

Sizes(name) == {name.atoms[i] : i \in DOMAIN name.atoms} \cap CryptoSizes

(***************************************************************************)
(* A name that is read as meant, and means some algorithm, answers a       *)
(* planted one when, and only when, they have a family in common and,      *)
(* meaning the same families, do not name different sizes.                 *)
(***************************************************************************)
NamesAnswerAsMeant ==
    \A k \in DOMAIN assets : \A name \in assets[k].names \ Misread, planted \in Planted :
        Meaning[name] # {} =>
            (AlgorithmsCompatible(planted, name)
                <=> /\ Meaning[planted] \cap Meaning[name] # {}
                    /\ Meaning[planted] = Meaning[name] =>
                           \/ Sizes(planted) = {} \/ Sizes(name) = {}
                           \/ Sizes(planted) \cap Sizes(name) # {})

(***************************************************************************)
(* A reported path means a file of the project when it is that file or     *)
(* ends like it in more segments than like any other, and means no file    *)
(* otherwise: an ambiguous path is not resolved by looking at less of it.  *)
(***************************************************************************)
Shared(file, path) ==
    CHOOSE n \in 0..Len(path) : Agree(file, path, n) /\ ~Agree(file, path, n + 1)

BestMatchWins ==
    \A k \in DOMAIN assets : \A o \in assets[k].occurrences :
        o.file # None =>
            LET reported == o.file
                path     == NormalizePath(reported)
                best(f)  == /\ Shared(f, path) > 0
                            /\ \A g \in ProjectFiles \ {f} : Shared(g, path) < Shared(f, path)
                file     == ResolvePath(ProjectFiles, reported)
            IN  IF path \in ProjectFiles THEN file = path
                ELSE \A f \in ProjectFiles : file = f <=> best(f)

(***************************************************************************)
(* METHODOLOGY.md 166: "A different family is never credited".  A          *)
(* component whose names are read as meant, and mean families, none of     *)
(* them the planted one's, answers it under none of its names.             *)
(***************************************************************************)
DifferentFamilyNeverCredited ==
    \A k \in DOMAIN assets, planted \in Planted :
        LET claimed == UNION {Meaning[name] : name \in assets[k].names} IN
        /\ assets[k].names \cap Misread = {}
        /\ claimed # {} /\ claimed \cap Meaning[planted] = {}
        => \A name \in assets[k].names : ~AlgorithmsCompatible(planted, name)

\* A document is read to its end, or refused, or ends the scoring.
EventuallyRead == <>(outcome \in {"parsed", "refused", "raised"})
=============================================================================
