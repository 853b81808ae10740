------------------------------- MODULE Corpus -------------------------------
(***************************************************************************)
(* tools/build-corpus.py, with and without --check, and                    *)
(* tools/generate-holdout.py: one process at a time over the corpus, the   *)
(* ground truth and the holdout beside them.  A process can be killed      *)
(* between any two changes of the disk, and ends early on an error in a    *)
(* template; the next one finds what it left.                              *)
(***************************************************************************)
EXTENDS Templates, Functions

CONSTANTS
    Order,           \* the projects, in the order of discover_projects
    Versions,        \* what an author may make of a project's template
    Torn,            \* a ground truth that was being written
    MaxEdits, MaxKills

Projects == {Order[n] : n \in DOMAIN Order}
Modes    == {"build", "check", "holdout"}
Areas    == {"corpus", "staging", "holdout"}

ASSUME OrderAssumption ==
    /\ IsSequence(Order)
    /\ \A m, n \in DOMAIN Order : Order[m] = Order[n] => m = n

ASSUME VersionsAssumption ==
    \A p \in Projects : \A template \in Versions[p] : IsTemplate(template)

ASSUME HonestAssumption ==
    \A p \in Projects : \A template \in Versions[p] : IsHonest(template)

ASSUME MovableAssumption ==
    \A p \in Projects : \A template \in Versions[p] : IsMovable(template)

ASSUME BoundsAssumption == MaxEdits \in Nat /\ MaxKills \in Nat

VARIABLES
    templates,       \* corpus-src
    tree,            \* the files under corpus/, corpus/.check-*, holdout/
    truth,           \* ground-truth/ and ground-truth-holdout/, by area
    mode, phase, at, \* the process, where it is, and in which project
    source,          \* the template it builds from, or is making a variant of
    todo,            \* files of it not yet emitted
    annotations, aliases, stale,
    last,            \* how the last process ended, if no template was edited since
    edits, kills

disk  == <<tree, truth>>
local == <<phase, at, source, todo, annotations, aliases, stale>>
vars  == <<templates, disk, mode, local, last, edits, kills>>

Nothing == [path \in {} |-> None]

\* Faulty variant: a check builds where a build does.
AreaShared == IF mode = "holdout" THEN "holdout" ELSE "corpus"

\* Where the process writes the project, and where the truth about it goes.
Area == CASE mode = "check" -> "staging" [] mode = "holdout" -> "holdout" [] OTHER -> "corpus"

Project == Order[at]

-----------------------------------------------------------------------------
AnnotationsOf(template) ==
    UNION {Annotations(path, template.files[path]) : path \in DOMAIN template.files}
AliasesOf(template) ==
    UNION {Aliases(path, template.files[path]) : path \in DOMAIN template.files}

\* What a template stands for: its files without marks, and its plants.
CorpusOf(template) == [path \in DOMAIN template.files |-> Clean(template.files[path])]
TruthOf(template)  == Entries(template, AnnotationsOf(template), AliasesOf(template))

\* build_project and main accept the template.
Buildable(template) ==
    /\ template.assets # None
    /\ \A path \in DOMAIN template.files :
           Parses(template.files[path]) /\ ~MarkerSurvives(template.files[path])
    /\ \A a, b \in AnnotationsOf(template) : a.id = b.id => a = b
    /\ ~AliasError(AnnotationsOf(template), AliasesOf(template))
    /\ ~AssetError(template, AnnotationsOf(template))
    /\ AllLayers(TruthOf(template))

Sound == {template \in UNION {Versions[p] : p \in Projects} : Buildable(template)}

-----------------------------------------------------------------------------
Init ==
    /\ templates \in {t \in [Projects -> UNION {Versions[p] : p \in Projects}] :
                        \A p \in Projects : t[p] \in Versions[p]}
    /\ tree = [area \in Areas |-> [p \in Projects |-> Nothing]]
    /\ truth = [area \in Areas |-> [p \in Projects |-> None]]
    /\ mode = "idle" /\ phase = "project" /\ at = 1
    /\ source = None
    /\ todo = {} /\ annotations = {} /\ aliases = {} /\ stale = FALSE
    /\ last = [mode |-> "none", exit |-> "none"]
    /\ edits = 0 /\ kills = 0

\* An author changes a template; one bad template for another is left out.
Edit ==
    /\ mode = "idle" /\ edits < MaxEdits
    /\ \E p \in Projects : \E template \in Versions[p] \ {templates[p]} :
           /\ templates[p] \in Sound \/ template \in Sound
           /\ templates' = [templates EXCEPT ![p] = template]
    /\ edits' = edits + 1
    /\ last' = [mode |-> "none", exit |-> "none"]
    /\ UNCHANGED <<disk, mode, local, kills>>

Start(m) ==
    /\ mode = "idle"
    /\ mode' = m /\ phase' = "project" /\ at' = 1 /\ stale' = FALSE
    /\ last' = [mode |-> m, exit |-> "none"]
    /\ UNCHANGED <<templates, disk, source, todo, annotations, aliases, edits, kills>>

\* The process ends; the disk stays as it is.
Exit(how) ==
    /\ mode' = "idle" /\ phase' = "project" /\ at' = 1
    /\ source' = None /\ todo' = {} /\ annotations' = {} /\ aliases' = {} /\ stale' = FALSE
    /\ last' = [mode |-> mode, exit |-> how]
    /\ UNCHANGED <<templates, edits, kills>>

Running(ph) == mode # "idle" /\ phase = ph

Put(content) == tree' = [tree EXCEPT ![Area][Project] = content]

-----------------------------------------------------------------------------
\* Faulty variant: what an earlier build left is kept.
BeginProjectKeeping ==
    /\ Running("project") /\ at <= Len(Order) /\ mode # "holdout"
    /\ templates[Project].assets # None
    /\ source' = templates[Project]
    /\ todo' = DOMAIN source'.files
    /\ annotations' = {} /\ aliases' = {}
    /\ phase' = "emit"
    /\ UNCHANGED <<templates, disk, mode, at, stale, last, edits, kills>>

\* Faulty variant: a directory that is there already is an error, too.
HasMetadataOnce == templates[Project].assets # None /\ tree[Area][Project] = Nothing

HasMetadata == templates[Project].assets # None

\* FileNotFoundError: no proofstein.json.
RejectMetadata ==
    /\ Running("project") /\ at <= Len(Order)
    /\ ~HasMetadata
    /\ Exit("raised")
    /\ UNCHANGED disk

\* The directory is removed and made again before a file is read.
BeginProject ==
    /\ Running("project") /\ at <= Len(Order) /\ mode # "holdout"
    /\ HasMetadata
    /\ source' = templates[Project]
    /\ Put(Nothing)
    /\ todo' = DOMAIN source'.files
    /\ annotations' = {} /\ aliases' = {}
    /\ phase' = "emit"
    /\ UNCHANGED <<templates, truth, mode, at, stale, last, edits, kills>>

\* The holdout makes a variant of the template first, in a directory for itself.
TakeTemplate ==
    /\ Running("project") /\ at <= Len(Order) /\ mode = "holdout"
    /\ HasMetadata
    /\ source' = Visible(templates[Project])
    /\ phase' = "vary"
    /\ UNCHANGED <<templates, disk, mode, at, todo, annotations, aliases, stale, last,
                   edits, kills>>

HasKeystore == \E path \in DOMAIN source.files : source.files[path].kind = "keystore"

\* UnicodeDecodeError: a keystore is read as text.
RejectKeystore ==
    /\ Running("vary")
    /\ HasKeystore
    /\ Exit("raised")
    /\ UNCHANGED disk

Rewrites == source.holdout.rewrites

\* apply_renames and apply_substitutions, rule by rule.
ApplyRule ==
    /\ Running("vary")
    /\ ~HasKeystore
    /\ Rewrites # <<>>
    /\ source' = Rewrite(source)
    /\ UNCHANGED <<templates, disk, mode, phase, at, todo, annotations, aliases, stale, last,
                   edits, kills>>

Varied == ~HasKeystore /\ Rewrites = <<>>

\* The rest of build_variant, and build_project's start: as in BeginProject.
BeginVariant ==
    /\ Running("vary")
    /\ Varied
    /\ source' \in Arrangements(source)
    /\ Put(Nothing)
    /\ todo' = DOMAIN source'.files
    /\ annotations' = {} /\ aliases' = {}
    /\ phase' = "emit"
    /\ UNCHANGED <<templates, truth, mode, at, stale, last, edits, kills>>

\* Files come in one order, sorted; nothing depends on which.
Turn == CHOOSE path \in todo : TRUE

Emitted(path) == [p \in DOMAIN tree[Area][Project] \cup {path} |->
                    IF p = path THEN Clean(source.files[path]) ELSE tree[Area][Project][p]]

Duplicates(path) ==
    LET new == Annotations(path, source.files[path]) IN
    \/ \E a \in new, b \in annotations : a.id = b.id
    \/ \E a, b \in new : a # b /\ a.id = b.id

Accepted(path) == Parses(source.files[path]) /\ ~MarkerSurvives(source.files[path])

EmitFile(path) ==
    /\ Running("emit") /\ todo # {} /\ path = Turn
    /\ Accepted(path)
    /\ ~Duplicates(path)
    /\ Put(Emitted(path))
    /\ todo' = todo \ {path}
    /\ annotations' = annotations \cup Annotations(path, source.files[path])
    /\ aliases' = aliases \cup Aliases(path, source.files[path])
    /\ UNCHANGED <<templates, truth, mode, phase, at, source, stale, last, edits, kills>>

\* AnnotationError, before the file is written.
RejectFile(path) ==
    /\ Running("emit") /\ todo # {} /\ path = Turn
    /\ ~Accepted(path)
    /\ Exit("raised")
    /\ UNCHANGED disk

\* AnnotationError, after it.
RejectId(path) ==
    /\ Running("emit") /\ todo # {} /\ path = Turn
    /\ Accepted(path)
    /\ Duplicates(path)
    /\ Put(Emitted(path))
    /\ Exit("raised")
    /\ UNCHANGED truth

Faulty == AliasError(annotations, aliases) \/ AssetError(source, annotations)

RejectProject ==
    /\ Running("emit") /\ todo = {}
    /\ Faulty
    /\ Exit("raised")
    /\ UNCHANGED disk

Built == Entries(source, annotations, aliases)

\* Faulty variant: the directories are taken to be equal when the shipped one
\* has all the files.
SameNames == DOMAIN tree["staging"][Project] \subseteq DOMAIN tree["corpus"][Project]

\* _dirs_equal: the shipped directory may have more.
SameFiles ==
    /\ DOMAIN tree["staging"][Project] \subseteq DOMAIN tree["corpus"][Project]
    /\ \A path \in DOMAIN tree["staging"][Project] :
           tree["staging"][Project][path] = tree["corpus"][Project][path]

\* --check: compared, and the staging directory removed.
CompareProject ==
    /\ Running("emit") /\ todo = {} /\ mode = "check"
    /\ ~Faulty
    /\ stale' = (stale \/ ~SameFiles)
    /\ Put(Nothing)
    /\ phase' = "truth"
    /\ UNCHANGED <<templates, truth, mode, at, source, todo, annotations, aliases, last,
                   edits, kills>>

FinishProject ==
    /\ Running("emit") /\ todo = {} /\ mode # "check"
    /\ ~Faulty
    /\ phase' = "truth"
    /\ UNCHANGED <<templates, disk, mode, at, source, todo, annotations, aliases, stale, last,
                   edits, kills>>

Incomplete == mode # "holdout" /\ ~AllLayers(Built)

\* A layer without an asset: the corpus is new by now, the ground truth old.
RejectLayers ==
    /\ Running("truth")
    /\ Incomplete
    /\ Exit("error")
    /\ UNCHANGED disk

\* Faulty variant: the template of the last project is kept.
NextProjectKeeping == at' = at + 1 /\ phase' = "project" /\ UNCHANGED source

NextProject == at' = at + 1 /\ phase' = "project" /\ source' = None

CompareTruth ==
    /\ Running("truth") /\ mode = "check"
    /\ ~Incomplete
    /\ stale' = (stale \/ truth["corpus"][Project] # Built)
    /\ NextProject
    /\ UNCHANGED <<templates, disk, mode, todo, annotations, aliases, last, edits, kills>>

WriteTruth ==
    /\ Running("truth") /\ mode # "check"
    /\ ~Incomplete
    /\ truth' = [truth EXCEPT ![Area][Project] = Built]
    /\ NextProject
    /\ UNCHANGED <<templates, tree, mode, todo, annotations, aliases, stale, last, edits, kills>>

Return ==
    /\ Running("project") /\ at > Len(Order)
    /\ Exit(IF stale THEN "error" ELSE "ok")
    /\ UNCHANGED disk

\* The first n lines of what is shipped of a file.
Beginning(path, n) == [k \in 1..n |-> Clean(source.files[path])[k]]

\* Killed: between two changes, while a directory was being removed, or while a
\* file was being written, which is then torn.
Kill ==
    /\ mode # "idle" /\ kills < MaxKills
    /\ kills' = kills + 1
    /\ \/ UNCHANGED disk
       \/ /\ \/ phase = "project" /\ at <= Len(Order) /\ HasMetadata /\ mode # "holdout"
             \/ phase = "vary" /\ Varied
             \/ phase = "emit" /\ todo = {} /\ mode = "check"
          /\ \E left \in SUBSET DOMAIN tree[Area][Project] :
                 Put([path \in left |-> tree[Area][Project][path]])
          /\ UNCHANGED truth
       \/ /\ phase = "emit"
          /\ \E path \in todo : /\ path = Turn /\ Accepted(path)
                                /\ \E n \in 0..Len(source.files[path].lines) - 1 :
                                       Put([Emitted(path) EXCEPT ![path] = Beginning(path, n)])
          /\ UNCHANGED truth
       \/ /\ phase = "truth" /\ mode # "check" /\ ~Incomplete
          /\ truth' = [truth EXCEPT ![Area][Project] = Torn]
          /\ UNCHANGED tree
    /\ mode' = "idle" /\ phase' = "project" /\ at' = 1
    /\ source' = None /\ todo' = {} /\ annotations' = {} /\ aliases' = {} /\ stale' = FALSE
    /\ last' = [mode |-> mode, exit |-> "killed"]
    /\ UNCHANGED <<templates, edits>>

Step ==
    \/ RejectMetadata \/ BeginProject
    \/ TakeTemplate \/ RejectKeystore \/ ApplyRule \/ BeginVariant
    \/ \E path \in todo : EmitFile(path) \/ RejectFile(path) \/ RejectId(path)
    \/ RejectProject \/ CompareProject \/ FinishProject
    \/ RejectLayers \/ CompareTruth \/ WriteTruth \/ Return

Next == Edit \/ (\E m \in Modes : Start(m)) \/ Step \/ Kill

Spec == Init /\ [][Next]_vars /\ WF_vars(Step) /\ SF_vars(Start("build"))

-----------------------------------------------------------------------------
(***************************************************************************)
(* Properties.                                                             *)
(***************************************************************************)
Ended(modes) == last.mode \in modes /\ last.exit = "ok"

Shape ==
    /\ DOMAIN templates = Projects
    /\ \A p \in Projects : templates[p] \in Versions[p]
    /\ DOMAIN tree = Areas /\ DOMAIN truth = Areas
    /\ \A area \in Areas : DOMAIN tree[area] = Projects /\ DOMAIN truth[area] = Projects

Control ==
    /\ mode \in Modes \cup {"idle"} /\ phase \in {"project", "vary", "emit", "truth"}
    /\ phase = "vary" => mode = "holdout"
    /\ stale \in BOOLEAN
    /\ last.mode \in Modes \cup {"none"}
    /\ last.exit \in {"none", "ok", "error", "raised", "killed"}
    /\ (mode = "idle" \/ phase = "project") => source = None

Counters ==
    /\ at \in 1..Len(Order) + 1
    /\ phase # "project" => at <= Len(Order)
    /\ edits \in 0..MaxEdits /\ kills \in 0..MaxKills

Busy == mode # "idle" /\ phase \in {"emit", "truth"}

Collected ==
    Busy =>
        /\ todo \subseteq DOMAIN source.files
        /\ \A a \in annotations \cup aliases :
               /\ a.file \in DOMAIN source.files \ todo
               /\ a.line \in DOMAIN source.files[a.file].lines

\* The process is somewhere in its loop, and what it collected so far are
\* annotations of the files it emitted, at lines that are there.
TypeOK == Shape /\ Control /\ Counters /\ Collected

\* No file a generator may read names an answer: not in the corpus, not in the
\* holdout, not in the staging directory a check may leave behind, whatever
\* becomes of the process that writes them (the safety net of build_project).
NoAnswerKey ==
    \A area \in Areas, p \in Projects : \A path \in DOMAIN tree[area][p] :
        \A n \in DOMAIN tree[area][p][path] : Marked(tree[area][p][path][n], "none")

\* A build that ends well leaves exactly what the templates say, whatever it
\* found: files of an earlier build, torn files, a torn ground truth.
BuiltIsExact ==
    Ended({"build"}) =>
        \A p \in Projects :
            /\ tree["corpus"][p] = CorpusOf(templates[p])
            /\ truth["corpus"][p] = TruthOf(templates[p])

\* A check that ends well vouches for the corpus and the ground truth, however
\* builds before it ended; only files no template asks for may be there too
\* (_dirs_equal).  It leaves no staging directory.
CheckedIsInSync ==
    Ended({"check"}) =>
        \A p \in Projects :
            /\ \A path \in DOMAIN templates[p].files :
                   /\ path \in DOMAIN tree["corpus"][p]
                   /\ tree["corpus"][p][path] = CorpusOf(templates[p])[path]
            /\ truth["corpus"][p] = TruthOf(templates[p])
            /\ tree["staging"][p] = Nothing

\* After either, the ground truth speaks of the shipped files: the algorithm of
\* every entry is at work in the line it names, and every accepted location is
\* a line of a shipped file ("line numbers are preserved exactly").
TruthMatchesCorpus ==
    Ended({"build", "check"}) =>
        \A p \in Projects : \A e \in truth["corpus"][p] :
            /\ e.file \in DOMAIN tree["corpus"][p]
            /\ e.line \in DOMAIN tree["corpus"][p][e.file]
            /\ Does(tree["corpus"][p][e.file][e.line]) = e.algorithm
            /\ \A a \in e.accept : /\ a.file \in DOMAIN tree["corpus"][p]
                                   /\ a.line \in DOMAIN tree["corpus"][p][a.file]

\* --check: "verify committed output matches templates; write nothing".
CheckWritesNothing ==
    [][mode = "check" =>
          /\ \A area \in Areas \ {"staging"} : tree'[area] = tree[area]
          /\ truth' = truth]_vars

\* Line of the template an entry of its ground truth stands at.
Text(lines, n) == lines[n].text

\* Each rule looks for one name, in codes and annotations alike, and no annotation
\* stands where only the holdout does not look.
Regular(template) ==
    /\ \A n \in DOMAIN template.holdout.rewrites :
           template.holdout.rewrites[n].from = template.holdout.rewrites[n].from_algorithm
    /\ \A path \in DOMAIN template.files :
           template.files[path].skipped =>
               \A n \in DOMAIN template.files[path].lines :
                   Marked(template.files[path].lines[n], "none")

\* The places of a template that a holdout moved, and the lines that stand there.
Moved(template, places) ==
    {<<Relocated(template.holdout, a.file), Text(template.files[a.file].lines, a.line)>> :
        a \in places}

\* A holdout plants what its template plants, though under other names, ids
\* included: there is a new id for each old one, no two share one, and the plant
\* that has it has the layer and stands in the line, of the file where it was
\* moved to, that the old one has and stood in, and so do all its accepted
\* locations.  This is of templates that can be built, with Regular rules: one
\* that has another name for code than for annotations renames some ids and not
\* others, and may leave an alias on the wrong plant.
HoldoutCorresponds ==
    Ended({"holdout"}) =>
        \A p \in Projects :
            Buildable(templates[p]) /\ Regular(templates[p]) =>
                LET old == TruthOf(templates[p])
                    new == truth["holdout"][p]
                    text(place) == <<place.file, Text(tree["holdout"][p][place.file], place.line)>>
                IN  \E renamed \in Bijection({o.id : o \in old}, {e.id : e \in new}) :
                        \A o \in old, e \in new :
                            e.id = renamed[o.id] =>
                                /\ e.layer = o.layer
                                /\ {text(e)} = Moved(templates[p], {o})
                                /\ {text(a) : a \in e.accept} = Moved(templates[p], o.accept)

\* "The ground truth for the variant states what the variant actually contains"
\* (generate-holdout.py, apply_substitutions).
HoldoutStatesWhatItHolds ==
    Ended({"holdout"}) =>
        \A p \in Projects : \A e \in truth["holdout"][p] :
            Does(tree["holdout"][p][e.file][e.line]) = e.algorithm

\* Whatever was killed, torn or left behind, building again gets the corpus and
\* the ground truth back, unless a template cannot be built.
EventuallyInSync ==
    []<>(\/ \E p \in Projects : templates[p] \notin Sound
         \/ \A p \in Projects : /\ tree["corpus"][p] = CorpusOf(templates[p])
                                 /\ truth["corpus"][p] = TruthOf(templates[p]))
=============================================================================
