------------------------------- MODULE Publish ------------------------------
(***************************************************************************)
(* score.py, from the files of a directory to results.md and results.json, *)
(* with proofstein/inputs.py, which tells from a file's name whose CBOM it *)
(* is, the sums of proofstein/report.py, and tools/miss-report.py, which   *)
(* reads results.json again.  The directory and the manifest beside it may *)
(* change at any moment, and a process may be killed at any step.          *)
(*                                                                         *)
(* A name is a sequence of words and underscores: RawName and BundleName   *)
(* are what the writers of the two layouts make of a project and a tool.   *)
(* What scoring makes of one document is the subject of Scoring; here a    *)
(* document parses or not, and has the plants it detects.                  *)
(***************************************************************************)
EXTENDS Naturals, Sequences, FiniteSets

CONSTANTS
    Plants,          \* of a corpus, by project: sets of [id, layer]
    Layers,
    Words,           \* that names are made of, the underscore among them
    Inputs,          \* what may lie in the directory: [file names -> documents]
    Manifests,       \* the failed invocations a manifest may list
    Args,            \* how it is called: [layout, corpus, manifest]
    Tools, Owners,   \* of the tools that write files, and of repositories
    Torn,            \* a file that was being written
    None,            \* no file, no project
    MaxDeliveries, MaxKills

Underscore  == "_"
Corpora     == {"public", "holdout"}
Projects(c) == DOMAIN Plants[c]

ASSUME WordsAssumption ==
    /\ Underscore \in Words
    /\ \A c \in Corpora : \A p \in Projects(c) : p \in Seq(Words)
    /\ \A files \in Inputs : \A name \in DOMAIN files :
           name.stem \in Seq(Words) /\ name.parent \in Seq(Words)

ASSUME PlantsAssumption ==
    \A c \in Corpora :
        /\ IsFiniteSet(Projects(c))
        /\ \A p \in Projects(c) :
               /\ IsFiniteSet(Plants[c][p])
               /\ \A x \in Plants[c][p] : x.layer \in Layers /\ x = [id |-> x.id, layer |-> x.layer]

ASSUME ArgsAssumption ==
    \A a \in Args : /\ a.layout \in {"raw", "bundle"} /\ a.corpus \in Corpora
                    /\ a.manifest \in BOOLEAN

ASSUME BoundsAssumption == MaxDeliveries \in Nat /\ MaxKills \in Nat

VARIABLES
    directory, manifest,     \* what is delivered
    present,                 \* <<"truth", c>>, <<"corpus", c>>: what is there of each corpus
    markdown, json, report,  \* results.md, results.json, the miss report
    mode, args, phase,       \* the process: "score" or "miss", its arguments, its place
    listed, todo,            \* names found, and not yet read
    documents, problems,     \* what was read
    meta,
    last, deliveries, kills

disk  == <<markdown, json, report>>
local == <<args, phase, listed, todo, documents, problems, meta>>
vars  == <<directory, manifest, present, disk, mode, local, last, deliveries, kills>>

-----------------------------------------------------------------------------
(***************************************************************************)
(* inputs.py.                                                              *)
(***************************************************************************)
Separator == <<Underscore, Underscore>>

RawName(project, tool) == [parent |-> <<>>, stem |-> project \o Separator \o tool]
DirName(project, tool) == [parent |-> tool, stem |-> project]
BundleName(owner, project, tool) ==
    [parent |-> tool, stem |-> owner \o <<Underscore>> \o project \o <<Underscore>> \o tool]

EndsWith(words, end) ==
    /\ Len(end) <= Len(words)
    /\ SubSeq(words, Len(words) - Len(end) + 1, Len(words)) = end

\* The project itself, or the longest with something and an underscore before it.
MatchProject(words, known) ==
    LET ends == {p \in known : EndsWith(words, <<Underscore>> \o p)} IN
    IF words \in known THEN words
    ELSE IF ends = {} THEN None
    ELSE CHOOSE p \in ends : \A q \in ends : Len(q) <= Len(p)

SeparatorsIn(stem) ==
    {k \in 1..Len(stem) - 1 : SubSeq(stem, k, k + 1) = Separator}

\* Faulty variant: split at the last separator.
SplitAtLast(stem) == CHOOSE k \in SeparatorsIn(stem) : \A j \in SeparatorsIn(stem) : j <= k

SplitAt(stem) == CHOOSE k \in SeparatorsIn(stem) : \A j \in SeparatorsIn(stem) : k <= j

\* Whose CBOM the name says it is: discover_raw_directory ...
RawPair(name, known) ==
    IF SeparatorsIn(name.stem) # {}
    THEN LET k == SplitAt(name.stem) IN
         <<MatchProject(SubSeq(name.stem, 1, k - 1), known),
           SubSeq(name.stem, k + 2, Len(name.stem))>>
    ELSE <<IF name.parent = <<>> THEN None ELSE MatchProject(name.stem, known), name.parent>>

\* ... and discover_bundle.
BundlePair(name, known) ==
    LET suffix == <<Underscore>> \o name.parent
        stem   == IF EndsWith(name.stem, suffix)
                  THEN SubSeq(name.stem, 1, Len(name.stem) - Len(suffix)) ELSE name.stem
    IN  <<IF name.parent = <<>> THEN None ELSE MatchProject(stem, known), name.parent>>

Pair(a, name) ==
    IF a.layout = "raw" THEN RawPair(name, Projects(a.corpus))
    ELSE BundlePair(name, Projects(a.corpus))

\* Faulty variant: a name that ends in the separator is a tool's, too.
UnderstoodProject(a, name) == Pair(a, name)[1] # None

Understood(a, name) == Pair(a, name)[1] # None /\ Pair(a, name)[2] # <<>>

\* How projects, tools and repositories are named: the separator is no part of
\* a project and does not begin at its end, a tool has a name, and what ends a
\* repository's full name is its own project before any longer one.
ASSUME NamesAssumption ==
    /\ \A c \in Corpora : \A p \in Projects(c) :
           /\ p # None /\ SeparatorsIn(p) = {} /\ ~EndsWith(p, <<Underscore>>)
           /\ \A o \in Owners, q \in Projects(c) :
                  LET full == o \o <<Underscore>> \o p
                  IN  q = full \/ EndsWith(full, <<Underscore>> \o q) => Len(q) <= Len(p)
    /\ \A t \in Tools : t \in Seq(Words) /\ t # <<>>
    /\ \A o \in Owners : o \in Seq(Words)

-----------------------------------------------------------------------------
(***************************************************************************)
(* What is made of the documents ds, in the order in which they were read. *)
(***************************************************************************)
\* What score_cbom says of one; nothing is detected in one that does not parse.
Detected(a, d) ==
    {x \in Plants[a.corpus][d.project] : d.content.parses /\ x.id \in d.content.found}

InLayer(xs, l) == {x \in xs : x.layer = l}

ToolsOf(ds) == {ds[k].tool : k \in DOMAIN ds}

\* Cells of render_markdown: documents of the tool are picked for each cell.
Rate(a, ds, tool, ls) ==
    LET mine == {k \in DOMAIN ds : ds[k].tool = tool}
    IN  <<Cardinality(UNION {{<<k, x>> : x \in {y \in Detected(a, ds[k]) : y.layer \in ls}} :
                             k \in mine}),
          Cardinality(UNION {{<<k, x>> : x \in {y \in Plants[a.corpus][ds[k].project] :
                                                  y.layer \in ls}} : k \in mine})>>

MarkdownOf(a, ds) ==
    [tool \in ToolsOf(ds) |->
        [all |-> Rate(a, ds, tool, Layers), layer |-> [l \in Layers |-> Rate(a, ds, tool, {l})]]]

Sizes(xs) == [all |-> Cardinality(xs), layer |-> [l \in Layers |-> Cardinality(InLayer(xs, l))]]

Plus(pair, m, n) == <<pair[1] + m, pair[2] + n>>

\* Faulty variant: the last document of a tool makes its figures.
AddLatest(summary, hits, plants) ==
    [all |-> <<Sizes(hits).all, Sizes(plants).all>>,
     layer |-> [l \in Layers |-> <<Sizes(hits).layer[l], Sizes(plants).layer[l]>>]]

Add(summary, hits, plants) ==
    [all |-> Plus(summary.all, Sizes(hits).all, Sizes(plants).all),
     layer |-> [l \in Layers |->
                   Plus(summary.layer[l], Sizes(hits).layer[l], Sizes(plants).layer[l])]]

\* per_tool of render_json: summed up document by document.
PerTool(a, ds) ==
    LET zero == [all |-> <<0, 0>>, layer |-> [l \in Layers |-> <<0, 0>>]]
        upto[n \in 0..Len(ds)] ==
            IF n = 0 THEN [tool \in ToolsOf(ds) |-> zero]
            ELSE [upto[n - 1] EXCEPT ![ds[n].tool] =
                     Add(@, Detected(a, ds[n]), Plants[a.corpus][ds[n].project])]
    IN  upto[Len(ds)]

Scored(ds) == {<<ds[k].project, ds[k].tool>> : k \in DOMAIN ds}

Unscored(a, ds) == (Projects(a.corpus) \X ToolsOf(ds)) \ Scored(ds)

\* An entry of results.json: a holdout's plants are named without their files.
DocumentOf(a, d) ==
    [project |-> d.project, tool |-> d.tool, source |-> d.source,
     assets |-> {[id |-> x.id, layer |-> x.layer, detected |-> x \in Detected(a, d),
                  file |-> a.corpus = "public"] : x \in Plants[a.corpus][d.project]}]

Now(a, ds) ==
    [args |-> a, unscored |-> Cardinality(Unscored(a, ds)), problems |-> problems,
     failed |-> IF a.manifest THEN manifest ELSE None]

\* miss-report.py, for one tool's entries in results.json.
Mine(tool) == {k \in DOMAIN json.documents : json.documents[k].tool = tool}

\* Faulty variant: one project stands for all of them.
MissesOnce(tool) ==
    UNION {{<<1, x>> : x \in {y \in json.documents[k].assets : ~y.detected}} : k \in Mine(tool)}

Misses(tool) ==
    UNION {{<<k, x>> : x \in {y \in json.documents[k].assets : ~y.detected}} : k \in Mine(tool)}

MissReport(tool) ==
    [tool |-> tool, misses |-> Cardinality(Misses(tool)),
     layer |-> [l \in Layers |-> Cardinality({m \in Misses(tool) : m[2].layer = l})],
     total |-> Cardinality(UNION {{<<k, x>> : x \in json.documents[k].assets} : k \in Mine(tool)})]

-----------------------------------------------------------------------------
NoArgs == [tool |-> None]

Init ==
    /\ directory \in Inputs /\ manifest \in Manifests \cup {None}
    /\ present \in SUBSET ({"truth", "corpus"} \X Corpora)
    /\ markdown = None /\ json = None /\ report = None
    /\ mode = "idle" /\ args = NoArgs /\ phase = "load"
    /\ listed = {} /\ todo = {} /\ documents = <<>> /\ problems = {} /\ meta = None
    /\ last = [mode |-> "none", exit |-> "none"]
    /\ deliveries = 0 /\ kills = 0

\* A collector adds to the directory or replaces what is there, or ends.
Deliver ==
    /\ deliveries < MaxDeliveries
    /\ deliveries' = deliveries + 1
    /\ \/ directory' \in Inputs /\ UNCHANGED manifest
       \/ manifest' \in Manifests /\ UNCHANGED directory
    /\ UNCHANGED <<present, disk, mode, local, last, kills>>

Start(m, a) ==
    /\ mode = "idle"
    /\ mode' = m /\ args' = a
    /\ last' = [mode |-> m, exit |-> "none"]
    /\ UNCHANGED <<directory, manifest, present, disk, phase, listed, todo, documents, problems,
                   meta, deliveries, kills>>

Exit(how) ==
    /\ mode' = "idle" /\ args' = NoArgs /\ phase' = "load"
    /\ listed' = {} /\ todo' = {} /\ documents' = <<>> /\ problems' = {} /\ meta' = None
    /\ last' = [mode |-> mode, exit |-> how]
    /\ UNCHANGED <<directory, manifest, present, deliveries>>

Scoring(ph) == mode = "score" /\ phase = ph

NoTruth    == Scoring("load") /\ <<"truth", args.corpus>> \notin present
NoInput    == Scoring("read") /\ todo = {} /\ documents = <<>>
NoCorpus   == /\ Scoring("read") /\ todo = {} /\ documents # <<>>
              /\ <<"corpus", args.corpus>> \notin present
NoManifest == Scoring("manifest") /\ args.manifest /\ manifest = None

\* SystemExit, and for a manifest that is not there an exception.
Reject ==
    /\ NoTruth \/ NoInput \/ NoCorpus \/ NoManifest
    /\ Exit("error")
    /\ UNCHANGED <<disk, kills>>

List ==
    /\ Scoring("load")
    /\ <<"truth", args.corpus>> \in present
    /\ listed' = DOMAIN directory /\ todo' = DOMAIN directory
    /\ phase' = "read"
    /\ UNCHANGED <<directory, manifest, present, disk, mode, args, documents, problems, meta, last,
                   deliveries, kills>>

\* Files are read in their order, sorted.
Turn == CHOOSE name \in todo : TRUE

Read(name) ==
    /\ Scoring("read") /\ todo # {} /\ name = Turn
    /\ Understood(args, name)
    /\ name \in DOMAIN directory
    /\ documents' = Append(documents,
           [project |-> Pair(args, name)[1], tool |-> Pair(args, name)[2],
            source |-> name, content |-> directory[name]])
    /\ todo' = todo \ {name}
    /\ UNCHANGED <<directory, manifest, present, disk, mode, args, phase, listed, problems, meta,
                   last, deliveries, kills>>

\* Faulty variant: what is not understood is passed over.
ReportProblemSilently(name) ==
    /\ Scoring("read") /\ todo # {} /\ name = Turn
    /\ ~Understood(args, name)
    /\ todo' = todo \ {name}
    /\ UNCHANGED <<directory, manifest, present, disk, mode, args, phase, listed, documents,
                   problems, meta, last, deliveries, kills>>

\* The entries of a bundle are all read first.
ReportProblem(name) ==
    /\ Scoring("read") /\ todo # {} /\ name = Turn
    /\ ~Understood(args, name)
    /\ args.layout = "bundle" => name \in DOMAIN directory
    /\ problems' = problems \cup {name}
    /\ todo' = todo \ {name}
    /\ UNCHANGED <<directory, manifest, present, disk, mode, args, phase, listed, documents, meta,
                   last, deliveries, kills>>

\* FileNotFoundError: removed since it was listed.
Vanished(name) ==
    /\ Scoring("read") /\ todo # {} /\ name = Turn
    /\ name \notin DOMAIN directory
    /\ Understood(args, name) \/ args.layout = "bundle"
    /\ Exit("error")
    /\ UNCHANGED <<disk, kills>>

Score ==
    /\ Scoring("read") /\ todo = {} /\ documents # <<>>
    /\ <<"corpus", args.corpus>> \in present
    /\ phase' = "manifest"
    /\ UNCHANGED <<directory, manifest, present, disk, mode, args, listed, todo, documents, problems,
                   meta, last, deliveries, kills>>

ReadManifest ==
    /\ Scoring("manifest") /\ (args.manifest => manifest # None)
    /\ meta' = Now(args, documents)
    /\ phase' = "markdown"
    /\ UNCHANGED <<directory, manifest, present, disk, mode, args, listed, todo, documents, problems,
                   last, deliveries, kills>>

WriteMarkdown ==
    /\ Scoring("markdown")
    /\ markdown' = [meta |-> meta, tools |-> MarkdownOf(args, documents)]
    /\ phase' = "json"
    /\ UNCHANGED <<directory, manifest, present, json, report, mode, args, listed, todo, documents,
                   problems, meta, last, deliveries, kills>>

\* Faulty variant: results that are there already are kept.
WriteJsonKeeping ==
    /\ Scoring("json")
    /\ json' = IF json = None
               THEN [meta |-> meta, tools |-> PerTool(args, documents),
                     documents |-> [k \in DOMAIN documents |-> DocumentOf(args, documents[k])]]
               ELSE json
    /\ Exit("ok")
    /\ UNCHANGED <<markdown, report, kills>>

WriteJson ==
    /\ Scoring("json")
    /\ json' = [meta |-> meta, tools |-> PerTool(args, documents),
                documents |-> [k \in DOMAIN documents |-> DocumentOf(args, documents[k])]]
    /\ Exit("ok")
    /\ UNCHANGED <<markdown, report, kills>>

\* No results, or torn ones; none of the tool; or a miss of a holdout, whose
\* entry has no file (KeyError).
RejectReport ==
    /\ mode = "miss"
    /\ \/ json \in {None, Torn}
       \/ json \notin {None, Torn} /\ \/ Mine(args.tool) = {}
                                      \/ \E m \in Misses(args.tool) : ~m[2].file
    /\ Exit("error")
    /\ UNCHANGED <<disk, kills>>

WriteReport ==
    /\ mode = "miss"
    /\ json \notin {None, Torn}
    /\ Mine(args.tool) # {}
    /\ \A m \in Misses(args.tool) : m[2].file
    /\ report' = MissReport(args.tool)
    /\ Exit("ok")
    /\ UNCHANGED <<markdown, json, kills>>

\* A write that is under way leaves a torn file.
Kill ==
    /\ mode # "idle" /\ kills < MaxKills
    /\ kills' = kills + 1
    /\ \/ UNCHANGED disk
       \/ Scoring("markdown") /\ markdown' = Torn /\ UNCHANGED <<json, report>>
       \/ Scoring("json") /\ json' = Torn /\ UNCHANGED <<markdown, report>>
       \/ mode = "miss" /\ json \notin {None, Torn} /\ report' = Torn /\ UNCHANGED <<markdown, json>>
    /\ Exit("killed")

Step ==
    \/ Reject \/ List
    \/ \E name \in todo : Read(name) \/ ReportProblem(name) \/ Vanished(name)
    \/ Score \/ ReadManifest \/ WriteMarkdown \/ WriteJson
    \/ RejectReport \/ WriteReport

StartScore(a) == Start("score", a)
StartMiss(tool) == Start("miss", [tool |-> tool])

Next ==
    \/ Deliver \/ Kill \/ Step
    \/ \E a \in Args : StartScore(a)
    \/ \E tool \in Tools : StartMiss(tool)

Spec == Init /\ [][Next]_vars /\ WF_vars(Step) /\ \A a \in Args : SF_vars(StartScore(a))

-----------------------------------------------------------------------------
(***************************************************************************)
(* Properties.                                                             *)
(***************************************************************************)
Ended(m) == last = [mode |-> m, exit |-> "ok"]

\* The process is somewhere in its loop, and a document it read is somebody's.
TypeOK ==
    /\ directory \in Inputs /\ manifest \in Manifests \cup {None}
    /\ mode \in {"idle", "score", "miss"}
    /\ phase \in {"load", "read", "manifest", "markdown", "json"}
    /\ mode = "score" => args \in Args
    /\ last.mode \in {"none", "score", "miss"} /\ last.exit \in {"none", "ok", "error", "killed"}
    /\ deliveries \in 0..MaxDeliveries /\ kills \in 0..MaxKills
    /\ \A k \in DOMAIN documents :
           documents[k].project \in Projects(args.corpus) /\ documents[k].tool # <<>>

\* No file of the input is lost on the way: each is still to be read, scored
\* once, or named as a problem.
EveryFileAccounted ==
    LET read == {documents[k].source : k \in DOMAIN documents} IN
    /\ \A j, k \in DOMAIN documents : documents[j].source = documents[k].source => j = k
    /\ mode = "score" => /\ listed = todo \cup read \cup problems
                         /\ todo \cap read = {} /\ todo \cap problems = {} /\ read \cap problems = {}

\* What a writer named for a project and a tool is read as that project's and
\* that tool's ("the separator cannot collide", inputs.py).  Names that no writer
\* makes may be scored as well: what is before the separator need only end like a
\* project, and whatever is after it is a tool.
NamesReadBack ==
    mode = "score" =>
    \A p \in Projects(args.corpus), t \in Tools :
        LET written == IF args.layout = "raw" THEN {RawName(p, t), DirName(p, t)}
                       ELSE {BundleName(o, p, t) : o \in Owners}
        IN  /\ written \cap problems = {}
            /\ \A k \in DOMAIN documents : documents[k].source \in written =>
                   documents[k].project = p /\ documents[k].tool = t

\* What a tool is measured by is what it was run on: it counts the plants of its
\* documents' projects once for each document, so that a project it has no
\* document for adds nothing to what it missed (METHODOLOGY.md 1), and the two
\* files and the two ways they sum up agree, layer by layer.
FiguresAddUp ==
    Ended("score") =>
        LET figures(tool, ls) ==
                LET mine == {k \in DOMAIN json.documents : json.documents[k].tool = tool}
                    all  == UNION {{<<k, x>> : x \in {y \in json.documents[k].assets : y.layer \in ls}} :
                                   k \in mine}
                IN  <<Cardinality({m \in all : m[2].detected}), Cardinality(all)>>
        IN  /\ markdown.meta = json.meta
            /\ markdown.tools = json.tools
            /\ \A tool \in DOMAIN json.tools :
                   /\ json.tools[tool].all = figures(tool, Layers)
                   /\ \A l \in Layers : json.tools[tool].layer[l] = figures(tool, {l})
            /\ json.meta.unscored
                   + Cardinality({<<json.documents[k].project, json.documents[k].tool>> :
                                  k \in DOMAIN json.documents})
               = Cardinality(Projects(json.meta.args.corpus)) * Cardinality(DOMAIN json.tools)

\* A miss report and the results it was made from tell the same: what is not
\* detected is missed, in each layer and in all.
MissReportMatches ==
    Ended("miss") =>
        LET tool == report.tool IN
        /\ report.total = json.tools[tool].all[2]
        /\ report.misses = report.total - json.tools[tool].all[1]
        /\ \A l \in Layers :
               report.layer[l] = json.tools[tool].layer[l][2] - json.tools[tool].layer[l][1]

Scorable(a) ==
    /\ {<<"truth", a.corpus>>, <<"corpus", a.corpus>>} \subseteq present
    /\ a.manifest => manifest # None
    /\ \E name \in DOMAIN directory : Understood(a, name)

\* results.json says of each file in the directory what a scoring of it says.
Describes(a) ==
    /\ json \notin {None, Torn}
    /\ json.meta.args = a
    /\ {json.documents[k] : k \in DOMAIN json.documents}
           = {DocumentOf(a, [project |-> Pair(a, name)[1], tool |-> Pair(a, name)[2],
                             source |-> name, content |-> directory[name]]) :
              name \in {n \in DOMAIN directory : Understood(a, n)}}

\* Whatever was torn, killed or delivered in the middle of it, scoring again
\* comes to results that describe the directory, where it can be scored.
EventuallyPublished == \A a \in Args : []<>(Scorable(a) => Describes(a))
=============================================================================
