# A verification of Proofstein

Proofstein is a benchmark for CBOM generators, tools that read a project and list
the cryptography in it as a CycloneDX document. It keeps a corpus of projects with
planted assets and their ground truth, runs generators over it, scores the
documents they produce, and publishes the scores. What it claims rests on a chain of
programs: the builder that makes the corpus and its answers from annotated
templates, the collector that turns tool runs into documents and a manifest, the
parser, matcher, resolver and scorer that turn a document into verdicts, the scoring
command that turns verdicts into published figures, and the withholder that replaces
documents by commitments to them. This directory holds TLA+ models of those, TLC
runs over small instances, and TLAPS proofs.

## Inventory

| component | source | state it keeps | operations | modelled in |
| --- | --- | --- | --- | --- |
| collector | `tools/collect-cboms.py`, `tools/cdxgen-docker.sh` | `<out>/cboms/`, `<out>/.work/bom.json`, `<out>/manifest.json`; the manifest in memory | export a project, run a generator, keep or reject its output, write the manifest | `Collect` |
| withholder | `tools/withhold-cboms.py` | `cboms/`, the private archive, `withheld_cboms` in the manifest | withhold, verify | `Withhold` |
| scorer | `proofstein/scoring.py` | verdicts, matched components, credited claims, evidence counts, charges | measure, match, classify | `Scoring`, `Verdicts`, `Cbom` |
| name matcher | `proofstein/matching.py` | none | `families`, `parameters`, `normalize_tokens`, `algorithms_compatible` | `Names`, `Tables`; a relation in `Cbom` |
| path resolver | `proofstein/matching.py` | the suffix table | `normalize_path`, `resolve`, `location_matches` | `Paths`; a function in `Cbom` |
| CBOM parser | `proofstein/cbom.py` | the walk's stack and index, the assets | unwrap, walk nested components, names, occurrences, kinds | `Reading`; record types in `Cbom` |
| input discovery | `proofstein/inputs.py` | documents and problems | file names to (project, tool), in two layouts | `Publish` |
| scoring command | `score.py` | results, `results.md`, `results.json` | discover, score each, read the manifest, write both files | `Publish` |
| miss report | `tools/miss-report.py` | its output file | select, count, write | `Publish` |
| report and tables | `proofstein/{report,tables}.py` | none | sums, formatting, digests | the detection figures and JSON entries in `Publish` |
| corpus builder | `tools/build-corpus.py`, `tools/psmarkers.py` | `corpus/`, `ground-truth/`, a staging directory | build, `--check` | `Corpus`, `Templates` |
| holdout generator | `tools/generate-holdout.py` | `holdout/`, `ground-truth-holdout/` | rewrite names, shuffle, shift and relocate, then build | `Corpus`, `Templates`, but for seeds |
| schema validation | `proofstein/schema.py` | none | a library call | no |
| samples, build and publish scripts, run harnesses | `tools/*.sh`, `tools/make-sample-cboms.py`, `runs/*/` | files | pure I/O | no |
| corpus, ground truth, schemas | `corpus*`, `ground-truth`, `schemas` | data | none | no |

How they interact: the builder writes the corpus and the ground truth together; the
collector scans an export of the corpus and writes `cboms/` and the manifest; the
scorer reads `cboms/`, the ground truth and, to tell "not run" from "found nothing",
the manifest; the withholder later moves `cboms/` away and adds digests to the same
manifest. All of it goes through the file system, none of the programs locks or
writes atomically, and each can be killed between two writes and started again.

What makes each correct, and what is hard about it:

* **Collector.** The manifest says what really happened to every invocation, and the
  document under a name is what that generator made of that project. Hard: one
  `bom.json` is shared by all file-writing generators; a timeout kills a docker
  client and not its container; the manifest is written only at the end; the same
  `--out` may be used again.
* **Withholder.** No document is ever lost, and every digest is a commitment to
  bytes that still exist. Hard: kills in the middle of a copy, of the manifest or of
  `rmtree`; bad copies; an archive that several runs share.
* **Scorer.** The figures depend on what was reported and not on its order; nothing
  is both credited and charged; dependencies are neither; precision is a precision.
  Hard: two nested loops with four accumulators that live on different scales, then
  a pass that judges components by one of those accumulators.
* **Parser, matcher and resolver.** Every component of a document is read once,
  however deep it lies; a location says the same in each shape a generator may give
  it; a name claims the algorithms a reader sees in it and answers those only; a path
  means the file it agrees with best, or none. Hard: a stack that is filled while it
  is emptied, over documents nobody validated; names without fixed spelling, tables
  of markers, aliases and exceptions that overlap; ambiguous suffixes.
* **Builder and holdout generator.** No file that is shipped holds an answer; a build
  that ends well leaves exactly what the templates say and a check that ends well
  means that it does; each answer names the algorithm at work in its line. Hard: the
  old corpus is removed before a template is read, the ground truth is written after
  the corpus it describes, half a dozen kinds of error end a build, each at its own place,
  and the holdout moves lines, names and files under their annotations.
* **Scoring command and miss report.** No document is lost or counted for another tool
  or project, and the figures of all outputs agree. Hard: names are split at a
  separator and matched by suffix; the directory may change between listing and
  reading; two output files are written one after the other, and a third program
  reads one of them.

## Modules

* `Withhold` - one process per run directory over a shared archive. `Begin` is
  `withhold` up to the copy loop with its refusals; each copy is `OpenCopy`
  (truncates the destination), `WriteCopy` or `GarbleCopy`, and `CheckCopy` or
  `RejectCopy`; then `OpenManifest`, `WriteManifest`, and `rmtree` as `RemoveDocument`
  steps and a `RemoveDirectory`. `Crash` ends the process anywhere and keeps the
  disk. `Verifies` is `--verify`. Digests are an operator constant without
  collisions.
* `Collect` - one collector at a time, in sessions over one directory. A turn of the
  loop is `Export` (or its two failures), `Launch`, steps of the generator
  (`ToolWrites`, `ToolExits`, or none), `Timeout`, then `Reject` or `Accept`, and the
  two halves of writing the CBOM. `LateWrite` is a generator nobody waits for any
  more. `RemoveWork` ignores errors: what it cannot remove, with the directory late
  generators write to, stays for the next session. A document is known by its origin, the pair and session that made it, so
  that a document in the wrong place is visible. A session runs one of `Plans`
  (`--tool`, `--project`).
* `Cbom` - what the scorer works on: components, plants, allowances, and when one
  answers another. The matcher and the resolver are constants here: any relation,
  any function.
* `Scoring` - `score_cbom` step by step: `Measure`; `Skip`, `Compare`, `NextEntry` for
  the nested loops; `PassOver`, `ChargeAlgorithm`, `ChargeLocation`, `LeaveUncharged`
  for `_count_false_positives`. Counters are kept as the sets they count.
* `Verdicts` - the same report said without loops or order. `Scoring` implements it.
* `Tables`, `Names` - the name matcher on names as sequences of fragments, with the
  positions at which a separator starts a new word: `Families`, aliases and markers
  in the one; `MarkerMatches`, `FamiliesOf`, `NormalizeTokens`, `Parameters`,
  `Contradicts` and `AlgorithmsCompatible` in the other. Tables are cut to the
  algorithms of the instance. A name in which neighbouring numbers spell a size between
  them (5 and 12) cannot be told from its fragments and is not used.
* `Paths` - `NormalizePath`, the entries of the suffix table as `Candidates`, the loop
  over suffixes as `LongestSuffix`, and `ResolvePath`, on sequences of segments.
* `Reading` - `parse_cbom` step by step: `Refuse`, `Raise` or `Enter` after unwrapping,
  then `SkipJunk` and `Visit` until the stack is empty (`Return`). It composes `Names`
  and `Paths`: what was read is matched and resolved in its invariants. What a document holds
  is `Reachable`, a least set, which no order of walking enters into. `Meaning` is what a
  reader sees in a name, `Misread` the names, listed in the instance, in which the code sees
  something else.
* `Templates` - annotations, what building one template yields, and what a holdout makes of
  one, as operators. The texts of a template are sequences of fragments. `RewriteLine` is what
  a rule makes of a line: the old name is looked for in the whole line, replaced in its code,
  and replaced in the whole of its annotation, under the name for annotations first
  (`Renamed`): in the id, the note and the algorithm of a plant and in the id an alias speaks
  of. `Shuffles`, `Shift` and `Relocated` say where lines and files go. The holdout passes over
  directories the builder does not (`dist`; `Visible`), copies files the builder reads
  (`.pem`, "opaque"), and cannot read files the builder copies (`.keystore`).
* `Corpus` - the builder, `--check` and the holdout generator as one process at a time
  over templates, tree and ground truth. A project is a `BeginProject` (the directory
  is removed), an `EmitFile` or a rejection for each file, `FinishProject` or
  `CompareProject`, and `WriteTruth` or `CompareTruth`. A holdout makes the variant first:
  `TakeTemplate`, an `ApplyRule` for each renamed symbol and substitution, and `BeginVariant`,
  or `RejectKeystore`. `Edit` is an author between
  processes; `Kill` may leave a directory half removed and a file or a ground truth torn.
* `Publish` - `score.py` and `miss-report.py` over a directory that `Deliver` may change
  at any moment: `List`, `Read`, `ReportProblem` or `Vanished` for each name, `Score`,
  `ReadManifest`, `WriteMarkdown`, `WriteJson`; `WriteReport` or `RejectReport`. The sums
  are kept in the two ways the code makes them: cell by cell for the markdown,
  document by document for the JSON. What is detected in a document is given; that is
  `Scoring`'s subject.
* `MCWithhold`, `MCCollect`, `MCScoring`, `MCReading`, `MCCorpus`, `MCPublish` -
  instances for TLC.
* `WithholdProofs`, `CollectProofs`, `ScoringProofs`, `PathsProofs`, `ReadingProofs`,
  `CorpusProofs`, `PublishProofs` - proofs; `Extrema` - that a finite set of numbers has
  a greatest element, which the path proofs rest on.

How they compose: `Reading` extends `Names` and `Paths`; `Scoring` extends `Cbom`, whose
matcher and resolver are constants of which `Names` and `Paths` are one value, so that
what is shown of `Scoring` does not depend on the tables; `Publish` takes what
`Scoring` says of a document as a constant of the document; `Corpus` extends
`Templates`.

Definitions whose comment begins with "Faulty variant" are used by no behaviour:
each is the definition after it with a plausible bug, and a property that the code
satisfies is shown to fail when the variant takes its place.

## Runs

| run | what it shows | bounds |
| --- | --- | --- |
| `Withhold.cfg` | types, nothing lost, commitments honest, removal only when archived and recorded, a verified run stays verified, the withholding gets done | two runs, three names, two kills, one bad copy |
| `Collect.cfg` | the manifest is truthful and complete, a failure in a fresh directory leaves no file, a collector ends | two tools, two projects, two sessions, one kill, two plans of two pairs |
| `Scoring.cfg` | precision bounded, credit and charge exclusive, dependencies exempt, verdicts ordered, detector stable, refinement of `Verdicts` | all documents of up to two components out of 78, and those of three out of six; three ground truths |
| `WithholdSharedArchive.cfg` | **violated**: two runs with a document of one name, one archive | two runs, two names, no kill |
| `WithholdResumed.cfg` | **violated**: digests are dropped when a removal is cut short and repeated | one run, one kill |
| `CollectReused.cfg` | **violated**: a failed invocation with a document beside it | two sessions |
| `CollectUndecodable.cfg` | **violated**: `run_one` raises | one session |
| `Reading.cfg` | every component read once, locations alike in both shapes, names claim what they mean, but for 20 spellings that do not, and answer accordingly, paths resolve to the best match, the reading ends | every spelling of 33 algorithm names (141 of them), seven other phrases, eleven planted names, four files and thirty paths, forests of four components with junk among them, wrappers up to nine deep |
| `ReadingFamily.cfg` | **violated**: a bare number answers another family | the same |
| `Corpus.cfg` | nothing is shipped with its mark, builds are exact, checks sound, answers true, the holdout corresponds, a check writes nothing, the corpus comes back into sync | two projects, eight templates of one of them, one edit, one kill |
| `HoldoutTruth.cfg` | **violated**: a substitution changes an answer and not the code | the same |
| `Publish.cfg` | files accounted for, names read as their writers meant, the figures of all outputs agree, results come to describe the directory | two projects, two tools, four directories, three ways to call the scorer, one delivery, one kill |

Why the bounds are enough. *Withholding*: two runs are what interference over the
archive needs; two kills allow one during the work and one during its repetition; a
run with two documents has a state in which one is copied, or removed, and the other
not. *Collecting*: a misplaced document needs one invocation that outlives its
timeout and a later one of a file tool; a stale one needs two sessions; a plan of two
pairs has a first and a last turn, and the two plans overlap in one pair, so a
session can overwrite, or leave alone, what another left. *Scoring*: a matter of who
comes first needs two components, whether a third is credited or excused needs
three; the components cover every outcome of the resolver (a planted file, a file
with no plant, nowhere, no location), of the matcher (plant, allowance, no family,
fabricated family) and of the kind; the ground truths have two plants of one
algorithm in one file, an alternative in another file, a layer-5 plant, and none.
*Reading* (44,386 states): components do not influence one another but through the
stack, so names and locations are tried one component at a time, in every spelling
(a separator, or none, between any two fragments) and every form, and the walk over forests of four shapes and all kinds: up to
three levels, junk at the top, inside and last, eight wrappers and a ninth. The files are
such that a suffix has one candidate, two, or three, and that a longer one has fewer.
*Building* (222,227 states): a project before and one after the failing one need two;
the versions of the edited template are one with everything (a plant, an alias, a
setting, a binary asset, a rule for a symbol and one for an algorithm, both of which occur in
an id), one with a plant less, an id that is the name to be replaced and a file in `dist`, one
with a keystore, and one for each way to be refused; the other project has a rule with another
name for annotations than for code; since `last` forgets an edit, longer histories of edits only repeat what a
build can find on the disk. From one refused template to another there is no edit:
neither can be built. *Publishing* (188,117 states): a misread name needs a project
whose name ends like another's and a tool with the separator in its name; sums need a
project the tool was not run on, a document that does not parse and a pair named
twice; a name no writer makes is scored for a project it ends like; one delivery and one kill fall at every step of a scoring, and a miss report
may come at any time. The two bundle documents are two entries of one directory; a
zip archive is a bundle nothing is removed from.

The six violations are listed in `PROJECT.json` with the line of the code and the
line of the comment or document that says otherwise. In short:

* `NoEvidenceLost` needs `DistinctNames`. Archived files are named
  `<project>__<tool>.json` and nothing about the run, so an archive can hold two runs
  only if they share no pair.
* `RemovedIsRecorded` fails after a kill in `rmtree`: the second invocation computes
  the digest block from the documents that are left.
* `FailedIsAbsent` holds in a fresh directory (`FreshRunHonest`) and not in one used
  before.
* `RunOneNeverRaises` fails on output that is not UTF-8. The two timeouts inside
  `export_project` end the collector in the same way, and are modelled
  (`ExportRaises`).
* `DifferentFamilyNeverCredited` fails where one of the two names has no family: a
  parameter set "256" of a SHA-256 component answers a planted AES-256.
* `HoldoutStatesWhatItHolds` fails on a line that calls an algorithm without naming it:
  its annotation is rewritten and its code is not.

`ManifestTruthful` states the one way a document can be in the wrong place:
`Outlived` is a late document of another file-writing generator. TLC reaches such
states; without that disjunct the invariant fails. `CheckedIsInSync` says of the shipped
directory that it has the generated files and not that it has no others, as
`_dirs_equal` does.

`HoldoutCorresponds` says that the holdout plants what the template plants: the plants
correspond one to one, each stands in the line, layer and file of the other and with the
other's accepted lines. Names do not stay: a rule goes over the id of a plant as over the rest
of its annotation (`generate-holdout.py:141`, `:218`), so "one to one" is a bijection between
the old ids and the new, and that no two plants fall together under one id is the builder's
check (`build-corpus.py:98`) on the variant. It speaks of templates that can be built and
whose rules are `Regular`, look for one name in code and annotations (every rule of the six
templates does). A rule with another name for annotations touches an alias only if the line of
the alias has the name for code; then the id of a plant may change and that of its alias not.
Nor can it hold where a plant stands in a directory that only the holdout passes over.

`NamesReadAsMeant` says for which spellings `normalize_tokens` keeps its word that
"separators carry no meaning" (`matching.py:301`): for all that TLC is given but the 20 of
`MCMisread`, and for none of those. HMACSHA256 claims no SHA256 and SHA-256withRSA no RSA,
because a marker must begin a word or follow a digit; SHA3256 claims nothing, because a
marker that ends in a digit must not be followed by one; P-384 and RS-256 are words the tables
know whole; 3-DES claims DES as well and EC-DSA claims DSA; ML-DSA87, ML-DSA65 and FN-DSA512
claim DSA, because only a bare `DSA` after the prefix is skipped (`:341`) and the letters
before a trailing number are a token (`:354`); SEED128CBC claims nothing. What the matcher
answers is said for the other names only (`NamesAnswerAsMeant`).

`NamesReadBack` is about names that writers make. Others may be scored, too: what is
before the separator need only end in `_` and a project's name (`inputs.py:56`), for the sake
of `owner_repo`, and any text after it is a tool (`inputs.py:77`).

Other places where the code and what is written about it part, met on the way and not
pursued by a run: a detection needs a file and no line (`METHODOLOGY.md:17` and `:83`,
`scoring.py:305`); a component that is credited counts as matched only when it came
first (`METHODOLOGY.md:245`, `scoring.py:309` and `:175`); `miss-report.py` ends in a
`KeyError` on holdout results with a miss, because `report.py:411` leaves `file` out
(`RejectReport`); separators are dropped before sizes are read, so SHA3-256 names none
and a reported SHA3-512 answers it (`matching.py:400` and `:411`);
a separator changes what twenty spellings are read as (`matching.py:301` against `:341` and `:354`, above);
a template with a `.keystore` is built and ends a holdout with an exception, since only one of
the two tools counts the suffix as binary (`build-corpus.py:34`, `generate-holdout.py:56`); `parse_cbom` raises on
`{"components": 5}` where its comment promises a document without assets (`Raise`);
a `--check` that ends in an error leaves its staging directory behind
(`build-corpus.py:192`, "write nothing").

## Fairness

* `Withhold`: weak fairness of a process's steps - once started it is scheduled. Strong
  fairness of `Withholds`, a run of the tool without `--keep`: an operator who wants
  the run withheld tries again. Kills and bad copies are bounded, so they stop.
* `Collect`: weak fairness of the collector's own steps, its timeout included
  (`subprocess.run(timeout=...)`). Generators and late writers have none: they may
  hang. Nothing is assumed of `Start`.
* `Scoring`, `Verdicts`, `Reading`: weak fairness of the function's next step: one thread
  runs it.
* `Corpus`, `Publish`: weak fairness of a process's steps, and strong fairness of starting
  a build, and of starting a scoring in each way it is called: somebody does it again,
  after a kill or an error too. Nothing is assumed of authors, checks, holdouts,
  deliveries or miss reports. `EventuallyInSync` and `EventuallyPublished` say what comes
  of it only where every template can be built and where there is something to score.

## Proofs

Everything is proved for all values of the constants that meet the named
assumptions, of which TLC evaluates the instances.

`WithholdProofs`. `NoEvidenceLost` is not inductive: it says nothing about where a
process is. `IInv` adds, phase by phase, what a process relies on: that a document
not yet copied is still in `cboms/`, that a document that was copied has the bytes
the digest was taken of, that during removal the manifest records every document
that is left and the archive holds it. The archive is shared, so `IInv` is stable
under the steps of other runs only when no two runs share a name; that is
`DistinctNames`, an explicit hypothesis of every theorem but type correctness, and the
run `WithholdSharedArchive.cfg` shows that it cannot be dropped. `BookInv` adds what
the digest block says, from which `CommitmentsHonest` and `VerifiedForGood` follow.
`DigestAssumption` (no collisions) is used where bytes are concluded from digests.

`CollectProofs`. The three safety invariants speak of a manifest that is on the disk;
for most of a session there is none, so `IInv` says the same of the record in memory
(`ListedInv`, `KeptInv`, `FreshInv`), and `WriteManifest` turns the one into the other
because the cursor is then behind the last pair. What may be kept depends on where
`bom.json` came from: `OutputInv` and `LateInv` say that it is this generator's or a
stray one's, where a stray one (`Stray`) was left by an earlier session or is recorded as timed out.
That stays so because a pair is recorded once (`PairUnlisted`, from the plan naming no
pair twice, `PlansAssumption`), so no later record overwrites a timeout. The lemmas
`StartKeeps`, `EndKeeps`, `RecordKeeps` and `InsideKeeps` treat the actions by the
shape of their step.

`ScoringProofs`. `IInv` relates each accumulator to the report: a credited claim has a
witness plant whose file is a planted file and whose algorithm is planted, which is
why a credited component cannot be charged in the later pass even when it lost the
detection to another (`CreditedIsNotCharged`); a detection has a witness that is
eligible, named and on file (`VerdictsAreOrdered`, `DependenciesAreExempt`). Claim
precision needs a counting argument over an injection from credited claims into
claims made, with the finiteness of both (`ClaimPrecisionIsBounded`).
`LoopsComputeVerdicts` is the safety half of `ImplementsVerdicts`: `Exact` says of every
accumulator what it holds when the loops are where they are (a verdict, of the
components compared so far; the credited claims, of those the loops went past; the
charges, of those judged so far), so that at `Return` each is the set `Verdicts`
defines. The one difference in wording is settled by `ReportIsDeclarative`: the code
passes over components that detected something first, `Verdicts` over those with a
credited claim, and a credited component is charged by neither.

`EachIsJudgedAlone` goes one step further: at the end a plant is detected if and only if some
component answers it, and the charge of a component (`Charge`) is a function of that
component and the ground truth. The code looks as if components mattered to one
another - who is first takes the detection, and what is credited escapes the charges - but what
earns a credit has a real file and a planted algorithm near by (`EarningClears`), so it would not have been
charged either. From there `OrderDoesNotMatter` (a bijection of the components) and
`ReportingMoreOnlyAdds`: a tool's detections and charges do not depend on the order of its
components, and one more component takes nothing away from the others.

`PathsProofs`, `ReadingProofs`. That a path resolves to its best match: two files that
agree with it in n segments agree in every lower number, so the suffix table has one
candidate for n exactly when a single file reaches n, and the greatest such n is found
because the numbers are bounded (`Extrema`). `LongestSuffixFinds` says so of the loop,
`PathsResolveToBest` of every location that was read. `ShapesDoNotMatter` needs that the
first value that can be read among the properties is the only one.

`ComponentsAreRead` is about the walk. `EveryComponentRead` says nothing before the stack
is empty; `WalkInv` says of every moment that what was read and what can be reached from
the stack are together what can be reached from the document, and share nothing
(`RestIsRead`, `ReadOnce`); that a component stands on the stack in one place
(`OnceOnStack`); and that nothing still to be read holds a component on the stack
(`HoldersVisited`). The last is why the children that are pushed are not on the stack
already, and it needs that a document is a tree (`TreeAssumption`: an object of JSON text
stands in one place). What can be reached is the least set closed
under nesting (`Below`), so that the argument is by closure and not by induction on depth.

Of names, that the tables read a vocabulary as a reader does (`VocabularyRead`, of all of it
but `Misread`) is a fact about each name, and TLC's. `AnswersFollowReadings` says
what follows from it for every document over that vocabulary: a name that is read as meant
answers a plant by family and size alone, although the code also compares tokens.
It needs that no size of a name runs into another number (`PlantsAreNamed`; SHA3-256 is such
a name, and no plant means what it means). `OnlyTheNamelessAreCredited` puts a bound on the finding of
`ReadingFamily.cfg`: where every name has a family, and is read as meant, none is credited for
another's plant.

`CorpusProofs`. `NoAnswerIsShipped` needs of every step that what it puts on the disk is
cleaned, or a part of what was there. `BuildsAreExact` and `ChecksAreSound` follow from
`IInv`: during a process, what it emitted so far is the beginning of what its template
stands for, what it collected are the annotations of those files, and every project
behind it is settled (`SettledInv`) - built, or compared and found equal unless `stale` was
set. Templates change only between processes, and `last` then forgets. That an answer
names what its line does (`TruthIsOfTheCorpus`) follows from there and from
`HonestAssumption`: the author's annotations are right.

`HoldoutsCorrespond` follows a line through what a holdout does to it. `Kept` is what the rules
leave of a line: its text, the kind and layer of its mark, and an id that is a function of the
old one, the same function in all lines. That there is one is where Regular rules are needed:
such a rule changes an id exactly when it finds its name in it, whatever else is in
the line (`RuleRenames`), so that a plant and its aliases go together (`RuleKeeps`,
`AppliedIsRewritten`). `Placed` is what arranging leaves of a template: in each file an
injection takes old lines to new ones, and each new line with an id is the image of one, which is
shown for shuffling (an injection of a finite set into itself is onto), for the header and for
relocating (`VariantIsPlaced`). That function need not be injective; but the holdout was
built, and no build ends well with an id twice (`Sane`), so on the plants it is
(`IdsStayApart`). From there entries and accepted locations correspond
(`VariantCorresponds`). `HoldoutInv` says during the process that what is being made is a
template whose first rules were applied, then a variant (`Making`), that no id was collected
twice (`OneEach`), and that every project behind it is `Derived` from its template.
That file assets are still where the ground truth expects them is `MovableAssumption`.

`PublishProofs`. `EveryFileAccounted` is inductive with where the process is: documents and
problems are empty before listing, and only listed names are read
(`NoFileIsLost`). `TypeCorrect` says of each document that it has a project of the corpus
and a tool, which is what `Understood` guards.

`NamesAreReadBack` holds under `NamesAssumption`, the condition on names that was found by
trying to prove it. In a raw directory the first separator of `p__t` is the writer's when `p` holds
none and does not end in an underscore, whatever `t` is. In a bundle the tool's name is taken
off the end and the longest project that ends the rest is the writer's when no longer one
ends the repository's full name. The invariant is `ReadAsNamed`: each document was read as the name of its file says.

`ReportsAddUp` and `MissesAreTheRest` compare a sum made in a loop with the size of a
set. `FInv` says that any results.json on the disk adds up, since a miss report may read it at
any later time, and that between the two writes `results.md` is made of the documents and
arguments in hand. What remains is that the running sum over the first n
documents is the number of plants, or hits, in them; since no induction theorem can be instantiated
here, it is shown by the least n at which it would fail. A miss report
is made of what the entries list as undetected, and the figures count what they list as
detected; the two are disjoint and are all there is.

Only model-checked: `NamesReadAsMeant`, that the vocabulary is read as meant (concrete tables
and names: nothing to generalise), and everything
about progress: `EventuallyWithheld`, `EventuallyEnds`, `EventuallyRead`, `EventuallyInSync`,
`EventuallyPublished` and the fairness half of `ImplementsVerdicts`, since liveness is
out of the prover's reach. The properties of the six violations are false; of two of
them theorems say when they hold (`EvidenceSafe` under `DistinctNames`,
`OnlyTheNamelessAreCredited`).

Assumptions an instance must meet, apart from types, and why the code's meet them:

* names of runs that share an archive are distinct (a hypothesis, violated by a run);
* digests do not collide (`DigestAssumption`; SHA-256);
* a plan names no pair twice (`PlansAssumption`; the configuration lists a tool once, and a project has one ground truth);
* authors annotate what is there (`HonestAssumption`; what annotations are for) and relocate
  no two files to one place;
* a document is a tree (`TreeAssumption`; it comes from JSON text);
* project names hold no separator and do not end in an underscore, tools have names, and no
  longer project's name ends a repository's full name (`NamesAssumption`; the six projects of the corpus have no
  underscore at all);
* ids of plants are unique in a project (`PlantsAssumption`; `build-corpus.py:98` and `:127` refuse
  others);
* file assets are keys and keystores, which a holdout copies as they are, and nothing is
  moved to where one is; marks have their fields (`MovableAssumption`; the corpus's file assets are `.pem` and
  `.p12`, in `TEXT_SKIP_SUFFIXES`).

## Plan

Done: `Withhold`, `Cbom`, `Verdicts`, `Scoring`, `Collect` first, as the parts a
published figure rests on most; then `Tables`, `Names`, `Paths` and `Reading`, which give
the scorer's constants their meaning; then `Templates`, `Corpus` and `Publish`, the two
ends of the chain; each with its instance and its proofs, then the theorem that
the scorer's loops compute the abstract report, and the proofs of the walk, the names, the
figures and the holdout.

Every safety invariant and action property the passing runs check is stated by a theorem, but for
`NamesReadAsMeant`.
Left to prove: variants of the loops (each turn of the walk, of the nested loops and of the
builder brings a finite measure down), the part of termination that is a safety property and
would leave only fairness to TLC; the weakest condition under which `RemovedIsRecorded` survives
a kill, and `FailedIsAbsent` a directory used before, beside those findings. Left to model: `Collect` and `Publish`
together, which would follow `FailedIsAbsent` to the tables; the rest of the
evidence-quality counters.

## Not modelled

Formatting of the reports and the columns that are sums of the same form as the
modelled ones; digests of the judgement tables (`tables.py`); schema validation, a
library call whose verdict is shown and never scored; tool version discovery, config
expansion and git status in the collector; shell scripts, sample documents, per-run
converters and the corpus itself: library calls, I/O, or data. The evidence-quality
counters other than the claims and the crypto components are sums over the input that
nothing else reads. Of a name, what its characters become before it is split; of the
holdout, how the shuffle follows from the seed (any order is allowed), rules that would find the
marker, a layer or an asset type, relocations that change a suffix or a skipped directory, and
the several lines of the header, which are one. Reading a template is
one step, since only its author changes it. What a generator does is modelled by its
outcomes only.
