-------------------------------- MODULE Cbom --------------------------------
(***************************************************************************)
(* The data the scorer works on: the ground truth of a project, the        *)
(* components a generator reported, and when the one answers the other.    *)
(* The name matcher and the path resolver (proofstein/matching.py) appear  *)
(* here as the relation and the function they compute.                     *)
(***************************************************************************)
EXTENDS Naturals, Sequences, FiniteSets

CONSTANTS
    Algorithms,      \* names a plant or an allowance can have
    Names,           \* names a component can be given
    Compatible,      \* algorithms_compatible: which name may stand for which
    FamilyNames,     \* names that claim an algorithm family
    Files,           \* files of the project
    Paths,           \* locations a generator can report
    Resolve,         \* PathResolver.resolve, on the project's files
    Unresolved,      \* resolve returned None
    NoPath,          \* an occurrence with no location
    NoLine,          \* an occurrence with no line
    Allowances,      \* known_unplanted
    Anywhere,        \* an allowance that names no file
    LineTolerance

Lines == Nat \ {0}

Location   == [file : Files, line : Lines]
Entry      == [algorithm : Algorithms, layer : 1..6, plant : Location,
               alternatives : SUBSET Location]
Occurrence == [file : Paths \cup {NoPath}, line : Lines \cup {NoLine}]
Component  == [dependency : BOOLEAN, names : SUBSET Names, occurrences : Seq(Occurrence)]

\* An allowance, once its project is compared with the one that is scored.
Allowance == [algorithm : Algorithms, project : BOOLEAN, file : Files \cup {Anywhere}]

ASSUME MatcherAssumption ==
    /\ Compatible \subseteq Algorithms \X Names
    /\ FamilyNames \subseteq Names
    /\ Resolve \in [Paths -> Files \cup {Unresolved}]
    /\ Allowances \subseteq Allowance
    /\ LineTolerance \in Nat

ASSUME SentinelAssumption ==
    /\ Unresolved \notin Files
    /\ Anywhere \notin Files
    /\ NoPath \notin Paths
    /\ NoLine \notin Lines

-----------------------------------------------------------------------------
(***************************************************************************)
(* A component: asset.                                                     *)
(***************************************************************************)

\* The resolved locations of a component, in the order of its occurrences.
Resolution(occurrence) ==
    IF occurrence.file = NoPath THEN Unresolved ELSE Resolve[occurrence.file]

Locations(asset) ==
    {<<Resolution(asset.occurrences[k]), asset.occurrences[k].line>> :
        k \in DOMAIN asset.occurrences}

ResolvedFiles(asset) == {l[1] : l \in Locations(asset)} \ {Unresolved}

HasLocation(asset) ==
    \E k \in DOMAIN asset.occurrences : asset.occurrences[k].file # NoPath

ClaimsAFamily(asset) == asset.names \cap FamilyNames # {}

\* Some name of the component may stand for the algorithm.
Named(algorithm, asset) == \E name \in asset.names : <<algorithm, name>> \in Compatible

(***************************************************************************)
(* A plant: entry, and the ground truth, a sequence of them.               *)
(***************************************************************************)
Accepted(entry)      == {entry.plant} \cup entry.alternatives
AcceptedFiles(entry) == {location.file : location \in Accepted(entry)}

\* Faulty variant: the declared alternatives are forgotten.
PlantedFilesNoAlternatives(truth) == {truth[e].plant.file : e \in DOMAIN truth}

PlantedFiles(truth)      == UNION {AcceptedFiles(truth[e]) : e \in DOMAIN truth}
PlantedAlgorithms(truth) == {truth[e].algorithm : e \in DOMAIN truth}

\* A dependency component answers a layer-5 plant and nothing else.
Eligible(entry, asset) == asset.dependency => entry.layer = 5

OnFile(entry, asset) == ResolvedFiles(asset) \cap AcceptedFiles(entry) # {}

\* location_matches for some location of the component and of the plant.
OnLine(entry, asset) ==
    \E l \in Locations(asset), a \in Accepted(entry) :
        /\ l[1] = a.file
        /\ l[2] # NoLine
        /\ l[2] <= a.line + LineTolerance
        /\ a.line <= l[2] + LineTolerance

(***************************************************************************)
(* Unplanted.applies_to, and whether naming an algorithm family is         *)
(* believable in this project.                                             *)
(***************************************************************************)
AppliesTo(allowance, asset) ==
    /\ allowance.project
    /\ \/ allowance.file = Anywhere
       \/ allowance.file \in ResolvedFiles(asset)
       \/ ~HasLocation(asset)

Credible(truth, asset) ==
    \/ \E algorithm \in PlantedAlgorithms(truth) : Named(algorithm, asset)
    \/ \E allowance \in Allowances :
           AppliesTo(allowance, asset) /\ Named(allowance.algorithm, asset)

PhantomAlgorithm(truth, asset) == ClaimsAFamily(asset) /\ ~Credible(truth, asset)

\* Every location is unresolvable, and there is one.
PhantomLocation(asset) == HasLocation(asset) /\ ResolvedFiles(asset) = {}

NearAPlant(truth, asset) == ResolvedFiles(asset) \cap PlantedFiles(truth) # {}
=============================================================================
