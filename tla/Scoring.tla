------------------------------- MODULE Scoring -------------------------------
(***************************************************************************)
(* proofstein/scoring.py: score_cbom scores one CBOM against one project's *)
(* ground truth.  It measures the evidence, then compares every plant with *)
(* every component in two nested loops that share four accumulators, and   *)
(* then goes over the components again to decide which of those that       *)
(* matched nothing are false positives.                                    *)
(*                                                                         *)
(* A counter is kept as the set of what it has counted.                    *)
(***************************************************************************)
EXTENDS Cbom

CONSTANTS GroundTruths, Documents, NoReport

ASSUME InputAssumption ==
    /\ GroundTruths \subseteq Seq(Entry)
    /\ Documents \subseteq Seq(Component)

VARIABLES
    truth,               \* ground_truth
    reported,            \* reported
    phase,
    entry,               \* index of the plant the outer loop is at
    asset,               \* index of the component the inner loop is at
    verdicts,            \* result.verdicts
    matched_components,
    credited_claims,
    distinct_claims,     \* result.evidence, as far as a figure depends on it
    crypto_components,
    phantom_algorithm,
    phantom_location,
    unmatched_reports

inputs  == <<truth, reported>>
matches == <<verdicts, matched_components, credited_claims>>
quality == <<distinct_claims, crypto_components>>
charges == <<phantom_algorithm, phantom_location, unmatched_reports>>
vars    == <<inputs, phase, entry, asset, matches, quality, charges>>

NoComponent == 0

TypeOK ==
    /\ truth \in GroundTruths
    /\ reported \in Documents
    /\ phase \in {"measure", "match", "classify", "done"}
    /\ entry \in 1..(Len(truth) + 1)
    /\ asset \in 1..(Len(reported) + 1)
    /\ verdicts \in [DOMAIN truth ->
           [detected : BOOLEAN, located : BOOLEAN, file_only : BOOLEAN,
            name_only : BOOLEAN, matched_component : {NoComponent} \cup DOMAIN reported]]
    /\ matched_components \subseteq DOMAIN reported
    /\ credited_claims \subseteq (DOMAIN reported) \X Files
    /\ distinct_claims \subseteq
           (DOMAIN reported) \X (Files \cup {Unresolved}) \X (Lines \cup {NoLine})
    /\ crypto_components \subseteq DOMAIN reported
    /\ phantom_algorithm \subseteq DOMAIN reported
    /\ phantom_location \subseteq DOMAIN reported
    /\ unmatched_reports \subseteq DOMAIN reported

Init ==
    /\ truth \in GroundTruths
    /\ reported \in Documents
    /\ phase = "measure"
    /\ entry = 1
    /\ asset = 1
    /\ verdicts = [e \in DOMAIN truth |->
           [detected |-> FALSE, located |-> FALSE, file_only |-> FALSE,
            name_only |-> FALSE, matched_component |-> NoComponent]]
    /\ matched_components = {}
    /\ credited_claims = {}
    /\ distinct_claims = {}
    /\ crypto_components = {}
    /\ phantom_algorithm = {}
    /\ phantom_location = {}
    /\ unmatched_reports = {}

-----------------------------------------------------------------------------
(***************************************************************************)
(* _measure_evidence.  Dependency components make no cryptographic claim.  *)
(***************************************************************************)
Crypto == {c \in DOMAIN reported : ~reported[c].dependency}

Measure ==
    /\ phase = "measure"
    /\ crypto_components' = Crypto
    /\ distinct_claims' =
           UNION {{<<c, l[1], l[2]>> : l \in Locations(reported[c])} : c \in Crypto}
    /\ phase' = "match"
    /\ UNCHANGED <<inputs, entry, asset, matches, charges>>

(***************************************************************************)
(* The two matching loops.                                                 *)
(***************************************************************************)
Matching == phase = "match" /\ entry \in DOMAIN truth

\* The gate at the head of the inner loop: "continue".
Skip ==
    /\ Matching
    /\ asset \in DOMAIN reported
    /\ ~Eligible(truth[entry], reported[asset])
    /\ asset' = asset + 1
    /\ UNCHANGED <<inputs, phase, entry, matches, quality, charges>>

\* Faulty variants: an unresolved location is credited; every accepted file is
\* credited when one is reported.
ClaimsOnAnything(e, c) == {c} \X {l[1] : l \in Locations(reported[c])}
ClaimsOnAllAccepted(e, c) ==
    {c} \X (IF OnFile(truth[e], reported[c]) THEN AcceptedFiles(truth[e]) ELSE {})

\* The claims that land on a file accepted for the plant.
ClaimsOn(e, c) ==
    {c} \X (ResolvedFiles(reported[c]) \cap AcceptedFiles(truth[e]))

\* Faulty variants: the name alone detects; the last component wins.
DetectsByName(e, c) ==
    Named(truth[e].algorithm, reported[c]) /\ ~verdicts[e].detected
DetectsLast(e, c) ==
    Named(truth[e].algorithm, reported[c]) /\ OnFile(truth[e], reported[c])

\* Whether this component is the one that detects the plant.
DetectsFirst(e, c) ==
    /\ Named(truth[e].algorithm, reported[c])
    /\ OnFile(truth[e], reported[c])
    /\ ~verdicts[e].detected

Compare ==
    /\ Matching
    /\ asset \in DOMAIN reported
    /\ Eligible(truth[entry], reported[asset])
    /\ LET e == truth[entry]
           c == reported[asset]
           first == DetectsFirst(entry, asset)
           detector == IF first THEN asset ELSE verdicts[entry].matched_component
       IN  /\ verdicts' = [verdicts EXCEPT ![entry] =
                 [detected  |-> @.detected \/ first,
                  located   |-> @.located \/ OnLine(e, c),
                  file_only |-> @.file_only \/ OnFile(e, c),
                  name_only |-> @.name_only \/ Named(e.algorithm, c),
                  matched_component |-> detector]]
           /\ credited_claims' = credited_claims \cup
                 (IF Named(e.algorithm, c) /\ ~c.dependency
                  THEN ClaimsOn(entry, asset) ELSE {})
           /\ matched_components' = matched_components \cup
                 (IF first /\ ~c.dependency THEN {asset} ELSE {})
    /\ asset' = asset + 1
    /\ UNCHANGED <<inputs, phase, entry, quality, charges>>

\* Faulty variant: the inner loop is not started over.
NextEntryNoReset ==
    /\ Matching
    /\ asset = Len(reported) + 1
    /\ entry' = entry + 1
    /\ asset' = IF entry = Len(truth) THEN 1 ELSE asset
    /\ UNCHANGED <<inputs, phase, matches, quality, charges>>

NextEntry ==
    /\ Matching
    /\ asset = Len(reported) + 1
    /\ entry' = entry + 1
    /\ asset' = 1
    /\ UNCHANGED <<inputs, phase, matches, quality, charges>>

EndMatching ==
    /\ phase = "match"
    /\ entry = Len(truth) + 1
    /\ phase' = "classify"
    /\ UNCHANGED <<inputs, entry, asset, matches, quality, charges>>

(***************************************************************************)
(* _count_false_positives.                                                 *)
(***************************************************************************)
Classifying == phase = "classify" /\ asset \in DOMAIN reported

\* Faulty variant: an SBOM's packages are suspected too.
SuspectedPackages == asset \notin matched_components

\* Matched components and dependencies are passed over.
Suspected == asset \notin matched_components /\ ~reported[asset].dependency

PassOver ==
    /\ Classifying
    /\ ~Suspected
    /\ asset' = asset + 1
    /\ UNCHANGED <<inputs, phase, entry, matches, quality, charges>>

ChargeAlgorithm ==
    /\ Classifying
    /\ Suspected
    /\ PhantomAlgorithm(truth, reported[asset])
    /\ phantom_algorithm' = phantom_algorithm \cup {asset}
    /\ asset' = asset + 1
    /\ UNCHANGED <<inputs, phase, entry, matches, quality, phantom_location,
                   unmatched_reports>>

ChargeLocation ==
    /\ Classifying
    /\ Suspected
    /\ ~PhantomAlgorithm(truth, reported[asset])
    /\ PhantomLocation(reported[asset])
    /\ phantom_location' = phantom_location \cup {asset}
    /\ asset' = asset + 1
    /\ UNCHANGED <<inputs, phase, entry, matches, quality, phantom_algorithm,
                   unmatched_reports>>

\* Neither charge applies: counted as unmatched unless it is near a plant.
LeaveUncharged ==
    /\ Classifying
    /\ Suspected
    /\ ~PhantomAlgorithm(truth, reported[asset])
    /\ ~PhantomLocation(reported[asset])
    /\ unmatched_reports' = unmatched_reports \cup
           (IF NearAPlant(truth, reported[asset]) THEN {} ELSE {asset})
    /\ asset' = asset + 1
    /\ UNCHANGED <<inputs, phase, entry, matches, quality, phantom_algorithm,
                   phantom_location>>

Return ==
    /\ phase = "classify"
    /\ asset = Len(reported) + 1
    /\ phase' = "done"
    /\ UNCHANGED <<inputs, entry, asset, matches, quality, charges>>

Next ==
    \/ Measure
    \/ Skip \/ Compare \/ NextEntry \/ EndMatching
    \/ PassOver \/ ChargeAlgorithm \/ ChargeLocation \/ LeaveUncharged
    \/ Return

\* One thread runs the function to its end.
Spec == Init /\ [][Next]_vars /\ WF_vars(Next)

-----------------------------------------------------------------------------
(***************************************************************************)
(* Properties.                                                             *)
(***************************************************************************)

\* Every credited claim is one of the claims counted in the denominator, so
\* claim precision never exceeds 100%, at any point of the loops.
ClaimPrecisionBounded ==
    phase # "measure" =>
        /\ \A claim \in credited_claims :
               \E made \in distinct_claims : made[1] = claim[1] /\ made[2] = claim[2]
        /\ Cardinality(credited_claims) <= Cardinality(distinct_claims)

\* A component that matched is one that was credited with a claim; a component
\* that was credited, whether it is the one that matched or not, is neither
\* charged as a false positive nor counted as unmatched.
CreditedNeverCharged ==
    LET credited == {claim[1] : claim \in credited_claims}
    IN  /\ matched_components \subseteq credited
        /\ credited \cap (phantom_algorithm \cup phantom_location \cup unmatched_reports) = {}

\* A dependency component answers layer-5 plants only, and takes no part in
\* any count of cryptographic claims, for or against ("no credit, no
\* punishment").
DependenciesExempt ==
    /\ \A c \in DOMAIN reported : reported[c].dependency =>
           /\ c \notin matched_components \cup crypto_components
           /\ c \notin phantom_algorithm \cup phantom_location \cup unmatched_reports
           /\ \A claim \in credited_claims \cup distinct_claims : claim[1] # c
    /\ \A e \in DOMAIN truth :
           verdicts[e].matched_component # NoComponent
             /\ reported[verdicts[e].matched_component].dependency
               => truth[e].layer = 5

\* The weaker rules are weaker: a detection implies that the file and the name
\* were seen, a line that was seen implies its file.  The matched component is
\* the witness, and it is counted as matched unless it is a dependency.
VerdictsOrdered ==
    \A e \in DOMAIN truth :
        LET v == verdicts[e]
        IN  /\ v.detected => v.file_only /\ v.name_only
            /\ v.located => v.file_only
            /\ v.detected = (v.matched_component # NoComponent)
            /\ v.detected /\ ~reported[v.matched_component].dependency =>
                   v.matched_component \in matched_components

\* Once a plant is detected the verdict names the component that did it, and
\* no later component takes its place.
FirstDetectorStays ==
    [][\A e \in DOMAIN truth :
          verdicts[e].detected =>
              /\ verdicts'[e].detected
              /\ verdicts'[e].matched_component = verdicts[e].matched_component]_vars

\* The report, when it is complete.
Report ==
    IF phase # "done" THEN NoReport
    ELSE [verdicts |-> [e \in DOMAIN truth |->
             [detected |-> verdicts[e].detected, located |-> verdicts[e].located,
              file_only |-> verdicts[e].file_only, name_only |-> verdicts[e].name_only]],
          credited_claims   |-> credited_claims,
          distinct_claims   |-> distinct_claims,
          phantom_algorithm |-> phantom_algorithm,
          phantom_location  |-> phantom_location,
          unmatched_reports |-> unmatched_reports]

\* The loops compute the order-free verdicts, and always get to the end: the
\* set of matched components depends on the order of the components, what is
\* charged for not being in it does not.
Declarative == INSTANCE Verdicts WITH report <- Report
ImplementsVerdicts == Declarative!Spec
=============================================================================
