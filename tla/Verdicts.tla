------------------------------ MODULE Verdicts ------------------------------
(***************************************************************************)
(* What scoring a CBOM promises, said without a loop: the report is a      *)
(* function of the ground truth and of the components reported, and the    *)
(* order of the components plays no part in it.                            *)
(***************************************************************************)
EXTENDS Cbom

CONSTANTS
    GroundTruths,    \* ground truths to score against
    Documents,       \* reported components, as parse_cbom lists them
    NoReport

VARIABLES truth, reported, report

Detects(e, c) ==
    /\ Eligible(truth[e], reported[c])
    /\ Named(truth[e].algorithm, reported[c])
    /\ OnFile(truth[e], reported[c])

Eligibles(e) == {c \in DOMAIN reported : Eligible(truth[e], reported[c])}

Verdict(e) ==
    [detected  |-> \E c \in DOMAIN reported : Detects(e, c),
     located   |-> \E c \in Eligibles(e) : OnLine(truth[e], reported[c]),
     file_only |-> \E c \in Eligibles(e) : OnFile(truth[e], reported[c]),
     name_only |-> \E c \in Eligibles(e) : Named(truth[e].algorithm, reported[c])]

CryptoComponents == {c \in DOMAIN reported : ~reported[c].dependency}

\* A claim is credited when its file is one a plant of that name is accepted in.
Credited ==
    {claim \in CryptoComponents \X Files :
        \E e \in DOMAIN truth :
            /\ Named(truth[e].algorithm, reported[claim[1]])
            /\ claim[2] \in ResolvedFiles(reported[claim[1]]) \cap AcceptedFiles(truth[e])}

Claims ==
    UNION {{<<c, l[1], l[2]>> : l \in Locations(reported[c])} : c \in CryptoComponents}

\* Only a component that was credited with nothing can be held to account.
Suspects == {c \in CryptoComponents : \A f \in Files : <<c, f>> \notin Credited}

FalseAlgorithms == {c \in Suspects : PhantomAlgorithm(truth, reported[c])}
FalseLocations  == {c \in Suspects \ FalseAlgorithms : PhantomLocation(reported[c])}
Strays ==
    {c \in Suspects \ (FalseAlgorithms \cup FalseLocations) :
        ~NearAPlant(truth, reported[c])}

Report ==
    [verdicts          |-> [e \in DOMAIN truth |-> Verdict(e)],
     credited_claims   |-> Credited,
     distinct_claims   |-> Claims,
     phantom_algorithm |-> FalseAlgorithms,
     phantom_location  |-> FalseLocations,
     unmatched_reports |-> Strays]

Init ==
    /\ truth \in GroundTruths
    /\ reported \in Documents
    /\ report = NoReport

Score ==
    /\ report = NoReport
    /\ report' = Report
    /\ UNCHANGED <<truth, reported>>

\* Without the promise that there is a report in the end.
Safety == Init /\ [][Score]_<<truth, reported, report>>

Spec == Safety /\ WF_<<truth, reported, report>>(Score)
=============================================================================
