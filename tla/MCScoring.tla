------------------------------ MODULE MCScoring ------------------------------
(***************************************************************************)
(* Small instances of Scoring.  The project has two files that hold plants *)
(* (fA, fB) and one that holds none (fO); a generator can also report a    *)
(* path that is in no project.  AES and RSA are planted; DES is a family   *)
(* that exists only as an allowance at fO; MD5 is planted nowhere; a key   *)
(* file's name claims no family.                                           *)
(***************************************************************************)
EXTENDS Scoring, SequencesExt

CONSTANTS AES, RSA, DES, MD5, KeyFile,
          fA, fB, fO, pA, pB, pO, pNowhere

MCCompatible == {<<AES, AES>>, <<RSA, RSA>>, <<DES, DES>>}

MCResolve == [p \in {pA, pB, pO, pNowhere} |->
    IF p = pA THEN fA ELSE IF p = pB THEN fB ELSE IF p = pO THEN fO ELSE Unresolved]

MCAllowances ==
    {[algorithm |-> DES, project |-> TRUE, file |-> fO],
     [algorithm |-> RSA, project |-> FALSE, file |-> Anywhere]}

At(f, l) == [file |-> f, line |-> l]
Plant(a, layer, place, others) ==
    [algorithm |-> a, layer |-> layer, plant |-> place, alternatives |-> others]

\* Two plants of one algorithm in one file; a plant with an alternative in
\* another file, and a layer-5 plant; a project with no plants.
MCGroundTruths ==
    {<<Plant(AES, 1, At(fA, 1), {}), Plant(AES, 2, At(fA, 9), {At(fA, 5)})>>,
     <<Plant(AES, 3, At(fA, 5), {At(fB, 1)}), Plant(RSA, 5, At(fA, 1), {})>>,
     <<>>}

Report1(dep, names, occurrences) ==
    [dependency |-> dep, names |-> names, occurrences |-> occurrences]
Seen(p, l) == [file |-> p, line |-> l]

SomeNames == {{AES}, {RSA}, {DES}, {MD5}, {KeyFile}, {AES, MD5}}
SomeEvidence ==
    {<<>>,
     <<Seen(pA, NoLine)>>, <<Seen(pA, 3)>>, <<Seen(pB, 9)>>, <<Seen(pO, 1)>>,
     <<Seen(pNowhere, 1)>>, <<Seen(NoPath, 1)>>,
     <<Seen(pA, 1), Seen(pA, 1)>>, <<Seen(pA, 9), Seen(pB, 1)>>,
     <<Seen(pNowhere, 1), Seen(pO, NoLine)>>, <<Seen(pNowhere, 2), Seen(NoPath, 5)>>}

Claims == {Report1(FALSE, names, evidence) : names \in SomeNames, evidence \in SomeEvidence}
Dependencies ==
    {Report1(TRUE, names, evidence) :
        names \in {{AES}, {RSA}, {KeyFile}},
        evidence \in {<<>>, <<Seen(pA, 1)>>, <<Seen(pB, NoLine)>>, <<Seen(pNowhere, 1)>>}}

\* Documents of three components, over fewer of them: who comes first matters.
Contenders ==
    {Report1(FALSE, names, evidence) :
        names \in {{AES}, {AES, RSA}},
        evidence \in {<<Seen(pA, NoLine)>>, <<Seen(pA, 9), Seen(pB, 1)>>}}
    \cup {Report1(TRUE, {RSA}, <<Seen(pA, 1)>>), Report1(FALSE, {MD5}, <<Seen(pA, 1)>>)}

\* Every document of up to two components, and those of three contenders.
MCDocuments == SeqOf(Claims \cup Dependencies, 2) \cup [1..3 -> Contenders]

MCContests == SeqOf(Contenders, 3)
=============================================================================
