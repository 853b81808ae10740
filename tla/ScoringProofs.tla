---------------------------- MODULE ScoringProofs ----------------------------
(***************************************************************************)
(* Proofs about Scoring, for any ground truth, any reported components,    *)
(* any name matcher and path resolver, and any tolerance.                  *)
(***************************************************************************)
EXTENDS Scoring, FiniteSetTheorems, TLAPS

LEMMA TypeInit == Init => TypeOK
<1> SUFFICES ASSUME Init PROVE TypeOK
    OBVIOUS
<1>1. truth \in Seq(Entry) /\ reported \in Seq(Component)
      BY InputAssumption DEF Init
<1>2. Len(truth) \in Nat /\ Len(reported) \in Nat
      BY <1>1
<1> QED BY <1>2 DEF Init, TypeOK, NoComponent

\* The locations of a component are pairs of a file, or none, and a line, or
\* none.
LEMMA LocationsType ==
    ASSUME NEW c \in Component
    PROVE  /\ Locations(c) \subseteq (Files \cup {Unresolved}) \X (Lines \cup {NoLine})
           /\ ResolvedFiles(c) \subseteq Files
<1>1. ASSUME NEW k \in DOMAIN c.occurrences
      PROVE  c.occurrences[k] \in Occurrence
      BY DEF Component
<1>2. ASSUME NEW k \in DOMAIN c.occurrences
      PROVE  Resolution(c.occurrences[k]) \in Files \cup {Unresolved}
      BY <1>1, MatcherAssumption DEF Resolution, Occurrence
<1>3. Locations(c) \subseteq (Files \cup {Unresolved}) \X (Lines \cup {NoLine})
      BY <1>1, <1>2 DEF Locations, Occurrence
<1> QED BY <1>3 DEF ResolvedFiles

LEMMA InputsType ==
    ASSUME TypeOK
    PROVE  /\ truth \in Seq(Entry) /\ reported \in Seq(Component)
           /\ Len(truth) \in Nat /\ DOMAIN truth = 1..Len(truth)
           /\ Len(reported) \in Nat /\ DOMAIN reported = 1..Len(reported)
           /\ \A e \in DOMAIN truth : truth[e] \in Entry
           /\ \A c \in DOMAIN reported : reported[c] \in Component
BY InputAssumption DEF TypeOK

LEMMA TypeNext == TypeOK /\ [Next]_vars => TypeOK'
<1> SUFFICES ASSUME TypeOK, [Next]_vars
             PROVE  TypeOK'
    OBVIOUS
<1> USE InputsType
<1>1. CASE Measure
  <2>1. crypto_components' \subseteq DOMAIN reported
        BY <1>1 DEF Measure, Crypto
  <2>2. distinct_claims' \subseteq
           (DOMAIN reported) \X (Files \cup {Unresolved}) \X (Lines \cup {NoLine})
        BY <1>1, LocationsType DEF Measure, Crypto
  <2> QED BY <1>1, <2>1, <2>2 DEF Measure, TypeOK, inputs, matches, charges
<1>2. CASE Skip
      BY <1>2 DEF Skip, Matching, TypeOK, inputs, matches, charges, quality
<1>3. CASE Compare
  <2> DEFINE first == DetectsFirst(entry, asset)
             new == [detected  |-> verdicts[entry].detected \/ first,
                     located   |-> verdicts[entry].located \/ OnLine(truth[entry], reported[asset]),
                     file_only |-> verdicts[entry].file_only \/ OnFile(truth[entry], reported[asset]),
                     name_only |-> verdicts[entry].name_only
                                     \/ Named(truth[entry].algorithm, reported[asset]),
                     matched_component |->
                        IF first THEN asset ELSE verdicts[entry].matched_component]
  <2>1. entry \in DOMAIN truth /\ asset \in DOMAIN reported
        BY <1>3 DEF Compare, Matching
  <2>2. verdicts' = [verdicts EXCEPT ![entry] = new]
        BY <1>3 DEF Compare
  <2>3. new \in [detected : BOOLEAN, located : BOOLEAN, file_only : BOOLEAN,
                 name_only : BOOLEAN, matched_component : {NoComponent} \cup DOMAIN reported]
    <3>1. first \in BOOLEAN
          BY DEF DetectsFirst
    <3>2. OnLine(truth[entry], reported[asset]) \in BOOLEAN
          BY DEF OnLine
    <3>3. OnFile(truth[entry], reported[asset]) \in BOOLEAN
          BY DEF OnFile
    <3>4. Named(truth[entry].algorithm, reported[asset]) \in BOOLEAN
          BY DEF Named
    <3>5. verdicts[entry].matched_component \in {NoComponent} \cup DOMAIN reported
          BY <2>1 DEF TypeOK
    <3> HIDE DEF first
    <3> QED BY <2>1, <3>1, <3>2, <3>3, <3>4, <3>5
  <2>4. credited_claims' \subseteq (DOMAIN reported) \X Files
    <3>1. ClaimsOn(entry, asset) \subseteq (DOMAIN reported) \X Files
          BY <2>1, LocationsType DEF ClaimsOn
    <3> QED BY <1>3, <3>1 DEF Compare, TypeOK
  <2>5. matched_components' \subseteq DOMAIN reported
        BY <1>3, <2>1 DEF Compare, TypeOK
  <2>6. asset' \in 1..(Len(reported) + 1)
        BY <1>3, <2>1 DEF Compare
  <2>7. verdicts' \in [DOMAIN truth ->
           [detected : BOOLEAN, located : BOOLEAN, file_only : BOOLEAN,
            name_only : BOOLEAN, matched_component : {NoComponent} \cup DOMAIN reported]]
    <3> HIDE DEF new
    <3> QED BY <2>1, <2>2, <2>3 DEF TypeOK
  <2> QED BY <1>3, <2>4, <2>5, <2>6, <2>7 DEF Compare, TypeOK, inputs, quality, charges
<1>4. CASE NextEntry
      BY <1>4 DEF NextEntry, Matching, TypeOK, inputs, matches, charges, quality
<1>5. CASE EndMatching
      BY <1>5 DEF EndMatching, TypeOK, inputs, matches, charges, quality
<1>6. CASE PassOver
      BY <1>6 DEF PassOver, Classifying, TypeOK, inputs, matches, charges, quality
<1>7. CASE ChargeAlgorithm
      BY <1>7 DEF ChargeAlgorithm, Classifying, TypeOK, inputs, matches, quality
<1>8. CASE ChargeLocation
      BY <1>8 DEF ChargeLocation, Classifying, TypeOK, inputs, matches, quality
<1>9. CASE LeaveUncharged
      BY <1>9 DEF LeaveUncharged, Classifying, TypeOK, inputs, matches, quality
<1>10. CASE Return
      BY <1>10 DEF Return, TypeOK, inputs, matches, charges, quality
<1>11. CASE UNCHANGED vars
      BY <1>11 DEF vars, TypeOK, inputs, matches, charges, quality
<1> QED
    BY <1>1, <1>2, <1>3, <1>4, <1>5, <1>6, <1>7, <1>8, <1>9, <1>10, <1>11 DEF Next

(***************************************************************************)
(* The scorer's state is well typed throughout.                            *)
(***************************************************************************)
THEOREM TypeCorrect == Spec => []TypeOK
BY TypeInit, TypeNext, PTL DEF Spec

-----------------------------------------------------------------------------
(***************************************************************************)
(* The inductive invariant: what each member of an accumulator shows about *)
(* the component it stands for.  The two loops share nothing but these     *)
(* sets, so the second can be judged from what the first left in them.     *)
(***************************************************************************)
\* Component c may be credited with file f.
Earns(c, f) ==
    \E e \in DOMAIN truth :
        /\ Named(truth[e].algorithm, reported[c])
        /\ f \in ResolvedFiles(reported[c]) \cap AcceptedFiles(truth[e])

CreditInv ==
    /\ \A claim \in credited_claims :
           ~reported[claim[1]].dependency /\ Earns(claim[1], claim[2])
    /\ \A c \in matched_components : \E f \in Files : <<c, f>> \in credited_claims

ChargeInv ==
    /\ \A c \in phantom_algorithm :
           ~reported[c].dependency /\ PhantomAlgorithm(truth, reported[c])
    /\ \A c \in phantom_location :
           ~reported[c].dependency /\ PhantomLocation(reported[c])
    /\ \A c \in unmatched_reports :
           ~reported[c].dependency /\ ~NearAPlant(truth, reported[c])

EvidenceInv ==
    /\ \A c \in crypto_components : ~reported[c].dependency
    /\ \A made \in distinct_claims : ~reported[made[1]].dependency
    /\ phase # "measure" =>
           distinct_claims =
               UNION {{<<c, l[1], l[2]>> : l \in Locations(reported[c])} : c \in Crypto}
    /\ phase = "measure" => credited_claims = {}

VerdictInv ==
    \A e \in DOMAIN truth :
        LET v == verdicts[e]
            m == v.matched_component
        IN  /\ v.detected => v.file_only /\ v.name_only
            /\ v.located => v.file_only
            /\ v.detected = (m # NoComponent)
            /\ v.detected => Eligible(truth[e], reported[m])
            /\ v.detected /\ ~reported[m].dependency => m \in matched_components

IInv == TypeOK /\ CreditInv /\ ChargeInv /\ EvidenceInv /\ VerdictInv

LEMMA InitIInv == Init => IInv
<1> SUFFICES ASSUME Init PROVE IInv
    OBVIOUS
<1>1. TypeOK
      BY TypeInit
<1>2. VerdictInv
      BY DEF Init, VerdictInv, NoComponent
<1>3. CreditInv /\ ChargeInv /\ EvidenceInv
      BY DEF Init, CreditInv, ChargeInv, EvidenceInv
<1> QED BY <1>1, <1>2, <1>3 DEF IInv

\* A line that agrees belongs to a file that agrees.
LEMMA OnLineOnFile ==
    ASSUME NEW e \in Entry, NEW c \in Component, OnLine(e, c)
    PROVE  OnFile(e, c)
<1>1. PICK l \in Locations(c), a \in Accepted(e) : l[1] = a.file
      BY DEF OnLine
<1>2. a.file \in Files
      BY DEF Accepted, Entry, Location
<1>3. a.file \in ResolvedFiles(c)
      BY <1>1, <1>2, SentinelAssumption DEF ResolvedFiles
<1> QED BY <1>3 DEF OnFile, AcceptedFiles

LEMMA CompareIInv ==
    ASSUME IInv, Compare
    PROVE  CreditInv' /\ EvidenceInv' /\ VerdictInv'
<1> USE InputsType DEF IInv
<1>1. entry \in DOMAIN truth /\ asset \in DOMAIN reported
      BY DEF Compare, Matching
<1>2. UNCHANGED <<inputs, phase, entry, quality, charges>>
      BY DEF Compare
<1> DEFINE first == DetectsFirst(entry, asset)
           named == Named(truth[entry].algorithm, reported[asset])
           credit == IF named /\ ~reported[asset].dependency
                     THEN ClaimsOn(entry, asset) ELSE {}
<1>3. credited_claims' = credited_claims \cup credit
      BY DEF Compare
<1>4. matched_components' = matched_components \cup
          (IF first /\ ~reported[asset].dependency THEN {asset} ELSE {})
      BY DEF Compare
<1>5. \A claim \in credit :
          /\ claim[1] = asset /\ ~reported[asset].dependency
          /\ Earns(asset, claim[2])
      BY <1>1 DEF ClaimsOn, Earns
<1>6. CreditInv'
  <2>1. \A claim \in credited_claims' :
            ~reported[claim[1]].dependency /\ Earns(claim[1], claim[2])
        BY <1>3, <1>5 DEF CreditInv
  <2>2. first /\ ~reported[asset].dependency =>
            \E f \in Files : <<asset, f>> \in credit
    <3>1. first => named /\ OnFile(truth[entry], reported[asset])
          BY DEF DetectsFirst
    <3>2. OnFile(truth[entry], reported[asset]) =>
              \E f \in Files : <<asset, f>> \in ClaimsOn(entry, asset)
          BY <1>1, LocationsType DEF OnFile, ClaimsOn
    <3> QED BY <3>1, <3>2
  <2>3. \A c \in matched_components' : \E f \in Files : <<c, f>> \in credited_claims'
        BY <1>3, <1>4, <2>2 DEF CreditInv
  <2> QED BY <1>2, <2>1, <2>3 DEF CreditInv, inputs, Earns
<1>7. EvidenceInv'
  <2>1. phase # "measure"
        BY DEF Compare, Matching
  <2> QED BY <1>2, <2>1 DEF EvidenceInv, inputs, quality, Crypto
<1>8. VerdictInv'
  <2> SUFFICES ASSUME NEW e \in DOMAIN truth
               PROVE  LET v == verdicts'[e]
                          m == v.matched_component
                      IN  /\ v.detected => v.file_only /\ v.name_only
                          /\ v.located => v.file_only
                          /\ v.detected = (m # NoComponent)
                          /\ v.detected => Eligible(truth[e], reported[m])
                          /\ v.detected /\ ~reported[m].dependency =>
                                 m \in matched_components'
      BY <1>2 DEF VerdictInv, inputs
  <2>1. CASE e # entry
    <3>1. verdicts'[e] = verdicts[e]
          BY <2>1 DEF Compare, TypeOK
    <3> QED BY <3>1, <1>4 DEF VerdictInv
  <2>2. CASE e = entry
    <3> DEFINE line == OnLine(truth[entry], reported[asset])
               file == OnFile(truth[entry], reported[asset])
               old  == verdicts[entry]
               new  == verdicts'[entry]
    <3>1. /\ new.detected = (old.detected \/ first)
          /\ new.located = (old.located \/ line)
          /\ new.file_only = (old.file_only \/ file)
          /\ new.name_only = (old.name_only \/ named)
          /\ new.matched_component = IF first THEN asset ELSE old.matched_component
          BY <1>1 DEF Compare, TypeOK
    <3>2. /\ old.detected \in BOOLEAN /\ old.located \in BOOLEAN
          /\ old.file_only \in BOOLEAN /\ old.name_only \in BOOLEAN
          BY <1>1 DEF TypeOK
    <3>3. line => file
          BY <1>1, OnLineOnFile
    <3>4. first => named /\ file /\ ~old.detected
          BY DEF DetectsFirst
    <3>5. Eligible(truth[entry], reported[asset]) /\ asset # NoComponent
          BY <1>1 DEF Compare, NoComponent
    <3>6. /\ old.detected => old.file_only /\ old.name_only
          /\ old.located => old.file_only
          /\ old.detected = (old.matched_component # NoComponent)
          /\ old.detected => Eligible(truth[entry], reported[old.matched_component])
          /\ old.detected /\ ~reported[old.matched_component].dependency =>
                 old.matched_component \in matched_components
          BY <1>1 DEF VerdictInv
    <3>7. first \in BOOLEAN /\ line \in BOOLEAN /\ file \in BOOLEAN /\ named \in BOOLEAN
          BY DEF DetectsFirst, OnLine, OnFile, Named
    <3>8. (new.detected => new.file_only /\ new.name_only) /\ (new.located => new.file_only)
      <4> HIDE DEF first, line, file, named, old, new
      <4> QED BY <3>1, <3>2, <3>3, <3>4, <3>6, <3>7
    <3>9. new.detected = (new.matched_component # NoComponent)
      <4>1. CASE first
            BY <4>1, <3>1, <3>5, <3>7
      <4>2. CASE ~first
            BY <4>2, <3>1, <3>2, <3>6, <3>7
      <4> QED BY <4>1, <4>2
    <3>10. /\ new.detected => Eligible(truth[entry], reported[new.matched_component])
           /\ new.detected /\ ~reported[new.matched_component].dependency =>
                 new.matched_component \in matched_components'
      <4>1. CASE first
            BY <4>1, <1>4, <3>1, <3>5
      <4>2. CASE ~first
            BY <4>2, <1>4, <3>1, <3>6
      <4> QED BY <4>1, <4>2
    <3> QED BY <2>2, <3>8, <3>9, <3>10
  <2> QED BY <2>1, <2>2
<1> QED BY <1>6, <1>7, <1>8

LEMMA NextIInv == IInv /\ [Next]_vars => IInv'
<1> SUFFICES ASSUME IInv, [Next]_vars
             PROVE  CreditInv' /\ ChargeInv' /\ EvidenceInv' /\ VerdictInv'
    BY TypeNext DEF IInv
<1>1. CASE Measure
  <2>1. UNCHANGED <<inputs, matches, charges>> /\ phase = "measure" /\ phase' = "match"
        BY <1>1 DEF Measure
  <2>2. EvidenceInv'
        BY <1>1, <2>1 DEF Measure, IInv, EvidenceInv, Crypto, inputs, matches
  <2>3. CreditInv' /\ ChargeInv' /\ VerdictInv'
        BY <2>1 DEF IInv, CreditInv, ChargeInv, VerdictInv, Earns, inputs, matches, charges
  <2> QED BY <2>2, <2>3
<1>2. CASE Compare
  <2>1. ChargeInv'
        BY <1>2 DEF Compare, IInv, ChargeInv, inputs, charges
  <2> QED BY <1>2, <2>1, CompareIInv
<1>3. CASE Skip \/ NextEntry \/ PassOver
      BY <1>3 DEF Skip, NextEntry, PassOver, IInv, CreditInv, ChargeInv, EvidenceInv,
                  VerdictInv, Earns, Crypto, inputs, matches, quality, charges
<1>4. CASE EndMatching \/ Return
      BY <1>4 DEF EndMatching, Return, IInv, CreditInv, ChargeInv, EvidenceInv,
                  VerdictInv, Earns, Crypto, inputs, matches, quality, charges
<1>5. CASE ChargeAlgorithm \/ ChargeLocation \/ LeaveUncharged
  <2>1. ChargeInv'
        BY <1>5 DEF ChargeAlgorithm, ChargeLocation, LeaveUncharged, Suspected,
                    IInv, ChargeInv, inputs
  <2>2. CreditInv' /\ EvidenceInv' /\ VerdictInv'
        BY <1>5 DEF ChargeAlgorithm, ChargeLocation, LeaveUncharged, IInv, CreditInv,
                    EvidenceInv, VerdictInv, Earns, Crypto, inputs, matches, quality
  <2> QED BY <2>1, <2>2
<1>6. CASE UNCHANGED vars
      BY <1>6 DEF vars, IInv, CreditInv, ChargeInv, EvidenceInv, VerdictInv, Earns, Crypto,
                  inputs, matches, quality, charges
<1> QED BY <1>1, <1>2, <1>3, <1>4, <1>5, <1>6 DEF Next

LEMMA IInvHolds == Spec => []IInv
BY InitIInv, NextIInv, PTL DEF Spec

(***************************************************************************)
(* Whatever the order of the components, one that earned a claim is never  *)
(* charged: the name that earned it is planted, so it is no phantom        *)
(* algorithm, and the file it is in resolves and holds a plant.            *)
(***************************************************************************)
THEOREM CreditedIsNotCharged == Spec => []CreditedNeverCharged
<1>1. IInv => CreditedNeverCharged
  <2> SUFFICES ASSUME IInv PROVE CreditedNeverCharged
      OBVIOUS
  <2> DEFINE credited == {claim[1] : claim \in credited_claims}
  <2>1. matched_components \subseteq credited
    <3>1. ASSUME NEW c \in matched_components
          PROVE  \E claim \in credited_claims : claim[1] = c
      <4>1. PICK f \in Files : <<c, f>> \in credited_claims
            BY DEF IInv, CreditInv
      <4>2. <<c, f>>[1] = c
            OBVIOUS
      <4> QED BY <4>1, <4>2
    <3> QED BY <3>1
  <2>2. ASSUME NEW claim \in credited_claims
        PROVE  claim[1] \notin phantom_algorithm \cup phantom_location \cup unmatched_reports
    <3> DEFINE c == reported[claim[1]]
    <3>1. PICK e \in DOMAIN truth :
              /\ Named(truth[e].algorithm, c)
              /\ claim[2] \in ResolvedFiles(c) \cap AcceptedFiles(truth[e])
          BY DEF IInv, CreditInv, Earns
    <3>2. ~PhantomAlgorithm(truth, c)
          BY <3>1 DEF PhantomAlgorithm, Credible, PlantedAlgorithms
    <3>3. ~PhantomLocation(c)
          BY <3>1 DEF PhantomLocation
    <3>4. NearAPlant(truth, c)
          BY <3>1 DEF NearAPlant, PlantedFiles
    <3> QED BY <3>2, <3>3, <3>4 DEF IInv, ChargeInv
  <2> QED BY <2>1, <2>2 DEF CreditedNeverCharged
<1> QED BY <1>1, IInvHolds, PTL

(***************************************************************************)
(* Dependency components are outside every count of cryptographic claims,  *)
(* and answer layer-5 plants only.                                         *)
(***************************************************************************)
THEOREM DependenciesAreExempt == Spec => []DependenciesExempt
<1>1. IInv => DependenciesExempt
  <2> SUFFICES ASSUME IInv PROVE DependenciesExempt
      OBVIOUS
  <2>1. ASSUME NEW c \in DOMAIN reported, reported[c].dependency
        PROVE  /\ c \notin matched_components \cup crypto_components
               /\ c \notin phantom_algorithm \cup phantom_location \cup unmatched_reports
               /\ \A claim \in credited_claims \cup distinct_claims : claim[1] # c
        BY <2>1 DEF IInv, CreditInv, ChargeInv, EvidenceInv
  <2>2. ASSUME NEW e \in DOMAIN truth,
               verdicts[e].matched_component # NoComponent,
               reported[verdicts[e].matched_component].dependency
        PROVE  truth[e].layer = 5
        BY <2>2 DEF IInv, VerdictInv, Eligible
  <2> QED BY <2>1, <2>2 DEF DependenciesExempt
<1> QED BY <1>1, IInvHolds, PTL

(***************************************************************************)
(* The rules of the weaker-rules table are weaker than a detection.        *)
(***************************************************************************)
THEOREM VerdictsAreOrdered == Spec => []VerdictsOrdered
<1>1. IInv => VerdictsOrdered
      BY DEF IInv, VerdictInv, VerdictsOrdered
<1> QED BY <1>1, IInvHolds, PTL

\* A component makes finitely many claims.
LEMMA FinitelyManyClaims ==
    ASSUME IInv, phase # "measure"
    PROVE  IsFiniteSet(distinct_claims)
<1> USE InputsType DEF IInv
<1> DEFINE Of(c) == {<<c, l[1], l[2]>> : l \in Locations(reported[c])}
           All   == {Of(c) : c \in Crypto}
<1>1. ASSUME NEW c \in Crypto
      PROVE  IsFiniteSet(Of(c))
  <2> DEFINE seen  == reported[c].occurrences
             claim == [k \in DOMAIN seen |-> <<c, Resolution(seen[k]), seen[k].line>>]
  <2>1. seen \in Seq(Occurrence) /\ Len(seen) \in Nat /\ DOMAIN seen = 1..Len(seen)
        BY DEF Crypto, Component
  <2>2. IsFiniteSet(DOMAIN seen)
    <3>1. \A n \in Int : IsFiniteSet(1..n)
          BY FS_Interval
    <3> HIDE DEF seen
    <3> QED BY <2>1, <3>1
  <2>3. claim \in Surjection(DOMAIN seen, Of(c))
    <3>1. ASSUME NEW k \in DOMAIN seen
          PROVE  claim[k] \in Of(c)
      <4>1. <<Resolution(seen[k]), seen[k].line>> \in Locations(reported[c])
            BY DEF Locations
      <4> QED BY <4>1
    <3>2. ASSUME NEW t \in Of(c)
          PROVE  \E k \in DOMAIN seen : claim[k] = t
      <4>1. PICK l \in Locations(reported[c]) : t = <<c, l[1], l[2]>>
            OBVIOUS
      <4>2. PICK k \in DOMAIN seen : l = <<Resolution(seen[k]), seen[k].line>>
            BY DEF Locations
      <4> QED BY <4>1, <4>2
    <3>3. claim \in [DOMAIN seen -> Of(c)]
      <4> HIDE DEF seen, Of
      <4> QED BY <3>1
    <3> QED BY <3>2, <3>3 DEF Surjection
  <2> QED BY <2>2, <2>3, FS_Surjection
<1>2. IsFiniteSet(Crypto)
  <2>1. IsFiniteSet(1..Len(reported))
        BY FS_Interval
  <2> QED BY <2>1, FS_Subset DEF Crypto
<1>3. IsFiniteSet(All)
  <2> DEFINE f == [c \in Crypto |-> Of(c)]
  <2>1. f \in Surjection(Crypto, All)
    <3> HIDE DEF Of
    <3>1. f \in [Crypto -> All]
          OBVIOUS
    <3>2. \A t \in All : \E c \in Crypto : f[c] = t
          OBVIOUS
    <3> QED BY ONLY <3>1, <3>2 DEF Surjection
  <2> QED BY <1>2, <2>1, FS_Surjection
<1>4. IsFiniteSet(UNION All)
      BY <1>1, <1>3, FS_UNION
<1> QED BY <1>4 DEF EvidenceInv

(***************************************************************************)
(* Every credited claim is in the denominator, and the numerator is the    *)
(* smaller: claim precision is at most 100%.                               *)
(***************************************************************************)
THEOREM ClaimPrecisionIsBounded == Spec => []ClaimPrecisionBounded
<1>1. IInv => ClaimPrecisionBounded
  <2> SUFFICES ASSUME IInv, phase # "measure"
               PROVE  /\ \A claim \in credited_claims :
                             \E made \in distinct_claims :
                                 made[1] = claim[1] /\ made[2] = claim[2]
                      /\ Cardinality(credited_claims) <= Cardinality(distinct_claims)
      BY DEF ClaimPrecisionBounded
  <2> DEFINE backing == {made \in distinct_claims : <<made[1], made[2]>> \in credited_claims}
             about   == [made \in backing |-> <<made[1], made[2]>>]
  <2>1. ASSUME NEW claim \in credited_claims
        PROVE  \E made \in distinct_claims : made[1] = claim[1] /\ made[2] = claim[2]
    <3>1. claim[1] \in Crypto
          BY DEF IInv, TypeOK, CreditInv, Crypto
    <3>2. claim[2] \in ResolvedFiles(reported[claim[1]])
          BY DEF IInv, CreditInv, Earns
    <3>3. PICK l \in Locations(reported[claim[1]]) : l[1] = claim[2]
          BY <3>2 DEF ResolvedFiles
    <3>4. <<claim[1], l[1], l[2]>> \in distinct_claims
          BY <3>1, <3>3 DEF IInv, EvidenceInv
    <3> QED BY <3>3, <3>4
  <2>2. IsFiniteSet(backing) /\ Cardinality(backing) <= Cardinality(distinct_claims)
        BY FinitelyManyClaims, FS_Subset
  <2>3. about \in Surjection(backing, credited_claims)
    <3>1. \A claim \in credited_claims : claim = <<claim[1], claim[2]>>
          BY DEF IInv, TypeOK
    <3>2. ASSUME NEW claim \in credited_claims
          PROVE  \E made \in backing : about[made] = claim
      <4>1. PICK made \in distinct_claims : made[1] = claim[1] /\ made[2] = claim[2]
            BY <2>1
      <4>2. <<made[1], made[2]>> = claim
            BY <3>1, <4>1
      <4> QED BY <4>1, <4>2
    <3>3. about \in [backing -> credited_claims]
          OBVIOUS
    <3> QED BY <3>2, <3>3 DEF Surjection
  <2>4. Cardinality(credited_claims) <= Cardinality(backing) /\ IsFiniteSet(credited_claims)
        BY <2>2, <2>3, FS_Surjection
  <2>5. /\ Cardinality(credited_claims) \in Nat /\ Cardinality(backing) \in Nat
        /\ Cardinality(distinct_claims) \in Nat
        BY <2>2, <2>4, FinitelyManyClaims, FS_CardinalityType
  <2> QED BY <2>1, <2>2, <2>4, <2>5
<1> QED BY <1>1, IInvHolds, PTL

(***************************************************************************)
(* The first component that detects a plant is the one the verdict keeps.  *)
(***************************************************************************)
THEOREM FirstDetectorIsKept == Spec => FirstDetectorStays
<1>1. TypeOK /\ [Next]_vars =>
          \A e \in DOMAIN truth :
              verdicts[e].detected =>
                  /\ verdicts'[e].detected
                  /\ verdicts'[e].matched_component = verdicts[e].matched_component
  <2> SUFFICES ASSUME TypeOK, [Next]_vars, NEW e \in DOMAIN truth, verdicts[e].detected
               PROVE  /\ verdicts'[e].detected
                      /\ verdicts'[e].matched_component = verdicts[e].matched_component
      OBVIOUS
  <2>1. CASE Compare
        BY <2>1 DEF Compare, DetectsFirst, Matching, TypeOK
  <2>2. CASE UNCHANGED verdicts
        BY <2>2
  <2> QED
      BY <2>1, <2>2 DEF Next, Measure, Skip, NextEntry, EndMatching, PassOver,
         ChargeAlgorithm, ChargeLocation, LeaveUncharged, Return, vars, matches
<1> QED BY <1>1, TypeCorrect, PTL DEF Spec, FirstDetectorStays

-----------------------------------------------------------------------------
(***************************************************************************)
(* Scoring implements Verdicts.  Exact says, at each point of the loops,   *)
(* what every accumulator holds as a function of the pairs compared and    *)
(* the components judged so far; at the end these are all, and what is     *)
(* held is the order-free report.                                          *)
(***************************************************************************)
Compared(e) == {c \in DOMAIN reported : e < entry \/ (e = entry /\ c < asset)}

Detects(e, c) ==
    /\ Eligible(truth[e], reported[c])
    /\ Named(truth[e].algorithm, reported[c])
    /\ OnFile(truth[e], reported[c])

Place ==
    /\ phase = "measure" => entry = 1 /\ asset = 1
    /\ phase = "match" /\ entry = Len(truth) + 1 => asset = 1
    /\ phase \in {"classify", "done"} => entry = Len(truth) + 1
    /\ phase = "done" => asset = Len(reported) + 1

VerdictsExact ==
    \A e \in DOMAIN truth :
        /\ verdicts[e].detected = \E c \in Compared(e) : Detects(e, c)
        /\ verdicts[e].located =
               \E c \in Compared(e) : Eligible(truth[e], reported[c]) /\ OnLine(truth[e], reported[c])
        /\ verdicts[e].file_only =
               \E c \in Compared(e) : Eligible(truth[e], reported[c]) /\ OnFile(truth[e], reported[c])
        /\ verdicts[e].name_only =
               \E c \in Compared(e) :
                   Eligible(truth[e], reported[c]) /\ Named(truth[e].algorithm, reported[c])

\* Plant e earns component c the claim of file f.
EarnsAt(e, c, f) ==
    /\ Named(truth[e].algorithm, reported[c])
    /\ f \in ResolvedFiles(reported[c]) \cap AcceptedFiles(truth[e])

ClaimsExact ==
    credited_claims =
        {claim \in Crypto \X Files :
            \E e \in DOMAIN truth : claim[1] \in Compared(e) /\ EarnsAt(e, claim[1], claim[2])}

Judged == {c \in Crypto : phase = "done" \/ (phase = "classify" /\ c < asset)}
Unclaimed == Judged \ matched_components

ChargesExact ==
    /\ phantom_algorithm = {c \in Unclaimed : PhantomAlgorithm(truth, reported[c])}
    /\ phantom_location =
           {c \in Unclaimed : ~PhantomAlgorithm(truth, reported[c]) /\ PhantomLocation(reported[c])}
    /\ unmatched_reports =
           {c \in Unclaimed : /\ ~PhantomAlgorithm(truth, reported[c])
                              /\ ~PhantomLocation(reported[c])
                              /\ ~NearAPlant(truth, reported[c])}

Exact == Place /\ VerdictsExact /\ ClaimsExact /\ ChargesExact

LEMMA InitExact == Init => Exact
<1> SUFFICES ASSUME Init PROVE Exact
    OBVIOUS
<1>1. TypeOK
      BY TypeInit
<1>2. \A e \in DOMAIN truth : Compared(e) = {}
      BY <1>1, InputsType DEF Init, Compared
<1>3. Place /\ VerdictsExact
      BY <1>2 DEF Init, Place, VerdictsExact
<1>4. ClaimsExact
      BY <1>2 DEF Init, ClaimsExact
<1>5. ChargesExact
      BY DEF Init, ChargesExact, Unclaimed, Judged
<1> QED BY <1>3, <1>4, <1>5 DEF Exact

\* An iteration of the inner loop compares one pair.
LEMMA OneMore ==
    ASSUME TypeOK, Matching, asset \in DOMAIN reported, reported' = reported,
           entry' = entry, asset' = asset + 1, NEW e \in DOMAIN truth
    PROVE  Compared(e)' = IF e = entry THEN Compared(e) \cup {asset} ELSE Compared(e)
<1> USE InputsType
<1>1. e \in Nat /\ entry \in Nat /\ asset \in Nat
      BY DEF Matching
<1>2. \A c \in DOMAIN reported : c \in Nat /\ (c < asset + 1 <=> c < asset \/ c = asset)
      BY <1>1
<1> QED BY <1>1, <1>2 DEF Compared

\* Where no pair is compared, none is forgotten.
LEMMA NoMore ==
    ASSUME TypeOK, Place,
           \/ Measure \/ NextEntry \/ EndMatching
           \/ PassOver \/ ChargeAlgorithm \/ ChargeLocation \/ LeaveUncharged \/ Return,
           NEW e \in DOMAIN truth
    PROVE  Compared(e)' = Compared(e)
<1> USE InputsType
<1>1. e \in Nat /\ entry \in Nat /\ asset \in Nat /\ e <= Len(truth)
      BY DEF TypeOK
<1>2. CASE Measure \/ EndMatching \/ Return
      BY <1>2 DEF Measure, EndMatching, Return, inputs, Compared
<1>3. CASE NextEntry
  <2>1. /\ asset = Len(reported) + 1 /\ entry' = entry + 1 /\ asset' = 1 /\ reported' = reported
        BY <1>3 DEF NextEntry, inputs
  <2>2. \A c \in DOMAIN reported : c \in Nat /\ c < asset /\ ~(c < 1)
        BY <2>1
  <2>3. e < entry + 1 <=> e < entry \/ e = entry
        BY <1>1
  <2> QED BY <1>1, <2>1, <2>2, <2>3 DEF Compared
<1>4. CASE PassOver \/ ChargeAlgorithm \/ ChargeLocation \/ LeaveUncharged
  <2>1. entry = Len(truth) + 1 /\ entry' = entry /\ reported' = reported
        BY <1>4 DEF PassOver, ChargeAlgorithm, ChargeLocation, LeaveUncharged, Classifying, Place,
                    inputs
  <2>2. e < entry
        BY <1>1, <2>1
  <2> QED BY <2>1, <2>2 DEF Compared
<1> QED BY <1>2, <1>3, <1>4

LEMMA PlaceNext == TypeOK /\ Place /\ [Next]_vars => Place'
<1> SUFFICES ASSUME TypeOK, Place, [Next]_vars PROVE Place'
    OBVIOUS
<1> USE InputsType
<1>1. CASE Measure \/ EndMatching \/ Return
      BY <1>1 DEF Measure, EndMatching, Return, Place, inputs
<1>2. CASE NextEntry
      BY <1>2 DEF NextEntry, Matching, Place, inputs
<1>3. CASE Skip \/ Compare
      BY <1>3 DEF Skip, Compare, Matching, Place, inputs
<1>4. CASE PassOver \/ ChargeAlgorithm \/ ChargeLocation \/ LeaveUncharged
      BY <1>4 DEF PassOver, ChargeAlgorithm, ChargeLocation, LeaveUncharged, Classifying, Place,
                  inputs
<1>5. CASE UNCHANGED vars
      BY <1>5 DEF vars, Place, inputs
<1> QED BY <1>1, <1>2, <1>3, <1>4, <1>5 DEF Next

\* A pair that is passed over shows nothing, and one that is compared shows
\* what the verdict takes over from it.
LEMMA VerdictsStep ==
    ASSUME TypeOK, VerdictsExact, Skip \/ Compare
    PROVE  VerdictsExact'
<1> USE InputsType
<1>1. /\ Matching /\ asset \in DOMAIN reported /\ entry \in DOMAIN truth
      /\ truth' = truth /\ reported' = reported /\ entry' = entry /\ asset' = asset + 1
      BY DEF Skip, Compare, Matching, inputs
<1> SUFFICES ASSUME NEW e \in DOMAIN truth
             PROVE  /\ verdicts'[e].detected = \E c \in Compared(e)' : Detects(e, c)
                    /\ verdicts'[e].located =
                           \E c \in Compared(e)' :
                               Eligible(truth[e], reported[c]) /\ OnLine(truth[e], reported[c])
                    /\ verdicts'[e].file_only =
                           \E c \in Compared(e)' :
                               Eligible(truth[e], reported[c]) /\ OnFile(truth[e], reported[c])
                    /\ verdicts'[e].name_only =
                           \E c \in Compared(e)' :
                               /\ Eligible(truth[e], reported[c])
                               /\ Named(truth[e].algorithm, reported[c])
    BY <1>1 DEF VerdictsExact, Detects
<1>2. Compared(e)' = IF e = entry THEN Compared(e) \cup {asset} ELSE Compared(e)
      BY <1>1, OneMore
<1>3. /\ verdicts[e].detected = \E c \in Compared(e) : Detects(e, c)
      /\ verdicts[e].located =
             \E c \in Compared(e) : Eligible(truth[e], reported[c]) /\ OnLine(truth[e], reported[c])
      /\ verdicts[e].file_only =
             \E c \in Compared(e) : Eligible(truth[e], reported[c]) /\ OnFile(truth[e], reported[c])
      /\ verdicts[e].name_only =
             \E c \in Compared(e) :
                 Eligible(truth[e], reported[c]) /\ Named(truth[e].algorithm, reported[c])
      BY DEF VerdictsExact
<1>4. CASE e # entry
  <2>1. verdicts'[e] = verdicts[e]
        BY <1>4 DEF Skip, Compare, TypeOK, matches
  <2> QED BY <1>2, <1>3, <1>4, <2>1
<1>5. CASE e = entry /\ Skip
  <2>1. verdicts' = verdicts /\ ~Eligible(truth[e], reported[asset])
        BY <1>5 DEF Skip, matches
  <2> QED BY <1>2, <1>3, <1>5, <2>1 DEF Detects
<1>6. CASE e = entry /\ Compare
  <2> DEFINE old == verdicts[e]
             new == verdicts'[e]
             named == Named(truth[e].algorithm, reported[asset])
             file == OnFile(truth[e], reported[asset])
             line == OnLine(truth[e], reported[asset])
  <2>1. Eligible(truth[e], reported[asset])
        BY <1>6 DEF Compare
  <2>2. /\ new.detected = (old.detected \/ DetectsFirst(e, asset))
        /\ new.located = (old.located \/ line)
        /\ new.file_only = (old.file_only \/ file)
        /\ new.name_only = (old.name_only \/ named)
        BY <1>1, <1>6 DEF Compare, TypeOK
  <2>3. /\ old.detected \in BOOLEAN /\ old.located \in BOOLEAN
        /\ old.file_only \in BOOLEAN /\ old.name_only \in BOOLEAN
        /\ line \in BOOLEAN /\ file \in BOOLEAN /\ named \in BOOLEAN
        BY DEF TypeOK, OnLine, OnFile, Named
  <2>4. Compared(e)' = Compared(e) \cup {asset}
        BY <1>2, <1>6
  <2>5. new.detected = \E c \in Compared(e)' : Detects(e, c)
    <3>1. Detects(e, asset) = (named /\ file)
          BY <2>1 DEF Detects
    <3>2. DetectsFirst(e, asset) = (named /\ file /\ ~old.detected)
          BY DEF DetectsFirst
    <3>3. (\E c \in Compared(e)' : Detects(e, c))
              = ((\E c \in Compared(e) : Detects(e, c)) \/ Detects(e, asset))
          BY <2>4
    <3>4. old.detected = \E c \in Compared(e) : Detects(e, c)
          BY <1>3
    <3> HIDE DEF old, new, named, file
    <3> QED BY <2>2, <2>3, <3>1, <3>2, <3>3, <3>4
  <2>6. new.located =
            \E c \in Compared(e)' : Eligible(truth[e], reported[c]) /\ OnLine(truth[e], reported[c])
        BY <1>3, <2>1, <2>2, <2>3, <2>4
  <2>7. new.file_only =
            \E c \in Compared(e)' : Eligible(truth[e], reported[c]) /\ OnFile(truth[e], reported[c])
        BY <1>3, <2>1, <2>2, <2>3, <2>4
  <2>8. new.name_only =
            \E c \in Compared(e)' :
                Eligible(truth[e], reported[c]) /\ Named(truth[e].algorithm, reported[c])
        BY <1>3, <2>1, <2>2, <2>3, <2>4
  <2> QED BY <2>5, <2>6, <2>7, <2>8
<1> QED BY <1>4, <1>5, <1>6

LEMMA ClaimsStep ==
    ASSUME TypeOK, ClaimsExact, Skip \/ Compare
    PROVE  ClaimsExact'
<1> USE InputsType
<1>1. /\ Matching /\ asset \in DOMAIN reported /\ entry \in DOMAIN truth
      /\ truth' = truth /\ reported' = reported /\ entry' = entry /\ asset' = asset + 1
      BY DEF Skip, Compare, Matching, inputs
<1>2. \A e \in DOMAIN truth :
          Compared(e)' = IF e = entry THEN Compared(e) \cup {asset} ELSE Compared(e)
      BY <1>1, OneMore
<1> DEFINE gain == {claim \in Crypto \X Files :
                        claim[1] = asset /\ EarnsAt(entry, asset, claim[2])}
           old == {claim \in Crypto \X Files : \E e \in DOMAIN truth :
                      claim[1] \in Compared(e) /\ EarnsAt(e, claim[1], claim[2])}
           new == {claim \in Crypto \X Files : \E e \in DOMAIN truth :
                      claim[1] \in Compared(e)' /\ EarnsAt(e, claim[1], claim[2])}
<1>3. new = old \cup gain
  <2>1. old \subseteq new
        BY <1>2
  <2>2. gain \subseteq new
        BY <1>1, <1>2
  <2>3. new \subseteq old \cup gain
        BY <1>2
  <2> QED BY <2>1, <2>2, <2>3
<1>4. credited_claims' = credited_claims \cup gain
  <2>1. CASE Skip
    <3>1. asset \notin Crypto
          BY <1>1, <2>1 DEF Skip, Eligible, Crypto
    <3>2. credited_claims' = credited_claims
          BY <2>1 DEF Skip, matches
    <3> QED BY <3>1, <3>2
  <2>2. CASE Compare
    <3> DEFINE credit == IF Named(truth[entry].algorithm, reported[asset]) /\ ~reported[asset].dependency
                         THEN ClaimsOn(entry, asset) ELSE {}
    <3>1. credited_claims' = credited_claims \cup credit
          BY <2>2 DEF Compare
    <3>2. ResolvedFiles(reported[asset]) \subseteq Files
          BY <1>1, LocationsType
    <3>3. gain \subseteq credit
      <4> SUFFICES ASSUME NEW claim \in gain PROVE claim \in credit
          OBVIOUS
      <4>1. /\ claim \in Crypto \X Files /\ claim[1] = asset
            /\ Named(truth[entry].algorithm, reported[asset])
            /\ claim[2] \in ResolvedFiles(reported[asset]) \cap AcceptedFiles(truth[entry])
            BY DEF EarnsAt
      <4>2. asset \in Crypto /\ claim = <<asset, claim[2]>>
            BY <4>1
      <4> QED BY <4>1, <4>2 DEF ClaimsOn, Crypto
    <3>4. credit \subseteq gain
      <4> SUFFICES ASSUME NEW claim \in credit PROVE claim \in gain
          OBVIOUS
      <4>1. /\ Named(truth[entry].algorithm, reported[asset]) /\ ~reported[asset].dependency
            /\ claim \in {asset} \X (ResolvedFiles(reported[asset]) \cap AcceptedFiles(truth[entry]))
            BY DEF ClaimsOn
      <4>2. claim[1] = asset
            /\ claim[2] \in ResolvedFiles(reported[asset]) \cap AcceptedFiles(truth[entry])
            BY <4>1
      <4>3. claim \in Crypto \X Files
            BY <1>1, <3>2, <4>1 DEF Crypto
      <4> QED BY <4>1, <4>2, <4>3 DEF EarnsAt
    <3> QED BY <3>1, <3>3, <3>4
  <2> QED BY <2>1, <2>2
<1>5. credited_claims = old
      BY DEF ClaimsExact
<1>6. credited_claims' = new
  <2> HIDE DEF old, new, gain
  <2> QED BY <1>3, <1>4, <1>5
<1>7. ClaimsExact' <=> credited_claims' = new
      BY <1>1 DEF ClaimsExact, Crypto, EarnsAt
<1> QED BY <1>6, <1>7

\* Judging a component puts it where the rules, in their order, put it.
LEMMA ChargesStep ==
    ASSUME TypeOK, ChargesExact,
           PassOver \/ ChargeAlgorithm \/ ChargeLocation \/ LeaveUncharged
    PROVE  ChargesExact'
<1> USE InputsType
<1> DEFINE judgedNow == IF Suspected THEN {asset} ELSE {}
<1>1. /\ phase = "classify" /\ phase' = "classify" /\ asset \in DOMAIN reported
      /\ truth' = truth /\ reported' = reported /\ asset' = asset + 1
      /\ matched_components' = matched_components
      BY DEF PassOver, ChargeAlgorithm, ChargeLocation, LeaveUncharged, Classifying, inputs, matches
<1>2. Unclaimed' = Unclaimed \cup judgedNow
  <2>1. \A c \in DOMAIN reported : c \in Nat /\ asset \in Nat
                                   /\ (c < asset + 1 <=> c < asset \/ c = asset)
        BY <1>1
  <2> QED BY <1>1, <2>1 DEF Unclaimed, Judged, Suspected, Crypto
<1>3. CASE PassOver
  <2>1. judgedNow = {} /\ UNCHANGED charges
        BY <1>3 DEF PassOver
  <2> QED BY <1>1, <1>2, <2>1 DEF ChargesExact, charges
<1>4. CASE ChargeAlgorithm
      BY <1>1, <1>2, <1>4 DEF ChargeAlgorithm, ChargesExact
<1>5. CASE ChargeLocation
      BY <1>1, <1>2, <1>5 DEF ChargeLocation, ChargesExact
<1>6. CASE LeaveUncharged
  <2>1. judgedNow = {asset} /\ ~PhantomAlgorithm(truth, reported[asset])
        /\ ~PhantomLocation(reported[asset])
        /\ phantom_algorithm' = phantom_algorithm /\ phantom_location' = phantom_location
        /\ unmatched_reports' = unmatched_reports \cup
               (IF NearAPlant(truth, reported[asset]) THEN {} ELSE {asset})
        BY <1>6 DEF LeaveUncharged
  <2> QED BY <1>1, <1>2, <2>1 DEF ChargesExact
<1> QED BY <1>3, <1>4, <1>5, <1>6

LEMMA ExactNext == TypeOK /\ Exact /\ [Next]_vars => Exact'
<1> SUFFICES ASSUME TypeOK, Exact, [Next]_vars
             PROVE  VerdictsExact' /\ ClaimsExact' /\ ChargesExact'
    BY PlaceNext DEF Exact
<1> USE DEF Exact
<1>1. CASE Skip \/ Compare
  <2>1. ChargesExact'
    <3>1. phase = "match" /\ phase' = "match" /\ charges' = charges
          BY <1>1 DEF Skip, Compare, Matching
    <3> QED BY <3>1 DEF ChargesExact, Unclaimed, Judged, charges
  <2> QED BY <1>1, <2>1, VerdictsStep, ClaimsStep
<1>2. ASSUME \/ Measure \/ NextEntry \/ EndMatching
             \/ PassOver \/ ChargeAlgorithm \/ ChargeLocation \/ LeaveUncharged \/ Return
      PROVE  VerdictsExact' /\ ClaimsExact'
  <2>1. UNCHANGED <<truth, reported, verdicts, credited_claims>>
        BY <1>2 DEF Measure, NextEntry, EndMatching, PassOver, ChargeAlgorithm, ChargeLocation,
                    LeaveUncharged, Return, inputs, matches
  <2>2. \A e \in DOMAIN truth : Compared(e)' = Compared(e)
        BY <1>2, NoMore
  <2>3. VerdictsExact'
        BY <2>1, <2>2 DEF VerdictsExact, Detects
  <2>4. ClaimsExact'
        BY <2>1, <2>2 DEF ClaimsExact, EarnsAt, Crypto
  <2> QED BY <2>3, <2>4
<1>3. CASE Measure \/ NextEntry
  <2>1. /\ UNCHANGED <<truth, reported, charges>>
        /\ phase \in {"measure", "match"} /\ phase' = "match"
        BY <1>3 DEF Measure, NextEntry, Matching, inputs
  <2>2. Unclaimed' = {} /\ Unclaimed = {}
        BY <2>1 DEF Unclaimed, Judged
  <2>3. ChargesExact'
        BY <2>1, <2>2 DEF ChargesExact, charges
  <2> QED BY <1>2, <1>3, <2>3
<1>4. CASE EndMatching
  <2>1. /\ UNCHANGED <<truth, reported, charges>>
        /\ phase = "match" /\ phase' = "classify" /\ asset = 1 /\ asset' = 1
        BY <1>4 DEF EndMatching, inputs, Place
  <2>2. Unclaimed = {} /\ Unclaimed' = {}
        BY <2>1, InputsType DEF Unclaimed, Judged, Crypto
  <2>3. ChargesExact'
        BY <2>1, <2>2 DEF ChargesExact, charges
  <2> QED BY <1>2, <1>4, <2>3
<1>5. CASE PassOver \/ ChargeAlgorithm \/ ChargeLocation \/ LeaveUncharged
      BY <1>2, <1>5, ChargesStep
<1>6. CASE Return
  <2>1. /\ UNCHANGED <<truth, reported, charges, matched_components>>
        /\ phase = "classify" /\ phase' = "done" /\ asset = Len(reported) + 1
        BY <1>6 DEF Return, inputs, matches
  <2>2. Unclaimed' = Unclaimed
        BY <2>1, InputsType DEF Unclaimed, Judged, Crypto
  <2>3. ChargesExact'
        BY <2>1, <2>2 DEF ChargesExact, charges
  <2> QED BY <1>2, <1>6, <2>3
<1>7. CASE UNCHANGED vars
      BY <1>7 DEF vars, inputs, matches, charges, VerdictsExact, Detects, Compared, ClaimsExact,
                  EarnsAt, Crypto, ChargesExact, Unclaimed, Judged
<1> QED BY <1>1, <1>3, <1>4, <1>5, <1>6, <1>7 DEF Next

LEMMA ExactHolds == Spec => []Exact
<1>1. TypeOK /\ Exact /\ [Next]_vars => Exact'
      BY ExactNext
<1> QED BY InitExact, <1>1, TypeCorrect, PTL DEF Spec

\* Verdicts speaks of components, plants and allowances in the words of Cbom.
LEMMA SameVocabulary ==
    /\ \A c : /\ Declarative!Locations(c) = Locations(c)
             /\ Declarative!ResolvedFiles(c) = ResolvedFiles(c)
             /\ Declarative!PhantomLocation(c) = PhantomLocation(c)
    /\ \A e : Declarative!AcceptedFiles(e) = AcceptedFiles(e)
    /\ \A a, c : Declarative!Named(a, c) = Named(a, c)
    /\ \A e, c : /\ Declarative!Eligible(e, c) = Eligible(e, c)
                /\ Declarative!OnFile(e, c) = OnFile(e, c)
                /\ Declarative!OnLine(e, c) = OnLine(e, c)
    /\ \A t, c : /\ Declarative!PhantomAlgorithm(t, c) = PhantomAlgorithm(t, c)
                /\ Declarative!NearAPlant(t, c) = NearAPlant(t, c)
<1>1. \A c : Declarative!Locations(c) = Locations(c)
      BY DEF Declarative!Locations, Locations, Declarative!Resolution, Resolution
<1>2. \A c : Declarative!ResolvedFiles(c) = ResolvedFiles(c)
      BY <1>1 DEF Declarative!ResolvedFiles, ResolvedFiles
<1>3. \A c : Declarative!HasLocation(c) = HasLocation(c)
      BY DEF Declarative!HasLocation, HasLocation
<1>4. \A c : Declarative!PhantomLocation(c) = PhantomLocation(c)
      BY <1>2, <1>3 DEF Declarative!PhantomLocation, PhantomLocation
<1>5. \A e : Declarative!Accepted(e) = Accepted(e)
      BY DEF Declarative!Accepted, Accepted
<1>6. \A e : Declarative!AcceptedFiles(e) = AcceptedFiles(e)
      BY <1>5 DEF Declarative!AcceptedFiles, AcceptedFiles
<1>7. \A a, c : Declarative!Named(a, c) = Named(a, c)
      BY DEF Declarative!Named, Named
<1>8. \A e, c : Declarative!Eligible(e, c) = Eligible(e, c)
      BY DEF Declarative!Eligible, Eligible
<1>9. \A e, c : Declarative!OnFile(e, c) = OnFile(e, c)
      BY <1>2, <1>6 DEF Declarative!OnFile, OnFile
<1>10. \A e, c : Declarative!OnLine(e, c) = OnLine(e, c)
      BY <1>1, <1>5 DEF Declarative!OnLine, OnLine
<1>11. \A t, c : Declarative!Credible(t, c) = Credible(t, c)
  <2>1. \A t : Declarative!PlantedAlgorithms(t) = PlantedAlgorithms(t)
        BY DEF Declarative!PlantedAlgorithms, PlantedAlgorithms
  <2>2. \A l, c : Declarative!AppliesTo(l, c) = AppliesTo(l, c)
        BY <1>2, <1>3 DEF Declarative!AppliesTo, AppliesTo
  <2> QED BY <1>7, <2>1, <2>2 DEF Declarative!Credible, Credible
<1>12. \A t, c : Declarative!PhantomAlgorithm(t, c) = PhantomAlgorithm(t, c)
      BY <1>11 DEF Declarative!PhantomAlgorithm, PhantomAlgorithm,
                   Declarative!ClaimsAFamily, ClaimsAFamily
<1>13. \A t, c : Declarative!NearAPlant(t, c) = NearAPlant(t, c)
  <2>1. \A t : Declarative!PlantedFiles(t) = PlantedFiles(t)
        BY <1>6 DEF Declarative!PlantedFiles, PlantedFiles
  <2> QED BY <1>2, <2>1 DEF Declarative!NearAPlant, NearAPlant
<1> QED BY <1>1, <1>2, <1>4, <1>6, <1>7, <1>8, <1>9, <1>10, <1>12, <1>13

\* No rule applies to a component that earned a claim.
LEMMA EarningClears ==
    ASSUME NEW c, NEW f, Earns(c, f)
    PROVE  /\ ~PhantomAlgorithm(truth, reported[c]) /\ ~PhantomLocation(reported[c])
           /\ NearAPlant(truth, reported[c])
<1>1. PICK e \in DOMAIN truth :
          /\ Named(truth[e].algorithm, reported[c])
          /\ f \in ResolvedFiles(reported[c]) \cap AcceptedFiles(truth[e])
      BY DEF Earns
<1>2. ~PhantomAlgorithm(truth, reported[c])
      BY <1>1 DEF PhantomAlgorithm, Credible, PlantedAlgorithms
<1>3. ~PhantomLocation(reported[c])
      BY <1>1 DEF PhantomLocation
<1>4. NearAPlant(truth, reported[c])
      BY <1>1 DEF NearAPlant, PlantedFiles
<1> QED BY <1>2, <1>3, <1>4

\* What the loops hold in the end is the order-free report: a component that
\* earned a claim and lost the plant to another is suspected by the loop and
\* not by the specification, but it meets none of the rules.
LEMMA ReportIsDeclarative ==
    ASSUME IInv, Exact, Return
    PROVE  Report' = Declarative!Report
<1> USE InputsType DEF IInv, Exact
<1>1. /\ UNCHANGED <<truth, reported, entry, asset, verdicts, matched_components, credited_claims,
                     distinct_claims, phantom_algorithm, phantom_location, unmatched_reports>>
      /\ phase = "classify" /\ phase' = "done" /\ asset = Len(reported) + 1
      BY DEF Return, inputs, matches, quality, charges
<1>2. \A e \in DOMAIN truth : Compared(e) = DOMAIN reported
      BY <1>1 DEF Compared, Place
<1>3. Declarative!CryptoComponents = Crypto
      BY DEF Declarative!CryptoComponents, Crypto
<1>4. Declarative!Credited = credited_claims
      BY <1>2, <1>3, SameVocabulary DEF Declarative!Credited, ClaimsExact, EarnsAt, Crypto
<1>5. Declarative!Claims = distinct_claims
      BY <1>1, <1>3, SameVocabulary DEF Declarative!Claims, EvidenceInv
<1>6. \A e \in DOMAIN truth :
          [detected |-> verdicts[e].detected, located |-> verdicts[e].located,
           file_only |-> verdicts[e].file_only, name_only |-> verdicts[e].name_only]
              = Declarative!Verdict(e)
  <2> SUFFICES ASSUME NEW e \in DOMAIN truth
               PROVE  [detected |-> verdicts[e].detected, located |-> verdicts[e].located,
                       file_only |-> verdicts[e].file_only, name_only |-> verdicts[e].name_only]
                          = Declarative!Verdict(e)
      OBVIOUS
  <2>1. verdicts[e].detected = \E c \in DOMAIN reported : Declarative!Detects(e, c)
        BY <1>2, SameVocabulary DEF VerdictsExact, Detects, Declarative!Detects
  <2>2. verdicts[e].located = \E c \in Declarative!Eligibles(e) : OnLine(truth[e], reported[c])
        BY <1>2, SameVocabulary DEF VerdictsExact, Declarative!Eligibles
  <2>3. verdicts[e].file_only = \E c \in Declarative!Eligibles(e) : OnFile(truth[e], reported[c])
        BY <1>2, SameVocabulary DEF VerdictsExact, Declarative!Eligibles
  <2>4. verdicts[e].name_only =
            \E c \in Declarative!Eligibles(e) : Named(truth[e].algorithm, reported[c])
        BY <1>2, SameVocabulary DEF VerdictsExact, Declarative!Eligibles
  <2> QED BY <2>1, <2>2, <2>3, <2>4, SameVocabulary DEF Declarative!Verdict
<1>7. Unclaimed = Crypto \ matched_components
      BY <1>1 DEF Unclaimed, Judged, Crypto
<1>8. ASSUME NEW c \in Crypto, NEW f \in Files, <<c, f>> \in credited_claims
      PROVE  /\ ~PhantomAlgorithm(truth, reported[c]) /\ ~PhantomLocation(reported[c])
             /\ NearAPlant(truth, reported[c])
      BY <1>8, EarningClears DEF CreditInv
<1>9. /\ Declarative!Suspects \subseteq Unclaimed
      /\ \A c \in Unclaimed \ Declarative!Suspects :
             /\ ~PhantomAlgorithm(truth, reported[c]) /\ ~PhantomLocation(reported[c])
             /\ NearAPlant(truth, reported[c])
  <2>1. Declarative!Suspects = {c \in Crypto : \A f \in Files : <<c, f>> \notin credited_claims}
        BY <1>3, <1>4 DEF Declarative!Suspects
  <2>2. \A c \in matched_components : \E f \in Files : <<c, f>> \in credited_claims
        BY DEF CreditInv
  <2> QED BY <1>7, <1>8, <2>1, <2>2
<1>10. Declarative!FalseAlgorithms = phantom_algorithm
      BY <1>9, SameVocabulary DEF Declarative!FalseAlgorithms, ChargesExact
<1>11. Declarative!FalseLocations = phantom_location
      BY <1>9, SameVocabulary DEF Declarative!FalseLocations, Declarative!FalseAlgorithms, ChargesExact
<1>12. Declarative!Strays = unmatched_reports
      BY <1>9, SameVocabulary DEF Declarative!Strays, Declarative!FalseLocations, Declarative!FalseAlgorithms,
                  ChargesExact
<1>13. Report' =
          [verdicts |-> [e \in DOMAIN truth |->
              [detected |-> verdicts[e].detected, located |-> verdicts[e].located,
               file_only |-> verdicts[e].file_only, name_only |-> verdicts[e].name_only]],
           credited_claims   |-> credited_claims,
           distinct_claims   |-> distinct_claims,
           phantom_algorithm |-> phantom_algorithm,
           phantom_location  |-> phantom_location,
           unmatched_reports |-> unmatched_reports]
      BY <1>1 DEF Report
<1> QED BY <1>4, <1>5, <1>6, <1>10, <1>11, <1>12, <1>13 DEF Declarative!Report

(***************************************************************************)
(* For any ground truth, document, matcher and resolver, the loops compute *)
(* the report that Verdicts defines without them, in whatever order the    *)
(* components come.                                                        *)
(***************************************************************************)
THEOREM LoopsComputeVerdicts == Spec => Declarative!Safety
<1>1. Init => Declarative!Init
      BY DEF Init, Declarative!Init, Report
<1>2. IInv /\ Exact /\ [Next]_vars
          => [Declarative!Score]_<<truth, reported, Report>>
  <2> SUFFICES ASSUME IInv, Exact, [Next]_vars
               PROVE  [Declarative!Score]_<<truth, reported, Report>>
      OBVIOUS
  <2>1. CASE Return
    <3>1. Report = NoReport /\ UNCHANGED <<truth, reported>>
          BY <2>1 DEF Return, Report, inputs
    <3>2. Report' = Declarative!Report
          BY <2>1, ReportIsDeclarative
    <3> QED BY <3>1, <3>2 DEF Declarative!Score
  <2>2. CASE UNCHANGED vars
    <3>1. UNCHANGED <<truth, reported, Report>>
          BY <2>2 DEF vars, inputs, matches, quality, charges, Report
    <3> QED BY <3>1
  <2>3. ASSUME Next, ~Return
        PROVE  UNCHANGED <<truth, reported, Report>>
    <3>1. phase # "done" /\ phase' # "done" /\ UNCHANGED inputs
          BY <2>3 DEF Next, Measure, Skip, Compare, NextEntry, EndMatching, PassOver,
             ChargeAlgorithm, ChargeLocation, LeaveUncharged, Matching, Classifying
    <3> QED BY <3>1 DEF Report, inputs
  <2> QED BY <2>1, <2>2, <2>3
<1> QED BY <1>1, <1>2, ExactHolds, IInvHolds, PTL DEF Spec, Declarative!Safety

-----------------------------------------------------------------------------
(***************************************************************************)
(* What a component does for a score, and against it, it does alone.  Two  *)
(* loops, four accumulators and a first match that shuts out the rest say  *)
(* no more than this: a plant is detected when some component answers it,  *)
(* and a component is charged, or not, whatever the others are.            *)
(***************************************************************************)
Answers(e, c) == Eligible(e, c) /\ Named(e.algorithm, c) /\ OnFile(e, c)

Charge(t, c) ==
    CASE c.dependency                                   -> "none"
      [] ~c.dependency /\ PhantomAlgorithm(t, c)        -> "algorithm"
      [] ~c.dependency /\ ~PhantomAlgorithm(t, c)
            /\ PhantomLocation(c)                       -> "location"
      [] ~c.dependency /\ ~PhantomAlgorithm(t, c)
            /\ ~PhantomLocation(c) /\ ~NearAPlant(t, c) -> "unmatched"
      [] OTHER                                          -> "none"

DetectedIn(t, components) ==
    {e \in DOMAIN t : \E c \in DOMAIN components : Answers(t[e], components[c])}

ChargedIn(t, components, charge) ==
    {c \in DOMAIN components : Charge(t, components[c]) = charge}

JudgedAlone ==
    phase = "done" =>
        /\ {e \in DOMAIN truth : verdicts[e].detected} = DetectedIn(truth, reported)
        /\ phantom_algorithm = ChargedIn(truth, reported, "algorithm")
        /\ phantom_location  = ChargedIn(truth, reported, "location")
        /\ unmatched_reports = ChargedIn(truth, reported, "unmatched")

LEMMA ChargeIs ==
    ASSUME NEW t, NEW c, c.dependency \in BOOLEAN
    PROVE  /\ Charge(t, c) = "algorithm" <=> ~c.dependency /\ PhantomAlgorithm(t, c)
           /\ Charge(t, c) = "location" <=>
                  ~c.dependency /\ ~PhantomAlgorithm(t, c) /\ PhantomLocation(c)
           /\ Charge(t, c) = "unmatched" <=>
                  /\ ~c.dependency /\ ~PhantomAlgorithm(t, c) /\ ~PhantomLocation(c)
                  /\ ~NearAPlant(t, c)
<1>1. PhantomAlgorithm(t, c) \in BOOLEAN /\ PhantomLocation(c) \in BOOLEAN
      BY DEF PhantomAlgorithm, PhantomLocation
<1> QED BY <1>1 DEF Charge

LEMMA JudgedAloneHolds ==
    ASSUME IInv, Exact
    PROVE  JudgedAlone
<1> SUFFICES ASSUME phase = "done" PROVE JudgedAlone
    BY DEF JudgedAlone
<1> USE InputsType DEF IInv, Exact
<1>1. \A e \in DOMAIN truth : Compared(e) = DOMAIN reported
      BY DEF Compared, Place
<1>2. \A e \in DOMAIN truth :
          verdicts[e].detected = \E c \in DOMAIN reported : Answers(truth[e], reported[c])
      BY <1>1 DEF VerdictsExact, Detects, Answers
<1>3. \A c \in Crypto \ Unclaimed :
          /\ ~PhantomAlgorithm(truth, reported[c]) /\ ~PhantomLocation(reported[c])
          /\ NearAPlant(truth, reported[c])
  <2> SUFFICES ASSUME NEW c \in Crypto \ Unclaimed
               PROVE  \E f : Earns(c, f)
      BY EarningClears
  <2>1. c \in matched_components
        BY DEF Unclaimed, Judged, Crypto
  <2> QED BY <2>1 DEF CreditInv
<1>4. Unclaimed \subseteq Crypto
      BY DEF Unclaimed, Judged
<1>5. /\ phantom_algorithm = {c \in Crypto : PhantomAlgorithm(truth, reported[c])}
      /\ phantom_location = {c \in Crypto : /\ ~PhantomAlgorithm(truth, reported[c])
                                            /\ PhantomLocation(reported[c])}
      /\ unmatched_reports = {c \in Crypto : /\ ~PhantomAlgorithm(truth, reported[c])
                                             /\ ~PhantomLocation(reported[c])
                                             /\ ~NearAPlant(truth, reported[c])}
      BY <1>3, <1>4 DEF ChargesExact
<1>6. \A c \in DOMAIN reported : reported[c].dependency \in BOOLEAN
      BY DEF Component
<1>7. /\ phantom_algorithm = ChargedIn(truth, reported, "algorithm")
      /\ phantom_location  = ChargedIn(truth, reported, "location")
      /\ unmatched_reports = ChargedIn(truth, reported, "unmatched")
      BY <1>5, <1>6, ChargeIs DEF ChargedIn, Crypto
<1>8. {e \in DOMAIN truth : verdicts[e].detected} = DetectedIn(truth, reported)
      BY <1>2 DEF DetectedIn
<1> QED BY <1>7, <1>8 DEF JudgedAlone

\* When scoring ends, each plant that some component answers is detected and no
\* other, and each component is charged by what it says itself.
THEOREM EachIsJudgedAlone == Spec => []JudgedAlone
<1>1. IInv /\ Exact => JudgedAlone
      BY JudgedAloneHolds
<1> QED BY <1>1, IInvHolds, ExactHolds, PTL

\* A tool's score does not depend on the order it lists its components in: the
\* same plants are detected, and as many components are charged with each charge.
THEOREM OrderDoesNotMatter ==
    ASSUME NEW t, NEW components \in Seq(Component),
           NEW order \in Bijection(DOMAIN components, DOMAIN components)
    PROVE  LET shuffled == [c \in DOMAIN components |-> components[order[c]]] IN
           /\ DetectedIn(t, shuffled) = DetectedIn(t, components)
           /\ \A charge : Cardinality(ChargedIn(t, shuffled, charge))
                              = Cardinality(ChargedIn(t, components, charge))
<1> DEFINE D == DOMAIN components
           shuffled == [c \in D |-> components[order[c]]]
<1>1. /\ order \in [D -> D]
      /\ \A c, d \in D : order[c] = order[d] => c = d
      /\ \A c \in D : \E d \in D : order[d] = c
      BY DEF Bijection, Injection, Surjection, IsInjective
<1>2. IsFiniteSet(D)
  <2>1. D = 1..Len(components) /\ Len(components) \in Nat
        OBVIOUS
  <2> QED BY <2>1, FS_Interval
<1>3. DOMAIN shuffled = D /\ \A c \in D : shuffled[c] = components[order[c]]
      OBVIOUS
<1> HIDE DEF shuffled
<1>4. DetectedIn(t, shuffled) = DetectedIn(t, components)
  <2> SUFFICES ASSUME NEW e \in DOMAIN t
               PROVE  (\E c \in D : Answers(t[e], shuffled[c]))
                          <=> (\E c \in D : Answers(t[e], components[c]))
      BY <1>3 DEF DetectedIn
  <2> QED BY <1>1, <1>3
<1>5. ASSUME NEW charge
      PROVE  Cardinality(ChargedIn(t, shuffled, charge))
                 = Cardinality(ChargedIn(t, components, charge))
  <2> DEFINE S == ChargedIn(t, shuffled, charge)
             T == ChargedIn(t, components, charge)
             f == [c \in S |-> order[c]]
  <2>1. /\ S \subseteq D /\ T \subseteq D
        /\ \A c \in D : c \in S <=> order[c] \in T
        BY <1>1, <1>3 DEF ChargedIn
  <2>2. IsFiniteSet(S)
        BY <1>2, <2>1, FS_Subset
  <2> HIDE DEF S, T
  <2>3. f \in Bijection(S, T)
    <3>1. f \in [S -> T]
          BY <2>1
    <3>2. \A c, d \in S : f[c] = f[d] => c = d
          BY <1>1, <2>1
    <3>3. \A y \in T : \E x \in S : f[x] = y
          BY <1>1, <2>1
    <3> QED BY <3>1, <3>2, <3>3 DEF Bijection, Injection, Surjection, IsInjective
  <2>4. Cardinality(S) = Cardinality(T)
        BY <2>2, <2>3, FS_Bijection DEF ExistsBijection
  <2> QED BY <2>4 DEF S, T
<1> QED BY <1>4, <1>5 DEF shuffled

\* A component more never costs a detection, nor another component its verdict: it
\* adds the plants it answers and the charge it is due.
THEOREM ReportingMoreOnlyAdds ==
    ASSUME NEW t, NEW components \in Seq(Component), NEW one \in Component
    PROVE  LET more == Append(components, one) IN
           /\ DetectedIn(t, more)
                  = DetectedIn(t, components) \cup {e \in DOMAIN t : Answers(t[e], one)}
           /\ \A charge : ChargedIn(t, more, charge)
                  = ChargedIn(t, components, charge)
                    \cup (IF Charge(t, one) = charge THEN {Len(components) + 1} ELSE {})
<1> DEFINE more == Append(components, one)
           n == Len(components)
<1>1. /\ n \in Nat /\ DOMAIN components = 1..n /\ DOMAIN more = 1..(n + 1)
      /\ more[n + 1] = one /\ \A c \in 1..n : more[c] = components[c]
      OBVIOUS
<1>2. /\ DOMAIN more = DOMAIN components \cup {n + 1} /\ n + 1 \notin DOMAIN components
      /\ more[n + 1] = one /\ \A c \in DOMAIN components : more[c] = components[c]
      BY <1>1
<1> HIDE DEF more, n
<1>3. DetectedIn(t, more)
          = DetectedIn(t, components) \cup {e \in DOMAIN t : Answers(t[e], one)}
      BY <1>2 DEF DetectedIn
<1>4. \A charge : ChargedIn(t, more, charge)
          = ChargedIn(t, components, charge)
            \cup (IF Charge(t, one) = charge THEN {n + 1} ELSE {})
      BY <1>2 DEF ChargedIn
<1> QED BY <1>3, <1>4 DEF more, n
=============================================================================
