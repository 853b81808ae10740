--------------------------- MODULE WithholdProofs ---------------------------
(***************************************************************************)
(* Proofs about Withhold, for any runs, names, contents, kills and bad     *)
(* copies.                                                                 *)
(***************************************************************************)
EXTENDS Withhold, TLAPS

USE DEF work, disk, Refused, Copied, WhenRecorded

THEOREM TypeInit == Init => TypeOK
BY CollectedAssumption, BoundAssumption
   DEF Init, TypeOK, Files, Phases

LEMMA DigestDirectoryType ==
    ASSUME NEW dir \in [Names -> Contents \cup {NoFile}]
    PROVE  DigestDirectory(dir) \in [Names -> Digests \cup {NoDigest}]
BY DEF DigestDirectory, Digests, Bytes

LEMMA TypeNext == TypeOK /\ [Next]_vars => TypeOK'
<1> SUFFICES ASSUME TypeOK, [Next]_vars
             PROVE  TypeOK'
    OBVIOUS
<1> USE DEF TypeOK, Phases, Goto
<1>1. ASSUME NEW r \in Runs, Begin(r)
      PROVE  TypeOK'
  <2>1. files' \in [Runs -> [Names -> Digests \cup {NoDigest}]]
    <3>1. DigestDirectory(cboms[r]) \in [Names -> Digests \cup {NoDigest}]
          BY DigestDirectoryType
    <3> QED BY <1>1, <3>1 DEF Begin
  <2>2. todo' \in [Runs -> SUBSET Names] /\ current' \in [Runs -> SUBSET Names]
        BY <1>1 DEF Begin, Documents
  <2> QED BY <1>1, <2>1, <2>2 DEF Begin
<1>2. ASSUME NEW r \in Runs, OpenCopy(r)
      PROVE  TypeOK'
      BY <1>2 DEF OpenCopy, Files, Bytes
<1>3. ASSUME NEW r \in Runs, WriteCopy(r)
      PROVE  TypeOK'
  <2>1. PICK n \in current[r] : archive' = [archive EXCEPT ![n] = cboms[r][n]]
        BY <1>3 DEF WriteCopy
  <2>2. n \in Names /\ cboms[r][n] \in Files
        BY <2>1 DEF Files, Bytes
  <2>3. archive' \in [Names -> Files]
        BY <2>1, <2>2
  <2> QED BY <1>3, <2>3 DEF WriteCopy
<1>4. ASSUME NEW r \in Runs, GarbleCopy(r)
      PROVE  TypeOK'
      BY <1>4, BoundAssumption DEF GarbleCopy
<1>5. ASSUME NEW r \in Runs, CheckCopy(r) \/ RejectCopy(r)
      PROVE  TypeOK'
      BY <1>5 DEF CheckCopy, RejectCopy, disk
<1>6. ASSUME NEW r \in Runs, OpenManifest(r)
      PROVE  TypeOK'
      BY <1>6 DEF OpenManifest
<1>7. ASSUME NEW r \in Runs, WriteManifest(r)
      PROVE  TypeOK'
      BY <1>7 DEF WriteManifest
<1>8. ASSUME NEW r \in Runs, RemoveDocument(r)
      PROVE  TypeOK'
      BY <1>8 DEF RemoveDocument, Documents
<1>9. ASSUME NEW r \in Runs, RemoveDirectory(r)
      PROVE  TypeOK'
      BY <1>9 DEF RemoveDirectory
<1>10. ASSUME NEW r \in Runs, Crash(r)
       PROVE  TypeOK'
       BY <1>10, BoundAssumption DEF Crash, disk
<1>11. CASE UNCHANGED vars
       BY <1>11 DEF vars
<1> QED
    BY <1>1, <1>2, <1>3, <1>4, <1>5, <1>6, <1>7, <1>8, <1>9, <1>10, <1>11
    DEF Next, Step

(***************************************************************************)
(* Every reachable state is well typed.                                    *)
(***************************************************************************)
THEOREM TypeCorrect == Spec => []TypeOK
BY TypeInit, TypeNext, PTL DEF Spec

-----------------------------------------------------------------------------
(***************************************************************************)
(* The inductive invariant.  NoEvidenceLost is not inductive: that a       *)
(* removal is safe depends on what the copy loop has established by the    *)
(* time it ends, and that on what it has established half-way.             *)
(***************************************************************************)
Beside(r) == {n \in Names : Collected[r][n] # NoFile}

InMemory == {"copying", "truncated", "copied", "recording"}

\* Nothing writes a document: it is there as collected, or it is gone.
Untouched(r) == \A n \in Names : cboms[r][n] \in {Collected[r][n], NoFile}

\* What has left cboms/ is in the archive.
GoneIsArchived(r) == \A n \in Beside(r) : cboms[r][n] = NoFile => archive[n] = Collected[r][n]

\* The copy loop: its digests are those of the documents, it works on one
\* document at a time, and those it is done with are in the archive.
LoopInv(r) ==
    pc[r] \in InMemory =>
        /\ files[r] = DigestDirectory(cboms[r])
        /\ todo[r] \subseteq Documents(r)
        /\ pc[r] = "recording" => todo[r] = {}
        /\ pc[r] \in {"truncated", "copied"} =>
               \E n \in Documents(r) : current[r] = {n} /\ n \notin todo[r]
        /\ \A n \in Documents(r) \ todo[r] :
               archive[n] = cboms[r][n] \/ (n \in current[r] /\ pc[r] \in {"truncated", "copied"})

\* The removal: every document that is left is archived and recorded.
RemovalInv(r) ==
    pc[r] = "removing" =>
        /\ manifestOk[r]
        /\ \A n \in Documents(r) :
               archive[n] = cboms[r][n] /\ withheld[r][n] = Sha256(cboms[r][n])

RunInv(r) == Untouched(r) /\ GoneIsArchived(r) /\ LoopInv(r) /\ RemovalInv(r)

IInv == TypeOK /\ \A r \in Runs : RunInv(r)

LEMMA InitIInv == Init => IInv
<1> SUFFICES ASSUME Init PROVE IInv
    OBVIOUS
<1>1. TypeOK
      BY TypeInit
<1>2. ASSUME NEW r \in Runs PROVE RunInv(r)
      BY CollectedAssumption
      DEF Init, RunInv, Untouched, GoneIsArchived, LoopInv, RemovalInv, InMemory, Beside
<1> QED BY <1>1, <1>2 DEF IInv

\* A step that leaves run r's own state alone, and the archived copies of its
\* documents, keeps r's invariant.
LEMMA Frame ==
    ASSUME NEW r \in Runs, RunInv(r), TypeOK,
           cboms'[r] = cboms[r], pc'[r] = pc[r], todo'[r] = todo[r],
           current'[r] = current[r], files'[r] = files[r],
           withheld'[r] = withheld[r], manifestOk'[r] = manifestOk[r],
           \A n \in Beside(r) : archive'[n] = archive[n]
    PROVE  RunInv(r)'
<1>1. Documents(r)' = Documents(r)
      BY DEF Documents
<1>2. Documents(r) \subseteq Beside(r)
      BY DEF RunInv, Untouched, Documents, Beside
<1>3. Untouched(r)'
      BY DEF RunInv, Untouched
<1>4. GoneIsArchived(r)'
      BY DEF RunInv, GoneIsArchived, Beside
<1>5. LoopInv(r)'
  <2> SUFFICES ASSUME pc[r] \in InMemory PROVE LoopInv(r)'
      BY DEF LoopInv, InMemory
  <2>1. DigestDirectory(cboms'[r]) = DigestDirectory(cboms[r])
        OBVIOUS
  <2>2. \A n \in Documents(r) \ todo[r] : archive'[n] = archive[n]
        BY <1>2
  <2> QED BY <1>1, <2>1, <2>2 DEF RunInv, LoopInv, InMemory
<1>6. RemovalInv(r)'
      BY <1>1, <1>2 DEF RunInv, RemovalInv
<1> QED BY <1>3, <1>4, <1>5, <1>6 DEF RunInv

\* A step of run s on one of its own documents keeps every other run's
\* invariant, when no two runs have a document of the same name.
LEMMA OtherRuns ==
    ASSUME DistinctNames, IInv, NEW s \in Runs, NEW n \in Names,
           Collected[s][n] # NoFile, NEW c,
           archive' = [archive EXCEPT ![n] = c],
           NEW r \in Runs, r # s,
           cboms'[r] = cboms[r], pc'[r] = pc[r], todo'[r] = todo[r],
           current'[r] = current[r], files'[r] = files[r],
           withheld'[r] = withheld[r], manifestOk'[r] = manifestOk[r]
    PROVE  RunInv(r)'
<1>1. n \notin Beside(r)
      BY DEF DistinctNames, Beside
<1>2. \A m \in Beside(r) : archive'[m] = archive[m]
      BY <1>1 DEF Beside, IInv, TypeOK
<1> QED BY <1>2, Frame DEF IInv

LEMMA BeginIInv ==
    ASSUME IInv, NEW s \in Runs, Begin(s), NEW r \in Runs
    PROVE  RunInv(r)'
<1> USE DEF IInv, TypeOK, Begin, Goto
<1>1. CASE r = s
  <2>1. /\ pc'[r] = "copying" /\ todo'[r] = Documents(r)
        /\ files'[r] = DigestDirectory(cboms'[r]) /\ Documents(r)' = Documents(r)
        BY <1>1 DEF Documents
  <2>2. Untouched(r)' /\ GoneIsArchived(r)'
        BY DEF RunInv, Untouched, GoneIsArchived
  <2>3. LoopInv(r)'
        BY <2>1 DEF LoopInv
  <2>4. RemovalInv(r)'
        BY <2>1 DEF RemovalInv
  <2> QED BY <2>2, <2>3, <2>4 DEF RunInv
<1>2. CASE r # s
      BY <1>2, Frame DEF Beside
<1> QED BY <1>1, <1>2

LEMMA OpenCopyIInv ==
    ASSUME DistinctNames, IInv, NEW s \in Runs, OpenCopy(s), NEW r \in Runs
    PROVE  RunInv(r)'
<1> USE DEF IInv, TypeOK, Goto
<1>1. PICK n \in todo[s] :
          /\ archive' = [archive EXCEPT ![n] = Torn]
          /\ current' = [current EXCEPT ![s] = {n}]
          /\ todo' = [todo EXCEPT ![s] = @ \ {n}]
      BY DEF OpenCopy
<1>2. pc[s] = "copying" /\ pc' = [pc EXCEPT ![s] = "truncated"]
      BY DEF OpenCopy
<1>3. UNCHANGED <<cboms, cbomsDir, manifestOk, withheld, keep, files>>
      BY DEF OpenCopy
<1>4. n \in Documents(s) /\ Collected[s][n] # NoFile /\ cboms[s][n] # NoFile
      BY <1>2 DEF RunInv, LoopInv, InMemory, Untouched, Documents
<1>5. CASE r = s
  <2>1. Documents(r)' = Documents(r)
        BY <1>3 DEF Documents
  <2>2. Untouched(r)' /\ GoneIsArchived(r)'
        BY <1>1, <1>3, <1>4, <1>5 DEF RunInv, Untouched, GoneIsArchived, Beside
  <2>3. LoopInv(r)'
    <3>1. /\ pc'[r] = "truncated" /\ current'[r] = {n} /\ todo'[r] = todo[r] \ {n}
          /\ files'[r] = files[r] /\ cboms' = cboms
          BY <1>1, <1>2, <1>3, <1>5
    <3>2. \A m \in Documents(r) \ todo[r] : archive[m] = cboms[r][m]
          BY <1>2, <1>5 DEF RunInv, LoopInv, InMemory
    <3>3. \A m \in Documents(r) \ todo'[r] :
              archive'[m] = cboms'[r][m] \/ m \in current'[r]
          BY <1>1, <3>1, <3>2 DEF Documents
    <3>4. files[r] = DigestDirectory(cboms[r]) /\ todo[r] \subseteq Documents(r)
          BY <1>2, <1>5 DEF RunInv, LoopInv, InMemory
    <3> QED BY <1>4, <1>5, <2>1, <3>1, <3>3, <3>4 DEF LoopInv
  <2>4. RemovalInv(r)'
        BY <1>2, <1>5 DEF RemovalInv
  <2> QED BY <2>2, <2>3, <2>4 DEF RunInv
<1>6. CASE r # s
      BY <1>1, <1>2, <1>3, <1>4, <1>6, OtherRuns
<1> QED BY <1>5, <1>6

LEMMA WriteCopyIInv ==
    ASSUME DistinctNames, IInv, NEW s \in Runs, WriteCopy(s), NEW r \in Runs
    PROVE  RunInv(r)'
<1> USE DEF IInv, TypeOK, Goto
<1>1. PICK n \in current[s] : archive' = [archive EXCEPT ![n] = cboms[s][n]]
      BY DEF WriteCopy
<1>2. pc[s] = "truncated" /\ pc' = [pc EXCEPT ![s] = "copied"]
      BY DEF WriteCopy
<1>3. UNCHANGED <<cboms, cbomsDir, manifestOk, withheld, keep, todo, current, files>>
      BY DEF WriteCopy
<1>4. /\ n \in Documents(s) /\ Collected[s][n] # NoFile /\ cboms[s][n] = Collected[s][n]
      /\ current[s] = {n} /\ n \notin todo[s]
      BY <1>2 DEF RunInv, LoopInv, InMemory, Untouched, Documents
<1>5. CASE r = s
  <2>1. Documents(r)' = Documents(r)
        BY <1>3 DEF Documents
  <2>2. Untouched(r)' /\ GoneIsArchived(r)'
        BY <1>1, <1>3, <1>4, <1>5 DEF RunInv, Untouched, GoneIsArchived, Beside
  <2>3. LoopInv(r)'
    <3>1. pc'[r] = "copied"
          BY <1>2, <1>5
    <3>2. \A m \in Documents(r) \ todo[r] : archive[m] = cboms[r][m] \/ m \in current[r]
          BY <1>2, <1>5 DEF RunInv, LoopInv, InMemory
    <3>3. \A m \in Documents(r) \ todo[r] : archive'[m] = cboms[r][m] \/ m \in current[r]
          BY <1>1, <1>4, <1>5, <3>2 DEF Documents
    <3>4. files[r] = DigestDirectory(cboms[r]) /\ todo[r] \subseteq Documents(r)
          BY <1>2, <1>5 DEF RunInv, LoopInv, InMemory
    <3> QED BY <1>3, <1>4, <1>5, <2>1, <3>1, <3>3, <3>4 DEF LoopInv
  <2>4. RemovalInv(r)'
        BY <1>2, <1>5 DEF RemovalInv
  <2> QED BY <2>2, <2>3, <2>4 DEF RunInv
<1>6. CASE r # s
      BY <1>1, <1>2, <1>3, <1>4, <1>6, OtherRuns DEF Documents
<1> QED BY <1>5, <1>6

LEMMA GarbleCopyIInv ==
    ASSUME IInv, NEW s \in Runs, GarbleCopy(s), NEW r \in Runs
    PROVE  RunInv(r)'
<1> USE DEF IInv, TypeOK, Goto, GarbleCopy
<1>1. CASE r = s
  <2>1. pc[r] = "truncated" /\ pc'[r] = "copied" /\ Documents(r)' = Documents(r)
        BY <1>1 DEF Documents
  <2>2. Untouched(r)' /\ GoneIsArchived(r)'
        BY DEF RunInv, Untouched, GoneIsArchived
  <2>3. LoopInv(r)'
        BY <2>1 DEF RunInv, LoopInv, InMemory
  <2>4. RemovalInv(r)'
        BY <2>1 DEF RemovalInv
  <2> QED BY <2>2, <2>3, <2>4 DEF RunInv
<1>2. CASE r # s
      BY <1>2, Frame DEF Beside
<1> QED BY <1>1, <1>2

\* The check is what makes the loop safe: a copy that passes it has the bytes
\* of the document, because the digest has no collisions.
LEMMA CheckCopyIInv ==
    ASSUME IInv, NEW s \in Runs, CheckCopy(s), NEW r \in Runs
    PROVE  RunInv(r)'
<1> USE DEF IInv, TypeOK, Goto, CheckCopy, disk
<1>1. CASE r = s
  <2>1. pc[r] = "copied" /\ pc'[r] = "copying" /\ Documents(r)' = Documents(r)
        BY <1>1 DEF Documents
  <2>2. Untouched(r)' /\ GoneIsArchived(r)'
        BY DEF RunInv, Untouched, GoneIsArchived
  <2>3. PICK n \in Documents(r) : current[r] = {n} /\ n \notin todo[r]
        BY <2>1 DEF RunInv, LoopInv, InMemory
  <2>4. archive[n] = cboms[r][n]
    <3>1. archive[n] # NoFile /\ Sha256(archive[n]) = files[r][n]
          BY <1>1, <2>3 DEF CopyMatches
    <3>2. files[r] = DigestDirectory(cboms[r])
          BY <2>1 DEF RunInv, LoopInv, InMemory
    <3>3. files[r][n] = Sha256(cboms[r][n])
          BY <2>3, <3>2 DEF DigestDirectory, Documents
    <3>4. archive[n] \in Bytes /\ cboms[r][n] \in Bytes
          BY <2>3, <3>1 DEF Documents, Files, Bytes
    <3> QED BY <3>1, <3>3, <3>4, DigestAssumption
  <2>5. LoopInv(r)'
        BY <2>1, <2>3, <2>4 DEF RunInv, LoopInv, InMemory
  <2>6. RemovalInv(r)'
        BY <2>1 DEF RemovalInv
  <2> QED BY <2>2, <2>5, <2>6 DEF RunInv
<1>2. CASE r # s
      BY <1>2, Frame DEF Beside
<1> QED BY <1>1, <1>2

\* Rejecting a copy and being killed end the process and touch nothing.
LEMMA EndIInv ==
    ASSUME IInv, NEW s \in Runs, RejectCopy(s) \/ Crash(s), NEW r \in Runs
    PROVE  RunInv(r)'
<1> USE DEF IInv, TypeOK, Goto, RejectCopy, Crash, disk
<1>1. CASE r = s
  <2>1. pc'[r] = "idle"
        BY <1>1
  <2>2. Untouched(r)' /\ GoneIsArchived(r)'
        BY DEF RunInv, Untouched, GoneIsArchived
  <2> QED BY <2>1, <2>2 DEF RunInv, LoopInv, RemovalInv, InMemory
<1>2. CASE r # s
      BY <1>2, Frame DEF Beside
<1> QED BY <1>1, <1>2

LEMMA OpenManifestIInv ==
    ASSUME IInv, NEW s \in Runs, OpenManifest(s), NEW r \in Runs
    PROVE  RunInv(r)'
<1> USE DEF IInv, TypeOK, Goto, OpenManifest
<1>1. CASE r = s
  <2>1. pc[r] = "copying" /\ pc'[r] = "recording" /\ Documents(r)' = Documents(r)
        BY <1>1 DEF Documents
  <2>2. Untouched(r)' /\ GoneIsArchived(r)'
        BY DEF RunInv, Untouched, GoneIsArchived
  <2>3. LoopInv(r)'
        BY <1>1, <2>1 DEF RunInv, LoopInv, InMemory
  <2>4. RemovalInv(r)'
        BY <2>1 DEF RemovalInv
  <2> QED BY <2>2, <2>3, <2>4 DEF RunInv
<1>2. CASE r # s
      BY <1>2, Frame DEF Beside
<1> QED BY <1>1, <1>2

LEMMA WriteManifestIInv ==
    ASSUME IInv, NEW s \in Runs, WriteManifest(s), NEW r \in Runs
    PROVE  RunInv(r)'
<1> USE DEF IInv, TypeOK, Goto, WriteManifest
<1>1. CASE r = s
  <2>1. /\ pc[r] = "recording" /\ pc'[r] \in {"idle", "removing"}
        /\ Documents(r)' = Documents(r)
        BY <1>1 DEF Documents
  <2>2. Untouched(r)' /\ GoneIsArchived(r)'
        BY DEF RunInv, Untouched, GoneIsArchived
  <2>3. LoopInv(r)'
        BY <2>1 DEF LoopInv, InMemory
  <2>4. RemovalInv(r)'
    <3>1. manifestOk'[r] /\ withheld'[r] = DigestDirectory(cboms[r])
          BY <1>1, <2>1 DEF RunInv, LoopInv, InMemory
    <3>2. \A n \in Documents(r) : withheld'[r][n] = Sha256(cboms[r][n])
          BY <3>1 DEF DigestDirectory, Documents
    <3>3. \A n \in Documents(r) : archive[n] = cboms[r][n]
          BY <2>1 DEF RunInv, LoopInv, InMemory
    <3> QED BY <2>1, <3>1, <3>2, <3>3 DEF RemovalInv
  <2> QED BY <2>2, <2>3, <2>4 DEF RunInv
<1>2. CASE r # s
      BY <1>2, Frame DEF Beside
<1> QED BY <1>1, <1>2

LEMMA RemoveDocumentIInv ==
    ASSUME IInv, NEW s \in Runs, RemoveDocument(s), NEW r \in Runs
    PROVE  RunInv(r)'
<1> USE DEF IInv, TypeOK, RemoveDocument
<1>1. CASE r = s
  <2>1. PICK n \in Documents(r) : cboms' = [cboms EXCEPT ![r][n] = NoFile]
        BY <1>1
  <2>2. pc[r] = "removing" /\ pc' = pc
        BY <1>1
  <2>3. archive[n] = cboms[r][n] /\ cboms[r][n] = Collected[r][n] /\ n \in Names
        BY <2>2 DEF RunInv, RemovalInv, Untouched, Documents
  <2>4. Untouched(r)'
        BY <2>1 DEF RunInv, Untouched
  <2>5. GoneIsArchived(r)'
        BY <2>1, <2>3 DEF RunInv, GoneIsArchived, Beside
  <2>6. LoopInv(r)'
        BY <2>2 DEF LoopInv, InMemory
  <2>7. RemovalInv(r)'
        BY <2>1, <2>2 DEF RunInv, RemovalInv, Documents
  <2> QED BY <2>4, <2>5, <2>6, <2>7 DEF RunInv
<1>2. CASE r # s
      BY <1>2, Frame DEF Beside
<1> QED BY <1>1, <1>2

LEMMA RemoveDirectoryIInv ==
    ASSUME IInv, NEW s \in Runs, RemoveDirectory(s), NEW r \in Runs
    PROVE  RunInv(r)'
<1> USE DEF IInv, TypeOK, Goto, RemoveDirectory
<1>1. CASE r = s
  <2>1. pc'[r] = "idle"
        BY <1>1
  <2>2. Untouched(r)' /\ GoneIsArchived(r)'
        BY DEF RunInv, Untouched, GoneIsArchived
  <2> QED BY <2>1, <2>2 DEF RunInv, LoopInv, RemovalInv, InMemory
<1>2. CASE r # s
      BY <1>2, Frame DEF Beside
<1> QED BY <1>1, <1>2

LEMMA NextIInv == DistinctNames /\ IInv /\ [Next]_vars => IInv'
<1> SUFFICES ASSUME DistinctNames, IInv, [Next]_vars
             PROVE  IInv'
    OBVIOUS
<1>1. TypeOK'
      BY TypeNext DEF IInv
<1>2. ASSUME NEW r \in Runs
      PROVE  RunInv(r)'
  <2>1. CASE UNCHANGED vars
        BY <2>1, Frame DEF vars, IInv
  <2>2. ASSUME NEW s \in Runs, Begin(s) \/ Step(s) \/ Crash(s)
        PROVE  RunInv(r)'
        BY <2>2, BeginIInv, OpenCopyIInv, WriteCopyIInv, GarbleCopyIInv, CheckCopyIInv,
           EndIInv, OpenManifestIInv, WriteManifestIInv, RemoveDocumentIInv,
           RemoveDirectoryIInv
        DEF Step
  <2> QED BY <2>1, <2>2 DEF Next
<1> QED BY <1>1, <1>2 DEF IInv

LEMMA IInvHolds == ASSUME DistinctNames PROVE Spec => []IInv
<1>1. Init => IInv
      BY InitIInv
<1>2. IInv /\ [Next]_vars => IInv'
      BY NextIInv
<1> QED BY <1>1, <1>2, PTL DEF Spec

(***************************************************************************)
(* However the processes of the runs interleave, are killed and started    *)
(* again, every document is intact in its run or in the archive, provided  *)
(* no two runs have documents of the same name.                            *)
(***************************************************************************)
THEOREM EvidenceSafe ==
    ASSUME DistinctNames
    PROVE  Spec => []NoEvidenceLost
<1>1. IInv => NoEvidenceLost
      BY DEF IInv, RunInv, Untouched, GoneIsArchived, Beside, NoEvidenceLost
<1> QED BY <1>1, IInvHolds, PTL

(***************************************************************************)
(* The step that removes a document finds its bytes in the archive and     *)
(* their digest in a manifest that is whole.                               *)
(***************************************************************************)
THEOREM RemovalSafe ==
    ASSUME DistinctNames
    PROVE  Spec => RemovedOnlyWhenArchived
<1> DEFINE Gate(r, n) ==
        cboms[r][n] # NoFile /\ cboms'[r][n] = NoFile =>
            /\ archive[n] = cboms[r][n]
            /\ manifestOk[r]
            /\ withheld[r][n] = Sha256(cboms[r][n])
<1>1. IInv /\ [Next]_vars => \A r \in Runs : \A n \in Names : Gate(r, n)
  <2> SUFFICES ASSUME IInv, [Next]_vars, NEW r \in Runs, NEW n \in Names,
                      cboms[r][n] # NoFile, cboms'[r][n] = NoFile
               PROVE  Gate(r, n)
      OBVIOUS
  <2>1. PICK s \in Runs : RemoveDocument(s)
        BY DEF Next, Step, Begin, OpenCopy, WriteCopy, GarbleCopy, CheckCopy, RejectCopy,
               OpenManifest, WriteManifest, RemoveDirectory, Crash, disk, vars
  <2>2. PICK m \in Documents(s) : cboms' = [cboms EXCEPT ![s][m] = NoFile]
        BY <2>1 DEF RemoveDocument
  <2>3. r = s
        BY <2>2 DEF IInv, TypeOK, Documents
  <2>4. pc[r] = "removing" /\ n \in Documents(r)
        BY <2>1, <2>3 DEF RemoveDocument, Documents
  <2> QED BY <2>4 DEF IInv, RunInv, RemovalInv
<1> QED BY <1>1, IInvHolds, PTL DEF Spec, RemovedOnlyWhenArchived

-----------------------------------------------------------------------------
(***************************************************************************)
(* What the manifests say.  A digest that is recorded is that of what was  *)
(* collected, and a run whose cboms/ is gone has no documents left and no  *)
(* process.                                                                *)
(***************************************************************************)
RecordedInv(r) ==
    \A n \in Recorded(r) : n \in Beside(r) /\ withheld[r][n] = Sha256(Collected[r][n])

DirInv(r) == ~cbomsDir[r] => Documents(r) = {} /\ pc[r] = "idle"

BookInv == \A r \in Runs : RecordedInv(r) /\ DirInv(r)

LEMMA InitBookInv == Init => BookInv
BY DEF Init, BookInv, RecordedInv, DirInv, Recorded

LEMMA NextBookInv == IInv /\ BookInv /\ [Next]_vars => BookInv'
<1> SUFFICES ASSUME IInv, BookInv, [Next]_vars, NEW r \in Runs
             PROVE  RecordedInv(r)' /\ DirInv(r)'
    BY DEF BookInv
<1> USE DEF IInv, TypeOK, BookInv, Goto
<1>1. ASSUME NEW s \in Runs, WriteManifest(s)
      PROVE  RecordedInv(r)' /\ DirInv(r)'
  <2>1. CASE r = s
    <3>1. withheld'[r] = DigestDirectory(cboms[r])
          BY <1>1, <2>1 DEF WriteManifest, RunInv, LoopInv, InMemory
    <3>2. \A n \in Names : withheld'[r][n] # NoDigest =>
              n \in Beside(r) /\ withheld'[r][n] = Sha256(Collected[r][n])
          BY <3>1 DEF DigestDirectory, RunInv, Untouched, Beside
    <3>3. RecordedInv(r)'
          BY <3>2 DEF RecordedInv, Recorded, Beside
    <3>4. DirInv(r)'
          BY <1>1, <2>1 DEF WriteManifest, DirInv
    <3> QED BY <3>3, <3>4
  <2>2. CASE r # s
        BY <1>1, <2>2 DEF WriteManifest, RecordedInv, DirInv, Recorded, Beside, Documents
  <2> QED BY <2>1, <2>2
<1>2. ASSUME NEW s \in Runs, RemoveDirectory(s)
      PROVE  RecordedInv(r)' /\ DirInv(r)'
      BY <1>2 DEF RemoveDirectory, RecordedInv, DirInv, Recorded, Beside, Documents
<1>3. ASSUME NEW s \in Runs, RemoveDocument(s)
      PROVE  RecordedInv(r)' /\ DirInv(r)'
      BY <1>3 DEF RemoveDocument, RecordedInv, DirInv, Recorded, Beside, Documents
<1>4. ASSUME NEW s \in Runs, Begin(s)
      PROVE  RecordedInv(r)' /\ DirInv(r)'
      BY <1>4 DEF Begin, RecordedInv, DirInv, Recorded, Beside, Documents
<1>5. ASSUME NEW s \in Runs, OpenCopy(s) \/ WriteCopy(s) \/ GarbleCopy(s) \/ OpenManifest(s)
      PROVE  RecordedInv(r)' /\ DirInv(r)'
      BY <1>5 DEF OpenCopy, WriteCopy, GarbleCopy, OpenManifest,
                  RecordedInv, DirInv, Recorded, Beside, Documents
<1>6. ASSUME NEW s \in Runs, CheckCopy(s) \/ RejectCopy(s) \/ Crash(s)
      PROVE  RecordedInv(r)' /\ DirInv(r)'
      BY <1>6 DEF CheckCopy, RejectCopy, Crash, disk,
                  RecordedInv, DirInv, Recorded, Beside, Documents
<1>7. CASE UNCHANGED vars
      BY <1>7 DEF vars, RecordedInv, DirInv, Recorded, Beside, Documents
<1> QED BY <1>1, <1>2, <1>3, <1>4, <1>5, <1>6, <1>7 DEF Next, Step

LEMMA BookInvHolds == ASSUME DistinctNames PROVE Spec => []BookInv
<1>1. Init => BookInv
      BY InitBookInv
<1>2. IInv /\ BookInv /\ [Next]_vars => BookInv'
      BY NextBookInv
<1> QED BY <1>1, <1>2, IInvHolds, PTL DEF Spec

(***************************************************************************)
(* A recorded digest is that of a document that was collected and that is  *)
(* still there to be checked against it.                                   *)
(***************************************************************************)
THEOREM CommitmentsAreHonest ==
    ASSUME DistinctNames
    PROVE  Spec => []CommitmentsHonest
<1>1. IInv /\ BookInv => CommitmentsHonest
  <2> SUFFICES ASSUME IInv, BookInv, NEW r \in Runs, NEW n \in Recorded(r)
               PROVE  \E c \in {cboms[r][n], archive[n]} :
                         c # NoFile /\ c = Collected[r][n] /\ withheld[r][n] = Sha256(c)
      BY DEF CommitmentsHonest
  <2>1. n \in Beside(r) /\ withheld[r][n] = Sha256(Collected[r][n])
        BY DEF BookInv, RecordedInv
  <2>2. Collected[r][n] \in {cboms[r][n], archive[n]}
        BY <2>1 DEF IInv, RunInv, Untouched, GoneIsArchived, Beside
  <2> QED BY <2>1, <2>2 DEF Beside
<1> QED BY <1>1, IInvHolds, BookInvHolds, PTL

(***************************************************************************)
(* A withheld run that verifies goes on verifying, whatever is done to the *)
(* other runs that share the archive.                                      *)
(***************************************************************************)
THEOREM VerifiedStaysVerified ==
    ASSUME DistinctNames
    PROVE  Spec => VerifiedForGood
<1> DEFINE Gone(r) == ~cbomsDir[r] /\ Verifies(r)
<1>1. IInv /\ BookInv /\ [Next]_vars => \A r \in Runs : Gone(r) => Verifies(r)'
  <2> SUFFICES ASSUME IInv, BookInv, [Next]_vars, NEW r \in Runs, Gone(r)
               PROVE  Verifies(r)'
      OBVIOUS
  <2>1. pc[r] = "idle" /\ Documents(r) = {} /\ Recorded(r) \subseteq Beside(r)
        BY DEF BookInv, DirInv, RecordedInv
  <2>2. manifestOk'[r] = manifestOk[r] /\ withheld'[r] = withheld[r]
        BY <2>1 DEF IInv, TypeOK, Next, Step, Begin, OpenCopy, WriteCopy, GarbleCopy,
               CheckCopy, RejectCopy, OpenManifest, WriteManifest, RemoveDocument,
               RemoveDirectory, Crash, disk, vars
  <2>3. \A n \in Recorded(r) : archive'[n] = archive[n]
    <3>1. ASSUME NEW s \in Runs, OpenCopy(s) \/ WriteCopy(s), NEW n \in Recorded(r)
          PROVE  archive'[n] = archive[n]
      <4>1. PICK m \in Documents(s) : \E c : archive' = [archive EXCEPT ![m] = c]
        <5>1. pc[s] \in {"copying", "truncated"}
              BY <3>1 DEF OpenCopy, WriteCopy
        <5>2. todo[s] \cup (IF pc[s] = "truncated" THEN current[s] ELSE {}) \subseteq Documents(s)
              BY <5>1 DEF IInv, RunInv, LoopInv, InMemory
        <5> QED BY <3>1, <5>2 DEF OpenCopy, WriteCopy
      <4>2. Collected[s][m] # NoFile /\ m \in Names
            BY DEF IInv, RunInv, Untouched, Documents
      <4>3. s # r
            BY <2>1
      <4>4. m # n
            BY <2>1, <4>2, <4>3 DEF DistinctNames, Beside
      <4> QED BY <4>1, <4>4 DEF IInv, TypeOK, Recorded
    <3>2. ASSUME NEW s \in Runs, Begin(s) \/ Step(s) \/ Crash(s),
                 ~(OpenCopy(s) \/ WriteCopy(s))
          PROVE  archive' = archive
          BY <3>2 DEF Step, Begin, GarbleCopy, CheckCopy, RejectCopy, OpenManifest,
                 WriteManifest, RemoveDocument, RemoveDirectory, Crash, disk
    <3> QED BY <3>1, <3>2 DEF Next, vars
  <2> QED BY <2>2, <2>3 DEF Verifies, Recorded
<1> QED BY <1>1, IInvHolds, BookInvHolds, PTL DEF Spec, VerifiedForGood
=============================================================================
