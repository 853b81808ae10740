------------------------------ MODULE Withhold ------------------------------
(***************************************************************************)
(* tools/withhold-cboms.py: the CBOMs of a run directory are copied to a   *)
(* private archive, their SHA-256 digests are recorded in the run's        *)
(* manifest, and then the run's cboms/ directory is removed.               *)
(*                                                                         *)
(* One process per run directory may be active, and the processes of       *)
(* different runs interleave: they share the archive directory they were   *)
(* given.  Every step that touches the disk is a step of its own, and a    *)
(* process may be killed between any two of them.                          *)
(***************************************************************************)
EXTENDS Naturals, FiniteSets

CONSTANTS
    Runs,           \* run directories
    Names,          \* file names a CBOM can have, <project>__<tool>.json
    Contents,       \* what a CBOM file can hold
    NoFile,         \* there is no such file
    Torn,           \* a file a writer truncated and did not finish, or garbled
    Sha256(_),      \* the digest of a file's bytes
    NoDigest,       \* the manifest has no entry for the name
    Collected,      \* Collected[r][n]: what the collector wrote to run r
    MaxCrashes,     \* bound: kills over a behaviour
    MaxCopyFaults   \* bound: copies that go wrong over a behaviour

Bytes   == Contents \cup {Torn}
Files   == Bytes \cup {NoFile}
Digests == {Sha256(c) : c \in Bytes}

ASSUME SentinelAssumption ==
    /\ NoFile \notin Bytes
    /\ Torn \notin Contents
    /\ NoDigest \notin Digests

\* hashlib.sha256 is taken to be free of collisions.
ASSUME DigestAssumption ==
    \A c, d \in Bytes : Sha256(c) = Sha256(d) => c = d

ASSUME CollectedAssumption == Collected \in [Runs -> [Names -> Contents \cup {NoFile}]]

ASSUME BoundAssumption == MaxCrashes \in Nat /\ MaxCopyFaults \in Nat

VARIABLES
    cboms,        \* cboms[r][n]: the file n of run r's cboms/
    cbomsDir,     \* cbomsDir[r]: cboms/ exists
    archive,      \* archive[n]: the file n of the private archive
    manifestOk,   \* manifestOk[r]: manifest.json of r is whole, not half-written
    withheld,     \* withheld[r][n]: digest of n under "withheld_cboms"
    pc,           \* pc[r]: where the process of r is
    keep,         \* keep[r]: --keep was given
    todo,         \* todo[r]: documents still to be copied
    current,      \* current[r]: documents being copied, at most one
    files,        \* files[r][n]: digests taken before the first copy
    crashes, faults

work == <<keep, todo, current, files>>
disk == <<cboms, cbomsDir, archive, manifestOk, withheld>>
vars == <<disk, pc, work, crashes, faults>>

Phases == {"idle", "copying", "truncated", "copied", "recording", "removing"}

TypeOK ==
    /\ cboms \in [Runs -> [Names -> Contents \cup {NoFile}]]
    /\ cbomsDir \in [Runs -> BOOLEAN]
    /\ archive \in [Names -> Files]
    /\ manifestOk \in [Runs -> BOOLEAN]
    /\ withheld \in [Runs -> [Names -> Digests \cup {NoDigest}]]
    /\ pc \in [Runs -> Phases]
    /\ keep \in [Runs -> BOOLEAN]
    /\ todo \in [Runs -> SUBSET Names]
    /\ current \in [Runs -> SUBSET Names]
    /\ files \in [Runs -> [Names -> Digests \cup {NoDigest}]]
    /\ crashes \in 0..MaxCrashes
    /\ faults \in 0..MaxCopyFaults

-----------------------------------------------------------------------------
(***************************************************************************)
(* Reading the disk.                                                       *)
(***************************************************************************)

\* The documents of a run: sorted(cboms.glob("*.json")).  The names are
\* opaque, so the order they sort in is any order.
Documents(r) == {n \in Names : cboms[r][n] # NoFile}

\* Faulty variant: a digest for every name, whether there is a file or not.
DigestAllNames(dir) == [n \in Names |-> Sha256(dir[n])]

\* digest_directory: every document with the digest of its bytes.
DigestDirectory(dir) ==
    [n \in Names |-> IF dir[n] = NoFile THEN NoDigest ELSE Sha256(dir[n])]

Recorded(r) == {n \in Names : withheld[r][n] # NoDigest}

\* verify: a run with a digest block, every recorded name in the archive with
\* the recorded digest.  Names the archive holds beside those are tolerated.
Verifies(r) ==
    /\ manifestOk[r]
    /\ Recorded(r) # {}
    /\ \A n \in Recorded(r) :
           archive[n] # NoFile /\ Sha256(archive[n]) = withheld[r][n]

-----------------------------------------------------------------------------
Init ==
    /\ cboms = Collected
    /\ cbomsDir = [r \in Runs |-> TRUE]
    /\ archive = [n \in Names |-> NoFile]
    /\ manifestOk = [r \in Runs |-> TRUE]
    /\ withheld = [r \in Runs |-> [n \in Names |-> NoDigest]]
    /\ pc = [r \in Runs |-> "idle"]
    /\ keep = [r \in Runs |-> FALSE]
    /\ todo = [r \in Runs |-> {}]
    /\ current = [r \in Runs |-> {}]
    /\ files = [r \in Runs |-> [n \in Names |-> NoDigest]]
    /\ crashes = 0
    /\ faults = 0

Goto(r, phase) == pc' = [pc EXCEPT ![r] = phase]

\* Faulty variant: a run that is already withheld is not refused.
NothingRefused(r) == FALSE

\* cboms/ was removed, or is empty.
Refused(r) == ~cbomsDir[r] \/ Documents(r) = {}

\* withhold up to the copy loop.  A half-written manifest, a removed or an
\* empty cboms/ ends the process at once, with nothing changed.
Begin(r) ==
    /\ pc[r] = "idle"
    /\ manifestOk[r]
    /\ ~Refused(r)
    /\ \E k \in BOOLEAN : keep' = [keep EXCEPT ![r] = k]
    /\ todo' = [todo EXCEPT ![r] = Documents(r)]
    /\ current' = [current EXCEPT ![r] = {}]
    /\ files' = [files EXCEPT ![r] = DigestDirectory(cboms[r])]
    /\ Goto(r, "copying")
    /\ UNCHANGED <<disk, crashes, faults>>

\* shutil.copy2, first half: the destination is opened, which truncates it.
OpenCopy(r) ==
    /\ pc[r] = "copying"
    /\ \E n \in todo[r] :
          /\ archive' = [archive EXCEPT ![n] = Torn]
          /\ current' = [current EXCEPT ![r] = {n}]
          /\ todo' = [todo EXCEPT ![r] = @ \ {n}]
    /\ Goto(r, "truncated")
    /\ UNCHANGED <<cboms, cbomsDir, manifestOk, withheld, keep, files, crashes, faults>>

\* shutil.copy2, second half: the bytes arrive.
WriteCopy(r) ==
    /\ pc[r] = "truncated"
    /\ \E n \in current[r] : archive' = [archive EXCEPT ![n] = cboms[r][n]]
    /\ Goto(r, "copied")
    /\ UNCHANGED <<cboms, cbomsDir, manifestOk, withheld, work, crashes, faults>>

\* The copy goes wrong unnoticed by copy2: other bytes are in the archive.
GarbleCopy(r) ==
    /\ pc[r] = "truncated"
    /\ faults < MaxCopyFaults
    /\ faults' = faults + 1
    /\ Goto(r, "copied")
    /\ UNCHANGED <<cboms, cbomsDir, archive, manifestOk, withheld, work, crashes>>

\* Faulty variant: that the copy exists is taken for its being good.
CopyExists(r) == \A n \in current[r] : archive[n] # NoFile

\* sha256_file(destination) against the digest taken before the loop.
CopyMatches(r) ==
    \A n \in current[r] : archive[n] # NoFile /\ Sha256(archive[n]) = files[r][n]

CheckCopy(r) ==
    /\ pc[r] = "copied"
    /\ CopyMatches(r)
    /\ Goto(r, "copying")
    /\ UNCHANGED <<disk, work, crashes, faults>>

\* "copy verification failed ...; nothing removed"
RejectCopy(r) ==
    /\ pc[r] = "copied"
    /\ ~CopyMatches(r)
    /\ Goto(r, "idle")
    /\ UNCHANGED <<disk, work, crashes, faults>>

\* Faulty variant: the loop ends one document early.
CopiedEarly(r) == Cardinality(todo[r]) <= 1

Copied(r) == todo[r] = {}

\* Faulty variant: the documents are removed before the manifest is written.
RemoveFirst(r) ==
    /\ pc[r] = "copying"
    /\ Copied(r)
    /\ Goto(r, "removing")
    /\ UNCHANGED <<disk, work, crashes, faults>>

\* manifest_path.write_text, first half: the old manifest is truncated.
OpenManifest(r) ==
    /\ pc[r] = "copying"
    /\ Copied(r)
    /\ manifestOk' = [manifestOk EXCEPT ![r] = FALSE]
    /\ Goto(r, "recording")
    /\ UNCHANGED <<cboms, cbomsDir, archive, withheld, work, crashes, faults>>

\* Faulty variant: --keep is read the wrong way round.
RemovesWhenKeeping(r) == IF keep[r] THEN "removing" ELSE "idle"

WhenRecorded(r) == IF keep[r] THEN "idle" ELSE "removing"

\* Second half: the digest block replaces the one that was there.
WriteManifest(r) ==
    /\ pc[r] = "recording"
    /\ manifestOk' = [manifestOk EXCEPT ![r] = TRUE]
    /\ withheld' = [withheld EXCEPT ![r] = files[r]]
    /\ Goto(r, WhenRecorded(r))
    /\ UNCHANGED <<cboms, cbomsDir, archive, work, crashes, faults>>

\* shutil.rmtree(cboms), entry by entry in the order the directory lists them.
RemoveDocument(r) ==
    /\ pc[r] = "removing"
    /\ \E n \in Documents(r) : cboms' = [cboms EXCEPT ![r][n] = NoFile]
    /\ UNCHANGED <<cbomsDir, archive, manifestOk, withheld, pc, work, crashes, faults>>

RemoveDirectory(r) ==
    /\ pc[r] = "removing"
    /\ Documents(r) = {}
    /\ cbomsDir' = [cbomsDir EXCEPT ![r] = FALSE]
    /\ Goto(r, "idle")
    /\ UNCHANGED <<cboms, archive, manifestOk, withheld, work, crashes, faults>>

\* The process is killed, or a call of it raises: what it held in memory is
\* gone, what it did to the disk stays.
Crash(r) ==
    /\ pc[r] # "idle"
    /\ crashes < MaxCrashes
    /\ crashes' = crashes + 1
    /\ Goto(r, "idle")
    /\ UNCHANGED <<disk, work, faults>>

Step(r) ==
    \/ OpenCopy(r) \/ WriteCopy(r) \/ GarbleCopy(r) \/ CheckCopy(r) \/ RejectCopy(r)
    \/ OpenManifest(r) \/ WriteManifest(r)
    \/ RemoveDocument(r) \/ RemoveDirectory(r)

Next == \E r \in Runs : Begin(r) \/ Step(r) \/ Crash(r)

Spec == Init /\ [][Next]_vars

\* A process that was started is scheduled until it ends, and the operator
\* withholds again, without --keep, as long as that is possible.
Withholds(r) == Begin(r) /\ ~keep'[r]

FairSpec ==
    /\ Spec
    /\ \A r \in Runs : WF_vars(Step(r)) /\ SF_vars(Withholds(r))

-----------------------------------------------------------------------------
(***************************************************************************)
(* Properties.                                                             *)
(***************************************************************************)

\* No two runs have a document of the same name: what the shared archive
\* directory needs, since an archived file is named after the document alone.
DistinctNames ==
    \A r, s \in Runs : \A n \in Names :
        r # s => Collected[r][n] = NoFile \/ Collected[s][n] = NoFile

\* Every document a run collected is intact in its cboms/ or in the archive,
\* whatever was killed in between ("Copy and verify before removing
\* anything").
NoEvidenceLost ==
    \A r \in Runs : \A n \in Names :
        Collected[r][n] # NoFile =>
            Collected[r][n] \in {cboms[r][n], archive[n]}

\* The manifest's digests are commitments: each names bytes that were really
\* collected, and can still be checked against a copy of them.
CommitmentsHonest ==
    \A r \in Runs : \A n \in Recorded(r) :
        \E c \in {cboms[r][n], archive[n]} :
            c # NoFile /\ c = Collected[r][n] /\ withheld[r][n] = Sha256(c)

\* A document leaves cboms/ only while the archive holds its bytes and the
\* manifest on the disk is whole and records their digest.
RemovedOnlyWhenArchived ==
    [][\A r \in Runs : \A n \in Names :
          cboms[r][n] # NoFile /\ cboms'[r][n] = NoFile =>
              /\ archive[n] = cboms[r][n]
              /\ manifestOk[r]
              /\ withheld[r][n] = Sha256(cboms[r][n])]_vars

\* A run whose cboms/ is gone, and that a reviewer could verify, stays
\* verifiable: later invocations, for this run or another, do not disturb it.
VerifiedForGood ==
    [][\A r \in Runs : ~cbomsDir[r] /\ Verifies(r) => Verifies(r)']_vars

\* A document that is no longer in cboms/ has its digest in the manifest
\* ("their SHA-256 digests are recorded in the committed manifest").  A
\* removal cut short by a kill and then repeated breaks it.
RemovedIsRecorded ==
    \A r \in Runs : \A n \in Names :
        manifestOk[r] /\ Collected[r][n] # NoFile /\ cboms[r][n] = NoFile =>
            withheld[r][n] = Sha256(Collected[r][n])

\* Kills and bad copies only delay it: every run ends with no document left
\* in cboms/, unless a kill hit the rewriting of its manifest, which the tool
\* cannot read again.
EventuallyWithheld ==
    \A r \in Runs : <>[](Documents(r) = {} \/ (~manifestOk[r] /\ pc[r] = "idle"))
=============================================================================
