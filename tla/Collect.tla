------------------------------ MODULE Collect -------------------------------
(***************************************************************************)
(* tools/collect-cboms.py: every CBOM generator of a config is run over    *)
(* every project, one (tool, project) pair after the other; what a         *)
(* generator printed, or wrote to the shared file .work/bom.json, is kept  *)
(* under cboms/ when it is good, and a manifest written at the end lists   *)
(* what became of every invocation.                                        *)
(*                                                                         *)
(* The collector may be killed at any step or end by an exception, and may *)
(* be started again with the same --out.  A generator may hang, fail,      *)
(* write nothing or write nonsense, and one that was killed may live on:   *)
(* tools/cdxgen-docker.sh becomes a docker client, and killing a client  *)
(* does not stop its container.                                            *)
(***************************************************************************)
EXTENDS Naturals, Sequences

CONSTANTS
    Tools, Projects,
    Plans,          \* what a collector may be asked to run: --config, --tool, --project
    FileTools,      \* tools whose spec says "output": "file"
    LateTools,      \* the FileTools that outlive a timeout
    Undecodable,    \* tools that print bytes that are not UTF-8
    Nothing,        \* no file, or one of nothing but blanks
    Garbage,        \* text that is not JSON
    Torn,           \* a file of cboms/ its writer truncated and did not finish
    MaxSessions,    \* bound: collectors started over a behaviour
    MaxKills        \* bound: collectors killed over a behaviour

Pairs     == Tools \X Projects
Sessions  == 1..MaxSessions
Documents == [pair : Pairs, session : Sessions]   \* a good CBOM, by its origin
Outputs   == Documents \cup {Nothing, Garbage}

Unlisted == "unlisted"
Statuses == {Unlisted, "ok", "empty", "failed", "invalid-json", "timeout", "error",
             "export-failed"}

ASSUME PlansAssumption ==
    \A plan \in Plans :
        /\ plan \in Seq(Pairs)
        /\ \A i, j \in 1..Len(plan) : plan[i] = plan[j] => i = j

ASSUME ToolsAssumption ==
    LateTools \subseteq FileTools /\ FileTools \subseteq Tools /\ Undecodable \subseteq Tools

ASSUME SentinelAssumption ==
    Nothing \notin Documents /\ Garbage \notin Documents /\ Torn \notin Documents
        /\ Nothing # Garbage /\ Nothing # Torn

ASSUME BoundAssumption == MaxSessions \in Nat /\ MaxKills \in Nat

VARIABLES
    cboms,        \* cboms[pair]: <out>/cboms/<project>__<tool>.json
    bom,          \* .work/bom.json
    late,         \* generators, by origin, that outlived their collector or its patience
    manifest,     \* manifest[pair]: the status manifest.json lists for the pair
    manifestOk,   \* manifest.json is there and whole
    manifestOf,   \* the session that wrote it
    session,      \* the collector that runs, or ran last
    plan,         \* its pairs, in the order it runs them
    cursor,       \* the pair it is at
    phase,        \* where it is
    ended,        \* how it ended
    invocations,  \* invocations[pair]: the record in its memory
    stdout,       \* what the generator printed
    accepted,     \* whether the generator's exit status is in accept_exit
    payload,      \* the document about to be kept
    kills

record == <<manifest, manifestOk, manifestOf>>
disk   == <<cboms, bom, record>>
locals == <<stdout, accepted, payload>>
memory == <<plan, cursor, invocations, locals>>
vars   == <<disk, late, session, phase, ended, memory, kills>>

Phases == {"idle", "next", "exported", "running", "exited", "keeping", "writing",
           "recording", "cleaning"}

TypeOK ==
    /\ cboms \in [Pairs -> Documents \cup {Nothing, Torn}]
    /\ bom \in Outputs
    /\ late \subseteq {d \in Documents : d.pair[1] \in FileTools}
    /\ manifest \in [Pairs -> Statuses]
    /\ manifestOk \in BOOLEAN
    /\ manifestOf \in 0..MaxSessions
    /\ session \in 0..MaxSessions
    /\ plan \in Plans \cup {<<>>}
    /\ cursor \in 1..(Len(plan) + 1)
    /\ phase \in Phases
    /\ ended \in {"running", "finished", "killed", "raised"}
    /\ invocations \in [Pairs -> Statuses]
    /\ stdout \in Outputs
    /\ accepted \in BOOLEAN
    /\ payload \in Documents \cup {Nothing}
    /\ kills \in 0..MaxKills

-----------------------------------------------------------------------------
Pair == plan[cursor]
Tool == Pair[1]

\* The document the generator at hand would produce.
Own == [pair |-> Pair, session |-> session]

Init ==
    /\ cboms = [p \in Pairs |-> Nothing]
    /\ bom = Nothing
    /\ late = {}
    /\ manifest = [p \in Pairs |-> Unlisted]
    /\ manifestOk = FALSE
    /\ manifestOf = 0
    /\ session = 0
    /\ plan = <<>>
    /\ cursor = 1
    /\ phase = "idle"
    /\ ended = "finished"
    /\ invocations = [p \in Pairs |-> Unlisted]
    /\ stdout = Nothing
    /\ accepted = FALSE
    /\ payload = Nothing
    /\ kills = 0

\* main up to the loop.  The directories are made with exist_ok: what an
\* earlier session left in them stays.
Start ==
    /\ phase = "idle"
    /\ session < MaxSessions
    /\ session' = session + 1
    /\ plan' \in Plans
    /\ cursor' = 1
    /\ invocations' = [p \in Pairs |-> Unlisted]
    /\ phase' = "next"
    /\ ended' = "running"
    /\ UNCHANGED <<disk, late, locals, kills>>

\* run_one returns, or the process ends: its locals are gone.
Forget == stdout' = Nothing /\ accepted' = FALSE /\ payload' = Nothing

\* The invocation is over: its record is appended and the loop goes on.
RecordInvocation(status) ==
    /\ invocations' = [invocations EXCEPT ![Pair] = status]
    /\ cursor' = cursor + 1
    /\ phase' = "next"
    /\ Forget

\* The process ends; what it held in memory is gone with it.
End(how) ==
    /\ phase' = "idle"
    /\ ended' = how
    /\ cursor' = 1
    /\ invocations' = [p \in Pairs |-> Unlisted]
    /\ Forget

-----------------------------------------------------------------------------
(***************************************************************************)
(* One turn of the loop.                                                   *)
(***************************************************************************)

Export ==
    /\ phase = "next"
    /\ cursor <= Len(plan)
    /\ phase' = "exported"
    /\ UNCHANGED <<disk, late, session, ended, memory, kills>>

\* Faulty variant: "continue" before the record is appended.
ExportFailsUnrecorded ==
    /\ phase = "next"
    /\ cursor <= Len(plan)
    /\ cursor' = cursor + 1
    /\ UNCHANGED <<disk, late, session, phase, ended, plan, invocations, locals, kills>>

\* git archive or tar answers with an error.
ExportFails ==
    /\ phase = "next"
    /\ cursor <= Len(plan)
    /\ RecordInvocation("export-failed")
    /\ UNCHANGED <<disk, late, session, ended, plan, kills>>

\* git or tar runs into its own timeout, or the copy of an earlier session cannot
\* be removed: nothing catches either.
ExportRaises ==
    /\ phase = "next"
    /\ cursor <= Len(plan)
    /\ End("raised")
    /\ UNCHANGED <<disk, late, session, plan, kills>>

\* Faulty variant: an output file left by the generator before is kept.
LaunchKeepingOutput ==
    /\ phase = "exported"
    /\ phase' = "running"
    /\ stdout' = Nothing
    /\ UNCHANGED <<disk, late, session, ended, plan, cursor, invocations, accepted, payload, kills>>

\* run_one up to the spawned process: bom.json is unlinked first.
Launch ==
    /\ phase = "exported"
    /\ bom' = Nothing
    /\ stdout' = Nothing
    /\ phase' = "running"
    /\ UNCHANGED <<cboms, record, late, session, ended, plan, cursor, invocations, accepted,
                   payload, kills>>

\* OSError, SubprocessError: there is no such program.
SpawnError ==
    /\ phase = "exported"
    /\ bom' = Nothing
    /\ RecordInvocation("error")
    /\ UNCHANGED <<cboms, record, late, session, ended, plan, kills>>

\* The generator writes: a document, or part of one, or what is none.
ToolWrites ==
    /\ phase = "running"
    /\ \E output \in {Own, Garbage} :
          IF Tool \in FileTools
          THEN bom' = output /\ UNCHANGED stdout
          ELSE stdout' = output /\ UNCHANGED bom
    /\ UNCHANGED <<cboms, record, late, session, phase, ended, plan, cursor, invocations,
                   accepted, payload, kills>>

ToolExits ==
    /\ phase = "running"
    /\ accepted' \in BOOLEAN
    /\ phase' = "exited"
    /\ UNCHANGED <<disk, late, session, ended, plan, cursor, invocations, stdout, payload, kills>>

\* subprocess.run(text=True) decodes what was printed: UnicodeDecodeError is
\* neither an OSError nor a SubprocessError, so nothing catches it.
ToolUndecodable ==
    /\ phase = "running"
    /\ Tool \in Undecodable
    /\ End("raised")
    /\ UNCHANGED <<disk, late, session, plan, kills>>

\* Faulty variant: a generator that hangs is started again, for ever.
TimeoutRetries ==
    /\ phase = "running"
    /\ phase' = "exported"
    /\ UNCHANGED <<disk, late, session, ended, memory, kills>>

\* The child is killed; that need not end what writes its output file.
Timeout ==
    /\ phase = "running"
    /\ \/ Tool \in LateTools /\ late' = late \cup {Own}
       \/ UNCHANGED late
    /\ RecordInvocation("timeout")
    /\ UNCHANGED <<disk, session, ended, plan, kills>>

\* A generator nobody waits for writes, or is done, or both.  The directory
\* of bom.json is mounted in its container.
LateWrite ==
    /\ \E d \in late :
          /\ bom' \in {d, Garbage, bom}
          /\ late' \in {late, late \ {d}}
    /\ UNCHANGED <<cboms, record, session, phase, ended, memory, kills>>

Output == IF Tool \in FileTools THEN bom ELSE stdout

\* Faulty variant: what is not JSON is taken for a document.
StatusUnparsed(output) ==
    CASE output = Nothing -> "empty"
      [] output # Nothing /\ ~accepted -> "failed"
      [] OTHER -> "ok"

\* The order run_one judges an output in.
Status(output) ==
    CASE output = Nothing -> "empty"
      [] output # Nothing /\ ~accepted -> "failed"
      [] output = Garbage /\ accepted -> "invalid-json"
      [] OTHER -> "ok"

\* Faulty variant: the target is opened before the output is judged.
RejectOpening ==
    /\ phase = "exited"
    /\ Status(Output) # "ok"
    /\ cboms' = [cboms EXCEPT ![Pair] = Torn]
    /\ RecordInvocation(Status(Output))
    /\ UNCHANGED <<bom, record, late, session, ended, plan, kills>>

\* run_one's second half for an output that is not kept.
Reject ==
    /\ phase = "exited"
    /\ Status(Output) # "ok"
    /\ RecordInvocation(Status(Output))
    /\ UNCHANGED <<disk, late, session, ended, plan, kills>>

Accept ==
    /\ phase = "exited"
    /\ Status(Output) = "ok"
    /\ payload' = Output
    /\ phase' = "keeping"
    /\ UNCHANGED <<disk, late, session, ended, plan, cursor, invocations, stdout, accepted, kills>>

\* target.write_text: the file is truncated, then written.
OpenCbom ==
    /\ phase = "keeping"
    /\ cboms' = [cboms EXCEPT ![Pair] = Torn]
    /\ phase' = "writing"
    /\ UNCHANGED <<bom, record, late, session, ended, memory, kills>>

WriteCbom ==
    /\ phase = "writing"
    /\ cboms' = [cboms EXCEPT ![Pair] = payload]
    /\ RecordInvocation("ok")
    /\ UNCHANGED <<bom, record, late, session, ended, plan, kills>>

-----------------------------------------------------------------------------
(***************************************************************************)
(* After the loop.                                                         *)
(***************************************************************************)

OpenManifest ==
    /\ phase = "next"
    /\ cursor > Len(plan)
    /\ manifestOk' = FALSE
    /\ phase' = "recording"
    /\ UNCHANGED <<cboms, bom, manifest, manifestOf, late, session, ended, memory, kills>>

WriteManifest ==
    /\ phase = "recording"
    /\ manifest' = invocations
    /\ manifestOf' = session
    /\ manifestOk' = TRUE
    /\ phase' = "cleaning"
    /\ UNCHANGED <<cboms, bom, late, session, ended, memory, kills>>

\* shutil.rmtree(workdir, ignore_errors=True).  With all of .work goes the
\* directory the late generators write to; what cannot be removed stays in it.
RemoveWork ==
    /\ phase = "cleaning"
    /\ \/ bom' = Nothing /\ late' = {}
       \/ bom' \in {Nothing, bom} /\ UNCHANGED late
    /\ End("finished")
    /\ UNCHANGED <<cboms, record, session, plan, kills>>

\* The collector is killed.  A generator it was waiting for may go on.
Crash ==
    /\ phase # "idle"
    /\ kills < MaxKills
    /\ kills' = kills + 1
    /\ \/ phase = "running" /\ Tool \in FileTools /\ late' = late \cup {Own}
       \/ UNCHANGED late
    /\ End("killed")
    /\ UNCHANGED <<disk, session, plan>>

-----------------------------------------------------------------------------
Step ==
    \/ Export \/ ExportFails \/ ExportRaises
    \/ Launch \/ SpawnError \/ ToolUndecodable \/ Timeout
    \/ Reject \/ Accept \/ OpenCbom \/ WriteCbom
    \/ OpenManifest \/ WriteManifest \/ RemoveWork

Next == Start \/ Step \/ ToolWrites \/ ToolExits \/ LateWrite \/ Crash

Spec == Init /\ [][Next]_vars

\* The collector is scheduled, and its timeout does expire.  Nothing is
\* assumed of the generators: they may hang.
FairSpec == Spec /\ WF_vars(Step)

-----------------------------------------------------------------------------
(***************************************************************************)
(* Properties.                                                             *)
(***************************************************************************)

\* The manifest on the disk is the one the last collector wrote.
Settled == manifestOk /\ manifestOf = session

\* d, kept for pair p, comes from a generator that outlived an invocation: one
\* of this session that is listed as timed out, or one that an earlier session
\* left behind.
Outlived(d, p, listed) ==
    /\ d \in Documents
    /\ {d.pair[1], p[1]} \subseteq FileTools
    /\ \/ d.session < session
       \/ d.pair[1] \in LateTools /\ listed[d.pair] = "timeout"

\* The manifest lists an invocation as ok exactly when the session kept a
\* document for it, and the document is what that generator made of that
\* project in that session; all that can take its place is the late output of
\* another file-writing generator (one shared bom.json, unlinked before every
\* invocation).
ManifestTruthful ==
    Settled => \A p \in Pairs :
        /\ manifest[p] = "ok" =>
               cboms[p] = [pair |-> p, session |-> session] \/ Outlived(cboms[p], p, manifest)
        /\ cboms[p] \in Documents /\ cboms[p].session = session => manifest[p] = "ok"

\* The manifest lists every invocation that was asked for, failed ones
\* included, and no other ("including for invocations that failed").
ManifestComplete ==
    Settled => \A p \in Pairs :
        manifest[p] # Unlisted <=> \E i \in 1..Len(plan) : plan[i] = p

\* In a directory no earlier session used, an invocation that failed has no
\* CBOM at all, not an empty one: absent from the scorer's input, as the
\* manifest says.
FreshRunHonest ==
    Settled /\ session = 1 =>
        \A p \in Pairs : manifest[p] = "ok" <=> cboms[p] # Nothing

\* Whatever the generators do, a collector ends, and one that was not killed
\* and met no exception ends with its manifest written.
EventuallyEnds ==
    phase # "idle" ~> phase = "idle" /\ (ended = "finished" => Settled)

\* The scorer's report says of the invocations a manifest lists as failed that
\* "these are why a (project, tool) pair is absent from the tables".  A
\* directory that is used again keeps the CBOM an earlier session left.
FailedIsAbsent ==
    Settled => \A p \in Pairs : manifest[p] \notin {"ok", Unlisted} => cboms[p] = Nothing

\* run_one "Never raises", so that what a generator does is recorded and never
\* ends the collector.
RunOneNeverRaises == [][phase = "running" => ended' # "raised"]_vars
=============================================================================
