--------------------------- MODULE CollectProofs ----------------------------
(***************************************************************************)
(* Proofs about Collect, for any tools, projects, plans, sessions and      *)
(* kills.                                                                  *)
(***************************************************************************)
EXTENDS Collect, TLAPS

Turn == {"exported", "running", "exited", "keeping", "writing"}

(***************************************************************************)
(* The inductive invariant.                                                *)
(***************************************************************************)

\* Within a turn there is a pair; the manifest is written after the last turn.
TurnInv ==
    /\ phase \in Turn => cursor <= Len(plan)
    /\ phase \in {"recording", "cleaning"} => cursor = Len(plan) + 1

\* A pair is listed when its turn is over, and only then.
ListedInv ==
    phase # "idle" => \A p \in Pairs :
        invocations[p] # Unlisted <=> \E i \in 1..(cursor - 1) : plan[i] = p

\* A generator nobody waits for, or what it wrote: how that can be.
Stray(d) ==
    /\ d.pair[1] \in FileTools
    /\ d.session <= session
    /\ \/ d.session < session
       \/ d.pair[1] \in LateTools /\ invocations[d.pair] = "timeout"

LateInv ==
    /\ \A d \in late : d.session <= session
    /\ phase # "idle" => \A d \in late : Stray(d)

\* Where the text that is about to be read, or was read, comes from.
OutputInv ==
    /\ phase \in {"running", "exited"} =>
           /\ bom \in Documents => bom = Own \/ Stray(bom)
           /\ stdout \in Documents => stdout = Own
    /\ phase \in {"keeping", "writing"} =>
           payload \in Documents /\ (payload = Own \/ (Tool \in FileTools /\ Stray(payload)))

\* What ManifestTruthful says, for the record in memory.
KeptInv ==
    /\ \A p \in Pairs : cboms[p] \in Documents => cboms[p].session <= session
    /\ phase # "idle" => \A p \in Pairs :
           /\ invocations[p] = "ok" =>
                  \/ cboms[p] = [pair |-> p, session |-> session]
                  \/ Outlived(cboms[p], p, invocations)
           /\ cboms[p] \in Documents /\ cboms[p].session = session => invocations[p] = "ok"

\* And what FreshRunHonest says.
FreshInv ==
    /\ session = 0 => phase = "idle" /\ \A p \in Pairs : cboms[p] = Nothing
    /\ phase # "idle" /\ session = 1 => \A p \in Pairs :
           cboms[p] # Nothing <=> invocations[p] = "ok" \/ (phase = "writing" /\ p = Pair)

\* The manifest on the disk is this session's only when the session is over.
ManifestInv ==
    /\ manifestOf <= session
    /\ phase \notin {"idle", "cleaning"} => manifestOf < session
    /\ session = 0 => ~manifestOk

Promises == ManifestTruthful /\ ManifestComplete /\ FreshRunHonest

IInv ==
    /\ TypeOK /\ TurnInv /\ ListedInv /\ LateInv /\ OutputInv /\ KeptInv /\ FreshInv
    /\ ManifestInv /\ Promises

USE DEF Turn, memory, disk, record, locals

-----------------------------------------------------------------------------
(***************************************************************************)
(* The pair at hand.                                                       *)
(***************************************************************************)
LEMMA PlanType ==
    ASSUME TypeOK
    PROVE  /\ plan \in Seq(Pairs)
           /\ Len(plan) \in Nat
           /\ \A i \in 1..Len(plan) : plan[i] \in Pairs
           /\ \A i, j \in 1..Len(plan) : plan[i] = plan[j] => i = j
<1>1. CASE plan = <<>>
      BY <1>1
<1>2. CASE plan \in Plans
      BY <1>2, PlansAssumption
<1> QED BY <1>1, <1>2 DEF TypeOK

LEMMA PairType ==
    ASSUME TypeOK, TurnInv, FreshInv, phase # "idle", cursor <= Len(plan)
    PROVE  /\ cursor \in 1..Len(plan) /\ Len(plan) \in Nat
           /\ Pair \in Pairs
           /\ session \in Sessions
           /\ Own \in Documents
           /\ Own.pair = Pair /\ Own.session = session
<1>1. cursor \in 1..Len(plan) /\ Len(plan) \in Nat
      BY PlanType DEF TypeOK
<1>2. Pair \in Pairs
      BY <1>1, PlanType DEF Pair
<1>3. session \in Sessions
      BY BoundAssumption DEF FreshInv, TypeOK, Sessions
<1> QED BY <1>1, <1>2, <1>3 DEF Own, Documents

\* A pair whose turn is not over is not listed yet.
LEMMA PairUnlisted ==
    ASSUME TypeOK, TurnInv, FreshInv, ListedInv, phase # "idle", cursor <= Len(plan)
    PROVE  invocations[Pair] = Unlisted
<1>1. cursor \in 1..Len(plan) /\ Len(plan) \in Nat /\ Pair \in Pairs
      BY PairType
<1>2. ~\E i \in 1..(cursor - 1) : plan[i] = Pair
      BY <1>1, PlanType DEF Pair
<1> QED BY <1>1, <1>2 DEF ListedInv

LEMMA StatusType ==
    ASSUME NEW output \in Outputs, accepted \in BOOLEAN
    PROVE  /\ Status(output) \in Statuses \ {Unlisted}
           /\ Status(output) = "ok" => output \in Documents
           /\ Status(output) # "timeout"
BY SentinelAssumption DEF Status, Statuses, Unlisted, Outputs

LEMMA OutputType ==
    ASSUME TypeOK
    PROVE  Output \in Outputs
BY DEF TypeOK, Output

-----------------------------------------------------------------------------
(***************************************************************************)
(* Types, and where the loop is.                                           *)
(***************************************************************************)
LEMMA NothingIsOutput == Nothing \in Outputs
BY DEF Outputs

LEMMA NobodyListed == [p \in Pairs |-> Unlisted] \in [Pairs -> Statuses]
BY DEF Statuses

\* What the invocation's end, and the collector's, do to the types.
LEMMA RecordInvocationType ==
    ASSUME TypeOK, TurnInv, FreshInv, phase # "idle", cursor <= Len(plan), plan' = plan,
           NEW status \in Statuses, RecordInvocation(status)
    PROVE  /\ invocations' \in [Pairs -> Statuses]
           /\ cursor' \in 1..(Len(plan') + 1)
           /\ phase' = "next"
           /\ stdout' \in Outputs /\ accepted' \in BOOLEAN
           /\ payload' \in Documents \cup {Nothing}
<1>1. cursor \in 1..Len(plan) /\ Len(plan) \in Nat
      BY PairType
<1>2. cursor' = cursor + 1 /\ plan' = plan
      BY DEF RecordInvocation
<1>3. cursor' \in 1..(Len(plan') + 1)
      BY <1>1, <1>2
<1>4. invocations' \in [Pairs -> Statuses]
      BY DEF TypeOK, RecordInvocation
<1> QED BY <1>3, <1>4, NothingIsOutput DEF RecordInvocation, Forget

LEMMA EndType ==
    ASSUME TypeOK, plan' = plan, NEW how, End(how)
    PROVE  /\ invocations' \in [Pairs -> Statuses]
           /\ cursor' \in 1..(Len(plan') + 1)
           /\ phase' = "idle" /\ ended' = how
           /\ stdout' \in Outputs /\ accepted' \in BOOLEAN
           /\ payload' \in Documents \cup {Nothing}
<1>1. Len(plan) \in Nat
      BY PlanType
<1>2. cursor' \in 1..(Len(plan') + 1)
      BY <1>1 DEF End
<1> QED BY <1>2, NothingIsOutput, NobodyListed DEF End, Forget

LEMMA InitIInv == Init => IInv
<1> SUFFICES ASSUME Init PROVE IInv
    OBVIOUS
<1>1. TypeOK
  <2>1. cboms \in [Pairs -> Documents \cup {Nothing, Torn}]
        BY DEF Init
  <2>2. bom \in Outputs /\ stdout \in Outputs /\ payload \in Documents \cup {Nothing}
        BY NothingIsOutput DEF Init
  <2>3. manifest \in [Pairs -> Statuses] /\ invocations \in [Pairs -> Statuses]
        BY NobodyListed DEF Init
  <2>4. plan \in Plans \cup {<<>>} /\ cursor \in 1..(Len(plan) + 1)
        BY DEF Init
  <2>5. late \subseteq {d \in Documents : d.pair[1] \in FileTools}
        BY DEF Init
  <2>6. manifestOf \in 0..MaxSessions /\ session \in 0..MaxSessions /\ kills \in 0..MaxKills
        BY BoundAssumption DEF Init
  <2>7. phase \in Phases /\ ended = "finished" /\ ~manifestOk /\ manifestOk \in BOOLEAN
          /\ accepted \in BOOLEAN
        BY DEF Init, Phases
  <2> QED BY <2>1, <2>2, <2>3, <2>4, <2>5, <2>6, <2>7 DEF TypeOK
<1>2. TurnInv /\ ListedInv /\ LateInv /\ OutputInv /\ FreshInv /\ ManifestInv
      BY DEF Init, TurnInv, ListedInv, LateInv, OutputInv, FreshInv, ManifestInv
<1>3. KeptInv
      BY SentinelAssumption DEF Init, KeptInv
<1>4. ManifestTruthful /\ ManifestComplete /\ FreshRunHonest
      BY DEF Init, Settled, ManifestTruthful, ManifestComplete, FreshRunHonest
<1> QED BY <1>1, <1>2, <1>3, <1>4 DEF IInv, Promises

LEMMA TypeNext ==
    ASSUME TypeOK, TurnInv, OutputInv, FreshInv, [Next]_vars
    PROVE  TypeOK' /\ TurnInv'
<1> USE BoundAssumption DEF TypeOK, TurnInv, Phases
<1>1. CASE Start
  <2>1. Len(plan') \in Nat
        BY <1>1, PlansAssumption DEF Start
  <2>2. invocations' \in [Pairs -> Statuses]
        BY <1>1, NobodyListed DEF Start
  <2>3. cursor' \in 1..(Len(plan') + 1)
        BY <1>1, <2>1 DEF Start
  <2> QED BY <1>1, <2>2, <2>3 DEF Start
<1>2. ASSUME NEW how \in {"raised", "killed", "finished"}, End(how), UNCHANGED <<disk, plan>>,
             session' = session, kills' \in 0..MaxKills,
             late' \subseteq {d \in Documents : d.pair[1] \in FileTools}
      PROVE  TypeOK' /\ TurnInv'
      BY <1>2, EndType
<1>3. ASSUME NEW status \in Statuses, RecordInvocation(status), phase # "idle",
             cursor <= Len(plan), UNCHANGED <<record, session, plan, ended, kills>>,
             cboms' \in [Pairs -> Documents \cup {Nothing, Torn}], bom' \in Outputs,
             late' \subseteq {d \in Documents : d.pair[1] \in FileTools}
      PROVE  TypeOK' /\ TurnInv'
      BY <1>3, RecordInvocationType
<1>4. CASE Export
      BY <1>4 DEF Export
<1>5. CASE ExportFails
      BY <1>3, <1>5 DEF ExportFails, Statuses
<1>6. CASE ExportRaises \/ ToolUndecodable
      BY <1>2, <1>6 DEF ExportRaises, ToolUndecodable
<1>7. CASE Launch
      BY <1>7, NothingIsOutput DEF Launch
<1>8. CASE SpawnError
      BY <1>3, <1>8, NothingIsOutput DEF SpawnError, Statuses
<1>9. CASE ToolWrites
  <2>1. bom' \in Outputs /\ stdout' \in Outputs
        BY <1>9, PairType DEF ToolWrites, Outputs
  <2> QED BY <1>9, <2>1 DEF ToolWrites
<1>10. CASE ToolExits
       BY <1>10 DEF ToolExits
<1>11. CASE Timeout
  <2>1. late' \subseteq {d \in Documents : d.pair[1] \in FileTools}
        BY <1>11, PairType, ToolsAssumption DEF Timeout, Tool
  <2>2. "timeout" \in Statuses
        BY DEF Statuses
  <2> QED BY <1>3, <1>11, <2>1, <2>2 DEF Timeout
<1>12. CASE LateWrite
  <2>1. bom' \in Outputs /\ late' \subseteq late
        BY <1>12 DEF LateWrite, Outputs
  <2> QED BY <1>12, <2>1 DEF LateWrite
<1>13. CASE Reject
  <2>1. Status(Output) \in Statuses
        BY OutputType, StatusType
  <2> QED BY <1>3, <1>13, <2>1 DEF Reject
<1>14. CASE Accept
  <2>1. payload' \in Documents
        BY <1>14, OutputType, StatusType DEF Accept
  <2> QED BY <1>14, <2>1 DEF Accept
<1>15. CASE OpenCbom
       BY <1>15 DEF OpenCbom
<1>16. CASE WriteCbom
  <2>1. cboms' \in [Pairs -> Documents \cup {Nothing, Torn}]
        BY <1>16 DEF WriteCbom
  <2>2. "ok" \in Statuses
        BY DEF Statuses
  <2> QED BY <1>3, <1>16, <2>1, <2>2 DEF WriteCbom
<1>17. CASE OpenManifest
  <2>1. Len(plan) \in Nat
        BY PlanType
  <2>2. cursor = Len(plan) + 1
        BY <1>17, <2>1 DEF OpenManifest
  <2> QED BY <1>17, <2>2 DEF OpenManifest
<1>18. CASE WriteManifest
       BY <1>18 DEF WriteManifest
<1>19. CASE RemoveWork
  <2>1. End("finished") /\ late' \subseteq late /\ bom' \in Outputs
        BY <1>19, NothingIsOutput DEF RemoveWork
  <2> QED BY <1>19, <2>1, EndType DEF RemoveWork
<1>20. CASE Crash
  <2>1. late' \subseteq {d \in Documents : d.pair[1] \in FileTools}
        BY <1>20, PairType DEF Crash, Tool
  <2> QED BY <1>2, <1>20, <2>1 DEF Crash
<1>21. CASE UNCHANGED vars
       BY <1>21 DEF vars
<1> QED BY <1>1, <1>4, <1>5, <1>6, <1>7, <1>8, <1>9, <1>10, <1>11, <1>12, <1>13, <1>14,
           <1>15, <1>16, <1>17, <1>18, <1>19, <1>20, <1>21 DEF Next, Step
-----------------------------------------------------------------------------
(***************************************************************************)
(* What the steps do to the rest of the invariant, by their shape.         *)
(***************************************************************************)

\* Before its manifest is written, a session promises nothing.
LEMMA Unsettled ==
    ASSUME TypeOK', ManifestInv', phase' \notin {"idle", "cleaning"}
    PROVE  Promises'
<1>1. manifestOf' < session' /\ manifestOf' \in Nat /\ session' \in Nat
      BY BoundAssumption DEF TypeOK, ManifestInv
<1>2. ~Settled'
      BY <1>1 DEF Settled
<1> QED BY <1>2 DEF Promises, ManifestTruthful, ManifestComplete, FreshRunHonest

LEMMA StartKeeps ==
    ASSUME IInv, TypeOK', Start
    PROVE  /\ ListedInv' /\ LateInv' /\ OutputInv' /\ KeptInv' /\ FreshInv' /\ ManifestInv'
           /\ Promises'
<1>1. session \in Nat /\ session' = session + 1 /\ manifestOf \in Nat
      BY BoundAssumption DEF IInv, TypeOK, Start
<1>2. \A d \in Documents : d.session \in Nat
      BY DEF Documents, Sessions
<1>3. /\ phase' = "next" /\ cursor' = 1
      /\ invocations' = [p \in Pairs |-> Unlisted]
      /\ UNCHANGED <<cboms, bom, manifest, manifestOf, manifestOk, late>>
      BY <1>1 DEF Start
<1>4. ListedInv'
      BY <1>3 DEF ListedInv
<1>5. LateInv'
      BY <1>1, <1>2, <1>3 DEF IInv, TypeOK, LateInv, Stray
<1>6. OutputInv'
      BY <1>3 DEF OutputInv
<1>7. KeptInv'
      BY <1>1, <1>2, <1>3 DEF IInv, KeptInv, Unlisted
<1>8. FreshInv'
      BY <1>1, <1>3 DEF IInv, FreshInv, Unlisted
<1>9. ManifestInv'
      BY <1>1, <1>3 DEF IInv, ManifestInv
<1>10. Promises'
       BY <1>3, <1>9, Unsettled
<1> QED BY <1>4, <1>5, <1>6, <1>7, <1>8, <1>9, <1>10

\* The process ends.
LEMMA EndKeeps ==
    ASSUME IInv, TypeOK', NEW how, End(how), phase # "idle", cboms' = cboms, record' = record,
           session' = session, plan' = plan, \A d \in late' : d \in late \/ d.session = session
    PROVE  /\ ListedInv' /\ LateInv' /\ OutputInv' /\ KeptInv' /\ FreshInv' /\ ManifestInv'
           /\ Promises'
<1>1. phase' = "idle" /\ session \in Nat /\ session # 0
      BY BoundAssumption DEF End, IInv, TypeOK, FreshInv
<1>2. ListedInv' /\ OutputInv' /\ FreshInv' /\ ManifestInv'
      BY <1>1 DEF IInv, ListedInv, OutputInv, FreshInv, ManifestInv
<1>3. LateInv'
      BY <1>1 DEF IInv, LateInv
<1>4. KeptInv'
      BY <1>1 DEF IInv, KeptInv
<1>5. Promises'
      BY DEF IInv, Promises, ManifestTruthful, ManifestComplete, FreshRunHonest, Settled, Outlived
<1> QED BY <1>2, <1>3, <1>4, <1>5

\* An invocation is over.  Its pair was unlisted, so nothing that was said of
\* another pair's timeout is lost.
LEMMA RecordKeeps ==
    ASSUME IInv, TypeOK', NEW status \in Statuses, RecordInvocation(status), status # Unlisted,
           phase # "idle", phase # "cleaning", cursor <= Len(plan),
           record' = record, session' = session, plan' = plan,
           \A d \in late' : d \in late \/ (d.session = session /\ Stray(d)')
    PROVE  ListedInv' /\ LateInv' /\ OutputInv' /\ ManifestInv' /\ Promises'
<1>1. /\ cursor \in 1..Len(plan) /\ Len(plan) \in Nat /\ Pair \in Pairs
      /\ invocations[Pair] = Unlisted
      BY PairType, PairUnlisted DEF IInv
<1>2. /\ invocations' = [invocations EXCEPT ![Pair] = status]
      /\ cursor' = cursor + 1 /\ phase' = "next"
      BY DEF RecordInvocation
<1>3. ListedInv'
  <2> SUFFICES ASSUME NEW p \in Pairs
               PROVE  invocations'[p] # Unlisted <=> \E i \in 1..cursor : plan[i] = p
      BY <1>1, <1>2 DEF ListedInv
  <2>1. invocations[p] # Unlisted <=> \E i \in 1..(cursor - 1) : plan[i] = p
        BY DEF IInv, ListedInv
  <2>2. CASE p = Pair
        BY <1>1, <1>2, <2>2 DEF Pair, IInv, TypeOK
  <2>3. CASE p # Pair
    <3>1. \A i \in 1..cursor : plan[i] = p => i \in 1..(cursor - 1)
          BY <1>1, <2>3 DEF Pair
    <3>2. invocations'[p] = invocations[p]
          BY <1>2, <2>3 DEF IInv, TypeOK
    <3> QED BY <1>1, <2>1, <3>1, <3>2
  <2> QED BY <2>2, <2>3
<1>4. ASSUME NEW d \in Documents, Stray(d) PROVE Stray(d)'
  <2>1. d.pair \in Pairs
        BY DEF Documents
  <2> QED BY <1>1, <1>2, <1>4, <2>1 DEF Stray, IInv, TypeOK, Unlisted
<1>5. LateInv'
  <2>1. ASSUME NEW d \in late' PROVE d.session <= session /\ Stray(d)'
    <3>1. session \in Nat
          BY BoundAssumption DEF IInv, TypeOK
    <3> QED BY <1>4, <2>1, <3>1 DEF IInv, TypeOK, LateInv
  <2> QED BY <1>2, <2>1 DEF LateInv
<1>6. OutputInv' /\ ManifestInv'
      BY <1>2 DEF IInv, OutputInv, ManifestInv
<1>7. Promises'
      BY <1>2, <1>6, Unsettled
<1> QED BY <1>3, <1>5, <1>6, <1>7

\* An invocation whose output is not kept.
LEMMA NotKept ==
    ASSUME IInv, TypeOK', NEW status \in Statuses, RecordInvocation(status),
           status \notin {Unlisted, "ok"}, phase \notin {"idle", "cleaning", "writing"},
           cursor <= Len(plan), cboms' = cboms, session' = session, plan' = plan
    PROVE  KeptInv' /\ FreshInv'
<1>1. Pair \in Pairs /\ invocations[Pair] = Unlisted /\ session # 0
      BY PairType, PairUnlisted DEF IInv, FreshInv
<1>2. phase' = "next" /\ invocations' = [invocations EXCEPT ![Pair] = status]
      BY DEF RecordInvocation
<1>3. invocations'[Pair] = status
      BY <1>1, <1>2 DEF IInv, TypeOK
<1>4. \A p \in Pairs : p # Pair => invocations'[p] = invocations[p]
      BY <1>2 DEF IInv, TypeOK
<1>5. KeptInv'
  <2>1. ASSUME NEW p \in Pairs
        PROVE  /\ invocations'[p] = "ok" =>
                      \/ cboms[p] = [pair |-> p, session |-> session]
                      \/ Outlived(cboms[p], p, invocations')
               /\ cboms[p] \in Documents /\ cboms[p].session = session => invocations'[p] = "ok"
    <3>1. CASE p = Pair
          BY <1>1, <1>3, <3>1 DEF IInv, KeptInv, Unlisted
    <3>2. CASE p # Pair
      <4>1. Outlived(cboms[p], p, invocations) => Outlived(cboms[p], p, invocations')
            BY <1>1, <1>4 DEF Outlived, Documents, Unlisted
      <4> QED BY <1>2, <1>4, <3>2, <4>1 DEF IInv, KeptInv, RecordInvocation
    <3> QED BY <3>1, <3>2
  <2> QED BY <2>1 DEF IInv, KeptInv, Outlived
<1>6. FreshInv'
      BY <1>1, <1>2, <1>3, <1>4 DEF IInv, FreshInv, Unlisted
<1> QED BY <1>5, <1>6

\* An invocation whose output is kept.
LEMMA WriteCbomKept ==
    ASSUME IInv, TypeOK', WriteCbom
    PROVE  KeptInv' /\ FreshInv'
<1>1. cursor <= Len(plan) /\ phase = "writing" /\ phase # "idle"
      BY DEF WriteCbom, IInv, TurnInv
<1>2. Pair \in Pairs /\ invocations[Pair] = Unlisted /\ session # 0 /\ session \in Nat
      BY <1>1, PairType, PairUnlisted DEF IInv, FreshInv, Sessions
<1>3. /\ phase' = "next" /\ session' = session
      /\ invocations'[Pair] = "ok"
      /\ \A p \in Pairs : p # Pair => invocations'[p] = invocations[p]
      BY <1>2 DEF WriteCbom, RecordInvocation, IInv, TypeOK
<1>4. cboms'[Pair] = payload /\ \A p \in Pairs : p # Pair => cboms'[p] = cboms[p]
      BY <1>2 DEF WriteCbom, IInv, TypeOK
<1>5. /\ payload \in Documents
      /\ payload = Own \/ (Tool \in FileTools /\ Stray(payload))
      BY <1>1 DEF IInv, OutputInv
<1>6. payload # Nothing
      BY <1>5, SentinelAssumption
<1>7. Own = [pair |-> Pair, session |-> session]
      BY DEF Own
<1>8. payload.session <= session
      BY <1>2, <1>5, <1>7 DEF Stray
<1>9. KeptInv'
  <2>1. ASSUME NEW p \in Pairs, cboms'[p] \in Documents
        PROVE  cboms'[p].session <= session
        BY <1>4, <1>8, <2>1 DEF IInv, KeptInv
  <2>2. ASSUME NEW p \in Pairs, invocations'[p] = "ok"
        PROVE  \/ cboms'[p] = [pair |-> p, session |-> session]
               \/ Outlived(cboms'[p], p, invocations')
    <3>1. CASE p = Pair /\ payload = Own
          BY <1>4, <1>7, <3>1
    <3>2. CASE p = Pair /\ payload # Own
      <4>1. payload.pair # Pair \/ payload.session < session
            BY <1>2, <1>5, <3>2 DEF Stray, Unlisted
      <4> QED BY <1>2, <1>3, <1>4, <1>5, <3>2, <4>1 DEF Outlived, Stray, Tool, Documents
    <3>3. CASE p # Pair
      <4>1. Outlived(cboms[p], p, invocations) => Outlived(cboms[p], p, invocations')
            BY <1>2, <1>3 DEF Outlived, Documents, Unlisted
      <4> QED BY <1>1, <1>3, <1>4, <2>2, <3>3, <4>1 DEF IInv, KeptInv
    <3> QED BY <3>1, <3>2, <3>3
  <2>3. ASSUME NEW p \in Pairs, cboms'[p] \in Documents, cboms'[p].session = session
        PROVE  invocations'[p] = "ok"
        BY <1>1, <1>3, <1>4, <2>3 DEF IInv, KeptInv
  <2> QED BY <1>3, <2>1, <2>2, <2>3 DEF KeptInv, Outlived
<1>10. FreshInv'
       BY <1>1, <1>2, <1>3, <1>4, <1>6 DEF IInv, FreshInv
<1> QED BY <1>9, <1>10

\* A step within a turn, or of a generator nobody waits for.
LEMMA InsideKeeps ==
    ASSUME IInv, TypeOK', cboms' = cboms, session' = session, plan' = plan, cursor' = cursor,
           invocations' = invocations, late' \subseteq late,
           manifest' = manifest, manifestOf' = manifestOf, manifestOk' => manifestOk,
           phase = "idle" <=> phase' = "idle", phase = "writing" <=> phase' = "writing",
           phase = "cleaning" <=> phase' = "cleaning"
    PROVE  /\ ListedInv' /\ LateInv' /\ KeptInv' /\ FreshInv' /\ ManifestInv' /\ Promises'
           /\ Own' = Own /\ Tool' = Tool /\ \A d \in Documents : Stray(d)' <=> Stray(d)
<1>1. Own' = Own /\ Tool' = Tool /\ Pair' = Pair
      BY DEF Own, Pair, Tool
<1>2. \A d : Stray(d)' <=> Stray(d)
      BY DEF Stray
<1>3. ListedInv' /\ ManifestInv'
      BY DEF IInv, ListedInv, ManifestInv
<1>4. LateInv'
      BY <1>2 DEF IInv, LateInv
<1>5. KeptInv'
      BY DEF IInv, KeptInv, Outlived
<1>6. FreshInv'
      BY <1>1 DEF IInv, FreshInv
<1>7. Promises'
      BY DEF IInv, Promises, ManifestTruthful, ManifestComplete, FreshRunHonest, Settled, Outlived
<1> QED BY <1>1, <1>2, <1>3, <1>4, <1>5, <1>6, <1>7

LEMMA OpenCbomKeeps ==
    ASSUME IInv, TypeOK', OpenCbom
    PROVE  /\ ListedInv' /\ LateInv' /\ OutputInv' /\ KeptInv' /\ FreshInv' /\ ManifestInv'
           /\ Promises'
<1>1. phase = "keeping" /\ phase' = "writing" /\ cursor <= Len(plan)
      BY DEF OpenCbom, IInv, TurnInv
<1>2. Pair \in Pairs /\ invocations[Pair] = Unlisted /\ session # 0
      BY <1>1, PairType, PairUnlisted DEF IInv, FreshInv
<1>3. cboms'[Pair] = Torn /\ \A p \in Pairs : p # Pair => cboms'[p] = cboms[p]
      BY <1>2 DEF OpenCbom, IInv, TypeOK
<1>4. /\ Own' = Own /\ Pair' = Pair /\ Tool' = Tool
      /\ UNCHANGED <<late, session, plan, cursor, invocations, payload, manifestOf, manifestOk>>
      BY DEF OpenCbom, Own, Pair, Tool
<1>5. \A d : Stray(d)' <=> Stray(d)
      BY <1>4 DEF Stray
<1>6. ListedInv' /\ LateInv' /\ OutputInv' /\ ManifestInv'
      BY <1>1, <1>4, <1>5 DEF IInv, ListedInv, LateInv, OutputInv, ManifestInv
<1>7. KeptInv'
      BY <1>1, <1>2, <1>3, <1>4, SentinelAssumption DEF IInv, KeptInv, Outlived, Unlisted
<1>8. FreshInv'
      BY <1>1, <1>2, <1>3, <1>4, SentinelAssumption DEF IInv, FreshInv
<1>9. Promises'
      BY <1>1, <1>6, Unsettled
<1> QED BY <1>6, <1>7, <1>8, <1>9

\* The manifest says what the record in memory says, after the last turn.
LEMMA WriteManifestKeeps ==
    ASSUME IInv, TypeOK', WriteManifest
    PROVE  /\ ListedInv' /\ LateInv' /\ OutputInv' /\ KeptInv' /\ FreshInv' /\ ManifestInv'
           /\ Promises'
<1>1. phase = "recording" /\ phase' = "cleaning" /\ cursor = Len(plan) + 1 /\ session \in Nat
      BY BoundAssumption DEF WriteManifest, IInv, TurnInv, TypeOK
<1>2. Len(plan) \in Nat /\ cursor - 1 = Len(plan)
      BY <1>1, PlanType DEF IInv
<1>3. /\ manifest' = invocations /\ manifestOf' = session
      /\ UNCHANGED <<cboms, late, session, plan, cursor, invocations>>
      BY DEF WriteManifest
<1>4. ListedInv' /\ LateInv' /\ OutputInv' /\ FreshInv'
      BY <1>1, <1>3 DEF IInv, ListedInv, LateInv, Stray, OutputInv, FreshInv
<1>5. KeptInv'
      BY <1>1, <1>3 DEF IInv, KeptInv, Outlived
<1>6. ManifestInv'
      BY <1>1, <1>3 DEF ManifestInv, IInv, FreshInv
<1>7. ManifestTruthful'
      BY <1>1, <1>3 DEF IInv, KeptInv, ManifestTruthful, Outlived
<1>8. ManifestComplete'
      BY <1>1, <1>2, <1>3 DEF IInv, ListedInv, ManifestComplete
<1>9. FreshRunHonest'
      BY <1>1, <1>3 DEF IInv, FreshInv, FreshRunHonest
<1> QED BY <1>4, <1>5, <1>6, <1>7, <1>8, <1>9 DEF Promises

-----------------------------------------------------------------------------
LEMMA NextIInv ==
    ASSUME IInv, [Next]_vars
    PROVE  IInv'
<1>1. TypeOK' /\ TurnInv'
      BY TypeNext DEF IInv
<1> SUFFICES /\ ListedInv' /\ LateInv' /\ OutputInv' /\ KeptInv' /\ FreshInv' /\ ManifestInv'
             /\ Promises'
    BY <1>1 DEF IInv
<1> USE <1>1
<1>2. CASE Start
      BY <1>2, StartKeeps
<1>3. CASE ExportRaises \/ ToolUndecodable \/ RemoveWork
  <2>1. CASE ExportRaises
        BY <2>1, EndKeeps DEF ExportRaises
  <2>2. CASE ToolUndecodable
        BY <2>2, EndKeeps DEF ToolUndecodable
  <2>3. CASE RemoveWork
        BY <2>3, EndKeeps DEF RemoveWork
  <2> QED BY <1>3, <2>1, <2>2, <2>3
<1>4. CASE Crash
  <2>1. \A d \in late' : d \in late \/ d.session = session
        BY <1>4 DEF Crash, Own
  <2> QED BY <1>4, <2>1, EndKeeps DEF Crash
<1>5. ASSUME NEW status \in Statuses, RecordInvocation(status), status \notin {Unlisted, "ok"},
             phase \in {"next", "exported", "running", "exited"}, cursor <= Len(plan),
             UNCHANGED <<cboms, record, session, plan>>,
             \A d \in late' : d \in late \/ (d.session = session /\ Stray(d)')
      PROVE  /\ ListedInv' /\ LateInv' /\ OutputInv' /\ KeptInv' /\ FreshInv' /\ ManifestInv'
             /\ Promises'
      BY <1>5, RecordKeeps, NotKept
<1>6. CASE ExportFails
      BY <1>5, <1>6 DEF ExportFails, Statuses, Unlisted
<1>7. CASE SpawnError
      BY <1>5, <1>7 DEF SpawnError, Statuses, Unlisted, IInv, TurnInv
<1>8. CASE Timeout
  <2>1. cursor <= Len(plan) /\ phase = "running" /\ RecordInvocation("timeout")
        BY <1>8 DEF Timeout, IInv, TurnInv
  <2>2. /\ Pair \in Pairs /\ session \in Nat
        /\ Own \in Documents /\ Own.pair = Pair /\ Own.session = session
        BY <2>1, PairType DEF IInv, Sessions
  <2>3. invocations'[Pair] = "timeout"
        BY <2>1, <2>2 DEF RecordInvocation, IInv, TypeOK
  <2>4. ASSUME NEW d \in Documents, d = Own, Tool \in LateTools
        PROVE  Stray(d)'
    <3>1. /\ d.pair = Pair /\ d.session = session /\ session' = session
          /\ invocations'[d.pair] = "timeout"
          BY <1>8, <2>2, <2>3, <2>4 DEF Timeout
    <3> QED BY <2>2, <2>4, <3>1, ToolsAssumption DEF Stray, Tool
  <2>5. \A d \in late' : d \in late \/ (d.session = session /\ Stray(d)')
        BY <1>8, <2>2, <2>4 DEF Timeout
  <2>6. "timeout" \in Statuses \ {Unlisted, "ok"}
        BY DEF Statuses, Unlisted
  <2> QED BY <1>5, <1>8, <2>1, <2>5, <2>6 DEF Timeout
<1>9. CASE Reject
  <2>1. Status(Output) \in Statuses \ {Unlisted}
        BY OutputType, StatusType DEF IInv, TypeOK
  <2> QED BY <1>5, <1>9, <2>1 DEF Reject, IInv, TurnInv
<1>10. CASE WriteCbom
  <2>1. "ok" \in Statuses /\ "ok" # Unlisted
        BY DEF Statuses, Unlisted
  <2> QED BY <1>10, <2>1, RecordKeeps, WriteCbomKept DEF WriteCbom, IInv, TurnInv
<1>11. CASE Export
       BY <1>11, InsideKeeps DEF Export, OutputInv
<1>12. CASE Launch
  <2>1. OutputInv'
        BY <1>12, SentinelAssumption DEF Launch, OutputInv
  <2> QED BY <1>12, <2>1, InsideKeeps DEF Launch
<1>13. CASE ToolWrites
  <2>1. /\ Own' = Own /\ Tool' = Tool /\ \A d \in Documents : Stray(d)' <=> Stray(d)
        /\ ListedInv' /\ LateInv' /\ KeptInv' /\ FreshInv' /\ ManifestInv' /\ Promises'
        BY <1>13, InsideKeeps DEF ToolWrites
  <2>2. OutputInv'
        BY <1>13, <2>1, SentinelAssumption DEF ToolWrites, OutputInv, IInv
  <2> QED BY <2>1, <2>2
<1>14. CASE ToolExits
  <2>1. /\ Own' = Own /\ Tool' = Tool /\ \A d \in Documents : Stray(d)' <=> Stray(d)
        /\ ListedInv' /\ LateInv' /\ KeptInv' /\ FreshInv' /\ ManifestInv' /\ Promises'
        BY <1>14, InsideKeeps DEF ToolExits
  <2>2. OutputInv'
        BY <1>14, <2>1 DEF ToolExits, OutputInv, IInv
  <2> QED BY <2>1, <2>2
<1>15. CASE LateWrite
  <2>1. /\ Own' = Own /\ Tool' = Tool /\ \A d \in Documents : Stray(d)' <=> Stray(d)
        /\ ListedInv' /\ LateInv' /\ KeptInv' /\ FreshInv' /\ ManifestInv' /\ Promises'
        BY <1>15, InsideKeeps DEF LateWrite
  <2>2. OutputInv'
        BY <1>15, <2>1, SentinelAssumption DEF LateWrite, OutputInv, LateInv, IInv, TypeOK
  <2> QED BY <2>1, <2>2
<1>16. CASE Accept
  <2>1. /\ Own' = Own /\ Tool' = Tool /\ \A d \in Documents : Stray(d)' <=> Stray(d)
        /\ ListedInv' /\ LateInv' /\ KeptInv' /\ FreshInv' /\ ManifestInv' /\ Promises'
        BY <1>16, InsideKeeps DEF Accept
  <2>2. Output \in Documents
        BY <1>16, OutputType, StatusType DEF Accept, IInv, TypeOK
  <2>3. OutputInv'
        BY <1>16, <2>1, <2>2 DEF Accept, OutputInv, Output, IInv
  <2> QED BY <2>1, <2>3
<1>17. CASE OpenCbom
       BY <1>17, OpenCbomKeeps
<1>18. CASE OpenManifest
       BY <1>18, InsideKeeps DEF OpenManifest, OutputInv
<1>19. CASE WriteManifest
       BY <1>19, WriteManifestKeeps
<1>20. CASE UNCHANGED vars
  <2>1. /\ Own' = Own /\ Tool' = Tool /\ \A d \in Documents : Stray(d)' <=> Stray(d)
        /\ ListedInv' /\ LateInv' /\ KeptInv' /\ FreshInv' /\ ManifestInv' /\ Promises'
        BY <1>20, InsideKeeps DEF vars
  <2>2. OutputInv'
        BY <1>20, <2>1 DEF vars, OutputInv, IInv
  <2> QED BY <2>1, <2>2
<1> QED BY <1>2, <1>3, <1>4, <1>6, <1>7, <1>8, <1>9, <1>10, <1>11, <1>12, <1>13, <1>14,
           <1>15, <1>16, <1>17, <1>18, <1>19, <1>20 DEF Next, Step

LEMMA Invariant == Spec => []IInv
<1>1. IInv /\ [Next]_vars => IInv'
      BY NextIInv
<1> QED BY InitIInv, <1>1, PTL DEF Spec

\* Whatever the generators do and wherever a collector is killed, every file
\* and every local of run_one holds a value of its kind.
THEOREM TypeCorrect == Spec => []TypeOK
<1>1. IInv => TypeOK
      BY DEF IInv
<1> QED BY Invariant, <1>1, PTL

\* What manifest.json lists as ok is exactly what the session kept, and what
\* it kept is its generator's document for its project or the late output of
\* another file-writing one.
THEOREM ManifestIsTruthful == Spec => []ManifestTruthful
<1>1. IInv => ManifestTruthful
      BY DEF IInv, Promises
<1> QED BY Invariant, <1>1, PTL

\* manifest.json lists every invocation that was asked for, and no other.
THEOREM ManifestIsComplete == Spec => []ManifestComplete
<1>1. IInv => ManifestComplete
      BY DEF IInv, Promises
<1> QED BY Invariant, <1>1, PTL

\* In a directory no earlier session used, what manifest.json lists as failed
\* has no file under cboms/.
THEOREM FreshRunIsHonest == Spec => []FreshRunHonest
<1>1. IInv => FreshRunHonest
      BY DEF IInv, Promises
<1> QED BY Invariant, <1>1, PTL
=============================================================================
