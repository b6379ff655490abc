-------------------------- MODULE IngestionProofs --------------------------
(***************************************************************************)
(* Theorems about Ingestion: the FTP sessions and the pipeline keep, each  *)
(* of the other, what the two modules that model them apart assume. Each   *)
(* side's step lemmas are used on the composition, so that one induction   *)
(* carries both invariants at once.                                        *)
(***************************************************************************)
EXTENDS Ingestion, TLAPS

FsP == INSTANCE ObservedFsProofs
         WITH MaxCalls <- 1, calls <- callsBar, left <- leftBar, contested <- {}
CoP == INSTANCE CoordinatorProofs
         WITH Events <- Phys, Files <- Phys, FileOf <- PathOf, disk <- handedDisk

-----------------------------------------------------------------------------
\* What the two modules assume of their constants holds of what stands for them.
LEMMA FsAssumptions ==
  CameraOf \in [Sessions -> Cameras] /\ None \notin Phys \cup Cameras /\ 1 \in Nat \ {0}
BY SessionsAssumption, FilesAssumption

LEMMA CoAssumptions ==
  /\ CoP!IsFiniteSet(Phys) /\ PathOf \in [Phys -> Phys] /\ AlwaysNotifiers \subseteq Notifiers
  /\ Concurrency \in Int /\ RetainFiles \in BOOLEAN /\ AlwaysStore \in BOOLEAN
  /\ CoP!DistinctFiles
BY FilesAssumption, CoordinatorAssumption DEF CoP!DistinctFiles, PathOf, IsFiniteSet, CoP!IsFiniteSet

\* The instances of the proof modules are the instances of the modules.
LEMMA SameCo == [CoBar!Next]_(CoBar!vars) <=> [CoP!Next]_(CoP!vars)
BY DEF CoBar!Next, CoBar!vars, CoBar!Upload, CoBar!Step, CoBar!Timeout, CoBar!Cancel,
  CoBar!WaitReturn, CoBar!Terminated, CoBar!Enter, CoBar!Acquire, CoBar!Abandon,
  CoBar!AnalyzeReturn, CoBar!AnalyzeSucceeds, CoBar!AnalyzeFailsHard, CoBar!AnalyzeGivesUp,
  CoBar!AnalyzeBacksOff, CoBar!Abort, CoBar!BackoffFires, CoBar!BackoffCancelled,
  CoBar!SaveReturn, CoBar!SendReturn, CoBar!NotifyDone, CoBar!Cleanup, CoBar!Release,
  CoBar!Exit, CoBar!Goto, CoBar!RemoveFile, CoBar!CountLate, CoBar!CtxDone, CoBar!Fanout,
  CoBar!Eligible, CoBar!Capacity, CoBar!Processing, CoBar!status,
  CoP!Next, CoP!vars, CoP!Upload, CoP!Step, CoP!Timeout, CoP!Cancel,
  CoP!WaitReturn, CoP!Terminated, CoP!Enter, CoP!Acquire, CoP!Abandon,
  CoP!AnalyzeReturn, CoP!AnalyzeSucceeds, CoP!AnalyzeFailsHard, CoP!AnalyzeGivesUp,
  CoP!AnalyzeBacksOff, CoP!Abort, CoP!BackoffFires, CoP!BackoffCancelled,
  CoP!SaveReturn, CoP!SendReturn, CoP!NotifyDone, CoP!Cleanup, CoP!Release,
  CoP!Exit, CoP!Goto, CoP!RemoveFile, CoP!CountLate, CoP!CtxDone, CoP!Fanout,
  CoP!Eligible, CoP!Capacity, CoP!Processing, CoP!status

LEMMA SameFs == [Fs!Next]_(Fs!vars) <=> [FsP!Next]_(FsP!vars)
BY DEF Fs!Next, FsP!Next, Fs!vars, FsP!vars, Fs!OpenMapped, FsP!OpenMapped,
  Fs!OpenNew, FsP!OpenNew, Fs!RemoveBegins, FsP!RemoveBegins, Fs!StatReads, FsP!StatReads,
  Fs!Rename, FsP!Rename, Fs!OpenSucceeds, FsP!OpenSucceeds, Fs!OpenFails, FsP!OpenFails,
  Fs!CloseFile, FsP!CloseFile, Fs!CloseFails, FsP!CloseFails, Fs!HandOver, FsP!HandOver,
  Fs!RemoveEnds, FsP!RemoveEnds, Fs!StatLooks, FsP!StatLooks, Fs!Prune, FsP!Prune,
  Fs!ProcessEnds, FsP!ProcessEnds, Fs!Start, FsP!Start, Fs!Finish, FsP!Finish,
  Fs!MoveTo, FsP!MoveTo, Fs!At, FsP!At, Fs!Idle, FsP!Idle, Fs!Cam, FsP!Cam,
  Fs!Map, FsP!Map, Fs!Mapped, FsP!Mapped, Fs!Modes, FsP!Modes, Fs!TakesUp, FsP!TakesUp,
  Fs!Uses, FsP!Uses

-----------------------------------------------------------------------------
\* The steps of a call that touch no file leave what the sessions see of the
\* calls as it is.
LEMMA QuietCall ==
  ASSUME CoP!TypeOK, NEW p \in Phys, Co!Step(p) \/ Co!Timeout(p), ~Co!Abandon(p), ~Co!Cleanup(p)
  PROVE  UNCHANGED <<disk, stuck, callsBar, retained>>
<1>1. pc \in [Phys -> CoP!PCs] /\ verdict \in [Phys -> CoP!Verdicts]
  BY DEF CoP!TypeOK
<1>2. /\ UNCHANGED <<disk, stuck>>
      /\ \A q \in Phys : pc'[q] \in Owned <=> pc[q] \in Owned
      /\ \A q \in Phys : /\ pc'[q] \in {"releasing", "exiting", "done"} <=>
                              pc[q] \in {"releasing", "exiting", "done"}
                         /\ pc[q] \in {"releasing", "exiting", "done"} => verdict'[q] = verdict[q]
  BY <1>1 DEF Co!Step, Co!Timeout, Co!Enter, Co!Acquire, Co!AnalyzeReturn, Co!AnalyzeSucceeds,
     Co!AnalyzeFailsHard, Co!AnalyzeGivesUp, Co!AnalyzeBacksOff, Co!Abort, Co!BackoffFires,
     Co!BackoffCancelled, Co!SaveReturn, Co!SendReturn, Co!NotifyDone, Co!Release, Co!Exit,
     Co!Goto, Co!status, Owned
<1>3. QED
  BY <1>2 DEF callsBar, retained

\* A call that removes its file, or fails to, or retains it, ends for the sessions.
LEMMA CallEnds ==
  ASSUME CoP!TypeOK, CoP!StageInv, NEW p \in Phys, Co!Abandon(p) \/ Co!Cleanup(p),
         UNCHANGED sessionVars
  PROVE  Fs!ProcessEnds(p)
<1>1. pc \in [Phys -> CoP!PCs] /\ PathOf[p] = p
  BY DEF CoP!TypeOK, PathOf
<1>2. /\ pc[p] = "waiting" => verdict[p] = "none"
      /\ pc[p] = "cleanup" => verdict[p] # "none"
  BY DEF CoP!StageInv, CoP!StageOf
<1>3. /\ pc[p] \in {"waiting", "cleanup"} /\ pc' = [pc EXCEPT ![p] = IF pc[p] = "waiting" THEN "exiting" ELSE "releasing"]
      /\ verdict' = verdict
  BY DEF Co!Abandon, Co!Cleanup, Co!Goto, Co!status
<1>4. callsBar[p] > 0 /\ callsBar' = [callsBar EXCEPT ![p] = @ - 1]
  <2>1. /\ pc[p] \in Owned /\ pc'[p] \notin Owned
        /\ \A q \in Phys : q # p => pc'[q] = pc[q]
    BY <1>1, <1>3 DEF Owned
  <2>2. callsBar[p] = 1 /\ callsBar' = [q \in Phys |-> IF q = p THEN 0 ELSE callsBar[q]]
    BY <2>1 DEF callsBar
  <2>3. callsBar[p] > 0 /\ callsBar[p] - 1 = 0
    BY <2>2
  <2>4. callsBar' = [callsBar EXCEPT ![p] = 0]
    BY <2>2, Zenon DEF callsBar
  <2>5. QED
    BY <2>3, <2>4
<1>5. retained' = IF RetainFiles /\ pc[p] = "cleanup" THEN retained \cup {p} ELSE retained
  BY <1>1, <1>2, <1>3 DEF retained
<1>6. \/ disk' = disk \ {p} /\ leftBar' = leftBar
      \/ disk' = disk /\ leftBar' = leftBar \cup {p}
  <2>1. CASE Co!RemoveFile(p) /\ ~(RetainFiles /\ pc[p] = "cleanup")
    BY <1>1, <1>5, <2>1 DEF Co!RemoveFile, leftBar, sessionVars
  <2>2. CASE UNCHANGED <<disk, stuck>> /\ RetainFiles /\ pc[p] = "cleanup"
    BY <1>5, <2>2 DEF leftBar, sessionVars
  <2>3. QED
    BY <2>1, <2>2 DEF Co!Abandon, Co!Cleanup, Co!Goto
<1>7. QED
  BY <1>4, <1>6 DEF Fs!ProcessEnds, sessionVars

\* Every step is one the sessions' side knows: their own, or the end of a call.
LEMMA FsStep ==
  ASSUME CoP!TypeOK, CoP!StageInv, [Next]_vars
  PROVE  [Fs!Next]_(Fs!vars)
<1>1. ASSUME NEW s \in Sessions, SessionStep(s) \/ SessionFails(s) \/ HandOver(s)
      PROVE  Fs!Next
  BY <1>1 DEF SessionStep, SessionFails, HandOver, Fs!Next
<1>2. ASSUME NEW p \in Phys, Co!Step(p) \/ Co!Timeout(p), UNCHANGED sessionVars
      PROVE  [Fs!Next]_(Fs!vars)
  <2>1. CASE Co!Abandon(p) \/ Co!Cleanup(p)
    BY <1>2, <2>1, CallEnds DEF Fs!Next
  <2>2. CASE ~Co!Abandon(p) /\ ~Co!Cleanup(p)
    BY <1>2, <2>2, QuietCall DEF Fs!vars, leftBar, sessionVars
  <2>3. QED
    BY <2>1, <2>2
<1>3. CASE UNCHANGED <<disk, sessionVars, pc, stuck, verdict>>
  BY <1>3 DEF Fs!vars, leftBar, callsBar, retained, sessionVars
<1>4. QED
  BY <1>1, <1>2, <1>3 DEF Next, CallStep, Co!Cancel, Co!WaitReturn, Co!status, vars, callVars
-----------------------------------------------------------------------------
\* A file that has been handed over has no name any more, no session works on it,
\* and it never gets either back.
Fresh ==
  /\ \A c \in Cameras, v \in Names : registry[c][v] # None => pc[registry[c][v]] = "new"
  /\ \A s \in Sessions : Fs!Uses(s, op[s].phys) => pc[op[s].phys] = "new"
  /\ \A p \in Phys : drawnBy[p] = None => pc[p] = "new"

\* A session's step changes nothing in the part of the temp dir that has been
\* handed over.
LEMMA SessionsKeepHanded ==
  ASSUME Fresh, NEW s \in Sessions, SessionStep(s) \/ SessionFails(s)
  PROVE  UNCHANGED <<handedDisk, callVars>>
<1>1. UNCHANGED callVars
  BY DEF SessionStep, SessionFails
<1>2. \/ disk' = disk
      \/ /\ Fs!Uses(s, op[s].phys)
         /\ disk' \in {disk \cup {op[s].phys}, disk \ {op[s].phys}}
  <2>1. CASE Fs!OpenSucceeds(s)
    BY <2>1 DEF Fs!OpenSucceeds, Fs!At, Fs!Uses
  <2>2. CASE Fs!RemoveEnds(s)
    BY <2>2 DEF Fs!RemoveEnds, Fs!At, Fs!Uses
  <2>3. QED
    BY <2>1, <2>2 DEF SessionStep, SessionFails, Fs!OpenMapped, Fs!OpenNew, Fs!RemoveBegins,
       Fs!StatReads, Fs!Rename, Fs!CloseFile, Fs!StatLooks, Fs!Prune, Fs!OpenFails, Fs!CloseFails
<1>3. Fs!Uses(s, op[s].phys) => pc[op[s].phys] = "new"
  BY DEF Fresh
<1>4. handedDisk' = handedDisk
  BY <1>1, <1>2, <1>3 DEF handedDisk, callVars
<1>5. QED
  BY <1>1, <1>4

\* A call's step does to the files handed over what it does to the temp dir.
LEMMA CallKeepsHanded ==
  ASSUME CoP!TypeOK, disk \subseteq Phys, NEW p \in Phys, Co!Step(p) \/ Co!Timeout(p)
  PROVE  CoBar!Step(p) \/ CoBar!Timeout(p)
<1>1. pc \in [Phys -> CoP!PCs] /\ PathOf[p] = p
  BY DEF CoP!TypeOK, PathOf
<1>2. pc[p] # "new" /\ \A q \in Phys : pc'[q] = "new" <=> pc[q] = "new"
  BY <1>1 DEF Co!Step, Co!Timeout, Co!Enter, Co!Acquire, Co!Abandon, Co!AnalyzeReturn,
     Co!AnalyzeSucceeds, Co!AnalyzeFailsHard, Co!AnalyzeGivesUp, Co!AnalyzeBacksOff, Co!Abort,
     Co!BackoffFires, Co!BackoffCancelled, Co!SaveReturn, Co!SendReturn, Co!NotifyDone,
     Co!Cleanup, Co!Release, Co!Exit, Co!Goto, Co!Processing
<1>3. /\ disk' = disk => handedDisk' = handedDisk
      /\ disk' = disk \ {p} => handedDisk' = handedDisk \ {p}
      /\ p \in disk => p \in handedDisk
  BY <1>2 DEF handedDisk
<1>4. CASE Co!Abandon(p) \/ Co!Cleanup(p)
  <2>1. Co!RemoveFile(p) => CoBar!RemoveFile(p)
    BY <1>1, <1>3 DEF Co!RemoveFile, CoBar!RemoveFile
  <2>2. QED
    BY <1>3, <1>4, <2>1 DEF CoBar!Step, Co!Abandon, CoBar!Abandon, Co!Cleanup, CoBar!Cleanup,
       Co!Goto, CoBar!Goto, Co!status, CoBar!status
<1>5. CASE ~Co!Abandon(p) /\ ~Co!Cleanup(p)
  <2>1. disk' = disk
    BY <1>5, QuietCall
  <2>2. handedDisk' = handedDisk
    BY <1>3, <2>1
  <2>3. QED
    BY <1>5, <2>1, <2>2
    DEF Co!Step, CoBar!Step, Co!Timeout, CoBar!Timeout, Co!Enter, CoBar!Enter, Co!Acquire,
       CoBar!Acquire, Co!AnalyzeReturn, CoBar!AnalyzeReturn, Co!AnalyzeSucceeds,
       CoBar!AnalyzeSucceeds, Co!AnalyzeFailsHard, CoBar!AnalyzeFailsHard, Co!AnalyzeGivesUp,
       CoBar!AnalyzeGivesUp, Co!AnalyzeBacksOff, CoBar!AnalyzeBacksOff, Co!Abort, CoBar!Abort,
       Co!BackoffFires, CoBar!BackoffFires, Co!BackoffCancelled, CoBar!BackoffCancelled,
       Co!SaveReturn, CoBar!SaveReturn, Co!SendReturn, CoBar!SendReturn, Co!NotifyDone,
       CoBar!NotifyDone, Co!Release, CoBar!Release, Co!Exit, CoBar!Exit, Co!Goto, CoBar!Goto,
       Co!CountLate, CoBar!CountLate, Co!CtxDone, CoBar!CtxDone, Co!Fanout, CoBar!Fanout,
       Co!Eligible, CoBar!Eligible, Co!Capacity, CoBar!Capacity, Co!Processing, CoBar!Processing,
       Co!status, CoBar!status
<1>6. QED
  BY <1>4, <1>5
\* Every step is one the coordinator's side knows: an upload that appears complete,
\* or a step of its own.
LEMMA CoStep ==
  ASSUME CoP!TypeOK, FsP!TypeOK, Fresh, [Next]_vars
  PROVE  [CoBar!Next]_(CoBar!vars)
<1>0. disk \subseteq Phys
  BY DEF FsP!TypeOK
<1>1. ASSUME NEW s \in Sessions, SessionStep(s) \/ SessionFails(s)
      PROVE  UNCHANGED CoBar!vars
  BY <1>1, SessionsKeepHanded DEF CoBar!vars, CoBar!status, callVars
<1>2. ASSUME NEW s \in Sessions, HandOver(s)
      PROVE  CoBar!Next
  <2> DEFINE p == op[s].phys
  <2>1. /\ p \in Phys /\ PathOf[p] = p /\ pc \in [Phys -> CoP!PCs]
    BY <1>2 DEF HandOver, FsP!TypeOK, CoP!TypeOK, Fs!At, FsP!At, PathOf
  <2>2. p \in disk /\ disk' = disk /\ Co!Upload(p)
    BY <1>2, <2>1 DEF HandOver, Fs!HandOver, Co!Upload
  <2>3. handedDisk' = handedDisk \cup {PathOf[p]}
    BY <2>1, <2>2 DEF Co!Upload, Co!Goto, handedDisk
  <2>4. CoBar!Upload(p)
    BY <2>2, <2>3 DEF Co!Upload, CoBar!Upload, Co!Goto, CoBar!Goto, Co!status, CoBar!status
  <2>5. QED
    BY <2>1, <2>4 DEF CoBar!Next
<1>3. ASSUME NEW p \in Phys, Co!Step(p) \/ Co!Timeout(p)
      PROVE  CoBar!Next
  BY <1>0, <1>3, CallKeepsHanded DEF CoBar!Next
<1>4. CASE Co!Cancel \/ Co!WaitReturn
  <2>1. handedDisk' = handedDisk
    BY <1>4 DEF Co!Cancel, Co!WaitReturn, handedDisk
  <2>2. QED
    BY <1>4, <2>1 DEF Co!Cancel, Co!WaitReturn, Co!status, CoBar!Cancel, CoBar!WaitReturn,
       CoBar!status, CoBar!Next
<1>5. CASE UNCHANGED vars
  BY <1>5 DEF vars, callVars, handedDisk, CoBar!vars, CoBar!status
<1>6. QED
  BY <1>1, <1>2, <1>3, <1>4, <1>5 DEF Next, CallStep

-----------------------------------------------------------------------------
\* No two sessions work on one file, and the one that does works on it under the
\* name that is mapped to it, if any is.
LEMMA OneWorker ==
  ASSUME FsP!SoleInv, NEW p \in Phys, NEW s \in Sessions, Fs!Uses(s, p)
  PROVE  /\ \A t \in Sessions : Fs!Uses(t, p) => t = s
         /\ \A c \in Cameras, v \in Names : registry[c][v] = p => v = op[s].name
         /\ op[s].at = "closing" => p \in disk
<1>1. \A t \in Sessions : Fs!Uses(t, p) <=> FsP!Uses(t, p)
  BY DEF Fs!Uses, FsP!Uses
<1>2. FsP!ByOne(p) /\ FsP!ByItsName(p) /\ FsP!Present(p)
  BY DEF FsP!SoleInv, FsP!Sole
<1>3. QED
  BY <1>1, <1>2 DEF FsP!ByOne, FsP!ByItsName, FsP!Present

\* Only HandOver takes a file's newness, and with it its last name.
LEMMA StepFresh ==
  ASSUME CoP!TypeOK, FsP!TypeOK, FsP!CamerasIsolated, FsP!SoleInv, Fresh, [Next]_vars
  PROVE  Fresh'
<1>0. /\ registry \in [Cameras -> [Names -> Phys \cup {None}]]
      /\ op \in [Sessions -> [at : FsP!Places, name : Names \cup {None},
                              phys : Phys \cup {None}, mode : FsP!Modes \cup {None}]]
      /\ \A s \in Sessions : op[s].at # "idle" => op[s].name \in Names /\ op[s].phys \in Phys
      /\ pc \in [Phys -> CoP!PCs]
      /\ CameraOf \in [Sessions -> Cameras] /\ None \notin Phys \cup Cameras
      /\ drawnBy \in [Phys -> Cameras \cup {None}]
  BY SessionsAssumption, FilesAssumption DEF FsP!TypeOK, CoP!TypeOK, FsP!At
<1>1. ASSUME NEW s \in Sessions, SessionStep(s) \/ SessionFails(s)
      PROVE  Fresh'
  <2>1. pc' = pc
    BY <1>1 DEF SessionStep, SessionFails, callVars
  <2>2. \A c \in Cameras, v \in Names :
          registry'[c][v] # None =>
            \/ \E w \in Names : registry'[c][v] = registry[c][w]
            \/ registry'[c][v] \in Phys /\ drawnBy[registry'[c][v]] = None
    <3>1. CASE \E v, w \in Names : Fs!Rename(s, v, w)
      BY <1>0, <3>1 DEF Fs!Rename, Fs!Mapped, Fs!Cam
    <3>2. CASE \E v \in Names, m \in Fs!Modes : Fs!OpenNew(s, v, m)
      BY <1>0, <3>2 DEF Fs!OpenNew, Fs!Map, Fs!Cam
    <3>3. CASE \E v \in Names : Fs!RemoveBegins(s, v)
      BY <1>0, <3>3 DEF Fs!RemoveBegins, Fs!Map, Fs!Cam
    <3>4. CASE Fs!Prune(s)
      BY <1>0, <3>4 DEF Fs!Prune, Fs!Map, Fs!Cam
    <3>5. CASE registry' = registry
      BY <3>5
    <3>6. QED
      BY <1>1, <3>1, <3>2, <3>3, <3>4, <3>5 DEF SessionStep, SessionFails, Fs!OpenMapped,
         Fs!StatReads, Fs!OpenSucceeds, Fs!CloseFile, Fs!RemoveEnds, Fs!StatLooks,
         Fs!OpenFails, Fs!CloseFails
  <2>3. ASSUME NEW t \in Sessions, Fs!Uses(t, op[t].phys)'
        PROVE  \/ Fs!Uses(t, op[t].phys) /\ op'[t].phys = op[t].phys
               \/ \E w \in Names : op'[t].phys = registry[CameraOf[t]][w] /\ op'[t].phys # None
               \/ op'[t].phys \in Phys /\ drawnBy[op'[t].phys] = None
    <3> USE <1>0 DEF Fs!Uses, Fs!At, Fs!Start, Fs!Finish, Fs!MoveTo, Fs!Idle
    <3>1. CASE op'[t] = op[t]
      BY <2>3, <3>1
    <3>2. CASE \E v \in Names, m \in Fs!Modes : Fs!OpenMapped(s, v, m)
      BY <2>3, <3>1, <3>2 DEF Fs!OpenMapped, Fs!Mapped, Fs!Cam
    <3>3. CASE \E v \in Names, m \in Fs!Modes : Fs!OpenNew(s, v, m)
      BY <2>3, <3>1, <3>3 DEF Fs!OpenNew
    <3>4. CASE \E v \in Names : Fs!RemoveBegins(s, v)
      BY <2>3, <3>1, <3>4 DEF Fs!RemoveBegins, Fs!Mapped, Fs!Cam
    <3>5. CASE \E v \in Names : Fs!StatReads(s, v)
      BY <2>3, <3>1, <3>5 DEF Fs!StatReads
    <3>6. CASE Fs!OpenSucceeds(s)
      BY <2>3, <3>1, <3>6 DEF Fs!OpenSucceeds
    <3>7. CASE Fs!CloseFile(s) \/ Fs!StatLooks(s)
      <4>1. CASE Fs!Finish(s)
        BY <2>3, <3>1, <4>1
      <4>2. CASE Fs!MoveTo(s, "closing") /\ op[s].at = "transfer" /\ op[s].mode # "read"
        BY <2>3, <3>1, <4>2
      <4>3. CASE Fs!MoveTo(s, "prune")
        BY <2>3, <3>1, <4>3
      <4>4. QED
        BY <3>7, <4>1, <4>2, <4>3 DEF Fs!CloseFile, Fs!StatLooks
    <3>8. CASE Fs!Finish(s)
      BY <2>3, <3>1, <3>8
    <3>9. QED
      BY <1>1, <3>1, <3>2, <3>3, <3>4, <3>5, <3>6, <3>7, <3>8 DEF SessionStep, SessionFails,
         Fs!Rename, Fs!RemoveEnds, Fs!Prune, Fs!OpenFails, Fs!CloseFails
  <2>4. \A p \in Phys : drawnBy'[p] = None => drawnBy[p] = None
    BY <1>0, <1>1 DEF SessionStep, SessionFails, Fs!OpenMapped, Fs!OpenNew, Fs!RemoveBegins,
       Fs!StatReads, Fs!Rename, Fs!OpenSucceeds, Fs!CloseFile, Fs!RemoveEnds, Fs!StatLooks,
       Fs!Prune, Fs!OpenFails, Fs!CloseFails
  <2>5. QED
    BY <1>0, <2>1, <2>2, <2>3, <2>4 DEF Fresh
<1>2. ASSUME NEW s \in Sessions, HandOver(s)
      PROVE  Fresh'
  <2> DEFINE p == op[s].phys
             v == op[s].name
             c == CameraOf[s]
  <2>1. /\ op[s].at = "closing" /\ p \in Phys /\ v \in Names /\ c \in Cameras
        /\ Fs!Uses(s, p)
        /\ drawnBy[p] = c
    BY <1>0, <1>2 DEF HandOver, FsP!CamerasIsolated, FsP!At, Fs!At, Fs!Uses
  <2>2. /\ pc' = [pc EXCEPT ![p] = "spawned"] /\ drawnBy' = drawnBy
        /\ registry' = [registry EXCEPT ![c][v] = None]
        /\ op' = [op EXCEPT ![s] = Fs!Idle]
    BY <1>2 DEF HandOver, Fs!HandOver, Co!Upload, Co!Goto, Fs!Map, Fs!Cam, Fs!Finish
  <2>3. ASSUME NEW d \in Cameras, NEW w \in Names, registry'[d][w] # None
        PROVE  registry'[d][w] = registry[d][w] /\ registry[d][w] # p
    <3>1. registry'[d][w] = registry[d][w] /\ (d = c => w # v)
      BY <1>0, <2>1, <2>2, <2>3
    <3>2. registry[d][w] = p => d = c /\ w = v
      BY <1>0, <2>1, OneWorker DEF FsP!CamerasIsolated
    <3>3. QED
      BY <3>1, <3>2
  <2>4. ASSUME NEW t \in Sessions, Fs!Uses(t, op[t].phys)'
        PROVE  op'[t] = op[t] /\ op[t].phys # p /\ Fs!Uses(t, op[t].phys)
    <3>1. t # s /\ op'[t] = op[t]
      BY <1>0, <2>2, <2>4 DEF Fs!Idle, Fs!Uses
    <3>2. Fs!Uses(t, op[t].phys)
      BY <2>4, <3>1 DEF Fs!Uses
    <3>3. QED
      BY <2>1, <3>1, <3>2, OneWorker
  <2>5. QED
    <3>1. \A d \in Cameras, w \in Names : registry'[d][w] # None => pc'[registry'[d][w]] = "new"
      BY <1>0, <2>2, <2>3 DEF Fresh
    <3>2. \A t \in Sessions : Fs!Uses(t, op[t].phys)' => pc'[op'[t].phys] = "new"
      BY <1>0, <2>2, <2>4 DEF Fresh
    <3>3. \A q \in Phys : drawnBy'[q] = None => pc'[q] = "new"
      BY <1>0, <2>1, <2>2 DEF Fresh
    <3>4. QED
      BY <3>1, <3>2, <3>3 DEF Fresh
<1>3. ASSUME CallStep PROVE Fresh'
  <2>1. \A q \in Phys : pc'[q] = "new" <=> pc[q] = "new"
    BY <1>0, <1>3 DEF CallStep, Co!Step, Co!Timeout, Co!Enter, Co!Acquire, Co!Abandon, Co!AnalyzeReturn,
       Co!AnalyzeSucceeds, Co!AnalyzeFailsHard, Co!AnalyzeGivesUp, Co!AnalyzeBacksOff, Co!Abort,
       Co!BackoffFires, Co!BackoffCancelled, Co!SaveReturn, Co!SendReturn, Co!NotifyDone,
       Co!Cleanup, Co!Release, Co!Exit, Co!Goto, Co!Cancel, Co!WaitReturn
  <2>2. UNCHANGED sessionVars
    BY <1>3 DEF CallStep
  <2>3. \A s \in Sessions : Fs!Uses(s, op[s].phys) => op[s].phys \in Phys
    BY <1>0 DEF Fs!Uses
  <2>4. QED
    BY <1>0, <2>1, <2>2, <2>3 DEF Fresh, sessionVars, Fs!Uses
<1>4. CASE UNCHANGED vars
  BY <1>4 DEF vars, sessionVars, callVars, Fresh, Fs!Uses
<1>5. QED
  BY <1>1, <1>2, <1>3, <1>4 DEF Next

-----------------------------------------------------------------------------
\* The two sides' invariants and what ties them hold together: each side's step
\* keeps its own, and needs the other's to be a step of that side.
IngestionInv ==
  FsP!Inv /\ FsP!FilesInv /\ CoP!FullInv /\ Fresh

LEMMA InitIngestion == Init => IngestionInv
<1> SUFFICES ASSUME Init PROVE IngestionInv
  OBVIOUS
<1>1. callsBar = [p \in Phys |-> 0] /\ leftBar = {} /\ handedDisk = {}
  BY DEF Init, Co!Init, callsBar, Owned, leftBar, retained, handedDisk
<1>2. FsP!Init
  BY <1>1 DEF Init, Co!Init, FsP!Init, FsP!Idle, Fs!Idle
<1>3. CoP!Init
  BY <1>1 DEF Init, Co!Init, CoP!Init
<1>4. Fresh
  BY FilesAssumption DEF Init, Co!Init, Fs!Idle, Fs!Uses, Fresh
<1>5. QED
  BY <1>2, <1>3, <1>4, FsAssumptions, CoAssumptions, FsP!InitInv, FsP!InitFiles, CoP!InitIndInv,
     CoP!InitStage DEF IngestionInv, CoP!FullInv

\* A step of the composition is a step of each side.
LEMMA StepsOfBoth ==
  IngestionInv /\ [Next]_vars => [FsP!Next]_(FsP!vars) /\ [CoP!Next]_(CoP!vars)
BY FsStep, CoStep, SameFs, SameCo DEF IngestionInv, FsP!Inv, CoP!FullInv, CoP!IndInv

LEMMA StepIngestion == IngestionInv /\ [Next]_vars => IngestionInv'
<1> SUFFICES ASSUME IngestionInv, [Next]_vars PROVE IngestionInv'
  OBVIOUS
<1>1. FsP!Inv' /\ FsP!FilesInv'
  BY StepsOfBoth, FsAssumptions, FsP!StepInv, FsP!StepFiles DEF IngestionInv
<1>2. CoP!FullInv'
  BY StepsOfBoth, CoAssumptions, CoP!StepIndInv, CoP!StepStage
  DEF IngestionInv, CoP!FullInv, CoP!IndInv
<1>3. Fresh'
  BY StepFresh DEF IngestionInv, FsP!Inv, FsP!FilesInv, CoP!FullInv, CoP!IndInv
<1>4. QED
  BY <1>1, <1>2, <1>3 DEF IngestionInv

LEMMA IngestionInvHolds == Spec => []IngestionInv
BY InitIngestion, StepIngestion, PTL DEF Spec

\* What a session closes after a write is there and has had no call yet: no
\* hand-over is held up, and no file is handed over twice.
THEOREM HandOversReady == Spec => []HandOverReady
<1>1. IngestionInv => HandOverReady
  <2> SUFFICES ASSUME IngestionInv, NEW s \in Sessions, op[s].at = "closing"
               PROVE  op[s].phys \in disk /\ pc[op[s].phys] = "new"
    BY DEF HandOverReady, Fs!At
  <2>1. op[s].phys \in Phys /\ Fs!Uses(s, op[s].phys)
    BY DEF IngestionInv, FsP!Inv, FsP!TypeOK, FsP!At, Fs!Uses
  <2>2. QED
    BY <2>1, OneWorker DEF IngestionInv, FsP!FilesInv, Fresh
<1>2. QED
  BY <1>1, IngestionInvHolds, PTL

\* The pipeline's calls are to the sessions what ObservedFs has them be.
THEOREM SessionsSide == Spec => ObservedFsSpec
<1>1. Init => Fs!Init
  BY DEF Init, Co!Init, Fs!Init, callsBar, Owned, leftBar, retained
<1>2. IngestionInv /\ [Next]_vars => [Fs!Next]_(Fs!vars)
  BY FsStep DEF IngestionInv, CoP!FullInv, CoP!IndInv
<1>3. QED
  BY <1>1, <1>2, IngestionInvHolds, PTL DEF Spec, ObservedFsSpec

\* The sessions are to the pipeline what Coordinator has its environment be: every
\* file appears complete, under a path of its own, and is left alone from then on.
THEOREM PipelinesSide == Spec => CoordinatorSpec
<1>1. Init => CoBar!Init
  BY DEF Init, Co!Init, CoBar!Init, handedDisk
<1>2. IngestionInv /\ [Next]_vars => [CoBar!Next]_(CoBar!vars)
  BY CoStep DEF IngestionInv, FsP!Inv, CoP!FullInv, CoP!IndInv
<1>3. QED
  BY <1>1, <1>2, IngestionInvHolds, PTL DEF Spec, CoordinatorSpec

-----------------------------------------------------------------------------
\* With the pipeline itself in the place of the calls, what the sessions are
\* promised holds: no camera gets at another's files,
THEOREM CamerasApart == Spec => []Fs!CamerasIsolated
<1>1. FsP!Inv => Fs!CamerasIsolated
  BY DEF FsP!Inv, FsP!CamerasIsolated, Fs!CamerasIsolated, FsP!At, Fs!At
<1>2. QED
  BY <1>1, IngestionInvHolds, PTL DEF IngestionInv

\* what Process works on is complete: nobody writes to it any more,
THEOREM PipelineUndisturbed == Spec => []HandedOverQuiet
<1>1. IngestionInv => HandedOverQuiet
  BY DEF IngestionInv, Fresh, HandedOverQuiet, Fs!HandedOverQuiet, Fs!Writing, Fs!At, Fs!Uses, callsBar,
     Owned, FsP!Inv, FsP!TypeOK, FsP!At
<1>2. QED
  BY <1>1, IngestionInvHolds, PTL

\* and the registry keeps nothing of what has been handed over or removed.
THEOREM RegistryEmpties == Spec => []NoMappingLeaks
<1>1. FsP!Inv /\ FsP!FilesInv => NoMappingLeaks
  <2> SUFFICES ASSUME FsP!Inv, FsP!FilesInv, NEW c \in Cameras, NEW v \in Names, registry[c][v] # None,
                      \A s \in Sessions : CameraOf[s] = c => op[s].at = "idle"
               PROVE  registry[c][v] \in leftBar
    BY DEF NoMappingLeaks, Fs!NoMappingLeaks, Fs!Cam, Fs!At
  <2>1. FsP!ForAReason(registry[c][v])
    BY DEF FsP!Inv, FsP!TypeOK, FsP!FilesInv, FsP!SoleInv, FsP!Sole
  <2>2. QED
    BY <2>1 DEF FsP!ForAReason, FsP!Uses, FsP!Cam
<1>2. QED
  BY <1>1, IngestionInvHolds, PTL DEF IngestionInv

LEMMA RunsThePipeline == Spec => CoP!Spec
<1>1. Init => CoP!Init
  BY DEF Init, Co!Init, CoP!Init, handedDisk
<1>2. QED
  BY <1>1, StepsOfBoth, IngestionInvHolds, PTL DEF Spec, CoP!Spec

\* No stage of the pipeline ever finds its file gone, however many sessions a camera
\* has, as long as no two of them are at work on one file at once. The coordinator's
\* theorem says so of an environment that leaves its files alone, which these are.
THEOREM PipelineFindsItsFiles == Spec => []FilesStay
<1>1. CoP!Spec => []CoP!ArtifactAvailable
  BY CoAssumptions, CoP!ArtifactsAvailable, PTL
<1>2. CoP!ArtifactAvailable => FilesStay
  BY DEF CoP!ArtifactAvailable, CoP!Processing, Co!Processing, FilesStay, PathOf, handedDisk
<1>3. QED
  BY <1>1, <1>2, RunsThePipeline, PTL
-----------------------------------------------------------------------------
\* A file in the temp dir is there for a reason: a session writes to it, is about to
\* hand it over or removes it, its call is under way, retention keeps it, or an error
\* of a session, or of os.Remove, left it behind.
Reason(p) ==
  \/ p \in errors \cup stuck
  \/ pc[p] \in Owned
  \/ \E s \in Sessions : Fs!Holds(s, p)
  \/ /\ RetainFiles /\ verdict[p] # "none"
     /\ pc[p] \in {"releasing", "exiting", "done"}
TempDirAccounted == \A p \in disk : Reason(p)

\* The temp dir holds nothing that nobody answers for, with real sessions and the
\* real pipeline at work on it together.
THEOREM EveryFileAccounted == Spec => []TempDirAccounted
<1>1. IngestionInv => TempDirAccounted
  <2> SUFFICES ASSUME IngestionInv, NEW p \in disk, p \notin leftBar
               PROVE  pc[p] \in Owned \/ \E s \in Sessions : Fs!Holds(s, p)
    BY DEF TempDirAccounted, Reason, leftBar, retained
  <2>1. FsP!NoOrphan /\ p \in Phys
    BY DEF IngestionInv, FsP!Inv, FsP!TypeOK
  <2>2. callsBar[p] > 0 \/ \E s \in Sessions : FsP!Holds(s, p)
    BY <2>1 DEF FsP!NoOrphan
  <2>3. callsBar[p] > 0 => pc[p] \in Owned
    BY <2>1 DEF callsBar
  <2>4. QED
    BY <2>2, <2>3 DEF FsP!Holds, Fs!Holds, FsP!Writing, Fs!Writing, FsP!At, Fs!At
<1>2. QED
  BY <1>1, IngestionInvHolds, PTL

\* The pipeline removes what real sessions hand over: once Process has returned the
\* file is gone, unless its removal failed or it is retained.
HandedOverDealtWith ==
  \A p \in disk \ stuck :
    pc[p] \in {"releasing", "exiting", "done"} => RetainFiles /\ verdict[p] # "none"

\* NothingLeft assumes that calls have distinct files; here the sessions see to it.
THEOREM NothingLeftByCalls == Spec => []HandedOverDealtWith
<1>1. CoP!Spec => []CoP!NoLeftovers
  BY CoAssumptions, CoP!NothingLeft, PTL
<1>2. IngestionInv /\ CoP!NoLeftovers => HandedOverDealtWith
  <2>1. IngestionInv => disk \subseteq Phys
    BY DEF IngestionInv, FsP!Inv, FsP!TypeOK
  <2>2. QED
    BY <2>1 DEF CoP!NoLeftovers, HandedOverDealtWith, PathOf, handedDisk
<1>3. QED
  BY <1>1, <1>2, RunsThePipeline, IngestionInvHolds, PTL

\* The promise of EventLifecycle is kept for the files cameras really upload: no more
\* of them are active than there are slots, and each is decided on once and alerted
\* about as its decision asks for.
THEOREM UploadsLifecycle == Spec => CoP!LifecycleSpec
<1>1. CoP!Spec => CoP!LifecycleSpec
  BY CoAssumptions, CoP!Refinement, PTL
<1>2. QED
  BY <1>1, RunsThePipeline, PTL
=============================================================================
