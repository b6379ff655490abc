---------------------------- MODULE Coordinator ----------------------------
(***************************************************************************)
(* internal/coordinator: the pipeline every uploaded file goes through.    *)
(* One goroutine per upload runs Process: it registers with a WaitGroup,   *)
(* takes a permit of the semaphore, analyses the file with retries under a *)
(* deadline, stores it, notifies, and undoes all of it in the order of its *)
(* deferred calls. The analyzer, the storage and the notifiers are modelled*)
(* by what they may return; the caller is the FTP driver (a file closed    *)
(* after a write starts a goroutine) and App.Stop (cancel, then Wait).     *)
(***************************************************************************)
EXTENDS Integers, FiniteSets

CONSTANTS Events,           \* the calls of Process of one execution
          Files,            \* physical paths under the FTP server's temp dir
          FileOf,           \* the path each call is given
          Notifiers,        \* the configured notifiers
          AlwaysNotifiers,  \* those whose Condition() is not "on_threat"
          Concurrency,      \* CoordinatorConfig.Concurrency as configured
          RetainFiles,      \* CoordinatorConfig.RetainFiles
          AlwaysStore       \* CoordinatorConfig.AlwaysStore

ASSUME EventsAssumption == IsFiniteSet(Events)
ASSUME FilesAssumption == FileOf \in [Events -> Files]
ASSUME NotifiersAssumption == AlwaysNotifiers \subseteq Notifiers
ASSUME ConfigAssumption ==
  /\ Concurrency \in Int
  /\ RetainFiles \in BOOLEAN
  /\ AlwaysStore \in BOOLEAN

VARIABLES
  pc,          \* where the goroutine of each call stands
  disk,        \* the files present in the temp dir
  stuck,       \* files some os.Remove failed on (the code only logs it)
  sem,         \* permits taken: len(c.sem)
  wg,          \* the counter of c.wg
  expired,     \* calls whose ProcessTimeout has passed
  verdict,     \* what analyzeWithRetry returned
  artifact,    \* what storage.Save returned
  notif,       \* per call, the state of each notifier's goroutine
  cancelled,   \* the application's context is cancelled
  waited,      \* Wait has returned
  late         \* ghost: analyses started although the context was done

status == <<verdict, artifact, notif>>
vars == <<pc, disk, stuck, sem, wg, expired, status, cancelled, waited, late>>

\* Mutant of Capacity: the channel is made with whatever is configured.
CapacityUnrepaired == IF Concurrency < 0 THEN 0 ELSE Concurrency

\* NewCoordinator repairs a concurrency that would make the channel unbuffered.
Capacity == IF Concurrency <= 0 THEN 1 ELSE Concurrency

Processing == {"analyzing", "backoff", "storing", "notifying"}
Holding == Processing \cup {"cleanup", "releasing"}
Entered == Holding \cup {"waiting", "exiting"}
PCs == Entered \cup {"new", "spawned", "done"}

Verdicts == {"none", "threat", "clear", "error"}
Artifacts == {"none", "stored", "failed"}
NotifStates == {"idle", "sending", "sent", "failed"}

\* Mutant of CtxDone: the stages are called with a background context.
CtxDoneNever(e) == FALSE

\* processCtx.Done(): the parent is cancelled or the deadline has passed.
CtxDone(e) == cancelled \/ expired[e]

\* The notifiers the loop does not skip.
Eligible(isThreat) == IF isThreat THEN Notifiers ELSE AlwaysNotifiers

Init ==
  /\ pc = [e \in Events |-> "new"]
  /\ disk = {} /\ stuck = {}
  /\ sem = 0 /\ wg = 0
  /\ expired = [e \in Events |-> FALSE]
  /\ verdict = [e \in Events |-> "none"]
  /\ artifact = [e \in Events |-> "none"]
  /\ notif = [e \in Events |-> [n \in Notifiers |-> "idle"]]
  /\ cancelled = FALSE /\ waited = FALSE
  /\ late = [e \in Events |-> 0]

Goto(e, from, to) ==
  /\ pc[e] = from
  /\ pc' = [pc EXCEPT ![e] = to]

\* os.Remove of the call's file: a failure, unless it is that the file is
\* already gone, is only logged.
RemoveFile(e) ==
  \/ disk' = disk \ {FileOf[e]} /\ UNCHANGED stuck
  \/ FileOf[e] \in disk /\ stuck' = stuck \cup {FileOf[e]} /\ UNCHANGED disk

\* An analysis begins: the analyzer is called whatever the context says.
CountLate(e) == late' = [late EXCEPT ![e] = @ + (IF CtxDone(e) THEN 1 ELSE 0)]

-----------------------------------------------------------------------------
\* ObservedFile.Close after a write: the file is complete on disk and the go
\* statement has run, but no line of Process has.
Upload(e) ==
  /\ Goto(e, "new", "spawned")
  /\ disk' = disk \cup {FileOf[e]}
  /\ UNCHANGED <<stuck, sem, wg, expired, status, cancelled, waited, late>>

Enter(e) ==
  /\ Goto(e, "spawned", "waiting")
  /\ wg' = wg + 1
  /\ UNCHANGED <<disk, stuck, sem, expired, status, cancelled, waited, late>>

\* Mutant of Acquire: the permit is taken without waiting for a free one.
AcquireUnbounded(e) ==
  /\ Goto(e, "waiting", "analyzing")
  /\ sem' = sem + 1
  /\ CountLate(e)
  /\ UNCHANGED <<disk, stuck, wg, expired, status, cancelled, waited>>

\* select takes a ready case at random: a permit may be taken although the
\* context is done.
Acquire(e) ==
  /\ sem < Capacity
  /\ Goto(e, "waiting", "analyzing")
  /\ sem' = sem + 1
  /\ CountLate(e)
  /\ UNCHANGED <<disk, stuck, wg, expired, status, cancelled, waited>>

\* Mutants of Abandon: the early return forgets the file, runs a release that was
\* deferred before the permit was taken, or misses the WaitGroup.
AbandonKeepsFile(e) ==
  /\ cancelled
  /\ Goto(e, "waiting", "exiting")
  /\ UNCHANGED <<disk, stuck, sem, wg, expired, status, cancelled, waited, late>>
AbandonReleases(e) ==
  /\ cancelled
  /\ Goto(e, "waiting", "releasing")
  /\ RemoveFile(e)
  /\ UNCHANGED <<sem, wg, expired, status, cancelled, waited, late>>
AbandonSkipsDone(e) ==
  /\ cancelled
  /\ Goto(e, "waiting", "done")
  /\ RemoveFile(e)
  /\ UNCHANGED <<sem, wg, expired, status, cancelled, waited, late>>

Abandon(e) ==
  /\ cancelled
  /\ Goto(e, "waiting", "exiting")
  /\ RemoveFile(e)
  /\ UNCHANGED <<sem, wg, expired, status, cancelled, waited, late>>

\* Mutant of Fanout: the notifiers' conditions are not looked at.
FanoutToAll(e, isThreat) ==
  notif' = [notif EXCEPT ![e] = [n \in Notifiers |-> "sending"]]

\* A goroutine is started for every notifier the loop does not skip.
Fanout(e, isThreat) ==
  notif' = [notif EXCEPT ![e] =
              [n \in Notifiers |-> IF n \in Eligible(isThreat) THEN "sending" ELSE "idle"]]

\* analyzer.Analyze returns a result. What is not stored goes straight to the
\* notifiers.
AnalyzeSucceeds(e, isThreat) ==
  /\ verdict' = [verdict EXCEPT ![e] = IF isThreat THEN "threat" ELSE "clear"]
  /\ IF isThreat \/ AlwaysStore
     THEN Goto(e, "analyzing", "storing") /\ UNCHANGED notif
     ELSE Goto(e, "analyzing", "notifying") /\ Fanout(e, isThreat)
  /\ UNCHANGED <<disk, stuck, sem, wg, expired, artifact, cancelled, waited, late>>

Abort(e, from) ==
  /\ Goto(e, from, "cleanup")
  /\ verdict' = [verdict EXCEPT ![e] = "error"]
  /\ UNCHANGED <<disk, stuck, sem, wg, expired, artifact, notif, cancelled, waited, late>>

\* A hard failure is permanent; after any other one NextBackOff stops the loop
\* if the context is done.
AnalyzeFailsHard(e) == Abort(e, "analyzing")
AnalyzeGivesUp(e) == CtxDone(e) /\ Abort(e, "analyzing")

\* Mutant of AnalyzeBacksOff: the backoff is not given the context.
AnalyzeBacksOffAlways(e) ==
  /\ Goto(e, "analyzing", "backoff")
  /\ UNCHANGED <<disk, stuck, sem, wg, expired, status, cancelled, waited, late>>

AnalyzeBacksOff(e) ==
  /\ ~CtxDone(e)
  /\ Goto(e, "analyzing", "backoff")
  /\ UNCHANGED <<disk, stuck, sem, wg, expired, status, cancelled, waited, late>>

AnalyzeReturn(e) ==
  \/ \E isThreat \in BOOLEAN : AnalyzeSucceeds(e, isThreat)
  \/ AnalyzeFailsHard(e)
  \/ AnalyzeGivesUp(e)
  \/ AnalyzeBacksOff(e)

\* Retry waits for its timer or for the context; when both are ready either
\* may be taken.
BackoffFires(e) ==
  /\ Goto(e, "backoff", "analyzing")
  /\ CountLate(e)
  /\ UNCHANGED <<disk, stuck, sem, wg, expired, status, cancelled, waited>>

BackoffCancelled(e) == CtxDone(e) /\ Abort(e, "backoff")

\* Mutant of SaveReturn: the upload is moved, not copied, into the storage.
SaveMoves(e) ==
  /\ Goto(e, "storing", "notifying")
  /\ artifact' = [artifact EXCEPT ![e] = "stored"]
  /\ disk' = disk \ {FileOf[e]}
  /\ Fanout(e, verdict[e] = "threat")
  /\ UNCHANGED <<stuck, sem, wg, expired, verdict, cancelled, waited, late>>

SaveReturn(e) ==
  /\ Goto(e, "storing", "notifying")
  /\ \E a \in {"stored", "failed"} : artifact' = [artifact EXCEPT ![e] = a]
  /\ Fanout(e, verdict[e] = "threat")
  /\ UNCHANGED <<disk, stuck, sem, wg, expired, verdict, cancelled, waited, late>>

SendReturn(e, n) ==
  /\ pc[e] = "notifying"
  /\ notif[e][n] = "sending"
  /\ \E r \in {"sent", "failed"} : notif' = [notif EXCEPT ![e][n] = r]
  /\ UNCHANGED <<pc, disk, stuck, sem, wg, expired, verdict, artifact, cancelled, waited, late>>

\* Mutant of NotifyDone: the notifiers are not waited for.
NotifyDoneEarly(e) ==
  /\ Goto(e, "notifying", "cleanup")
  /\ UNCHANGED <<disk, stuck, sem, wg, expired, status, cancelled, waited, late>>

\* notifyWg.Wait() returns.
NotifyDone(e) ==
  /\ \A n \in Notifiers : notif[e][n] # "sending"
  /\ Goto(e, "notifying", "cleanup")
  /\ UNCHANGED <<disk, stuck, sem, wg, expired, status, cancelled, waited, late>>

\* Mutant of Cleanup: RetainFiles is ignored.
CleanupAlways(e) ==
  /\ Goto(e, "cleanup", "releasing")
  /\ RemoveFile(e)
  /\ UNCHANGED <<sem, wg, expired, status, cancelled, waited, late>>

\* The deferred calls, last to first: file, (cancel,) permit, WaitGroup.
Cleanup(e) ==
  /\ Goto(e, "cleanup", "releasing")
  /\ IF RetainFiles THEN UNCHANGED <<disk, stuck>> ELSE RemoveFile(e)
  /\ UNCHANGED <<sem, wg, expired, status, cancelled, waited, late>>

Release(e) ==
  /\ Goto(e, "releasing", "exiting")
  /\ sem' = sem - 1
  /\ UNCHANGED <<disk, stuck, wg, expired, status, cancelled, waited, late>>

Exit(e) ==
  /\ Goto(e, "exiting", "done")
  /\ wg' = wg - 1
  /\ UNCHANGED <<disk, stuck, sem, expired, status, cancelled, waited, late>>

Timeout(e) ==
  /\ pc[e] \in Processing
  /\ ~expired[e]
  /\ expired' = [expired EXCEPT ![e] = TRUE]
  /\ UNCHANGED <<pc, disk, stuck, sem, wg, status, cancelled, waited, late>>

\* App.Stop: the context first, then (the listener, which no open session
\* notices, and) Wait.
Cancel ==
  /\ ~cancelled
  /\ cancelled' = TRUE
  /\ UNCHANGED <<pc, disk, stuck, sem, wg, expired, status, waited, late>>

WaitReturn ==
  /\ cancelled /\ ~waited
  /\ wg = 0
  /\ waited' = TRUE
  /\ UNCHANGED <<pc, disk, stuck, sem, wg, expired, status, cancelled, late>>

Terminated ==
  /\ waited /\ \A e \in Events : pc[e] = "done"
  /\ UNCHANGED vars

Step(e) ==
  \/ Enter(e) \/ Acquire(e) \/ Abandon(e)
  \/ AnalyzeReturn(e) \/ BackoffFires(e) \/ BackoffCancelled(e)
  \/ SaveReturn(e) \/ (\E n \in Notifiers : SendReturn(e, n)) \/ NotifyDone(e)
  \/ Cleanup(e) \/ Release(e) \/ Exit(e)

Next ==
  \/ \E e \in Events : Upload(e) \/ Step(e) \/ Timeout(e)
  \/ Cancel \/ WaitReturn \/ Terminated

Spec == Init /\ [][Next]_vars
-----------------------------------------------------------------------------
\* Every variable has its type; sem stays within the channel's capacity.
TypeOK ==
  /\ pc \in [Events -> PCs]
  /\ disk \subseteq Files /\ stuck \subseteq Files
  /\ sem \in 0..Capacity
  /\ wg \in Nat
  /\ expired \in [Events -> BOOLEAN]
  /\ verdict \in [Events -> Verdicts]
  /\ artifact \in [Events -> Artifacts]
  /\ notif \in [Events -> [Notifiers -> NotifStates]]
  /\ cancelled \in BOOLEAN /\ waited \in BOOLEAN
  /\ late \in [Events -> Nat]

\* The permits taken and the WaitGroup's counter are those of the goroutines
\* that hold them, on every path out of Process: no early return leaks one or
\* gives one back twice.
PermitsBalanced ==
  /\ sem = Cardinality({e \in Events : pc[e] \in Holding})
  /\ wg = Cardinality({e \in Events : pc[e] \in Entered})

\* While any stage of the pipeline works on a call, its file is there to be
\* read: nothing, not even a shutdown, removes it under the analyzer, the
\* storage or a notifier (the paths of distinct calls being distinct).
ArtifactAvailable == \A e \in Events : pc[e] \in Processing => FileOf[e] \in disk

\* A notifier is only ever used for an event it asked for, with a verdict, and
\* after the artifact it links to has been stored, or failed to be, if the
\* event is one to store.
AlertJustified ==
  \A e \in Events, n \in Notifiers :
    notif[e][n] # "idle" =>
      /\ verdict[e] \in {"threat", "clear"}
      /\ n \in Eligible(verdict[e] = "threat")
      /\ (verdict[e] = "threat" \/ AlwaysStore) <=> artifact[e] # "none"

\* A call past its pipeline has tried every notifier that wanted its verdict,
\* and one that failed analysis or was abandoned has alerted nobody.
OutcomeComplete ==
  \A e \in Events :
    pc[e] \in {"cleanup", "releasing", "exiting", "done"} =>
      {n \in Notifiers : notif[e][n] \in {"sent", "failed"}} =
        IF verdict[e] \in {"threat", "clear"} THEN Eligible(verdict[e] = "threat") ELSE {}

\* Once Process has returned its file is gone, unless a removal failed and was
\* logged, or files are retained and the call was not abandoned in the queue.
NoLeftovers ==
  \A e \in Events :
    pc[e] \in {"releasing", "exiting", "done"} /\ FileOf[e] \in disk \ stuck =>
      RetainFiles /\ verdict[e] # "none"

\* With RetainFiles set, a file whose call got as far as a verdict stays.
RetainedFilesStay ==
  \A e \in Events : RetainFiles /\ verdict[e] # "none" => FileOf[e] \in disk

\* The retry loop starts at most one analysis after its context is done.
LateAnalysesBounded == \A e \in Events : late[e] <= 1

\* When Wait returns, no call that had registered is still running: each has
\* given back its permit and dealt with its file.
WaitDrains ==
  [][WaitReturn => \A e \in Events : pc[e] \in {"new", "spawned", "done"}]_vars

\* coordinator.go:69 taken at its word: when Wait returns, no upload that was
\* handed to Process before it returned is still to be handled.
WaitCoversHandovers == [][WaitReturn => \A e \in Events : pc[e] \in {"new", "done"}]_vars

\* What each stage of the pipeline has established: the strengthening from which
\* AlertJustified and OutcomeComplete are proved.
Untouched(e) == artifact[e] = "none" /\ \A n \in Notifiers : notif[e][n] = "idle"
Judged(e) == verdict[e] \in {"threat", "clear"}
Resolved(e) ==
  /\ (verdict[e] = "threat" \/ AlwaysStore) <=> artifact[e] # "none"
  /\ \A n \in Notifiers :
       IF n \in Eligible(verdict[e] = "threat")
       THEN notif[e][n] \in {"sent", "failed"} \cup (IF pc[e] = "notifying" THEN {"sending"} ELSE {})
       ELSE notif[e][n] = "idle"

StageOf(e) ==
  /\ pc[e] \in {"new", "spawned", "waiting", "analyzing", "backoff"} =>
       verdict[e] = "none" /\ Untouched(e)
  /\ pc[e] = "storing" => Judged(e) /\ (verdict[e] = "threat" \/ AlwaysStore) /\ Untouched(e)
  /\ pc[e] = "notifying" => Judged(e)
  /\ pc[e] \in {"notifying", "cleanup", "releasing", "exiting", "done"} =>
       IF Judged(e) THEN Resolved(e) ELSE Untouched(e)
  /\ pc[e] \in {"cleanup", "releasing"} => verdict[e] # "none"
StageInv == \A e \in Events : StageOf(e)

\* The coordinator keeps the promise of EventLifecycle: a call is queued until
\* it holds a permit and finished once it has given it back.
PhaseOf(p) ==
  IF p = "new" THEN "absent"
  ELSE IF p \in {"spawned", "waiting"} THEN "queued"
  ELSE IF p \in Holding THEN "active" ELSE "finished"
phaseBar == [e \in Events |-> PhaseOf(pc[e])]
alertedBar == [e \in Events |-> {n \in Notifiers : notif[e][n] \in {"sent", "failed"}}]

Lifecycle == INSTANCE EventLifecycle
               WITH Uploads <- Events, Listeners <- Notifiers, Always <- AlwaysNotifiers,
                    Slots <- Capacity, phase <- phaseBar, decision <- verdict,
                    alerted <- alertedBar
LifecycleSpec == Lifecycle!ALSpec
=============================================================================
