------------------------- MODULE ApplicationProofs -------------------------
(***************************************************************************)
(* Theorems about Application: the process drives the coordinator as       *)
(* Coordinator lets its environment do, and what an orderly stop is worth. *)
(***************************************************************************)
EXTENDS Application, CoordinatorProofs

-----------------------------------------------------------------------------
\* A step of the process is one of the pipeline, or none.
LEMMA AppStep == [AppNext]_allVars => [Next]_vars
BY DEF AppNext, Running, MainStep, Start, NotifySignals, StopCancels, StopFtp, WaitBegins,
   WaitWakes, WaitOver, StopApi, Leave, Signal, FtpServes, ApiServes, Fatal, Connect,
   Disconnect, TransferBegins, TransferFails, SessionUploads, Alone, CallStep, ExitReleases, Next, Step, allVars

\* What the rest of the process does to the coordinator is what Coordinator has
\* its environment do, so that every theorem about Coordinator is one about the
\* process.
THEOREM ProcessImplements == AppSpec => Spec
<1>1. AppInit => Init
  BY DEF AppInit
<1>2. QED
  BY <1>1, AppStep, PTL DEF AppSpec, Spec

LEMMA AppFullInv == AppSpec => []FullInv
BY ProcessImplements, FullInvHolds, PTL

\* Type correctness of the process.
THEOREM AppTypeCorrect == AppSpec => []AppTypeOK
<1>1. AppInit => AppTypeOK
  BY DEF AppInit, AppTypeOK
<1>2. AppTypeOK /\ [AppNext]_allVars => AppTypeOK'
  BY DEF AppTypeOK, allVars, appVars, cameras, AppNext, Running, MainStep, Start, NotifySignals, StopCancels,
     StopFtp, WaitBegins, WaitWakes, WaitOver, StopApi, Leave, Signal, FtpServes, ApiServes,
     Fatal, Connect, Disconnect, TransferBegins, TransferFails, SessionUploads, Alone, ExitReleases
<1>3. QED
  BY <1>1, <1>2, PTL DEF AppSpec

-----------------------------------------------------------------------------
\* A call that is over stays over, and only an upload begins one.
LEMMA CallFrame ==
  ASSUME TypeOK, NEW e \in Events, CallStep(e) \/ Exit(e), NEW x \in Events
  PROVE  /\ pc[x] = "done" => pc'[x] = "done"
         /\ pc'[x] = "new" <=> pc[x] = "new"
         /\ pc'[x] = "spawned" => pc[x] = "spawned"
<1>1. pc \in [Events -> PCs]
  BY DEF TypeOK
<1>2. QED
  BY <1>1 DEF CallStep, Step, Timeout, Enter, Acquire, Abandon, AnalyzeReturn, AnalyzeSucceeds,
     AnalyzeFailsHard, AnalyzeGivesUp, AnalyzeBacksOff, Abort, BackoffFires, BackoffCancelled,
     SaveReturn, SendReturn, NotifyDone, Cleanup, Release, Exit, Goto

\* The counter only grows when a call that has been started registers.
LEMMA CounterFrame ==
  ASSUME TypeOK, NEW e \in Events, CallStep(e), \A x \in Events : pc[x] # "spawned"
  PROVE  wg' = wg
BY DEF TypeOK, CallStep, Step, Timeout, Enter, Acquire, Abandon, AnalyzeReturn, AnalyzeSucceeds,
   AnalyzeFailsHard, AnalyzeGivesUp, AnalyzeBacksOff, Abort, BackoffFires, BackoffCancelled,
   SaveReturn, SendReturn, NotifyDone, Cleanup, Release, Exit, Goto

\* When the counter is 0, every call is before its first line or past its last.
LEMMA ZeroMeansIdle ==
  ASSUME FullInv, wg = 0, NEW e \in Events
  PROVE  pc[e] \in {"new", "spawned", "done"}
<1>1. IsFiniteSet({x \in Events : pc[x] \in Entered})
  BY EventsAssumption, FS_Subset
<1>2. {x \in Events : pc[x] \in Entered} = {}
  BY <1>1, FS_EmptySet DEF FullInv, IndInv, PermitsBalanced
<1>3. pc[e] \in PCs \ Entered
  BY <1>2 DEF FullInv, IndInv, TypeOK
<1>4. QED
  BY <1>3 DEF PCs

-----------------------------------------------------------------------------
\* From the return of Wait on, all calls it did not miss are over.
Settled == \A e \in Events \ missed : pc[e] = "done"
SettledInv == main \in {"stopApi", "leaving", "exited"} \/ api = "closed" => Settled

LEMMA StepSettled == FullInv /\ SettledInv /\ [AppNext]_allVars => SettledInv'
<1> SUFFICES ASSUME FullInv, SettledInv, [AppNext]_allVars
             PROVE  SettledInv'
  OBVIOUS
<1>0. TypeOK
  BY DEF FullInv, IndInv
<1>1. CASE WaitOver
  <2>1. wg = 0 /\ UNCHANGED pc /\ missed' = {e \in Events : pc[e] \in {"new", "spawned"}}
    BY <1>1 DEF WaitOver, WaitReturn
  <2>2. QED
    BY <2>1, ZeroMeansIdle DEF SettledInv, Settled
<1>2. ASSUME NEW e \in Events, Alone(CallStep(e)) \/ ExitReleases(e)
      PROVE  SettledInv'
  <2>1. /\ CallStep(e) \/ Exit(e)
        /\ UNCHANGED <<api, missed>>
        /\ main' \in {main, "released"}
    BY <1>2 DEF Alone, ExitReleases, appVars
  <2>2. Settled => Settled'
    BY <1>0, <2>1, CallFrame DEF Settled
  <2>3. QED
    BY <2>1, <2>2 DEF SettledInv
<1>3. ASSUME NEW e \in Events, SessionUploads(e)
      PROVE  SettledInv'
  <2>1. pc[e] = "new" /\ pc' = [pc EXCEPT ![e] = "spawned"] /\ UNCHANGED <<main, api, missed>>
    BY <1>3 DEF SessionUploads, Upload, Goto
  <2>2. Settled => Settled'
    BY <1>0, <2>1 DEF Settled, TypeOK
  <2>3. QED
    BY <2>1, <2>2 DEF SettledInv
<1>4. CASE UNCHANGED <<pc, missed>> /\ ~WaitOver
  BY <1>4 DEF SettledInv, Settled, allVars, appVars, cameras, vars, AppNext, Running, MainStep, Start,
     NotifySignals, StopCancels, Cancel, StopFtp, WaitBegins, WaitWakes, StopApi, Leave, Signal,
     FtpServes, ApiServes, Fatal, Connect, Disconnect, TransferBegins, TransferFails, SessionUploads, Alone, ExitReleases
<1>5. QED
  BY <1>1, <1>2, <1>3, <1>4
  DEF allVars, appVars, cameras, vars, AppNext, Running, MainStep, Start, NotifySignals, StopCancels, Cancel,
      StopFtp, WaitBegins, WaitWakes, StopApi, Leave, Signal, FtpServes, ApiServes, Fatal,
      Connect, Disconnect, TransferBegins, TransferFails

LEMMA SettledHolds == AppSpec => []SettledInv
<1>1. AppInit => SettledInv
  BY DEF AppInit, SettledInv
<1>2. QED
  BY <1>1, AppFullInv, StepSettled, PTL DEF AppSpec

\* However the servers, the cameras and the signal interleave with the calls, a
\* process that exits from main has dealt with all Wait could know of.
THEOREM ExitCorrect == AppSpec => []ExitLosesOnlyMissed
<1>1. SettledInv => ExitLosesOnlyMissed
  BY DEF SettledInv, Settled, ExitLosesOnlyMissed
<1>2. QED
  BY <1>1, SettledHolds, PTL

\* The API is only stopped when no call that Wait waited for is under way.
THEOREM ApiStopsLast == AppSpec => []ApiOutlivesPipeline
<1>1. SettledInv => ApiOutlivesPipeline
  BY DEF SettledInv, Settled, ApiOutlivesPipeline
<1>2. QED
  BY <1>1, SettledHolds, PTL
-----------------------------------------------------------------------------
\* After a clean close of the listener nobody connects, with nobody connected no
\* transfer begins, with none begun nothing is handed over, and so no call registers
\* behind Wait's back: what Wait misses has not been handed over.
CleanInv ==
  clean =>
    /\ conns = {} /\ transfers = {} /\ ftp = "closed"
    /\ main \in {"toWait", "blocked", "released", "stopApi", "leaving", "exited", "died"}
    /\ \A e \in Events : pc[e] # "spawned"
    /\ main = "released" => wg = 0
    /\ main \in {"stopApi", "leaving", "exited"} => \A e \in missed : pc[e] = "new"

LEMMA StepClean == FullInv /\ AppTypeOK /\ CleanInv /\ [AppNext]_allVars => CleanInv'
<1> SUFFICES ASSUME FullInv, AppTypeOK, CleanInv, [AppNext]_allVars, clean'
             PROVE  CleanInv'
  BY DEF CleanInv
<1>0. TypeOK /\ missed \subseteq Events
  BY DEF FullInv, IndInv, AppTypeOK
<1>1. CASE StopFtp
  BY <1>1 DEF StopFtp, Calm, CleanInv, cameras, vars
<1>2. CASE WaitOver /\ main \in {"toWait", "released"}
  <2>1. /\ UNCHANGED <<pc, cameras, ftp, clean>> /\ main' = "stopApi"
        /\ missed' = {e \in Events : pc[e] \in {"new", "spawned"}}
    BY <1>2 DEF WaitOver, WaitReturn
  <2>2. QED
    BY <2>1 DEF CleanInv, cameras
<1>3. ASSUME NEW e \in Events, Alone(CallStep(e))
      PROVE  CleanInv'
  <2>1. CallStep(e) /\ UNCHANGED appVars
    BY <1>3 DEF Alone
  <2>2. clean /\ \A x \in Events : pc[x] # "spawned"
    BY <2>1 DEF CleanInv, appVars, cameras
  <2>3. wg' = wg
    BY <1>0, <2>1, <2>2, CounterFrame
  <2>4. \A x \in Events : pc'[x] # "spawned" /\ (pc[x] = "new" => pc'[x] = "new")
    BY <1>0, <2>1, <2>2, CallFrame
  <2>5. QED
    BY <1>0, <2>1, <2>2, <2>3, <2>4 DEF CleanInv, appVars, cameras
<1>4. ASSUME NEW e \in Events, ExitReleases(e)
      PROVE  CleanInv'
  <2>1. /\ Exit(e) /\ UNCHANGED <<ftp, cameras, missed, clean>>
        /\ main' = IF main = "blocked" /\ wg = 1 THEN "released" ELSE main
    BY <1>4 DEF ExitReleases
  <2>2. pc[e] = "exiting" /\ wg \in Nat /\ wg' = wg - 1
    BY <1>0, <2>1 DEF Exit, Goto, TypeOK
  <2>3. main # "released"
    <3>1. wg # 0
      BY <2>2, ZeroMeansIdle
    <3>2. QED
      BY <2>1, <3>1 DEF CleanInv
  <2>4. \A x \in Events : pc'[x] = "spawned" => pc[x] = "spawned"
    BY <1>0, <2>1, CallFrame
  <2>5. \A x \in Events : pc[x] = "new" => pc'[x] = "new"
    BY <1>0, <2>1, CallFrame
  <2>6. QED
    BY <1>0, <2>1, <2>2, <2>3, <2>4, <2>5 DEF CleanInv, cameras
<1>5. QED
  BY <1>1, <1>2, <1>3, <1>4
  DEF CleanInv, allVars, appVars, cameras, vars, AppNext, Running, MainStep, Start, NotifySignals, StopCancels,
      Cancel, WaitBegins, WaitWakes, StopApi, Leave, Signal, FtpServes, ApiServes, Fatal,
      Connect, Disconnect, TransferBegins, TransferFails, SessionUploads, Alone

\* A Stop that closes the listener while no connection is up, no transfer is in flight
\* and no call is between its go statement and its first line does not panic and
\* loses no upload.
THEOREM CleanStop == AppSpec => []CleanStopLosesNothing
<1>1. AppInit => CleanInv
  BY DEF AppInit, CleanInv
<1>2. CleanInv /\ SettledInv => CleanStopLosesNothing
  BY DEF CleanInv, SettledInv, Settled, CleanStopLosesNothing
<1>3. QED
  BY <1>1, <1>2, StepClean, SettledHolds, AppFullInv, AppTypeCorrect, PTL DEF AppSpec
-----------------------------------------------------------------------------
\* Stop is not left waiting by a wake-up that got lost: as long as it is blocked
\* some call is registered whose Done is still to come, and the last Done wakes it.
NoLostWakeup == main = "blocked" => \E e \in Events : pc[e] \in Entered

\* Proved of a Stop that found calls under way: only the last Done takes the counter
\* to 0, and it takes Stop out of its wait.
THEOREM WaitIsWoken == AppSpec => []NoLostWakeup
<1> DEFINE BlockedInv == main = "blocked" => wg # 0
<1>1. AppInit => BlockedInv
  BY DEF AppInit
<1>2. FullInv /\ BlockedInv /\ [AppNext]_allVars => BlockedInv'
  <2> SUFFICES ASSUME FullInv, BlockedInv, [AppNext]_allVars PROVE BlockedInv'
    OBVIOUS
  <2>0. wg \in Nat
    BY DEF FullInv, IndInv, TypeOK
  <2>1. ASSUME NEW e \in Events, Alone(CallStep(e)) PROVE BlockedInv'
    <3>1. UNCHANGED main
      BY <2>1 DEF Alone, appVars
    <3>2. wg' = wg \/ wg' = wg + 1
      BY <2>1 DEF Alone, CallStep, Step, Timeout, Enter, Acquire, Abandon, AnalyzeReturn,
         AnalyzeSucceeds, AnalyzeFailsHard, AnalyzeGivesUp, AnalyzeBacksOff, Abort, BackoffFires,
         BackoffCancelled, SaveReturn, SendReturn, NotifyDone, Cleanup, Release, Exit, Goto
    <3>3. QED
      BY <2>0, <3>1, <3>2
  <2>2. ASSUME NEW e \in Events, ExitReleases(e) PROVE BlockedInv'
    BY <2>0, <2>2 DEF ExitReleases, Exit
  <2>3. CASE WaitBegins \/ WaitWakes
    BY <2>3 DEF WaitBegins, WaitWakes, WaitOver, vars
  <2>4. CASE UNCHANGED wg /\ main' # "blocked"
    BY <2>4
  <2>5. CASE UNCHANGED <<wg, main>>
    BY <2>5
  <2>6. QED
    BY <2>1, <2>2, <2>3, <2>4, <2>5
    DEF allVars, appVars, cameras, vars, AppNext, Running, MainStep, Start, NotifySignals, StopCancels,
        Cancel, StopFtp, StopApi, Leave, Signal, FtpServes, ApiServes, Fatal, Connect, Disconnect,
        TransferBegins, TransferFails, SessionUploads, Alone, Upload
<1>3. AppSpec => []WaitsForSomebody
  BY ProcessImplements, NobodyWaitsForNobody, PTL
<1>4. BlockedInv /\ WaitsForSomebody => NoLostWakeup
  BY DEF NoLostWakeup, WaitsForSomebody
<1>5. QED
  BY <1>1, <1>2, <1>3, <1>4, AppFullInv, PTL DEF AppSpec

\* How far main has come, the ends of the process last.
MainPlace ==
  CASE main = "built" -> 0 [] main = "started" -> 1 [] main = "serving" -> 2
    [] main = "stopping" -> 3 [] main = "cancelled" -> 4 [] main = "toWait" -> 5
    [] main = "blocked" -> 6 [] main = "released" -> 7 [] main = "stopApi" -> 8
    [] main = "leaving" -> 9 [] main \in {"exited", "died", "panicked"} -> 10

\* A stop takes finitely many steps: main only goes forward through it, the calls in
\* flight only go forward once it has cancelled their context, and there is no step
\* back to serving whatever the servers, the cameras and the signals do.
StopAdvances ==
  [][/\ main' # main => MainPlace' > MainPlace
     /\ main \in {"cancelled", "toWait", "blocked", "released", "stopApi", "leaving"} =>
          \A e \in Events : pc'[e] # pc[e] => Progress(e)' > Progress(e)]_allVars

CancelledInv ==
  main \in {"cancelled", "toWait", "blocked", "released", "stopApi", "leaving"} => cancelled

\* The safety half of SignalEndsProcess: what fairness has to add is that steps are
\* taken.
THEOREM StopSteps == AppSpec => StopAdvances
<1>1. AppInit => CancelledInv
  BY DEF AppInit, CancelledInv
<1>2. CancelledInv /\ [AppNext]_allVars => CancelledInv'
  BY DEF CancelledInv, allVars, appVars, cameras, vars, AppNext, Running, MainStep, Start, NotifySignals,
     StopCancels, Cancel, StopFtp, WaitBegins, WaitWakes, WaitOver, WaitReturn, StopApi, Leave,
     Signal, FtpServes, ApiServes, Fatal, Connect, Disconnect, TransferBegins, TransferFails, SessionUploads, Alone,
     ExitReleases, CallStep, Upload, Timeout, Step, Enter, Acquire, Abandon, AnalyzeReturn,
     AnalyzeSucceeds, AnalyzeFailsHard, AnalyzeGivesUp, AnalyzeBacksOff, Abort, BackoffFires,
     BackoffCancelled, SaveReturn, SendReturn, NotifyDone, Cleanup, Release, Exit
<1>3. AppTypeOK /\ [AppNext]_allVars => (main' # main => MainPlace' > MainPlace)
  <2> SUFFICES ASSUME AppTypeOK, [AppNext]_allVars, main' # main PROVE MainPlace' > MainPlace
    OBVIOUS
  <2>1. \/ main = "built" /\ main' = "started"
        \/ main = "started" /\ main' = "serving"
        \/ main \in {"built", "started"} /\ main' = "died"
        \/ main = "serving" /\ main' = "stopping"
        \/ main = "stopping" /\ main' = "cancelled"
        \/ main = "cancelled" /\ main' = "toWait"
        \/ main = "toWait" /\ main' \in {"stopApi", "blocked"}
        \/ main = "blocked" /\ main' = "released"
        \/ main = "released" /\ main' \in {"stopApi", "panicked"}
        \/ main = "stopApi" /\ main' = "leaving"
        \/ main = "leaving" /\ main' = "exited"
        \/ Alive /\ main' = "died"
    BY DEF allVars, appVars, cameras, AppNext, Running, MainStep, Start, NotifySignals, StopCancels,
       StopFtp, WaitBegins, WaitWakes, WaitOver, StopApi, Leave, Signal, FtpServes, ApiServes,
       Fatal, Connect, Disconnect, TransferBegins, TransferFails, SessionUploads, Alone, ExitReleases
  <2>2. QED
    BY <2>1 DEF Alive, MainPlace, AppTypeOK
<1>4. TypeOK /\ [AppNext]_allVars =>
        (cancelled => \A e \in Events : pc'[e] # pc[e] => Progress(e)' > Progress(e))
  <2> SUFFICES ASSUME TypeOK, [AppNext]_allVars, cancelled, NEW x \in Events, pc'[x] # pc[x]
               PROVE  Progress(x)' > Progress(x)
    OBVIOUS
  <2>1. [Next]_vars
    BY AppStep
  <2>2. PICK e \in Events : Upload(e) \/ Step(e)
    BY <2>1 DEF Next, Timeout, Cancel, WaitReturn, Terminated, vars
  <2>3. QED
    BY <2>2, StepAdvances
<1>5. TypeOK /\ AppTypeOK /\ CancelledInv /\ [AppNext]_allVars =>
        [/\ main' # main => MainPlace' > MainPlace
         /\ main \in {"cancelled", "toWait", "blocked", "released", "stopApi", "leaving"} =>
              \A e \in Events : pc'[e] # pc[e] => Progress(e)' > Progress(e)]_allVars
  BY <1>3, <1>4 DEF CancelledInv
<1>6. AppSpec => []TypeOK
  BY ProcessImplements, TypeCorrect, PTL
<1>7. QED
  BY <1>1, <1>2, <1>5, <1>6, AppTypeCorrect, PTL DEF AppSpec, StopAdvances

-----------------------------------------------------------------------------
\* What Coordinator promises holds of its calls in the process: retained files
\* outlive every way the process can go on,
THEOREM ProcessRetains == ASSUME DistinctFiles PROVE AppSpec => []RetainedFilesStay
BY ProcessImplements, RetentionKept, PTL

\* and the uploads of the process go through the life EventLifecycle gives them.
THEOREM ProcessLifecycle == AppSpec => LifecycleSpec
BY ProcessImplements, Refinement, PTL
=============================================================================
