------------------------- MODULE CoordinatorProofs -------------------------
(***************************************************************************)
(* Theorems about Coordinator, for every set of calls, of notifiers and    *)
(* every configuration.                                                    *)
(***************************************************************************)
EXTENDS Coordinator, FiniteSetTheorems, TLAPS

-----------------------------------------------------------------------------
\* Moving one goroutine changes the number of goroutines in a set S of places
\* by whether it entered S and whether it left it.
LEMMA CountMove ==
  ASSUME NEW f \in [Events -> PCs], NEW e \in Events, NEW to \in PCs, NEW S
  PROVE  LET g == [f EXCEPT ![e] = to]
             Count(h) == Cardinality({x \in Events : h[x] \in S})
         IN  /\ Count(f) \in Nat /\ Count(g) \in Nat
             /\ f[e] \in S => Count(f) >= 1
             /\ Count(g) = Count(f) + (IF to \in S THEN 1 ELSE 0)
                                    - (IF f[e] \in S THEN 1 ELSE 0)
<1> DEFINE g == [f EXCEPT ![e] = to]
           F == {x \in Events : f[x] \in S}
           G == {x \in Events : g[x] \in S}
           R == F \ {e}
<1>1. IsFiniteSet(F) /\ IsFiniteSet(G) /\ IsFiniteSet(R)
  BY EventsAssumption, FS_Subset
<1>2. Cardinality(R) \in Nat /\ Cardinality(F) \in Nat /\ Cardinality(G) \in Nat
  BY <1>1, FS_CardinalityType
<1>3. Cardinality(F) = Cardinality(R) + (IF f[e] \in S THEN 1 ELSE 0)
  <2>1. CASE f[e] \in S
    <3>1. F = R \cup {e} /\ e \notin R
      BY <2>1
    <3>2. QED
      BY <3>1, <2>1, <1>1, FS_AddElement
  <2>2. CASE f[e] \notin S
    <3>1. F = R
      BY <2>2
    <3>2. QED
      BY <3>1, <2>2, <1>2
  <2>3. QED
    BY <2>1, <2>2
<1>4. Cardinality(G) = Cardinality(R) + (IF to \in S THEN 1 ELSE 0)
  <2>0. g[e] = to /\ \A x \in Events \ {e} : g[x] = f[x]
    OBVIOUS
  <2>1. CASE to \in S
    <3>1. G = R \cup {e} /\ e \notin R
      BY <2>0, <2>1
    <3>2. QED
      BY <3>1, <2>1, <1>1, FS_AddElement
  <2>2. CASE to \notin S
    <3>1. G = R
      BY <2>0, <2>2
    <3>2. QED
      BY <3>1, <2>2, <1>2
  <2>3. QED
    BY <2>1, <2>2
<1>5. QED
  BY <1>2, <1>3, <1>4

\* What a goroutine that moves from one place to another does to the books: its
\* two places say by how much the permits and the counter have to change.
Balanced(from, to) ==
  /\ pc' \in [Events -> PCs]
  /\ sem \in Nat /\ wg \in Nat
  /\ from \in Holding => sem >= 1
  /\ from \in Entered => wg >= 1
  /\ /\ sem' = sem + (IF to \in Holding THEN 1 ELSE 0)
                   - (IF from \in Holding THEN 1 ELSE 0)
     /\ wg' = wg + (IF to \in Entered THEN 1 ELSE 0)
                 - (IF from \in Entered THEN 1 ELSE 0)
     => PermitsBalanced'

LEMMA GotoBalanced ==
  ASSUME pc \in [Events -> PCs], PermitsBalanced,
         NEW e \in Events, NEW from, NEW to \in PCs, Goto(e, from, to)
  PROVE  Balanced(from, to)
<1>1. pc[e] = from /\ pc' = [pc EXCEPT ![e] = to]
  BY DEF Goto
<1>2. /\ sem = Cardinality({x \in Events : pc[x] \in Holding})
      /\ wg = Cardinality({x \in Events : pc[x] \in Entered})
  BY DEF PermitsBalanced
<1>3. LET Count(h) == Cardinality({x \in Events : h[x] \in Holding})
      IN  /\ Count(pc) \in Nat
          /\ pc[e] \in Holding => Count(pc) >= 1
          /\ Count(pc') = Count(pc) + (IF to \in Holding THEN 1 ELSE 0)
                                    - (IF pc[e] \in Holding THEN 1 ELSE 0)
  BY <1>1, CountMove
<1>4. LET Count(h) == Cardinality({x \in Events : h[x] \in Entered})
      IN  /\ Count(pc) \in Nat
          /\ pc[e] \in Entered => Count(pc) >= 1
          /\ Count(pc') = Count(pc) + (IF to \in Entered THEN 1 ELSE 0)
                                    - (IF pc[e] \in Entered THEN 1 ELSE 0)
  BY <1>1, CountMove
<1>5. pc' \in [Events -> PCs]
  BY <1>1
<1>6. QED
  BY <1>1, <1>2, <1>3, <1>4, <1>5 DEF PermitsBalanced, Balanced

-----------------------------------------------------------------------------
\* The type invariant and the balance are inductive together: that a permit is
\* given back only when one is taken is a fact about the counts.
IndInv == TypeOK /\ PermitsBalanced

LEMMA CapacityPositive == Capacity \in Nat /\ Capacity >= 1
BY ConfigAssumption DEF Capacity

LEMMA InitIndInv == Init => IndInv
<1> SUFFICES ASSUME Init PROVE IndInv
  OBVIOUS
<1>1. TypeOK
  <2>1. pc \in [Events -> PCs] /\ verdict \in [Events -> Verdicts]
    BY DEF Init, PCs, Verdicts
  <2>2. artifact \in [Events -> Artifacts] /\ notif \in [Events -> [Notifiers -> NotifStates]]
    BY DEF Init, Artifacts, NotifStates
  <2>3. sem \in 0..Capacity /\ wg \in Nat /\ late \in [Events -> Nat]
    BY CapacityPositive DEF Init
  <2>4. /\ disk \subseteq Files /\ stuck \subseteq Files
        /\ expired \in [Events -> BOOLEAN] /\ cancelled \in BOOLEAN /\ waited \in BOOLEAN
    BY DEF Init
  <2>5. QED
    BY <2>1, <2>2, <2>3, <2>4 DEF TypeOK
<1>2. {e \in Events : pc[e] \in Holding} = {} /\ {e \in Events : pc[e] \in Entered} = {}
  BY DEF Init, Holding, Entered, Processing
<1>3. QED
  BY <1>1, <1>2, FS_EmptySet DEF Init, IndInv, PermitsBalanced

LEMMA StepIndInv == IndInv /\ [Next]_vars => IndInv'
<1> SUFFICES ASSUME IndInv, [Next]_vars PROVE IndInv'
  OBVIOUS
<1> USE DEF IndInv
<1>0. pc \in [Events -> PCs] /\ PermitsBalanced /\ TypeOK
  BY DEF TypeOK
<1>1. \A e \in Events, from \in PCs, to \in PCs : Goto(e, from, to) => Balanced(from, to)
  BY <1>0, GotoBalanced
<1>2. ASSUME NEW e \in Events, Upload(e) \/ Step(e) \/ Timeout(e)
      PROVE  IndInv'
  <2>1. CASE Upload(e)
    <3>1. Balanced("new", "spawned")
      BY <1>1, <2>1 DEF Upload, PCs, Entered, Holding, Processing
    <3>2. QED
      BY <3>1, <1>0, <2>1, FilesAssumption DEF Upload, Balanced, TypeOK, status, PCs, Entered, Holding, Processing
  <2>2. CASE Enter(e)
    <3>1. Balanced("spawned", "waiting")
      BY <1>1, <2>2 DEF Enter, PCs, Entered, Holding, Processing
    <3>2. QED
      BY <3>1, <1>0, <2>2 DEF Enter, Balanced, TypeOK, status, PCs, Entered, Holding, Processing
  <2>3. CASE Acquire(e)
    <3>1. Balanced("waiting", "analyzing")
      BY <1>1, <2>3 DEF Acquire, CountLate, PCs, Entered, Holding, Processing
    <3>2. QED
      BY <3>1, <1>0, <2>3, CapacityPositive DEF Acquire, CountLate, Balanced, TypeOK, status, PCs, Entered, Holding, Processing
  <2>4. CASE Abandon(e)
    <3>1. Balanced("waiting", "exiting")
      BY <1>1, <2>4 DEF Abandon, RemoveFile, PCs, Entered, Holding, Processing
    <3>2. QED
      BY <3>1, <1>0, <2>4, FilesAssumption DEF Abandon, RemoveFile, Balanced, TypeOK, status, PCs, Entered, Holding, Processing
  <2>5. CASE \E isThreat \in BOOLEAN : AnalyzeSucceeds(e, isThreat)
    <3> PICK isThreat \in BOOLEAN : AnalyzeSucceeds(e, isThreat)
      BY <2>5
    <3>1. Balanced("analyzing", "storing") \/ Balanced("analyzing", "notifying")
      BY <1>1 DEF AnalyzeSucceeds, PCs, Entered, Holding, Processing
    <3>2. notif' \in [Events -> [Notifiers -> NotifStates]]
      BY <1>0 DEF TypeOK, AnalyzeSucceeds, Fanout, NotifStates
    <3>3. QED
      BY <3>1, <3>2, <1>0 DEF AnalyzeSucceeds, Verdicts, Balanced, TypeOK, status, PCs, Entered, Holding, Processing
  <2>6. ASSUME NEW from \in {"analyzing", "backoff"}, Abort(e, from)
        PROVE  IndInv'
    <3>1. Balanced(from, "cleanup")
      BY <1>1, <2>6 DEF Abort, PCs, Entered, Holding, Processing
    <3>2. QED
      BY <3>1, <1>0, <2>6 DEF Abort, Verdicts, Balanced, TypeOK, status, PCs, Entered, Holding, Processing
  <2>7. CASE AnalyzeBacksOff(e)
    <3>1. Balanced("analyzing", "backoff")
      BY <1>1, <2>7 DEF AnalyzeBacksOff, PCs, Entered, Holding, Processing
    <3>2. QED
      BY <3>1, <1>0, <2>7 DEF AnalyzeBacksOff, Balanced, TypeOK, status, PCs, Entered, Holding, Processing
  <2>8. CASE BackoffFires(e)
    <3>1. Balanced("backoff", "analyzing")
      BY <1>1, <2>8 DEF BackoffFires, CountLate, PCs, Entered, Holding, Processing
    <3>2. QED
      BY <3>1, <1>0, <2>8 DEF BackoffFires, CountLate, Balanced, TypeOK, status, PCs, Entered, Holding, Processing
  <2>9. CASE SaveReturn(e)
    <3>1. Balanced("storing", "notifying")
      BY <1>1, <2>9 DEF SaveReturn, PCs, Entered, Holding, Processing
    <3>2. notif' \in [Events -> [Notifiers -> NotifStates]]
      BY <1>0, <2>9 DEF TypeOK, SaveReturn, Fanout, NotifStates
    <3>3. QED
      BY <3>1, <3>2, <1>0, <2>9 DEF SaveReturn, Artifacts, Balanced, TypeOK, status, PCs, Entered, Holding, Processing
  <2>10. CASE \E n \in Notifiers : SendReturn(e, n)
    <3>1. notif' \in [Events -> [Notifiers -> NotifStates]]
      BY <1>0, <2>10 DEF TypeOK, SendReturn, NotifStates
    <3>2. QED
      BY <3>1, <1>0, <2>10 DEF SendReturn, TypeOK, PermitsBalanced
  <2>11. CASE NotifyDone(e)
    <3>1. Balanced("notifying", "cleanup")
      BY <1>1, <2>11 DEF NotifyDone, PCs, Entered, Holding, Processing
    <3>2. QED
      BY <3>1, <1>0, <2>11 DEF NotifyDone, Balanced, TypeOK, status, PCs, Entered, Holding, Processing
  <2>12. CASE Cleanup(e)
    <3>1. Balanced("cleanup", "releasing")
      BY <1>1, <2>12 DEF Cleanup, RemoveFile, PCs, Entered, Holding, Processing
    <3>2. QED
      BY <3>1, <1>0, <2>12, FilesAssumption DEF Cleanup, RemoveFile, Balanced, TypeOK, status, PCs, Entered, Holding, Processing
  <2>13. CASE Release(e)
    <3>1. Balanced("releasing", "exiting")
      BY <1>1, <2>13 DEF Release, PCs, Entered, Holding, Processing
    <3>2. QED
      BY <3>1, <1>0, <2>13, CapacityPositive DEF Release, Balanced, TypeOK, status, PCs, Entered, Holding, Processing
  <2>14. CASE Exit(e)
    <3>1. Balanced("exiting", "done")
      BY <1>1, <2>14 DEF Exit, PCs, Entered, Holding, Processing
    <3>2. QED
      BY <3>1, <1>0, <2>14 DEF Exit, Balanced, TypeOK, status, PCs, Entered, Holding, Processing
  <2>15. CASE Timeout(e)
    BY <1>0, <2>15 DEF Timeout, TypeOK, status, PermitsBalanced
  <2>16. QED
    BY <1>2, <2>1, <2>2, <2>3, <2>4, <2>5, <2>6, <2>7, <2>8, <2>9, <2>10, <2>11, <2>12, <2>13, <2>14, <2>15
    DEF Step, AnalyzeReturn, AnalyzeFailsHard, AnalyzeGivesUp, BackoffCancelled
<1>3. CASE Cancel \/ WaitReturn
  BY <1>0, <1>3 DEF Cancel, WaitReturn, TypeOK, status, PermitsBalanced
<1>4. CASE UNCHANGED vars
  BY <1>0, <1>4 DEF vars, status, TypeOK, PermitsBalanced
<1>5. QED
  BY <1>2, <1>3, <1>4 DEF Next, Terminated

\* Type correctness: in every behaviour every variable keeps its type, and the
\* permits taken never exceed the capacity of the channel.
THEOREM TypeCorrect == Spec => []TypeOK
<1>1. IndInv => TypeOK
  BY DEF IndInv
<1>2. QED
  BY <1>1, InitIndInv, StepIndInv, PTL DEF Spec

\* The semaphore and the WaitGroup are given back exactly by the goroutines that
\* took them, whichever way Process returns.
THEOREM BalanceKept == Spec => []PermitsBalanced
<1>1. IndInv => PermitsBalanced
  BY DEF IndInv
<1>2. QED
  BY <1>1, InitIndInv, StepIndInv, PTL DEF Spec

-----------------------------------------------------------------------------
\* What a stage has established for a call depends on that call alone.
LEMMA StageFrame ==
  ASSUME NEW e, StageOf(e),
         pc'[e] = pc[e], verdict'[e] = verdict[e], artifact'[e] = artifact[e],
         notif'[e] = notif[e]
  PROVE  StageOf(e)'
BY DEF StageOf, Untouched, Judged, Resolved

LEMMA InitStage == Init => StageInv
BY DEF Init, StageInv, StageOf, Untouched

LEMMA StepStage == TypeOK /\ StageInv /\ [Next]_vars => StageInv'
<1> SUFFICES ASSUME TypeOK, StageInv, [Next]_vars PROVE StageInv'
  OBVIOUS
<1>0. /\ pc \in [Events -> PCs] /\ verdict \in [Events -> Verdicts]
      /\ artifact \in [Events -> Artifacts]
      /\ notif \in [Events -> [Notifiers -> NotifStates]]
      /\ \A x \in Events : StageOf(x)
  BY DEF TypeOK, StageInv
<1>1. ASSUME NEW e \in Events, Upload(e) \/ Step(e)
      PROVE  StageInv'
  <2>1. ASSUME NEW x \in Events, x # e PROVE StageOf(x)'
    <3>1. /\ pc'[x] = pc[x] /\ verdict'[x] = verdict[x]
          /\ artifact'[x] = artifact[x] /\ notif'[x] = notif[x]
      BY <1>0, <1>1, <2>1 DEF Upload, Step, Enter, Acquire, Abandon, AnalyzeReturn,
         AnalyzeSucceeds, Fanout, AnalyzeFailsHard, AnalyzeGivesUp, AnalyzeBacksOff, Abort,
         BackoffFires, BackoffCancelled, SaveReturn, SendReturn, NotifyDone, Cleanup,
         Release, Exit, Goto, status
    <3>2. QED
      BY <1>0, <3>1, StageFrame
  <2>2. StageOf(e)'
    <3>0. StageOf(e)
      BY <1>0
    <3>1. CASE Upload(e)
      BY <1>0, <3>0, <3>1 DEF Upload, Goto, status, StageOf, Untouched, Judged, Resolved
    <3>2. CASE Enter(e)
      BY <1>0, <3>0, <3>2 DEF Enter, Goto, status, StageOf, Untouched, Judged, Resolved
    <3>3. CASE Acquire(e)
      BY <1>0, <3>0, <3>3 DEF Acquire, Goto, status, StageOf, Untouched, Judged, Resolved
    <3>4. CASE Abandon(e)
      BY <1>0, <3>0, <3>4 DEF Abandon, Goto, status, StageOf, Untouched, Judged, Resolved
    <3>5. CASE AnalyzeBacksOff(e)
      BY <1>0, <3>0, <3>5 DEF AnalyzeBacksOff, Goto, status, StageOf, Untouched, Judged, Resolved
    <3>6. CASE BackoffFires(e)
      BY <1>0, <3>0, <3>6 DEF BackoffFires, Goto, status, StageOf, Untouched, Judged, Resolved
    <3>7. CASE NotifyDone(e)
      BY <1>0, <3>0, <3>7 DEF NotifyDone, Goto, status, StageOf, Untouched, Judged, Resolved
    <3>8. CASE Cleanup(e)
      BY <1>0, <3>0, <3>8 DEF Cleanup, Goto, status, StageOf, Untouched, Judged, Resolved
    <3>9. CASE Release(e)
      BY <1>0, <3>0, <3>9 DEF Release, Goto, status, StageOf, Untouched, Judged, Resolved
    <3>10. CASE Exit(e)
      BY <1>0, <3>0, <3>10 DEF Exit, Goto, status, StageOf, Untouched, Judged, Resolved
    <3>11. CASE \E isThreat \in BOOLEAN : AnalyzeSucceeds(e, isThreat)
      BY <1>0, <3>0, <3>11 DEF AnalyzeSucceeds, Fanout, Goto, StageOf, Untouched, Judged,
         Resolved, Eligible
    <3>12. CASE \E from \in {"analyzing", "backoff"} : Abort(e, from)
      BY <1>0, <3>0, <3>12 DEF Abort, Goto, StageOf, Untouched, Judged, Resolved
    <3>13. CASE SaveReturn(e)
      BY <1>0, <3>0, <3>13 DEF SaveReturn, Fanout, Goto, StageOf, Untouched, Judged,
         Resolved, Eligible
    <3>14. CASE \E n \in Notifiers : SendReturn(e, n)
      BY <1>0, <3>0, <3>14 DEF SendReturn, StageOf, Untouched, Judged, Resolved
    <3>15. QED
      BY <1>1, <3>1, <3>2, <3>3, <3>4, <3>5, <3>6, <3>7, <3>8, <3>9, <3>10, <3>11, <3>12, <3>13, <3>14
      DEF Step, AnalyzeReturn, AnalyzeFailsHard, AnalyzeGivesUp, BackoffCancelled
  <2>3. QED
    BY <2>1, <2>2 DEF StageInv
<1>2. ASSUME UNCHANGED <<pc, status>>
      PROVE  StageInv'
  BY <1>0, <1>2, StageFrame DEF StageInv, status
<1>3. QED
  BY <1>1, <1>2 DEF Next, Timeout, Cancel, WaitReturn, Terminated, vars, status

\* The invariant every theorem below starts from.
FullInv == IndInv /\ StageInv

LEMMA FullInvHolds == Spec => []FullInv
<1>1. Init => FullInv
  BY InitIndInv, InitStage DEF FullInv
<1>2. FullInv /\ [Next]_vars => FullInv'
  BY StepIndInv, StepStage DEF FullInv, IndInv
<1>3. QED
  BY <1>1, <1>2, PTL DEF Spec

\* Nobody is alerted without a verdict, of an event it did not ask for, or
\* before the artifact it is given a link to has been dealt with.
THEOREM AlertsJustified == Spec => []AlertJustified
<1>1. FullInv => AlertJustified
  <2> SUFFICES ASSUME TypeOK, StageInv, NEW e \in Events, NEW n \in Notifiers,
                      notif[e][n] # "idle"
               PROVE  /\ verdict[e] \in {"threat", "clear"}
                      /\ n \in Eligible(verdict[e] = "threat")
                      /\ (verdict[e] = "threat" \/ AlwaysStore) <=> artifact[e] # "none"
    BY DEF FullInv, IndInv, AlertJustified
  <2>1. StageOf(e) /\ pc[e] \in PCs
    BY DEF StageInv, TypeOK
  <2>2. QED
    BY <2>1 DEF StageOf, Untouched, Judged, Resolved, PCs, Entered, Holding, Processing
<1>2. QED
  BY <1>1, FullInvHolds, PTL

\* A call that has left the pipeline has tried exactly the notifiers its verdict
\* entitles it to.
THEOREM OutcomesComplete == Spec => []OutcomeComplete
<1>1. FullInv => OutcomeComplete
  <2> SUFFICES ASSUME StageInv, NEW e \in Events,
                      pc[e] \in {"cleanup", "releasing", "exiting", "done"}
               PROVE  {n \in Notifiers : notif[e][n] \in {"sent", "failed"}} =
                        IF verdict[e] \in {"threat", "clear"}
                        THEN Eligible(verdict[e] = "threat") ELSE {}
    BY DEF FullInv, OutcomeComplete
  <2>1. StageOf(e) /\ Eligible(verdict[e] = "threat") \subseteq Notifiers
    BY NotifiersAssumption DEF StageInv, Eligible
  <2>2. CASE Judged(e)
    BY <2>1, <2>2 DEF StageOf, Judged, Resolved
  <2>3. CASE ~Judged(e)
    BY <2>1, <2>3 DEF StageOf, Judged, Untouched
  <2>4. QED
    BY <2>2, <2>3
<1>2. QED
  BY <1>1, FullInvHolds, PTL

-----------------------------------------------------------------------------
\* How a step shows through the refinement mapping.
LEMMA PhaseMove ==
  ASSUME pc \in [Events -> PCs], NEW e \in Events, NEW from, NEW to, Goto(e, from, to)
  PROVE  /\ phaseBar[e] = PhaseOf(from)
         /\ phaseBar' = [phaseBar EXCEPT ![e] = PhaseOf(to)]
         /\ PhaseOf(to) = PhaseOf(from) => phaseBar' = phaseBar
BY DEF Goto, phaseBar

LEMMA PhaseValues ==
  /\ PhaseOf("waiting") = "queued"
  /\ PhaseOf("analyzing") = "active" /\ PhaseOf("releasing") = "active"
  /\ PhaseOf("exiting") = "finished"
BY DEF PhaseOf, Holding, Processing

LEMMA AlertedStays ==
  ASSUME UNCHANGED notif
  PROVE  alertedBar' = alertedBar
BY DEF alertedBar

\* While the artifact is stored, as while it is analysed, nobody has been tried:
\* starting the notifiers' goroutines shows nothing to the abstract specification.
LEMMA FanoutHidden ==
  ASSUME TypeOK, StageInv, NEW e \in Events, pc[e] \in {"analyzing", "storing"},
         NEW isThreat \in BOOLEAN, Fanout(e, isThreat)
  PROVE  alertedBar' = alertedBar
<1>1. \A x \in Events, n \in Notifiers :
         notif'[x][n] \in {"sent", "failed"} <=> notif[x][n] \in {"sent", "failed"}
  BY DEF TypeOK, StageInv, StageOf, Untouched, Fanout
<1>2. QED
  BY <1>1 DEF alertedBar

LEMMA RefinesInit == Init => Lifecycle!ALInit
BY DEF Init, Lifecycle!ALInit, phaseBar, PhaseOf, alertedBar

LEMMA RefinesStep == FullInv /\ [Next]_vars => [Lifecycle!ALNext]_(Lifecycle!alvars)
<1> SUFFICES ASSUME FullInv, [Next]_vars
             PROVE  Lifecycle!ALNext \/ UNCHANGED <<phaseBar, verdict, alertedBar>>
  BY DEF Lifecycle!alvars
<1>0. /\ TypeOK /\ StageInv /\ PermitsBalanced
      /\ pc \in [Events -> PCs] /\ verdict \in [Events -> Verdicts]
      /\ notif \in [Events -> [Notifiers -> NotifStates]]
      /\ \A x \in Events : StageOf(x)
  BY DEF FullInv, IndInv, TypeOK, StageInv
<1>1. ASSUME NEW e \in Events, Upload(e) \/ Step(e)
      PROVE  Lifecycle!ALNext \/ UNCHANGED <<phaseBar, verdict, alertedBar>>
  <2>0. StageOf(e)
    BY <1>0
  <2>1. CASE Upload(e)
    <3>1. Goto(e, "new", "spawned") /\ UNCHANGED <<verdict, notif>>
      BY <2>1 DEF Upload, status
    <3>2. Lifecycle!Accept(e)
      BY <1>0, <3>1, PhaseMove, AlertedStays DEF Lifecycle!Accept, Lifecycle!Move, PhaseOf, Holding, Processing
    <3>3. QED
      BY <3>2 DEF Lifecycle!ALNext
  <2>2. CASE Enter(e)
    <3>1. Goto(e, "spawned", "waiting") /\ UNCHANGED <<verdict, notif>>
      BY <2>2 DEF Enter, status
    <3>2. QED
      BY <1>0, <3>1, PhaseMove, AlertedStays DEF PhaseOf, Holding, Processing
  <2>3. CASE Abandon(e)
    <3>1. Goto(e, "waiting", "exiting") /\ UNCHANGED <<verdict, notif>>
      BY <2>3 DEF Abandon, status
    <3>2. Lifecycle!Drop(e)
      BY <1>0, <3>1, PhaseMove, AlertedStays DEF Lifecycle!Drop, Lifecycle!Move, PhaseOf, Holding, Processing
    <3>3. QED
      BY <3>2 DEF Lifecycle!ALNext
  <2>4. CASE AnalyzeBacksOff(e)
    <3>1. Goto(e, "analyzing", "backoff") /\ UNCHANGED <<verdict, notif>>
      BY <2>4 DEF AnalyzeBacksOff, status
    <3>2. PhaseOf("analyzing") = PhaseOf("backoff")
      BY DEF PhaseOf, Holding, Processing
    <3>3. QED
      BY <1>0, <3>1, <3>2, PhaseMove, AlertedStays
  <2>5. CASE BackoffFires(e)
    <3>1. Goto(e, "backoff", "analyzing") /\ UNCHANGED <<verdict, notif>>
      BY <2>5 DEF BackoffFires, status
    <3>2. QED
      BY <1>0, <3>1, PhaseMove, AlertedStays DEF PhaseOf, Holding, Processing
  <2>6. CASE NotifyDone(e)
    <3>1. Goto(e, "notifying", "cleanup") /\ UNCHANGED <<verdict, notif>>
      BY <2>6 DEF NotifyDone, status
    <3>2. QED
      BY <1>0, <3>1, PhaseMove, AlertedStays DEF PhaseOf, Holding, Processing
  <2>7. CASE Cleanup(e)
    <3>1. Goto(e, "cleanup", "releasing") /\ UNCHANGED <<verdict, notif>>
      BY <2>7 DEF Cleanup, status
    <3>2. QED
      BY <1>0, <3>1, PhaseMove, AlertedStays DEF PhaseOf, Holding, Processing
  <2>8. CASE Exit(e)
    <3>1. Goto(e, "exiting", "done") /\ UNCHANGED <<verdict, notif>>
      BY <2>8 DEF Exit, status
    <3>2. QED
      BY <1>0, <3>1, PhaseMove, AlertedStays DEF PhaseOf, Holding, Processing
  <2>9. CASE Acquire(e)
    <3>1. Goto(e, "waiting", "analyzing") /\ sem < Capacity /\ UNCHANGED <<verdict, notif>>
      BY <2>9 DEF Acquire, status
    <3>2. {v \in Events : phaseBar[v] = "active"} = {x \in Events : pc[x] \in Holding}
      BY <1>0 DEF phaseBar, PhaseOf, Holding, Processing
    <3>3. Cardinality({v \in Events : phaseBar[v] = "active"}) < Capacity
      BY <1>0, <3>1, <3>2 DEF PermitsBalanced
    <3>4. Lifecycle!Move(e, "queued", "active")
      <4>1. /\ phaseBar[e] = PhaseOf("waiting")
            /\ phaseBar' = [phaseBar EXCEPT ![e] = PhaseOf("analyzing")]
        BY <1>0, <3>1, PhaseMove
      <4>2. QED
        BY <4>1, PhaseValues DEF Lifecycle!Move
    <3>5. UNCHANGED <<verdict, alertedBar>>
      BY <3>1, AlertedStays
    <3>6. \A S : Lifecycle!Cardinality(S) = Cardinality(S)
      BY DEF Lifecycle!Cardinality, Cardinality
    <3>7. Lifecycle!Begin(e)
      BY <3>3, <3>4, <3>5, <3>6 DEF Lifecycle!Begin
    <3>8. QED
      BY <3>7 DEF Lifecycle!ALNext
  <2>10. CASE \E isThreat \in BOOLEAN : AnalyzeSucceeds(e, isThreat)
    <3> PICK isThreat \in BOOLEAN : AnalyzeSucceeds(e, isThreat)
      BY <2>10
    <3>1. pc[e] = "analyzing" /\ phaseBar[e] = "active" /\ phaseBar' = phaseBar
      BY <1>0, PhaseMove DEF AnalyzeSucceeds, Goto, PhaseOf, Holding, Processing
    <3>2. alertedBar' = alertedBar
      BY <1>0, <3>1, AlertedStays, FanoutHidden DEF AnalyzeSucceeds
    <3>3. Lifecycle!Decide(e)
      BY <1>0, <2>0, <3>1, <3>2 DEF AnalyzeSucceeds, Lifecycle!Decide, StageOf
    <3>4. QED
      BY <3>3 DEF Lifecycle!ALNext
  <2>11. CASE \E from \in {"analyzing", "backoff"} : Abort(e, from)
    <3> PICK from \in {"analyzing", "backoff"} : Abort(e, from)
      BY <2>11
    <3>1. pc[e] = from /\ phaseBar[e] = "active" /\ phaseBar' = phaseBar
      BY <1>0, PhaseMove DEF Abort, Goto, PhaseOf, Holding, Processing
    <3>2. Lifecycle!Decide(e)
      BY <1>0, <2>0, <3>1, AlertedStays DEF Abort, Lifecycle!Decide, StageOf
    <3>3. QED
      BY <3>2 DEF Lifecycle!ALNext
  <2>12. CASE SaveReturn(e)
    <3>1. pc[e] = "storing" /\ phaseBar' = phaseBar /\ UNCHANGED verdict
      BY <1>0, <2>12, PhaseMove DEF SaveReturn, Goto, PhaseOf, Holding, Processing
    <3>2. QED
      BY <1>0, <2>12, <3>1, FanoutHidden DEF SaveReturn
  <2>13. CASE \E m \in Notifiers : SendReturn(e, m)
    <3> PICK m \in Notifiers : SendReturn(e, m)
      BY <2>13
    <3>1. /\ pc[e] = "notifying" /\ notif[e][m] = "sending" /\ UNCHANGED <<pc, verdict>>
          /\ \E r \in {"sent", "failed"} : notif' = [notif EXCEPT ![e][m] = r]
      BY DEF SendReturn
    <3>2. phaseBar[e] = "active" /\ phaseBar' = phaseBar
      BY <1>0, <3>1 DEF phaseBar, PhaseOf, Holding, Processing
    <3>3. m \in Lifecycle!Wanted(e)
      BY <2>0, <3>1 DEF StageOf, Judged, Resolved, Eligible, Lifecycle!Wanted
    <3>4. m \notin alertedBar[e] /\ alertedBar' = [alertedBar EXCEPT ![e] = @ \cup {m}]
      <4>1. \A x \in Events, n \in Notifiers :
              notif'[x][n] \in {"sent", "failed"} <=>
                notif[x][n] \in {"sent", "failed"} \/ (x = e /\ n = m)
        BY <1>0, <3>1
      <4>2. \A x \in Events : x # e => alertedBar'[x] = alertedBar[x]
        BY <4>1 DEF alertedBar
      <4>3. alertedBar'[e] = alertedBar[e] \cup {m}
        BY <4>1 DEF alertedBar
      <4>4. QED
        BY <3>1, <4>2, <4>3 DEF alertedBar
    <3>5. Lifecycle!Alert(e, m)
      BY <3>1, <3>2, <3>3, <3>4 DEF Lifecycle!Alert
    <3>6. QED
      BY <3>5 DEF Lifecycle!ALNext
  <2>14. CASE Release(e)
    <3>1. Goto(e, "releasing", "exiting") /\ pc[e] = "releasing" /\ UNCHANGED <<verdict, notif>>
      BY <2>14 DEF Release, Goto, status
    <3>2. Lifecycle!Wanted(e) \subseteq Notifiers
      BY NotifiersAssumption DEF Lifecycle!Wanted
    <3>3. verdict[e] # "none" /\ alertedBar[e] = Lifecycle!Wanted(e)
      BY <1>0, <2>0, <3>1, <3>2 DEF StageOf, Judged, Resolved, Untouched, Eligible,
         Verdicts, alertedBar, Lifecycle!Wanted
    <3>4. Lifecycle!Move(e, "active", "finished")
      BY <1>0, <3>1, PhaseMove, PhaseValues DEF Lifecycle!Move
    <3>5. Lifecycle!Finish(e)
      BY <3>1, <3>3, <3>4, AlertedStays DEF Lifecycle!Finish
    <3>6. QED
      BY <3>5 DEF Lifecycle!ALNext
  <2>15. QED
    BY <1>1, <2>1, <2>2, <2>3, <2>4, <2>5, <2>6, <2>7, <2>8, <2>9, <2>10, <2>11, <2>12, <2>13, <2>14
    DEF Step, AnalyzeReturn, AnalyzeFailsHard, AnalyzeGivesUp, BackoffCancelled
<1>2. ASSUME UNCHANGED <<pc, status>>
      PROVE  UNCHANGED <<phaseBar, verdict, alertedBar>>
  BY <1>2 DEF status, phaseBar, alertedBar
<1>3. QED
  BY <1>1, <1>2 DEF Next, Timeout, Cancel, WaitReturn, Terminated, vars, status

\* The coordinator implements EventLifecycle: each upload is processed or dropped
\* once, at most Capacity at a time, and is finished only when all who wanted its
\* verdict have been tried.
THEOREM Refinement == Spec => LifecycleSpec
<1>1. Spec => Lifecycle!ALInit /\ [][Lifecycle!ALNext]_(Lifecycle!alvars)
  BY RefinesInit, RefinesStep, FullInvHolds, PTL DEF Spec
<1>2. QED
  BY <1>1 DEF LifecycleSpec, Lifecycle!ALSpec

-----------------------------------------------------------------------------
\* If every call has a file of its own, no stage of the pipeline ever finds its
\* file gone: whatever is removed, and whenever the shutdown comes, is removed by
\* a call that is past its own pipeline.
DistinctFiles == \A d, e \in Events : FileOf[d] = FileOf[e] => d = e
Queued == {"spawned", "waiting"}
FilePresent == \A e \in Events : pc[e] \in Queued \cup Processing \cup {"cleanup"} => FileOf[e] \in disk

LEMMA StepFilePresent ==
  ASSUME DistinctFiles PROVE TypeOK /\ FilePresent /\ [Next]_vars => FilePresent'
<1> SUFFICES ASSUME TypeOK, FilePresent, [Next]_vars,
                    NEW x \in Events, pc'[x] \in Queued \cup Processing \cup {"cleanup"}
             PROVE  FileOf[x] \in disk'
  BY DEF FilePresent
<1>0. pc \in [Events -> PCs]
  BY DEF TypeOK
<1>1. pc[x] \in Queued \cup Processing \cup {"cleanup"} => FileOf[x] \in disk
  BY DEF FilePresent
<1>2. CASE \E e \in Events : Upload(e)
  BY <1>0, <1>1, <1>2 DEF Upload, Goto
<1>3. CASE \E e \in Events : Abandon(e) \/ Cleanup(e)
  BY <1>0, <1>1, <1>3, DistinctFiles
  DEF Abandon, Cleanup, Goto, RemoveFile, DistinctFiles, Queued, Processing
<1>4. ASSUME UNCHANGED disk, pc[x] \in Queued \cup Processing \cup {"cleanup"}
      PROVE  FileOf[x] \in disk'
  BY <1>1, <1>4
<1>5. ASSUME NEW e \in Events, Step(e), ~Abandon(e), ~Cleanup(e)
      PROVE  UNCHANGED disk /\ pc[x] \in Queued \cup Processing \cup {"cleanup"}
  BY <1>0, <1>5 DEF Step, Enter, Acquire, AnalyzeReturn, AnalyzeSucceeds, AnalyzeFailsHard,
     AnalyzeGivesUp, AnalyzeBacksOff, Abort, BackoffFires, BackoffCancelled, SaveReturn,
     SendReturn, NotifyDone, Release, Exit, Goto, Queued, Processing
<1>6. CASE UNCHANGED <<pc, disk>>
  BY <1>4, <1>6
<1>7. QED
  BY <1>2, <1>3, <1>4, <1>5, <1>6 DEF Next, Timeout, Cancel, WaitReturn, Terminated, vars

LEMMA FilesPresent == ASSUME DistinctFiles PROVE Spec => []FilePresent
<1>1. Init => FilePresent
  BY DEF Init, FilePresent, Queued, Processing
<1>2. QED
  BY <1>1, StepFilePresent, TypeCorrect, PTL DEF Spec

\* The analyzer, the storage and the notifiers always find the file of their event.
THEOREM ArtifactsAvailable == ASSUME DistinctFiles PROVE Spec => []ArtifactAvailable
<1>1. FilePresent => ArtifactAvailable
  BY DEF FilePresent, ArtifactAvailable
<1>2. QED
  BY <1>1, FilesPresent, PTL

-----------------------------------------------------------------------------
\* What leaves the pipeline leaves its file to nobody: it is removed, or the removal
\* has failed, or it is retained on purpose.
THEOREM NothingLeft == ASSUME DistinctFiles PROVE Spec => []NoLeftovers
<1> DEFINE Past(x) == pc[x] \in {"releasing", "exiting", "done"}
           Kept(x) == RetainFiles /\ verdict[x] # "none"
<1>1. Init => NoLeftovers
  BY DEF Init, NoLeftovers
<1>2. TypeOK /\ StageInv /\ NoLeftovers /\ [Next]_vars => NoLeftovers'
  <2> SUFFICES ASSUME TypeOK, StageInv, NoLeftovers, [Next]_vars,
                      NEW x \in Events, Past(x)', FileOf[x] \in disk' \ stuck'
               PROVE  Kept(x)'
    BY DEF NoLeftovers
  <2>0. /\ pc \in [Events -> PCs] /\ verdict \in [Events -> Verdicts]
        /\ RetainFiles \in BOOLEAN
    BY ConfigAssumption DEF TypeOK
  <2>1. Past(x) /\ FileOf[x] \in disk \ stuck => Kept(x)
    BY DEF NoLeftovers
  <2>2. pc[x] \in {"cleanup", "releasing"} => verdict[x] # "none"
    BY DEF StageInv, StageOf
  <2>3. CASE \E e \in Events : Upload(e)
    <3>1. PICK e \in Events : Upload(e)
      BY <2>3
    <3>2. Past(x) /\ x # e /\ UNCHANGED <<stuck, verdict>> /\ disk' = disk \cup {FileOf[e]}
      BY <2>0, <3>1 DEF Upload, Goto, status
    <3>3. QED
      BY <2>1, <3>2, DistinctFiles DEF DistinctFiles
  <2>4. CASE \E e \in Events : Abandon(e) \/ Cleanup(e)
    BY <2>0, <2>1, <2>2, <2>4 DEF Abandon, Cleanup, Goto, RemoveFile, status
  <2>5. ASSUME NEW e \in Events, Step(e), ~Abandon(e), ~Cleanup(e)
        PROVE  UNCHANGED <<disk, stuck>> /\ Past(x) /\ verdict'[x] = verdict[x]
    BY <2>0, <2>5 DEF Step, Enter, Acquire, AnalyzeReturn, AnalyzeSucceeds, AnalyzeFailsHard,
       AnalyzeGivesUp, AnalyzeBacksOff, Abort, BackoffFires, BackoffCancelled, SaveReturn,
       SendReturn, NotifyDone, Release, Exit, Goto, status
  <2>6. CASE UNCHANGED <<pc, disk, stuck, verdict>>
    BY <2>1, <2>6
  <2>7. QED
    BY <2>1, <2>3, <2>4, <2>5, <2>6
    DEF Next, Timeout, Cancel, WaitReturn, Terminated, vars, status
<1>3. QED
  BY <1>1, <1>2, FullInvHolds, PTL DEF Spec, FullInv, IndInv

\* What is to be retained is never removed, by its own call or by another's.
THEOREM RetentionKept == ASSUME DistinctFiles PROVE Spec => []RetainedFilesStay
<1>1. Init => RetainedFilesStay
  BY DEF Init, RetainedFilesStay
<1>2. TypeOK /\ StageInv /\ FilePresent /\ RetainedFilesStay /\ [Next]_vars => RetainedFilesStay'
  <2> SUFFICES ASSUME TypeOK, StageInv, FilePresent, RetainedFilesStay, [Next]_vars,
                      NEW x \in Events, RetainFiles, verdict'[x] # "none"
               PROVE  FileOf[x] \in disk'
    BY DEF RetainedFilesStay
  <2>0. pc \in [Events -> PCs] /\ verdict \in [Events -> Verdicts]
    BY DEF TypeOK
  <2>1. verdict[x] # "none" => FileOf[x] \in disk
    BY DEF RetainedFilesStay
  <2>2. pc[x] \in Processing => FileOf[x] \in disk
    BY DEF FilePresent
  <2>3. CASE \E e \in Events : Abandon(e)
    <3>1. PICK e \in Events : Abandon(e)
      BY <2>3
    <3>2. verdict[e] = "none" /\ verdict' = verdict /\ disk \ {FileOf[e]} \subseteq disk'
      BY <3>1 DEF Abandon, Goto, RemoveFile, StageInv, StageOf, status
    <3>3. FileOf[x] # FileOf[e]
      BY <3>2, DistinctFiles DEF DistinctFiles
    <3>4. QED
      BY <2>1, <3>2, <3>3
  <2>4. ASSUME NEW e \in Events, Upload(e) \/ Step(e), ~Abandon(e)
        PROVE  /\ disk \subseteq disk'
               /\ verdict'[x] # verdict[x] => pc[x] \in Processing
    BY <2>0, <2>4 DEF Upload, Step, Enter, Acquire, AnalyzeReturn, AnalyzeSucceeds,
       AnalyzeFailsHard, AnalyzeGivesUp, AnalyzeBacksOff, Abort, BackoffFires, BackoffCancelled,
       SaveReturn, SendReturn, NotifyDone, Cleanup, Release, Exit, Goto, Processing, status
  <2>5. CASE UNCHANGED <<disk, verdict>>
    BY <2>1, <2>5
  <2>6. QED
    BY <2>1, <2>2, <2>3, <2>4, <2>5
    DEF Next, Timeout, Cancel, WaitReturn, Terminated, vars, status
<1>3. QED
  BY <1>1, <1>2, FullInvHolds, FilesPresent, PTL DEF Spec, FullInv, IndInv

-----------------------------------------------------------------------------
\* After its context is done a call starts at most one more analysis: the one that
\* select let through with its permit, or the one whose timer won against the
\* context.
LateInv ==
  \A e \in Events :
    /\ late[e] \in {0, 1}
    /\ pc[e] \in {"new", "spawned", "waiting", "backoff"} => late[e] = 0
    /\ pc[e] = "analyzing" /\ late[e] = 1 => CtxDone(e)

LEMMA LateInvHolds == Spec => []LateInv
<1>1. Init => LateInv
  BY DEF Init, LateInv
<1>2. TypeOK /\ LateInv /\ [Next]_vars => LateInv'
  <2> SUFFICES ASSUME TypeOK, LateInv, [Next]_vars, NEW x \in Events
               PROVE  /\ late'[x] \in {0, 1}
                      /\ pc'[x] \in {"new", "spawned", "waiting", "backoff"} => late'[x] = 0
                      /\ pc'[x] = "analyzing" /\ late'[x] = 1 => CtxDone(x)'
    BY DEF LateInv
  <2>0. /\ pc \in [Events -> PCs] /\ late \in [Events -> Nat]
        /\ expired \in [Events -> BOOLEAN] /\ cancelled \in BOOLEAN
    BY DEF TypeOK
  <2>1. /\ late[x] \in {0, 1}
        /\ pc[x] \in {"new", "spawned", "waiting", "backoff"} => late[x] = 0
        /\ pc[x] = "analyzing" /\ late[x] = 1 => CtxDone(x)
    BY DEF LateInv
  <2>2. CASE \E e \in Events : Acquire(e) \/ BackoffFires(e)
    BY <2>0, <2>1, <2>2 DEF Acquire, BackoffFires, CountLate, CtxDone, Goto
  <2>3. ASSUME NEW e \in Events, Upload(e) \/ Step(e) \/ Timeout(e),
               ~Acquire(e), ~BackoffFires(e)
        PROVE  /\ late'[x] = late[x]
               /\ CtxDone(x) => CtxDone(x)'
               /\ \/ pc'[x] = pc[x]
                  \/ pc'[x] \notin {"new", "spawned", "waiting", "backoff", "analyzing"}
                  \/ pc[x] \in {"new", "spawned"} /\ pc'[x] # "analyzing"
                  \/ pc[x] = "analyzing" /\ ~CtxDone(x) /\ pc'[x] = "backoff"
    BY <2>0, <2>3 DEF Upload, Step, Timeout, Enter, Abandon, AnalyzeReturn, AnalyzeSucceeds,
       AnalyzeFailsHard, AnalyzeGivesUp, AnalyzeBacksOff, Abort, BackoffCancelled, SaveReturn,
       SendReturn, NotifyDone, Cleanup, Release, Exit, Goto, CtxDone
  <2>4. CASE Cancel \/ WaitReturn \/ UNCHANGED vars
    BY <2>0, <2>1, <2>4 DEF Cancel, WaitReturn, vars, CtxDone
  <2>5. QED
    BY <2>1, <2>2, <2>3, <2>4 DEF Next, Terminated
<1>3. QED
  BY <1>1, <1>2, TypeCorrect, PTL DEF Spec

\* A shutdown or a deadline is never answered with a series of further analyses.
THEOREM LateBounded == Spec => []LateAnalysesBounded
<1>1. LateInv => LateAnalysesBounded
  BY DEF LateInv, LateAnalysesBounded
<1>2. QED
  BY <1>1, LateInvHolds, PTL

-----------------------------------------------------------------------------
\* When Wait returns, no call that had registered is anywhere between its first
\* line and its last.
THEOREM WaitDrained == Spec => WaitDrains
<1>1. IndInv /\ WaitReturn => \A e \in Events : pc[e] \in {"new", "spawned", "done"}
  <2> SUFFICES ASSUME IndInv, WaitReturn, NEW e \in Events
               PROVE  pc[e] \in {"new", "spawned", "done"}
    OBVIOUS
  <2>1. IsFiniteSet({x \in Events : pc[x] \in Entered})
    BY EventsAssumption, FS_Subset
  <2>2. {x \in Events : pc[x] \in Entered} = {}
    BY <2>1, FS_EmptySet DEF IndInv, PermitsBalanced, WaitReturn
  <2>3. pc[e] \in PCs \ Entered
    BY <2>2 DEF IndInv, TypeOK
  <2>4. QED
    BY <2>3 DEF PCs
<1>2. IndInv /\ [Next]_vars => [WaitReturn => \A e \in Events : pc[e] \in {"new", "spawned", "done"}]_vars
  BY <1>1
<1>3. QED
  BY <1>2, InitIndInv, StepIndInv, PTL DEF Spec, WaitDrains
-----------------------------------------------------------------------------
\* How far a call has come. A second analysis is the one step back there is, and
\* under a done context it is counted by late.
Place(p) ==
  CASE p = "new" -> 0 [] p = "spawned" -> 1 [] p = "waiting" -> 2 [] p = "analyzing" -> 3
    [] p = "backoff" -> 4 [] p = "storing" -> 5 [] p = "notifying" -> 6 [] p = "cleanup" -> 7
    [] p = "releasing" -> 8 [] p = "exiting" -> 9 [] p = "done" -> 10
Progress(e) == Place(pc[e]) + 2 * late[e]

\* The shutdown is a matter of finitely many steps: once the context is cancelled
\* every step of a call takes it forward, the retry loop included, no notifier is
\* used twice, and nothing is left to do after the twelfth.
ShutdownAdvances ==
  [][\A e \in Events :
       cancelled =>
         /\ Progress(e)' \in 0..12
         /\ pc'[e] # pc[e] => Progress(e)' > Progress(e)
         /\ \A n \in Notifiers :
              notif'[e][n] # notif[e][n] =>
                \/ notif[e][n] = "sending" /\ notif'[e][n] \in {"sent", "failed"}
                \/ notif[e][n] = "idle" /\ pc[e] # "notifying" /\ pc'[e] = "notifying"]_vars
LEMMA ProgressRange ==
  ASSUME NEW p \in PCs, NEW k \in {0, 1}
  PROVE  Place(p) + 2 * k \in 0..12
<1>1. Place(p) \in 0..10
  BY DEF Place, PCs, Entered, Holding, Processing
<1>2. QED
  BY <1>1

\* A step of one call takes it forward, and leaves the others where they are.
LEMMA StepAdvances ==
  ASSUME TypeOK, cancelled, NEW e \in Events, Upload(e) \/ Step(e), NEW x \in Events,
         pc'[x] # pc[x]
  PROVE  Progress(x)' > Progress(x)
<1>0. pc \in [Events -> PCs] /\ late \in [Events -> Nat]
  BY DEF TypeOK
<1>1. x = e /\ pc' = [pc EXCEPT ![e] = pc'[e]]
  BY <1>0 DEF Upload, Step, Enter, Acquire, Abandon, AnalyzeReturn, AnalyzeSucceeds, AnalyzeFailsHard,
     AnalyzeGivesUp, AnalyzeBacksOff, Abort, BackoffFires, BackoffCancelled, SaveReturn,
     SendReturn, NotifyDone, Cleanup, Release, Exit, Goto
<1>2. CASE BackoffFires(e)
  <2>1. pc[e] = "backoff" /\ pc'[e] = "analyzing" /\ late'[e] = late[e] + 1
    BY <1>0, <1>2 DEF BackoffFires, Goto, CountLate, CtxDone
  <2>2. QED
    BY <1>0, <1>1, <2>1 DEF Progress, Place
<1>3. CASE ~BackoffFires(e)
  <2>1. late'[e] = late[e] \/ late'[e] = late[e] + 1
    <3>1. CASE Acquire(e)
      BY <1>0, <3>1 DEF Acquire, CountLate
    <3>2. CASE ~Acquire(e)
      BY <1>3, <3>2 DEF Upload, Step, Enter, Abandon, AnalyzeReturn, AnalyzeSucceeds,
         AnalyzeFailsHard, AnalyzeGivesUp, AnalyzeBacksOff, Abort, BackoffCancelled, SaveReturn,
         SendReturn, NotifyDone, Cleanup, Release, Exit
    <3>3. QED
      BY <3>1, <3>2
  <2>2. \/ pc[e] = "new" /\ pc'[e] = "spawned"
        \/ pc[e] = "spawned" /\ pc'[e] = "waiting"
        \/ pc[e] = "waiting" /\ pc'[e] \in {"analyzing", "exiting"}
        \/ pc[e] = "analyzing" /\ pc'[e] \in {"backoff", "storing", "notifying", "cleanup"}
        \/ pc[e] = "backoff" /\ pc'[e] = "cleanup"
        \/ pc[e] = "storing" /\ pc'[e] = "notifying"
        \/ pc[e] = "notifying" /\ pc'[e] = "cleanup"
        \/ pc[e] = "cleanup" /\ pc'[e] = "releasing"
        \/ pc[e] = "releasing" /\ pc'[e] = "exiting"
        \/ pc[e] = "exiting" /\ pc'[e] = "done"
    BY <1>0, <1>1, <1>3 DEF Upload, Step, Enter, Acquire, Abandon, AnalyzeReturn, AnalyzeSucceeds,
       AnalyzeFailsHard, AnalyzeGivesUp, AnalyzeBacksOff, Abort, BackoffCancelled, SaveReturn,
       SendReturn, NotifyDone, Cleanup, Release, Exit, Goto
  <2>3. Place(pc'[e]) > Place(pc[e]) /\ Place(pc'[e]) \in Nat /\ Place(pc[e]) \in Nat
    BY <2>2 DEF Place
  <2>4. QED
    BY <1>0, <1>1, <2>1, <2>3 DEF Progress
<1>4. QED
  BY <1>2, <1>3

\* A notifier's goroutine is started once, by the step that leads to the fan-out, and
\* ends once.
LEMMA StepNotifies ==
  ASSUME TypeOK, StageInv, NEW e \in Events, Upload(e) \/ Step(e), NEW x \in Events,
         NEW n \in Notifiers, notif'[x][n] # notif[x][n]
  PROVE  \/ notif[x][n] = "sending" /\ notif'[x][n] \in {"sent", "failed"}
         \/ notif[x][n] = "idle" /\ pc[x] # "notifying" /\ pc'[x] = "notifying"
<1>0. pc \in [Events -> PCs] /\ notif \in [Events -> [Notifiers -> NotifStates]]
  BY DEF TypeOK
<1>1. CASE \E k \in Notifiers : SendReturn(e, k)
  BY <1>0, <1>1 DEF SendReturn
<1>2. CASE SaveReturn(e) \/ \E isThreat \in BOOLEAN : AnalyzeSucceeds(e, isThreat)
  <2>1. /\ x = e /\ pc[e] \in {"storing", "analyzing"} /\ pc'[e] = "notifying"
    BY <1>0, <1>2 DEF SaveReturn, AnalyzeSucceeds, Fanout, Goto
  <2>2. notif[e][n] = "idle"
    BY <2>1 DEF StageInv, StageOf, Untouched
  <2>3. QED
    BY <2>1, <2>2
<1>3. QED
  BY <1>1, <1>2 DEF Upload, Step, Enter, Acquire, Abandon, AnalyzeReturn, AnalyzeFailsHard,
     AnalyzeGivesUp, AnalyzeBacksOff, Abort, BackoffFires, BackoffCancelled, NotifyDone,
     Cleanup, Release, Exit, status

\* The safety half of what a shutdown promises: whatever the stages answer and when
\* the timers fire, a call runs out of steps.
THEOREM ShutdownSteps == Spec => ShutdownAdvances
<1> DEFINE Advance(e) ==
       cancelled =>
         /\ Progress(e)' \in 0..12
         /\ pc'[e] # pc[e] => Progress(e)' > Progress(e)
         /\ \A n \in Notifiers :
              notif'[e][n] # notif[e][n] =>
                \/ notif[e][n] = "sending" /\ notif'[e][n] \in {"sent", "failed"}
                \/ notif[e][n] = "idle" /\ pc[e] # "notifying" /\ pc'[e] = "notifying"
<1>1. TypeOK /\ StageInv /\ TypeOK' /\ LateInv' /\ [Next]_vars =>
        [\A e \in Events : Advance(e)]_vars
  <2> SUFFICES ASSUME TypeOK, StageInv, TypeOK', LateInv', [Next]_vars, NEW x \in Events, cancelled
               PROVE  Advance(x)
    OBVIOUS
  <2>1. Progress(x)' \in 0..12
    <3>1. pc'[x] \in PCs /\ late'[x] \in {0, 1}
      BY DEF TypeOK, LateInv
    <3>2. QED
      BY <3>1, ProgressRange DEF Progress
  <2>2. ASSUME NEW e \in Events, Upload(e) \/ Step(e)
        PROVE  Advance(x)
    BY <2>1, <2>2, StepAdvances, StepNotifies
  <2>3. CASE UNCHANGED <<pc, notif>>
    BY <2>1, <2>3
  <2>4. QED
    BY <2>2, <2>3 DEF Next, Timeout, Cancel, WaitReturn, Terminated, vars, status
<1>2. QED
  BY <1>1, TypeCorrect, FullInvHolds, LateInvHolds, PTL DEF Spec, FullInv, ShutdownAdvances
-----------------------------------------------------------------------------
\* Whoever waits waits for somebody: a call for a permit that another call holds
\* and will release, Wait for a call that has registered and will leave. A leaked
\* permit or a counter that is never given back would leave them waiting for good.
WaitsForSomebody ==
  /\ \A e \in Events :
       pc[e] = "waiting" /\ sem >= Capacity => \E x \in Events \ {e} : pc[x] \in Holding
  /\ wg # 0 => \E x \in Events : pc[x] \in Entered

\* No interleaving of early returns, failures and timeouts leaves a call, or Wait,
\* waiting for a permit or a Done that nobody is there to give.
THEOREM NobodyWaitsForNobody == Spec => []WaitsForSomebody
<1>1. IndInv => WaitsForSomebody
  <2> SUFFICES ASSUME IndInv PROVE WaitsForSomebody
    OBVIOUS
  <2>1. Capacity > 0
    BY ConfigAssumption DEF Capacity
  <2>2. sem \in Int /\ Capacity \in Int
    BY ConfigAssumption DEF IndInv, TypeOK, Capacity
  <2>3. ASSUME sem >= Capacity PROVE \E x \in Events : pc[x] \in Holding
    <3>1. sem # 0
      BY <2>1, <2>2, <2>3
    <3>2. {x \in Events : pc[x] \in Holding} # {}
      BY <3>1, FS_EmptySet DEF IndInv, PermitsBalanced
    <3>3. QED
      BY <3>2
  <2>4. ASSUME wg # 0 PROVE \E x \in Events : pc[x] \in Entered
    <3>1. {x \in Events : pc[x] \in Entered} # {}
      BY <2>4, FS_EmptySet DEF IndInv, PermitsBalanced
    <3>2. QED
      BY <3>1
  <2>5. "waiting" \notin Holding
    BY DEF Holding, Processing
  <2>6. QED
    BY <2>3, <2>4, <2>5 DEF WaitsForSomebody
<1>2. QED
  BY <1>1, InitIndInv, StepIndInv, PTL DEF Spec
=============================================================================
