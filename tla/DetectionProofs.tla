-------------------------- MODULE DetectionProofs --------------------------
(***************************************************************************)
(* What the analysis of one event promises, proved for every size limit,   *)
(* configuration and course of failures: by one inductive invariant that   *)
(* says what an attempt has seen and answered at every stage of the chain. *)
(***************************************************************************)
EXTENDS Detection, TLAPS

\* An attempt that still runs has no result, and its analysis no answer yet; one
\* that waits to be retried failed softly, in one stage or the other.
RunningInv ==
  /\ stage # "over" => outcome = "none"
  /\ stage \in Stages => answer = "none"
  /\ stage = "retry" => answer \in {"none", "soft"}

\* What the ghosts know is from a prefilter there is.
SeenInv == (seen => everSeen) /\ (everSeen => HasPrefilter)

\* What a Gemini stage is about to read of a file nobody else touches was measured.
MeasuredInv ==
  ~shared /\ stage \in Stages /\ step = "read" => size <= MaxArtifact

Promises == FailSecure /\ ClearIsAnswered /\ AnalysisHasContext /\ MemoryBounded

DInv == TypeOK /\ RunningInv /\ SeenInv /\ MeasuredInv /\ Promises

LEMMA InitInv == Init => DInv
<1> SUFFICES ASSUME Init PROVE DInv
  OBVIOUS
<1>1. stage \in Stages /\ (HasPrefilter => stage = "prefilter")
  BY DEF Init, First, Stages
<1>2. TypeOK
  <2>1. kind \in [prefilter : Kinds \cup {"absent"}, analysis : Kinds]
    BY DEF Init
  <2>2. size \in Sizes /\ data \in Sizes
    BY SizeAssumption DEF Init, Sizes
  <2> QED BY <1>1, <2>1, <2>2 DEF Init, TypeOK
<1>3. RunningInv /\ SeenInv /\ MeasuredInv
  BY <1>1 DEF Init, RunningInv, SeenInv, MeasuredInv, Stages
<1>4. Promises
  BY <1>1, SizeAssumption
  DEF Init, Promises, FailSecure, ClearIsAnswered, AnalysisHasContext, MemoryBounded, Stages
<1> QED BY <1>2, <1>3, <1>4 DEF DInv

\* The chain's end of an attempt: what it leaves is a result, an error or a retry.
LEMMA ConcludeEnds ==
  ASSUME NEW ans \in Answers, DInv, stage \in Stages, Conclude(ans)
  PROVE  /\ data' = 0
         /\ stage' \in {"retry", "over"} /\ step' = step
         /\ stage' = "retry" => ans = "soft" /\ outcome' = "none"
         /\ stage' = "over" => outcome' = IF ans \in {"hard", "soft"} THEN "error" ELSE ans
BY DEF DInv, RunningInv, Conclude, Answers, Stages

\* A stage's answer, whatever it is, preserves the invariant.
LEMMA AnswerInv ==
  ASSUME DInv, UNCHANGED config, NEW ans \in Answers, StageAnswers(ans),
         stage \in Stages, kind[stage] \in Kinds
  PROVE  DInv'
<1>1. CASE stage = "prefilter" /\ PrefilterAnswers(ans)
  <2>0. HasPrefilter /\ HasPrefilter'
    BY <1>1 DEF HasPrefilter, Kinds, config
  <2>1. CASE ans = "threat"
    <3>1. /\ seen' = TRUE /\ everSeen' = TRUE /\ labelled' = TRUE
          /\ stage' = "analysis" /\ step' = "stat" /\ data' = 0
          /\ UNCHANGED <<outcome, size, ctxDone, answer, late>>
      BY <1>1, <2>1 DEF PrefilterAnswers
    <3>2. outcome = "none" /\ answer = "none"
      BY DEF DInv, RunningInv, Stages
    <3>3. TypeOK'
      BY <3>1, SizeAssumption DEF DInv, TypeOK, Stages, Sizes, config
    <3> QED
      BY <2>0, <3>1, <3>2, <3>3, SizeAssumption
      DEF DInv, RunningInv, SeenInv, MeasuredInv, Promises, FailSecure,
          ClearIsAnswered, AnalysisHasContext, MemoryBounded, Stages
  <2>2. CASE ans # "threat"
    <3>1. Conclude(ans) /\ seen' = FALSE /\ everSeen' = everSeen
          /\ UNCHANGED <<labelled, size, ctxDone, answer, late>>
      BY <1>1, <2>2 DEF PrefilterAnswers, DInv, TypeOK
    <3>2. /\ data' = 0
          /\ stage' \in {"retry", "over"} /\ step' = step
          /\ stage' = "retry" => ans = "soft" /\ outcome' = "none"
          /\ stage' = "over" => outcome' = IF ans \in {"hard", "soft"} THEN "error" ELSE ans
      BY <3>1, ConcludeEnds
    <3>3. answer = "none"
      BY DEF DInv, RunningInv
    <3>4. TypeOK'
      <4>1. 0 \in Sizes
        BY SizeAssumption DEF Sizes
      <4>2. outcome' \in {"none", "threat", "clear", "error"}
        BY <3>2 DEF Answers
      <4>3. kind' \in [prefilter : Kinds \cup {"absent"}, analysis : Kinds] /\ shared' \in BOOLEAN
        BY DEF DInv, TypeOK, config
      <4> QED BY <3>1, <3>2, <4>1, <4>2, <4>3 DEF DInv, TypeOK, Stages, Sizes, Gone
    <3> QED
      BY <2>0, <2>2, <3>1, <3>2, <3>3, <3>4, SizeAssumption
      DEF RunningInv, SeenInv, MeasuredInv, DInv, Promises, FailSecure,
          ClearIsAnswered, AnalysisHasContext, MemoryBounded, Stages, Answers
  <2> QED BY <2>1, <2>2
<1>2. CASE stage = "analysis" /\ AnalysisAnswers(ans)
  <2> DEFINE told == IF ans = "hard" /\ HasPrefilter THEN "threat" ELSE ans
  <2>0. HasPrefilter' <=> HasPrefilter
    BY DEF HasPrefilter, config
  <2>1. /\ answer' = ans /\ Conclude(told) /\ told \in Answers
        /\ UNCHANGED <<size, ctxDone, labelled, seen, everSeen, late>>
    BY <1>2 DEF AnalysisAnswers, Answers
  <2>2. /\ data' = 0
        /\ stage' \in {"retry", "over"} /\ step' = step
        /\ stage' = "retry" => told = "soft" /\ outcome' = "none"
        /\ stage' = "over" => outcome' = IF told \in {"hard", "soft"} THEN "error" ELSE told
    BY <2>1, ConcludeEnds
  <2>3. HasPrefilter => seen /\ labelled
    BY <1>2 DEF DInv, Promises, AnalysisHasContext
  <2>4. (seen => everSeen) /\ (everSeen => HasPrefilter)
    BY DEF DInv, SeenInv
  <2>5. FailSecure'
    <3>1. outcome' = "error" /\ everSeen => told = "soft" /\ stage' = "over"
      BY <2>1, <2>2, <2>4 DEF DInv, RunningInv, Stages, Answers
    <3>2. told = "soft" /\ stage' = "over" => ctxDone
      BY <2>1 DEF Conclude
    <3> QED
      BY <2>1, <2>2, <2>4, <3>1, <3>2 DEF FailSecure
  <2>6. ClearIsAnswered' /\ SeenInv'
    BY <2>0, <2>1, <2>2, <2>3, <2>4 DEF ClearIsAnswered, SeenInv, DInv, RunningInv, Stages, Answers
  <2>7. TypeOK'
    <3>1. 0 \in Sizes
      BY SizeAssumption DEF Sizes
    <3>2. outcome' \in {"none", "threat", "clear", "error"} /\ answer' \in Answers
      BY <2>1, <2>2 DEF Answers
    <3>3. kind' \in [prefilter : Kinds \cup {"absent"}, analysis : Kinds] /\ shared' \in BOOLEAN
      BY DEF DInv, TypeOK, config
    <3> QED BY <2>1, <2>2, <3>1, <3>2, <3>3 DEF DInv, TypeOK, Stages, Sizes, Gone
  <2>8. RunningInv' /\ MeasuredInv'
    BY <2>1, <2>2 DEF RunningInv, MeasuredInv, Stages, Answers
  <2>9. AnalysisHasContext' /\ MemoryBounded'
    BY <2>0, <2>1, <2>2, <2>3, SizeAssumption DEF AnalysisHasContext, MemoryBounded
  <2> QED
    BY <2>5, <2>6, <2>7, <2>8, <2>9 DEF DInv, Promises
<1> QED BY <1>1, <1>2 DEF StageAnswers

LEMMA StepInv == DInv /\ [Next]_vars => DInv'
<1> SUFFICES ASSUME DInv, [Next]_vars PROVE DInv'
  OBVIOUS
<1> USE SizeAssumption
<1>1. CASE Step /\ UNCHANGED config
  <2>1. CASE PassThrough
    BY <1>1, <2>1, AnswerInv DEF PassThrough, Kinds, Answers
  <2>2. CASE StatFile
    <3>1. CASE StageAnswers("hard")
      BY <1>1, <2>2, <3>1, AnswerInv DEF StatFile, Gemini, Kinds, Answers
    <3>2. CASE /\ size <= MaxArtifact /\ step' = "read"
               /\ UNCHANGED <<stage, size, data, ctxDone, outcome, labelled, seen, everSeen, answer, late>>
      BY <1>1, <3>2
      DEF DInv, TypeOK, RunningInv, SeenInv, MeasuredInv, Promises, FailSecure, ClearIsAnswered,
          AnalysisHasContext, MemoryBounded, HasPrefilter, config
    <3> QED BY <2>2, <3>1, <3>2 DEF StatFile
  <2>3. CASE ReadFile
    <3>1. CASE StageAnswers("hard")
      BY <1>1, <2>3, <3>1, AnswerInv DEF ReadFile, Gemini, Kinds, Answers
    <3>2. CASE /\ size # Gone /\ data' = size /\ step' = "generate"
               /\ UNCHANGED <<stage, size, ctxDone, outcome, labelled, seen, everSeen, answer, late>>
      BY <1>1, <2>3, <3>2
      DEF ReadFile, Gemini, DInv, TypeOK, RunningInv, SeenInv, MeasuredInv, Promises, FailSecure,
          ClearIsAnswered, AnalysisHasContext, MemoryBounded, HasPrefilter, config, Sizes, Gone
    <3> QED BY <2>3, <3>1, <3>2 DEF ReadFile
  <2>4. CASE Generate
    BY <1>1, <2>4, AnswerInv DEF Generate, Gemini, Kinds
  <2> QED BY <1>1, <2>1, <2>2, <2>3, <2>4 DEF Step
<1>2. CASE Retry
  <2>1. stage' \in Stages /\ late' \in Nat
    BY <1>2 DEF Retry, First, Stages, DInv, TypeOK
  <2> QED
    BY <1>2, <2>1
    DEF Retry, First, DInv, TypeOK, RunningInv, SeenInv, MeasuredInv, Promises, FailSecure,
        ClearIsAnswered, AnalysisHasContext, MemoryBounded, HasPrefilter, config, Stages, Answers
<1>3. CASE GiveUp
  BY <1>3
  DEF GiveUp, DInv, TypeOK, RunningInv, SeenInv, MeasuredInv, Promises, FailSecure,
      ClearIsAnswered, AnalysisHasContext, MemoryBounded, HasPrefilter, config, Stages, Answers
<1>4. CASE Deadline
  BY <1>4
  DEF Deadline, DInv, TypeOK, RunningInv, SeenInv, MeasuredInv, Promises, FailSecure,
      ClearIsAnswered, AnalysisHasContext, MemoryBounded, HasPrefilter, config
<1>5. CASE FileChanges
  BY <1>5
  DEF FileChanges, DInv, TypeOK, RunningInv, SeenInv, MeasuredInv, Promises, FailSecure,
      ClearIsAnswered, AnalysisHasContext, MemoryBounded, HasPrefilter, config
<1>6. CASE UNCHANGED vars
  BY <1>6
  DEF vars, DInv, TypeOK, RunningInv, SeenInv, MeasuredInv, Promises, FailSecure,
      ClearIsAnswered, AnalysisHasContext, MemoryBounded, HasPrefilter, config
<1> QED BY <1>1, <1>2, <1>3, <1>4, <1>5, <1>6 DEF Next, Over

LEMMA InvHolds == Spec => []DInv
BY InitInv, StepInv, PTL DEF Spec

\* The types, for every limit on the size of an artifact.
THEOREM TypeCorrect == Spec => []TypeOK
<1>1. DInv => TypeOK BY DEF DInv
<1> QED BY <1>1, InvHolds, PTL

\* chain.go's fallback: what an analysis that fails hard leaves of a threat its
\* prefilter saw is that threat, at every attempt; and what the prefilter saw in any
\* attempt is lost to an error only by the deadline or by the prefilter's own failure.
THEOREM FailsSecure == Spec => []FailSecure
<1>1. DInv => FailSecure BY DEF DInv, Promises
<1> QED BY <1>1, InvHolds, PTL

\* A result is a stage's answer of the last attempt, never a failure taken for one.
THEOREM ResultsAnswered == Spec => []ClearIsAnswered
<1>1. DInv => ClearIsAnswered BY DEF DInv, Promises
<1> QED BY <1>1, InvHolds, PTL

\* No attempt reaches the analysis past its prefilter or without its labels.
THEOREM AnalysisInContext == Spec => []AnalysisHasContext
<1>1. DInv => AnalysisHasContext BY DEF DInv, Promises
<1> QED BY <1>1, InvHolds, PTL

\* A file nobody else writes to is never in memory beyond the limit, whatever
\* the limit is.
THEOREM MemoryIsBounded == Spec => []MemoryBounded
<1>1. DInv => MemoryBounded BY DEF DInv, Promises
<1> QED BY <1>1, InvHolds, PTL

-----------------------------------------------------------------------------
\* The loop goes on only from an attempt that ended before the context did, so that
\* the first attempt under a done context is the last.
LateInv ==
  /\ late \in {0, 1}
  /\ late = 1 => ctxDone
  /\ stage = "retry" => late = 0

LEMMA ConcludeLate ==
  ASSUME LateInv, TypeOK, NEW ans, StageAnswers(ans), stage \in Stages
  PROVE  LateInv'
<1>1. late' = late /\ ctxDone' = ctxDone
  BY DEF StageAnswers, PrefilterAnswers, AnalysisAnswers
<1>2. stage' = "retry" => ~ctxDone
  BY DEF StageAnswers, PrefilterAnswers, AnalysisAnswers, Conclude, Stages
<1> QED BY <1>1, <1>2 DEF LateInv, TypeOK

\* However an analysis fails, at most one attempt starts after its context is done:
\* the bound Coordinator states of its loop, from the code of the chain.
THEOREM AttemptsBounded == Spec => [](late <= 1)
<1>1. Init => LateInv
  BY DEF Init, LateInv, First
<1>2. TypeOK /\ LateInv /\ [Next]_vars => LateInv'
  <2> SUFFICES ASSUME TypeOK, LateInv, [Next]_vars PROVE LateInv'
    OBVIOUS
  <2>1. CASE Step /\ UNCHANGED config
    <3>1. ASSUME NEW ans, StageAnswers(ans) PROVE LateInv'
      <4>1. stage \in Stages
        BY <3>1 DEF StageAnswers, Stages
      <4> QED BY <3>1, <4>1, ConcludeLate
    <3>2. ASSUME UNCHANGED <<stage, ctxDone, late>> PROVE LateInv'
      BY <3>2 DEF LateInv
    <3> QED BY <2>1, <3>1, <3>2 DEF Step, PassThrough, StatFile, ReadFile, Generate
  <2>2. CASE Retry
    BY <2>2 DEF Retry, LateInv, TypeOK, First
  <2>3. CASE GiveUp \/ Deadline \/ FileChanges \/ UNCHANGED vars
    BY <2>3 DEF GiveUp, Deadline, FileChanges, vars, LateInv
  <2> QED BY <2>1, <2>2, <2>3 DEF Next, Over
<1>3. LateInv => late <= 1
  BY DEF LateInv
<1> QED BY <1>1, <1>2, <1>3, TypeCorrect, PTL DEF Spec

-----------------------------------------------------------------------------
\* The end of an attempt is AnalyzeReturn.
LEMMA ConcludeReturns ==
  ASSUME TypeOK, DInv, stage \in Stages, NEW ans \in Answers, Conclude(ans),
         UNCHANGED <<ctxDone, late>>
  PROVE  Call!AnalyzeReturn("call")
<1> USE DEF Call!Goto, pcBar
<1>1. outcome = "none" /\ pcBar = "analyzing"
  BY DEF DInv, RunningInv, Stages
<1>2. CASE ans = "soft" /\ ~ctxDone
  <2>1. pcBar' = "backoff" /\ UNCHANGED outcome
    BY <1>2 DEF Conclude, Stages
  <2>2. Call!AnalyzeBacksOff("call")
    BY <1>1, <1>2, <2>1 DEF Call!AnalyzeBacksOff, Call!CtxDone, Call!status
  <2> QED BY <2>2 DEF Call!AnalyzeReturn
<1>3. CASE ans \in {"hard", "soft"} /\ ~(ans = "soft" /\ ~ctxDone)
  <2>1. pcBar' = "cleanup" /\ outcome' = "error"
    BY <1>3 DEF Conclude, Stages
  <2>2. Call!AnalyzeFailsHard("call")
    BY <1>1, <2>1 DEF Call!AnalyzeFailsHard, Call!Abort
  <2> QED BY <2>2 DEF Call!AnalyzeReturn
<1>4. CASE ans \in {"threat", "clear"}
  <2>1. pcBar' = "storing" /\ outcome' = ans
    BY <1>4 DEF Conclude, Stages
  <2>2. Call!AnalyzeSucceeds("call", ans = "threat")
    BY <1>1, <1>4, <2>1 DEF Call!AnalyzeSucceeds
  <2>3. (ans = "threat") \in BOOLEAN
    OBVIOUS
  <2> QED BY <2>2, <2>3 DEF Call!AnalyzeReturn
<1> QED BY <1>2, <1>3, <1>4 DEF Answers

LEMMA AnswerImplements ==
  ASSUME DInv, stage \in Stages, NEW ans \in Answers, StageAnswers(ans)
  PROVE  Call!AnalyzeReturn("call") \/ UNCHANGED Call!vars
<1>1. CASE stage = "prefilter" /\ PrefilterAnswers(ans) /\ ans = "threat"
  <2>1. UNCHANGED <<outcome, ctxDone, late>> /\ stage' = "analysis"
    BY <1>1 DEF PrefilterAnswers
  <2>2. UNCHANGED pcBar
    BY <2>1 DEF pcBar, Stages
  <2> QED BY <2>1, <2>2 DEF Call!vars, Call!status
<1>2. CASE stage = "prefilter" /\ PrefilterAnswers(ans) /\ ans # "threat"
  BY <1>2, ConcludeReturns DEF PrefilterAnswers, DInv
<1>3. CASE stage = "analysis" /\ AnalysisAnswers(ans)
  <2> DEFINE told == IF ans = "hard" /\ HasPrefilter THEN "threat" ELSE ans
  <2>1. told \in Answers /\ Conclude(told) /\ UNCHANGED <<ctxDone, late>>
    BY <1>3 DEF AnalysisAnswers, Answers
  <2> QED BY <2>1, ConcludeReturns DEF DInv
<1> QED BY <1>1, <1>2, <1>3 DEF StageAnswers

\* The analyzer Coordinator assumes is the one the code has: the chain of stages under
\* the retry loop takes no step but those of Coordinator's actions, in any order of
\* failures, file changes and timeouts.
THEOREM AnalyzerImplements == Spec => AnalysisImplements
<1> DEFINE Abstract == \/ Call!AnalyzeReturn("call") \/ Call!BackoffFires("call")
                       \/ Call!BackoffCancelled("call") \/ Call!Timeout("call")
<1>1. Init => pcBar = "analyzing" /\ outcome = "none"
  BY DEF Init, First, pcBar, Stages
<1>2. DInv /\ [Next]_vars => [Abstract]_(Call!vars)
  <2> SUFFICES ASSUME DInv, [Next]_vars, ~(UNCHANGED Call!vars) PROVE Abstract
    OBVIOUS
  <2>1. CASE Step /\ UNCHANGED config
    <3>1. ASSUME NEW ans \in Answers, StageAnswers(ans) PROVE Abstract
      <4>1. stage \in Stages
        BY <3>1 DEF StageAnswers, Stages
      <4> QED BY <3>1, <4>1, AnswerImplements
    <3>2. CASE UNCHANGED <<stage, ctxDone, outcome, late>>
      BY <3>2 DEF Call!vars, Call!status, pcBar
    <3> QED BY <2>1, <3>1, <3>2 DEF Step, PassThrough, StatFile, ReadFile, Generate, Answers
  <2>2. CASE Retry
    <3>1. pcBar = "backoff" /\ pcBar' = "analyzing" /\ UNCHANGED <<outcome, ctxDone>>
      BY <2>2 DEF Retry, pcBar, First, Stages
    <3>2. late' = late + (IF ctxDone THEN 1 ELSE 0)
      BY <2>2 DEF Retry
    <3> QED BY <3>1, <3>2 DEF Call!BackoffFires, Call!Goto, Call!CountLate, Call!CtxDone, Call!status
  <2>3. CASE GiveUp
    <3>1. pcBar = "backoff" /\ pcBar' = "cleanup" /\ outcome' = "error" /\ ctxDone
          /\ UNCHANGED <<ctxDone, late>>
      BY <2>3 DEF GiveUp, pcBar, Stages
    <3> QED BY <3>1 DEF Call!BackoffCancelled, Call!Abort, Call!Goto, Call!CtxDone
  <2>4. CASE Deadline
    <3>1. pcBar \in {"analyzing", "backoff"} /\ ~ctxDone /\ ctxDone' = TRUE
          /\ UNCHANGED <<pcBar, outcome, late>>
      BY <2>4 DEF Deadline, pcBar, DInv, TypeOK
    <3> QED BY <3>1 DEF Call!Timeout, Call!Processing, Call!status
  <2>5. CASE FileChanges \/ UNCHANGED vars
    BY <2>5 DEF FileChanges, vars, pcBar, Call!vars, Call!status
  <2> QED BY <2>1, <2>2, <2>3, <2>4, <2>5 DEF Next, Over
<1> QED BY <1>1, <1>2, InvHolds, PTL DEF Spec, AnalysisImplements
=============================================================================
