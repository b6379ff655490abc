----------------------------- MODULE Detection -----------------------------
(***************************************************************************)
(* internal/ml inside the coordinator's retry loop: the analysis of one    *)
(* event. Analyze is a chain of an optional prefilter and an analysis      *)
(* stage, each of them Gemini or the passthrough as the configuration says *)
(* (every configuration is an initial state), and every attempt of the     *)
(* loop runs the chain from its start. What a Gemini stage does to the     *)
(* file (stat, read whole, send) is modelled step by step: the file is not *)
(* locked and may change or go between two of them.                        *)
(***************************************************************************)
EXTENDS Integers

CONSTANT MaxArtifact    \* cfg.MaxArtifactSize, in units of the model

ASSUME SizeAssumption == MaxArtifact \in Nat

Stages == {"prefilter", "analysis"}
Kinds == {"gemini", "passthrough"}
Gone == MaxArtifact + 2       \* the file is not there
Sizes == 0..(MaxArtifact + 1)
Answers == {"threat", "clear", "hard", "soft"}

VARIABLES
  kind,       \* what each stage is, the prefilter "absent" if not configured
  shared,     \* another session may still write to the file or remove it
  stage,      \* the stage that is running, or "retry", or "over"
  step,       \* where a Gemini stage stands
  size,       \* the size of the file, or Gone
  data,       \* how much of it is in memory
  ctxDone,    \* processCtx is done
  outcome,    \* what analyzeWithRetry returned
  labelled,   \* event.Labels holds the prefilter's labels
  seen,       \* ghost: the prefilter said "threat" in this attempt
  everSeen,   \* ghost: it did in some attempt
  answer,     \* ghost: the analysis stage's answer in this attempt
  late        \* ghost: attempts started although the context was done

config == <<kind, shared>>
vars == <<config, stage, step, size, data, ctxDone, outcome, labelled, seen, everSeen, answer, late>>

HasPrefilter == kind["prefilter"] # "absent"
First == IF HasPrefilter THEN "prefilter" ELSE "analysis"

Init ==
  /\ kind \in [prefilter : Kinds \cup {"absent"}, analysis : Kinds]
  /\ shared \in BOOLEAN
  /\ stage = First /\ step = "stat"
  /\ size \in Sizes
  /\ data = 0
  /\ ctxDone \in BOOLEAN      \* select may grant a permit under a done context
  /\ outcome = "none"
  /\ labelled = FALSE /\ seen = FALSE /\ everSeen = FALSE
  /\ answer = "none"
  /\ late = IF ctxDone THEN 1 ELSE 0

-----------------------------------------------------------------------------
\* Mutants of Conclude: a hard failure is reported raw, taken for "no threat", or
\* every soft failure is retried at once, with no look at the context.
ConcludeRaw(ans) ==
  /\ data' = 0
  /\ IF ans = "soft" /\ ~ctxDone
     THEN stage' = "retry" /\ UNCHANGED <<step, outcome>>
     ELSE stage' = "over" /\ UNCHANGED step /\ outcome' = ans
ConcludeOpen(ans) ==
  /\ data' = 0
  /\ IF ans = "soft" /\ ~ctxDone
     THEN stage' = "retry" /\ UNCHANGED <<step, outcome>>
     ELSE /\ stage' = "over" /\ UNCHANGED step
          /\ outcome' = IF ans = "threat" THEN "threat" ELSE "clear"
ConcludeRestarts(ans) ==
  /\ data' = 0
  /\ IF ans = "soft"
     THEN stage' = First /\ step' = "stat" /\ UNCHANGED outcome
     ELSE /\ stage' = "over" /\ UNCHANGED step
          /\ outcome' = IF ans = "hard" THEN "error" ELSE ans

\* The end of an attempt, for the retry loop: a result and a hard failure end
\* it, any other failure is retried unless the context is done.
Conclude(ans) ==
  /\ data' = 0
  /\ IF ans = "soft" /\ ~ctxDone
     THEN stage' = "retry" /\ UNCHANGED <<step, outcome>>
     ELSE /\ stage' = "over" /\ UNCHANGED step
          /\ outcome' = IF ans \in {"hard", "soft"} THEN "error" ELSE ans

\* A stage answers. The prefilter's errors and its "clear" are the chain's; its
\* "threat" labels the event and brings in the analysis. A hard failure of the
\* analysis falls back on the prefilter's result.
PrefilterAnswers(ans) ==
  /\ seen' = (ans = "threat")
  /\ everSeen' = (everSeen \/ ans = "threat")
  /\ IF ans = "threat"
     THEN /\ labelled' = TRUE
          /\ stage' = "analysis" /\ step' = "stat" /\ data' = 0
          /\ UNCHANGED outcome
     ELSE Conclude(ans) /\ UNCHANGED labelled
  /\ UNCHANGED <<size, ctxDone, answer, late>>

\* Mutants of AnalysisAnswers: no fallback, or one without a prefilter.
AnalysisAnswersRaw(ans) ==
  /\ answer' = ans
  /\ Conclude(ans)
  /\ UNCHANGED <<size, ctxDone, labelled, seen, everSeen, late>>
AnalysisAnswersThreat(ans) ==
  /\ answer' = ans
  /\ Conclude(IF ans = "hard" THEN "threat" ELSE ans)
  /\ UNCHANGED <<size, ctxDone, labelled, seen, everSeen, late>>

AnalysisAnswers(ans) ==
  /\ answer' = ans
  /\ Conclude(IF ans = "hard" /\ HasPrefilter THEN "threat" ELSE ans)
  /\ UNCHANGED <<size, ctxDone, labelled, seen, everSeen, late>>

StageAnswers(ans) ==
  \/ stage = "prefilter" /\ PrefilterAnswers(ans)
  \/ stage = "analysis" /\ AnalysisAnswers(ans)

\* PassThroughAnalyzer.
PassThrough ==
  /\ stage \in Stages /\ kind[stage] = "passthrough"
  /\ StageAnswers("threat")

\* GeminiAnalyzer, one file or network operation at a time.
Gemini(s) == stage \in Stages /\ kind[stage] = "gemini" /\ step = s

\* Mutant of StatFile: the limit is off by one.
StatFileLoose ==
  /\ Gemini("stat")
  /\ \/ size <= MaxArtifact + 1
        /\ step' = "read"
        /\ UNCHANGED <<stage, size, data, ctxDone, outcome, labelled, seen, everSeen, answer, late>>
     \/ size > MaxArtifact + 1 /\ StageAnswers("hard")

StatFile ==
  /\ Gemini("stat")
  /\ \/ size <= MaxArtifact
        /\ step' = "read"
        /\ UNCHANGED <<stage, size, data, ctxDone, outcome, labelled, seen, everSeen, answer, late>>
     \/ size > MaxArtifact /\ StageAnswers("hard")

ReadFile ==
  /\ Gemini("read")
  /\ \/ size # Gone
        /\ data' = size /\ step' = "generate"
        /\ UNCHANGED <<stage, size, ctxDone, outcome, labelled, seen, everSeen, answer, late>>
     \/ StageAnswers("hard")

\* The API's reply: none in time or none at all, one that is not the JSON asked
\* for, a threat with enough confidence, or anything less. Under a done context
\* there is none.
Generate ==
  /\ Gemini("generate")
  /\ \E ans \in Answers : (ctxDone => ans = "soft") /\ StageAnswers(ans)

\* Mutant of Retry: the next attempt skips the prefilter.
RetryAnalysis ==
  /\ stage = "retry"
  /\ stage' = "analysis" /\ step' = "stat"
  /\ seen' = FALSE /\ answer' = "none"
  /\ late' = late + (IF ctxDone THEN 1 ELSE 0)
  /\ UNCHANGED <<config, size, data, ctxDone, outcome, labelled, everSeen>>

\* The loop's next attempt, which may start although the context is done.
Retry ==
  /\ stage = "retry"
  /\ stage' = First /\ step' = "stat"
  /\ seen' = FALSE /\ answer' = "none"
  /\ late' = late + (IF ctxDone THEN 1 ELSE 0)
  /\ UNCHANGED <<config, size, data, ctxDone, outcome, labelled, everSeen>>

GiveUp ==
  /\ stage = "retry" /\ ctxDone
  /\ stage' = "over" /\ outcome' = "error"
  /\ UNCHANGED <<config, step, size, data, ctxDone, labelled, seen, everSeen, answer, late>>

Deadline ==
  /\ ~ctxDone /\ stage # "over"
  /\ ctxDone' = TRUE
  /\ UNCHANGED <<config, stage, step, size, data, outcome, labelled, seen, everSeen, answer, late>>

\* Another session that shares the physical file grows it, or has it removed.
FileChanges ==
  /\ shared /\ stage # "over"
  /\ size' \in {n \in Sizes \cup {Gone} : n > size}
  /\ UNCHANGED <<config, stage, step, data, ctxDone, outcome, labelled, seen, everSeen, answer, late>>

Over == stage = "over" /\ UNCHANGED vars

Step == PassThrough \/ StatFile \/ ReadFile \/ Generate

Next ==
  \/ Step /\ UNCHANGED config
  \/ Retry \/ GiveUp \/ Deadline \/ FileChanges \/ Over

Spec == Init /\ [][Next]_vars

\* The deadline passes; under a done context every stage answers.
FairSpec ==
  /\ Spec
  /\ WF_vars(Deadline) /\ WF_vars(Retry \/ GiveUp)
  /\ WF_vars(ctxDone /\ Step /\ UNCHANGED config)
-----------------------------------------------------------------------------
\* Every variable has its type.
TypeOK ==
  /\ kind \in [prefilter : Kinds \cup {"absent"}, analysis : Kinds]
  /\ shared \in BOOLEAN
  /\ stage \in Stages \cup {"retry", "over"}
  /\ step \in {"stat", "read", "generate"}
  /\ size \in Sizes \cup {Gone} /\ data \in Sizes
  /\ ctxDone \in BOOLEAN
  /\ outcome \in {"none", "threat", "clear", "error"}
  /\ labelled \in BOOLEAN /\ seen \in BOOLEAN /\ everSeen \in BOOLEAN
  /\ answer \in Answers \cup {"none"}
  /\ late \in Nat

\* Fail-secure: an analysis that fails hard after the prefilter saw a threat
\* never makes the event clear or an error, whichever attempt it was. A threat
\* the prefilter saw in any attempt ends in an error only when the retries of what
\* came after it have used up the time, or when in a later attempt the prefilter
\* itself fails hard.
FailSecure ==
  /\ stage = "over" /\ seen /\ answer = "hard" => outcome = "threat"
  /\ outcome = "error" /\ everSeen => ctxDone \/ (~seen /\ answer = "none")

\* An event is clear only on the word of a stage that looked at it in the last
\* attempt: the prefilter alone when it saw nothing, the analysis otherwise; and
\* without a prefilter a hard failure is never taken for an answer.
ClearIsAnswered ==
  /\ outcome = "clear" => (answer = "clear" \/ (HasPrefilter /\ ~seen /\ answer = "none"))
  /\ outcome = "threat" => answer = "threat" \/ (answer = "hard" /\ seen)

\* The analysis, which costs a call of the cloud, runs in an attempt only after
\* that attempt's prefilter let the event through, and has its labels.
AnalysisHasContext ==
  HasPrefilter /\ (stage = "analysis" \/ answer # "none") => seen /\ labelled

\* While nobody else writes to the file no stage holds more than MaxArtifact.
MemoryBounded == ~shared => data <= MaxArtifact

\* The analysis ends, however often it fails.
AnalysisEnds == <>(stage = "over")

\* The chain under its retry loop is all Coordinator takes an analysis to be: its
\* attempts, failures and results, and when the context ends them, are those of
\* Coordinator's actions, seen by a single call that stores its artifact.
pcBar ==
  IF stage \in Stages THEN "analyzing"
  ELSE IF stage = "retry" THEN "backoff"
  ELSE IF outcome = "error" THEN "cleanup" ELSE "storing"

Call == INSTANCE Coordinator
          WITH Events <- {"call"}, Files <- {"file"}, FileOf <- [e \in {"call"} |-> "file"],
               Notifiers <- {}, AlwaysNotifiers <- {}, Concurrency <- 1,
               RetainFiles <- FALSE, AlwaysStore <- TRUE,
               pc <- [e \in {"call"} |-> pcBar], disk <- {"file"}, stuck <- {}, sem <- 1, wg <- 1,
               expired <- [e \in {"call"} |-> ctxDone], verdict <- [e \in {"call"} |-> outcome],
               artifact <- [e \in {"call"} |-> "none"],
               notif <- [e \in {"call"} |-> [n \in {} |-> "idle"]],
               cancelled <- FALSE, waited <- FALSE, late <- [e \in {"call"} |-> late]

AnalysisImplements ==
  /\ pcBar = "analyzing" /\ outcome = "none"
  /\ [][\/ Call!AnalyzeReturn("call") \/ Call!BackoffFires("call")
        \/ Call!BackoffCancelled("call") \/ Call!Timeout("call")]_(Call!vars)
=============================================================================
