--------------------------- MODULE ArtifactStore ---------------------------
(***************************************************************************)
(* internal/storage: one Save of one event. MultiProvider.Save starts a    *)
(* goroutine per provider, waits for all of them and returns the URL of the*)
(* first that succeeded; each provider is a LocalStorage that copies the   *)
(* source in chunks under the caller's context and removes what it copied  *)
(* if anything fails. The artifact handler of the API serves the root of   *)
(* the first local provider.                                               *)
(***************************************************************************)
EXTENDS Integers

CONSTANTS N,        \* providers, in config order; their roots are distinct
          Chunks    \* buffers the source fills

ASSUME NAssumption == N \in Nat \ {0}
ASSUME ChunksAssumption == Chunks \in Nat

Providers == 1..N
Absent == -1        \* no file at the destination
NoURL == 0          \* Save returned an error

VARIABLES
  at,        \* where the goroutine of each provider stands
  dst,       \* chunks in each provider's destination file, or Absent
  ctxDone,   \* the caller's context is done
  litter,    \* ghost: destinations whose os.Remove failed (nobody looks)
  saved,     \* Save has returned
  url        \* the provider whose URL Save returned, or NoURL

vars == <<at, dst, ctxDone, litter, saved, url>>

Init ==
  /\ at = [i \in Providers |-> "mkdir"]
  /\ dst = [i \in Providers |-> Absent]
  /\ ctxDone \in BOOLEAN
  /\ litter = {}
  /\ saved = FALSE /\ url = NoURL

Goto(i, from, to) == at[i] = from /\ at' = [at EXCEPT ![i] = to]

\* The steps that may fail before there is anything to clean up.
MakeDir(i) ==
  /\ Goto(i, "mkdir", "open") \/ Goto(i, "mkdir", "failed")
  /\ UNCHANGED <<dst, ctxDone, litter, saved, url>>

OpenSource(i) ==
  /\ Goto(i, "open", "create") \/ Goto(i, "open", "failed")
  /\ UNCHANGED <<dst, ctxDone, litter, saved, url>>

CreateDest(i) ==
  /\ \/ Goto(i, "create", "copy") /\ dst' = [dst EXCEPT ![i] = 0]
     \/ Goto(i, "create", "failed") /\ UNCHANGED dst
  /\ UNCHANGED <<ctxDone, litter, saved, url>>

\* One turn of the copy loop: the context is looked at before each read.
CopyChunk(i) ==
  /\ ~ctxDone
  /\ at[i] = "copy" /\ dst[i] < Chunks
  /\ dst' = [dst EXCEPT ![i] = @ + 1]
  /\ UNCHANGED <<at, ctxDone, litter, saved, url>>

CopyEnds(i) ==
  /\ ~ctxDone
  /\ dst[i] = Chunks
  /\ Goto(i, "copy", "sync")
  /\ UNCHANGED <<dst, ctxDone, litter, saved, url>>

\* Mutants of CopyFails: what was copied is not undone, or the copy starts over.
CopyFailsDirty(i) ==
  /\ Goto(i, "copy", "failed")
  /\ UNCHANGED <<dst, ctxDone, litter, saved, url>>
CopyFailsRestarts(i) ==
  /\ at[i] = "copy"
  /\ dst' = [dst EXCEPT ![i] = 0]
  /\ UNCHANGED <<at, ctxDone, litter, saved, url>>

\* The context is done, or a read or a write failed.
CopyFails(i) ==
  /\ Goto(i, "copy", "undo")
  /\ UNCHANGED <<dst, ctxDone, litter, saved, url>>

Sync(i) ==
  /\ Goto(i, "sync", "ok") \/ Goto(i, "sync", "undo")
  /\ UNCHANGED <<dst, ctxDone, litter, saved, url>>

\* Mutant of Undo: the artifact is removed at every provider.
UndoEverywhere(i) ==
  /\ Goto(i, "undo", "failed")
  /\ dst' = [j \in Providers |-> Absent]
  /\ UNCHANGED <<ctxDone, litter, saved, url>>

\* The deferred removal of the destination, whose own error is ignored.
Undo(i) ==
  /\ Goto(i, "undo", "failed")
  /\ \/ dst' = [dst EXCEPT ![i] = Absent] /\ UNCHANGED litter
     \/ litter' = litter \cup {i} /\ UNCHANGED dst
  /\ UNCHANGED <<ctxDone, saved, url>>

\* wg.Wait, and the results in config order.
Finished == {"ok", "failed"}
AllFinished == \A i \in Providers : at[i] \in Finished

\* Mutant of FirstSuccess: the last URL wins.
LastSuccess ==
  IF \E i \in Providers : at[i] = "ok"
  THEN CHOOSE i \in Providers : at[i] = "ok" /\ \A j \in (i + 1)..N : at[j] # "ok"
  ELSE NoURL

FirstSuccess ==
  IF \E i \in Providers : at[i] = "ok"
  THEN CHOOSE i \in Providers : at[i] = "ok" /\ \A j \in 1..(i - 1) : at[j] # "ok"
  ELSE NoURL

SaveReturns ==
  /\ ~saved
  /\ AllFinished
  /\ saved' = TRUE
  /\ url' = FirstSuccess
  /\ UNCHANGED <<at, dst, ctxDone, litter>>

ContextDone ==
  /\ ~ctxDone /\ ctxDone' = TRUE
  /\ UNCHANGED <<at, dst, litter, saved, url>>

Terminated == saved /\ UNCHANGED vars

ProviderStep(i) ==
  \/ MakeDir(i) \/ OpenSource(i) \/ CreateDest(i)
  \/ CopyChunk(i) \/ CopyEnds(i) \/ CopyFails(i) \/ Sync(i) \/ Undo(i)

Next == (\E i \in Providers : ProviderStep(i)) \/ SaveReturns \/ ContextDone \/ Terminated

Spec == Init /\ [][Next]_vars

\* Every goroutine runs on; the file system answers.
FairSpec == Spec /\ (\A i \in Providers : WF_vars(ProviderStep(i))) /\ WF_vars(SaveReturns)
-----------------------------------------------------------------------------
\* Every variable has its type.
TypeOK ==
  /\ at \in [Providers -> {"mkdir", "open", "create", "copy", "sync", "undo"} \cup Finished]
  /\ dst \in [Providers -> Absent..Chunks]
  /\ ctxDone \in BOOLEAN
  /\ litter \subseteq Providers
  /\ saved \in BOOLEAN
  /\ url \in Providers \cup {NoURL}

\* Once Save has returned nothing is still being copied and no partial artifact
\* is left at any provider, failed or not, unless its removal failed.
NoPartialArtifact ==
  saved => \A i \in Providers \ litter : dst[i] \in {Absent, Chunks}

\* multi.go:14: Save fails only if every provider did, and the URL it returns is
\* that of the first provider, in config order, to hold the whole artifact.
URLIsFirstWhole ==
  saved =>
    /\ url = NoURL => \A i \in Providers : at[i] = "failed"
    /\ url # NoURL => /\ dst[url] = Chunks
                      /\ \A j \in 1..(url - 1) : at[j] = "failed"

\* A failing provider never takes the artifact of another with it.
SuccessIsLasting ==
  [][\A i \in Providers : at[i] = "ok" => at'[i] = "ok" /\ dst'[i] = dst[i]]_vars

\* Save returns, whatever fails and whenever its context is cancelled.
SaveEnds == <>saved

\* docs/DESIGN.md:77: the URL Save returns can be referenced: the artifact is
\* under the root that app.go:87 chose to serve.
URLIsServed == saved /\ url # NoURL => dst[1] = Chunks
=============================================================================
