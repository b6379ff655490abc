------------------------ MODULE ArtifactStoreProofs ------------------------
(***************************************************************************)
(* What one Save leaves behind and returns, for any number of providers    *)
(* and any size of the artifact.                                           *)
(***************************************************************************)
EXTENDS ArtifactStore, WellFoundedInduction, TLAPS

-----------------------------------------------------------------------------
\* What each place in copyFile says of the destination: it exists only from its
\* creation to its removal, and is whole from the last chunk on.
PlaceOf(i) ==
  /\ at[i] \in {"mkdir", "open", "create"} => dst[i] = Absent
  /\ at[i] \in {"sync", "ok"} => dst[i] = Chunks
  /\ at[i] \in {"copy", "undo"} => dst[i] \in 0..Chunks
  /\ at[i] = "failed" => dst[i] = Absent \/ i \in litter
Returned ==
  saved =>
    /\ AllFinished
    /\ url = NoURL => \A i \in Providers : at[i] = "failed"
    /\ url # NoURL => at[url] = "ok" /\ \A j \in 1..(url - 1) : at[j] = "failed"

Inv == TypeOK /\ (\A i \in Providers : PlaceOf(i)) /\ Returned

\* The search for the first URL finds one if any provider succeeded, and those
\* before it have all failed.
LEMMA FirstSuccessWorks ==
  ASSUME AllFinished
  PROVE  \/ FirstSuccess = NoURL /\ \A i \in Providers : at[i] = "failed"
         \/ /\ FirstSuccess \in Providers /\ at[FirstSuccess] = "ok"
            /\ \A j \in 1..(FirstSuccess - 1) : at[j] = "failed"
<1>1. CASE \A i \in Providers : at[i] # "ok"
  BY <1>1 DEF AllFinished, Finished, FirstSuccess
<1>2. CASE \E i \in Providers : at[i] = "ok"
  <2> DEFINE Ok == {i \in Providers : at[i] = "ok"}
  <2>1. PICK i \in Ok : \A j \in Ok : <<j, i>> \notin OpToRel(<, Nat)
    <3>1. Ok \subseteq Nat /\ Ok # {}
      BY <1>2, NAssumption DEF Providers
    <3>2. QED
      BY <3>1, WFMin, NatLessThanWellFounded
  <2>2. \A j \in 1..(i - 1) : at[j] # "ok" /\ j \in Providers
    <3>1. ASSUME NEW j \in Ok PROVE ~(j < i)
      <4>1. i \in Nat /\ j \in Nat
        BY NAssumption DEF Providers
      <4>2. j < i => <<j, i>> \in OpToRel(<, Nat)
        BY <4>1 DEF OpToRel
      <4>3. QED
        BY <2>1, <4>2
    <3>2. QED
      BY <3>1, NAssumption DEF Providers
  <2>3. \A k \in Providers : \A j \in 1..(k - 1) : j \in Providers
    BY NAssumption DEF Providers
  <2>4. FirstSuccess \in Providers /\ at[FirstSuccess] = "ok"
        /\ \A j \in 1..(FirstSuccess - 1) : at[j] # "ok"
    BY <1>2, <2>2 DEF FirstSuccess
  <2>5. QED
    BY <2>3, <2>4 DEF AllFinished, Finished
<1>3. QED
  BY <1>1, <1>2

-----------------------------------------------------------------------------
LEMMA InitInv == Init => Inv
<1> SUFFICES ASSUME Init PROVE Inv
  OBVIOUS
<1>1. TypeOK
  <2>1. Absent \in Absent..Chunks
    BY ChunksAssumption DEF Absent
  <2>2. QED
    BY <2>1 DEF Init, TypeOK, NoURL
<1>2. (\A i \in Providers : PlaceOf(i)) /\ Returned
  BY DEF Init, PlaceOf, Returned
<1>3. QED
  BY <1>1, <1>2 DEF Inv

LEMMA StepInv == Inv /\ [Next]_vars => Inv'
<1> SUFFICES ASSUME Inv, [Next]_vars PROVE Inv'
  OBVIOUS
<1> USE NAssumption, ChunksAssumption DEF Inv, TypeOK, PlaceOf, Goto, Absent, Finished
<1>1. ASSUME NEW i \in Providers, MakeDir(i) PROVE Inv'
  <2>1. ~saved
    BY <1>1 DEF MakeDir, Returned, AllFinished
  <2>2. QED
    BY <1>1, <2>1 DEF MakeDir, Returned
<1>2. ASSUME NEW i \in Providers, OpenSource(i) PROVE Inv'
  <2>1. ~saved
    BY <1>2 DEF OpenSource, Returned, AllFinished
  <2>2. QED
    BY <1>2, <2>1 DEF OpenSource, Returned
<1>3. ASSUME NEW i \in Providers, CreateDest(i) PROVE Inv'
  <2>1. ~saved
    BY <1>3 DEF CreateDest, Returned, AllFinished
  <2>2. QED
    BY <1>3, <2>1 DEF CreateDest, Returned
<1>4. ASSUME NEW i \in Providers, CopyChunk(i) PROVE Inv'
  <2>1. ~saved
    BY <1>4 DEF CopyChunk, Returned, AllFinished
  <2>2. QED
    BY <1>4, <2>1 DEF CopyChunk, Returned
<1>5. ASSUME NEW i \in Providers, CopyEnds(i) PROVE Inv'
  <2>1. ~saved
    BY <1>5 DEF CopyEnds, Returned, AllFinished
  <2>2. QED
    BY <1>5, <2>1 DEF CopyEnds, Returned
<1>6. ASSUME NEW i \in Providers, CopyFails(i) PROVE Inv'
  <2>1. ~saved
    BY <1>6 DEF CopyFails, Returned, AllFinished
  <2>2. QED
    BY <1>6, <2>1 DEF CopyFails, Returned
<1>7. ASSUME NEW i \in Providers, Sync(i) PROVE Inv'
  <2>1. ~saved
    BY <1>7 DEF Sync, Returned, AllFinished
  <2>2. QED
    BY <1>7, <2>1 DEF Sync, Returned
<1>8. ASSUME NEW i \in Providers, Undo(i) PROVE Inv'
  <2>1. ~saved
    BY <1>8 DEF Undo, Returned, AllFinished
  <2>2. QED
    BY <1>8, <2>1 DEF Undo, Returned
<1>9. CASE SaveReturns
  <2>1. Returned'
    BY <1>9, FirstSuccessWorks DEF SaveReturns, Returned, AllFinished, Providers, NoURL
  <2>2. QED
    BY <1>9, <2>1, FirstSuccessWorks DEF SaveReturns
<1>10. CASE ContextDone
  BY <1>10 DEF ContextDone, Returned, AllFinished
<1>11. CASE UNCHANGED vars
  BY <1>11 DEF vars, Returned, AllFinished
<1>12. QED
  BY <1>1, <1>2, <1>3, <1>4, <1>5, <1>6, <1>7, <1>8, <1>9, <1>10, <1>11
  DEF Next, ProviderStep, Terminated

LEMMA InvHolds == Spec => []Inv
BY InitInv, StepInv, PTL DEF Spec

\* Type correctness of the copies and of what Save returns.
THEOREM StoreTypeCorrect == Spec => []TypeOK
<1>1. Inv => TypeOK
  BY DEF Inv
<1>2. QED
  BY <1>1, InvHolds, PTL

\* Whatever fails at whichever chunk, when Save has returned every provider holds
\* the whole artifact or nothing, unless the removal of a partial one failed.
THEOREM NothingPartial == Spec => []NoPartialArtifact
<1>1. Inv => NoPartialArtifact
  BY DEF Inv, PlaceOf, Returned, AllFinished, Finished, NoPartialArtifact
<1>2. QED
  BY <1>1, InvHolds, PTL

\* Save's error means that every provider failed, and its URL is that of the first
\* provider to hold the whole artifact.
THEOREM URLCorrect == Spec => []URLIsFirstWhole
<1>1. Inv => URLIsFirstWhole
  BY DEF Inv, TypeOK, PlaceOf, Returned, URLIsFirstWhole, NoURL
<1>2. QED
  BY <1>1, InvHolds, PTL

\* A provider that has succeeded keeps its artifact while the others fail.
THEOREM SuccessLasts == Spec => SuccessIsLasting
<1>1. Inv /\ [Next]_vars =>
        [\A i \in Providers : at[i] = "ok" => at'[i] = "ok" /\ dst'[i] = dst[i]]_vars
  BY DEF Inv, TypeOK, Next, ProviderStep, MakeDir, OpenSource, CreateDest, CopyChunk, CopyEnds,
         CopyFails, Sync, Undo, SaveReturns, ContextDone, Terminated, Goto, vars
<1>2. QED
  BY <1>1, InvHolds, PTL DEF Spec, SuccessIsLasting
\* With a single provider the URL that Save returns is one the API can resolve: what
\* docs/DESIGN.md:77 promises only fails where there is a second provider.
THEOREM SingleProviderServed == ASSUME N = 1 PROVE Spec => []URLIsServed
<1>1. Inv => URLIsServed
  BY DEF Inv, TypeOK, Providers, PlaceOf, Returned, URLIsServed, NoURL
<1>2. QED
  BY <1>1, InvHolds, PTL

-----------------------------------------------------------------------------
\* How far the copy of a provider has come.
CopyProgress(i) ==
  CASE at[i] = "mkdir" -> 0 [] at[i] = "open" -> 1 [] at[i] = "create" -> 2
    [] at[i] = "copy" -> 3 + dst[i] [] at[i] = "sync" -> Chunks + 4
    [] at[i] = "undo" -> Chunks + 5 [] at[i] \in Finished -> Chunks + 6

\* Every step of a provider takes it forward, failures included, and none is left
\* after Chunks + 6 of them: no copy starts over, and Save has something to wait for
\* only as long as the file system does not answer.
SaveAdvances ==
  [][\A i \in Providers :
       /\ CopyProgress(i)' \in 0..(Chunks + 6)
       /\ at'[i] # at[i] \/ dst'[i] # dst[i] => CopyProgress(i)' > CopyProgress(i)]_vars

LEMMA ProgressRange ==
  ASSUME NEW a \in {"mkdir", "open", "create", "copy", "sync", "undo"} \cup Finished,
         NEW d \in Absent..Chunks, a = "copy" => d \in 0..Chunks
  PROVE  (CASE a = "mkdir" -> 0 [] a = "open" -> 1 [] a = "create" -> 2
            [] a = "copy" -> 3 + d [] a = "sync" -> Chunks + 4
            [] a = "undo" -> Chunks + 5 [] a \in Finished -> Chunks + 6) \in 0..(Chunks + 6)
BY ChunksAssumption DEF Finished, Absent

\* The step of one provider, and the others stay where they are.
LEMMA ProviderAdvances ==
  ASSUME Inv, NEW k \in Providers, ProviderStep(k), NEW i \in Providers,
         at'[i] # at[i] \/ dst'[i] # dst[i]
  PROVE  CopyProgress(i)' > CopyProgress(i)
<1> USE ChunksAssumption
<1>0. /\ at \in [Providers -> {"mkdir", "open", "create", "copy", "sync", "undo"} \cup Finished]
      /\ dst \in [Providers -> Absent..Chunks] /\ PlaceOf(k)
  BY DEF Inv, TypeOK
<1>1. i = k
  BY <1>0 DEF ProviderStep, MakeDir, OpenSource, CreateDest, CopyChunk, CopyEnds, CopyFails, Sync,
     Undo, Goto
<1>2. CASE CopyChunk(k)
  <2>1. at[k] = "copy" /\ at'[k] = "copy" /\ dst[k] \in 0..Chunks /\ dst'[k] = dst[k] + 1
    BY <1>0, <1>2 DEF CopyChunk, PlaceOf
  <2>2. CopyProgress(k) = 3 + dst[k] /\ CopyProgress(k)' = 3 + dst'[k]
    BY <2>1 DEF CopyProgress, Finished
  <2>3. QED
    BY <1>1, <2>1, <2>2
<1>3. CASE CreateDest(k)
  BY <1>0, <1>1, <1>3 DEF CreateDest, Goto, CopyProgress, Absent, Finished
<1>4. CASE MakeDir(k) \/ OpenSource(k)
  BY <1>0, <1>1, <1>4 DEF MakeDir, OpenSource, Goto, CopyProgress, Finished
<1>5. CASE CopyEnds(k) \/ CopyFails(k)
  <2>1. at[k] = "copy" /\ at'[k] \in {"sync", "undo"} /\ dst[k] \in 0..Chunks
    BY <1>0, <1>5 DEF CopyEnds, CopyFails, Goto, PlaceOf
  <2>2. CopyProgress(k) = 3 + dst[k] /\ CopyProgress(k)' \in {Chunks + 4, Chunks + 5}
    BY <2>1 DEF CopyProgress, Finished
  <2>3. QED
    BY <1>1, <2>1, <2>2
<1>6. CASE Sync(k)
  BY <1>0, <1>1, <1>6 DEF Sync, Goto, CopyProgress, Finished
<1>7. CASE Undo(k)
  BY <1>0, <1>1, <1>7 DEF Undo, Goto, CopyProgress, Finished
<1>8. QED
  BY <1>2, <1>3, <1>4, <1>5, <1>6, <1>7 DEF ProviderStep

\* The safety half of SaveEnds: whatever fails, the goroutines run out of steps.
THEOREM SaveSteps == Spec => SaveAdvances
<1> DEFINE Advance(i) ==
       /\ CopyProgress(i)' \in 0..(Chunks + 6)
       /\ at'[i] # at[i] \/ dst'[i] # dst[i] => CopyProgress(i)' > CopyProgress(i)
<1>1. Inv /\ Inv' /\ [Next]_vars => [\A i \in Providers : Advance(i)]_vars
  <2> SUFFICES ASSUME Inv, Inv', [Next]_vars, NEW i \in Providers PROVE Advance(i)
    OBVIOUS
  <2>1. CopyProgress(i)' \in 0..(Chunks + 6)
    <3>1. /\ at'[i] \in {"mkdir", "open", "create", "copy", "sync", "undo"} \cup Finished
          /\ dst'[i] \in Absent..Chunks /\ (at'[i] = "copy" => dst'[i] \in 0..Chunks)
      BY DEF Inv, TypeOK, PlaceOf
    <3>2. QED
      BY <3>1, ProgressRange DEF CopyProgress
  <2>2. ASSUME NEW k \in Providers, ProviderStep(k) PROVE Advance(i)
    BY <2>1, <2>2, ProviderAdvances
  <2>3. CASE UNCHANGED <<at, dst>>
    BY <2>1, <2>3
  <2>4. QED
    BY <2>2, <2>3 DEF Next, SaveReturns, ContextDone, Terminated, vars
<1>2. QED
  BY <1>1, InvHolds, PTL DEF Spec, SaveAdvances

-----------------------------------------------------------------------------
\* One Save is all Coordinator takes the storing of an artifact to be: nothing happens
\* to the call until Save returns once, with an artifact or without.
pcBar == IF saved THEN "notifying" ELSE "storing"
artifactBar == IF ~saved THEN "none" ELSE IF url = NoURL THEN "failed" ELSE "stored"

Call == INSTANCE Coordinator
          WITH Events <- {"call"}, Files <- {"file"}, FileOf <- [e \in {"call"} |-> "file"],
               Notifiers <- {}, AlwaysNotifiers <- {}, Concurrency <- 1,
               RetainFiles <- FALSE, AlwaysStore <- TRUE,
               pc <- [e \in {"call"} |-> pcBar], disk <- {"file"}, stuck <- {}, sem <- 1, wg <- 1,
               expired <- [e \in {"call"} |-> ctxDone], verdict <- [e \in {"call"} |-> "threat"],
               artifact <- [e \in {"call"} |-> artifactBar],
               notif <- [e \in {"call"} |-> [n \in {} |-> "idle"]],
               cancelled <- FALSE, waited <- FALSE, late <- [e \in {"call"} |-> 0]

\* Save takes its place in the pipeline, and "stored" means there what a reader takes
\* it to: some provider holds the whole artifact.
SaveImplements ==
  /\ pcBar = "storing" /\ artifactBar = "none"
  /\ [][Call!SaveReturn("call") \/ Call!Timeout("call")]_(Call!vars)
  /\ [](artifactBar = "stored" => \E i \in Providers : dst[i] = Chunks)

\* The storage that Coordinator assumes is the one the code has, for any number of
\* providers and any size of the artifact.
THEOREM StorageImplements == Spec => SaveImplements
<1>1. Init => pcBar = "storing" /\ artifactBar = "none"
  BY DEF Init, pcBar, artifactBar
<1>2. [Next]_vars => [Call!SaveReturn("call") \/ Call!Timeout("call")]_(Call!vars)
  <2> SUFFICES ASSUME [Next]_vars, ~(UNCHANGED Call!vars)
               PROVE  Call!SaveReturn("call") \/ Call!Timeout("call")
    OBVIOUS
  <2>1. CASE SaveReturns
    <3>1. /\ pcBar = "storing" /\ pcBar' = "notifying" /\ artifactBar' \in {"stored", "failed"}
          /\ UNCHANGED ctxDone
      BY <2>1 DEF SaveReturns, pcBar, artifactBar
    <3>2. Call!SaveReturn("call")
      BY <3>1 DEF Call!SaveReturn, Call!Goto, Call!Fanout
    <3>3. QED
      BY <3>2
  <2>2. CASE ContextDone
    <3>1. ~ctxDone /\ ctxDone' = TRUE /\ UNCHANGED <<pcBar, artifactBar>>
          /\ pcBar \in {"storing", "notifying"}
      BY <2>2 DEF ContextDone, pcBar, artifactBar
    <3>2. Call!Timeout("call")
      BY <3>1 DEF Call!Timeout, Call!Processing, Call!status
    <3>3. QED
      BY <3>2
  <2>3. CASE UNCHANGED <<saved, url, ctxDone>>
    BY <2>3 DEF Call!vars, Call!status, pcBar, artifactBar
  <2>4. QED
    BY <2>1, <2>2, <2>3 DEF Next, ProviderStep, MakeDir, OpenSource, CreateDest, CopyChunk, CopyEnds,
       CopyFails, Sync, Undo, Terminated, vars
<1>3. Inv => (artifactBar = "stored" => \E i \in Providers : dst[i] = Chunks)
  BY DEF Inv, TypeOK, PlaceOf, Returned, artifactBar, NoURL
<1>4. QED
  BY <1>1, <1>2, <1>3, InvHolds, PTL DEF Spec, SaveImplements
=============================================================================
