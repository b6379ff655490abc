----------------------------- MODULE Ingestion -----------------------------
(***************************************************************************)
(* internal/ftp and internal/coordinator put together: the sessions upload *)
(* files and hand them over, and every file handed over has its call of    *)
(* Process, on the temp dir both sides create, read and remove files of.   *)
(* Each side is modelled in a module of its own, which knows the other by  *)
(* an abstraction: ObservedFs counts calls that end and may remove their   *)
(* file, Coordinator has a file appear complete under a name of its own.   *)
(* Here the two run as they are, and each abstraction is a refinement. A   *)
(* camera may have any number of sessions, over each other's names. Left   *)
(* out is the step by which a second session takes up a file another one   *)
(* is at work on: after it the file may be handed over while it is written *)
(* or twice (see HandedOverQuiet in ObservedFs), and the pipeline's stages *)
(* may find it gone.                                                       *)
(***************************************************************************)
EXTENDS Integers, FiniteSets

CONSTANTS Cameras, Sessions, CameraOf, Names, Phys, None,
          Notifiers, AlwaysNotifiers, Concurrency, RetainFiles, AlwaysStore

ASSUME SessionsAssumption == CameraOf \in [Sessions -> Cameras]
ASSUME FilesAssumption == IsFiniteSet(Phys) /\ None \notin Phys \cup Cameras
ASSUME CoordinatorAssumption ==
  /\ AlwaysNotifiers \subseteq Notifiers
  /\ Concurrency \in Int /\ RetainFiles \in BOOLEAN /\ AlwaysStore \in BOOLEAN

VARIABLES
  disk,                            \* the temp dir
  registry, op, drawnBy,           \* of ObservedFs
  errors,                          \* files an error of a session left behind
  pc, stuck, sem, wg, expired, verdict, artifact, notif, cancelled, waited, late

sessionVars == <<registry, op, drawnBy, errors>>
callVars == <<pc, stuck, sem, wg, expired, verdict, artifact, notif, cancelled, waited, late>>
vars == <<disk, sessionVars, callVars>>

\* Process is called with the path of the physical file, once per file.
PathOf == [p \in Phys |-> p]

\* The call on a file, as long as it may still remove it.
Owned == {"spawned", "waiting", "analyzing", "backoff", "storing", "notifying", "cleanup"}
callsBar == [p \in Phys |-> IF pc[p] \in Owned THEN 1 ELSE 0]

\* What an error, or the retention of files, leaves in the temp dir.
retained == {p \in Phys : /\ RetainFiles /\ verdict[p] # "none"
                          /\ pc[p] \in {"releasing", "exiting", "done"}}
leftBar == errors \cup stuck \cup retained

\* No file is contested: OpenFile, Remove and Rename wait for its session to be done.
Fs == INSTANCE ObservedFs
        WITH MaxCalls <- 1, calls <- callsBar, left <- leftBar, contested <- {}
Co == INSTANCE Coordinator WITH Events <- Phys, Files <- Phys, FileOf <- PathOf

Init ==
  /\ Co!Init
  /\ registry = [c \in Cameras |-> [v \in Names |-> None]]
  /\ op = [s \in Sessions |-> Fs!Idle]
  /\ drawnBy = [p \in Phys |-> None]
  /\ errors = {}

\* The steps of a session between its hand-overs; those that may fail and leave
\* their file behind.
SessionStep(s) ==
  /\ UNCHANGED <<callVars, errors>>
  /\ \/ \E v \in Names :
          \/ \E m \in Fs!Modes : Fs!OpenMapped(s, v, m) \/ Fs!OpenNew(s, v, m)
          \/ Fs!RemoveBegins(s, v) \/ Fs!StatReads(s, v)
          \/ \E w \in Names : Fs!Rename(s, v, w)
     \/ Fs!OpenSucceeds(s) \/ Fs!CloseFile(s) \/ Fs!RemoveEnds(s)
     \/ Fs!StatLooks(s) \/ Fs!Prune(s)

SessionFails(s) ==
  /\ Fs!At(s, "opening") \/ Fs!At(s, "transfer") \/ Fs!At(s, "removing")
  /\ UNCHANGED callVars
  /\ errors' = errors \cup {op[s].phys}
  /\ Fs!OpenFails(s) \/ Fs!CloseFails(s) \/ Fs!RemoveEnds(s)

\* Close after a write: the name goes, and Process is started on the file.
HandOver(s) ==
  /\ Fs!At(s, "closing")
  /\ Co!Upload(op[s].phys)
  /\ UNCHANGED errors
  /\ Fs!HandOver(s)

CallStep ==
  /\ \/ \E p \in Phys : Co!Step(p) \/ Co!Timeout(p)
     \/ Co!Cancel \/ Co!WaitReturn
  /\ UNCHANGED sessionVars

Next ==
  \/ \E s \in Sessions : SessionStep(s) \/ SessionFails(s) \/ HandOver(s)
  \/ CallStep

Spec == Init /\ [][Next]_vars
-----------------------------------------------------------------------------
\* What a session is about to hand over is there, and has never been handed over
\* before: HandOver is never held up, and one file has one call of Process.
HandOverReady ==
  \A s \in Sessions : Fs!At(s, "closing") => op[s].phys \in disk /\ pc[op[s].phys] = "new"

\* The sessions' side promises what the coordinator's relies on: the pipeline sees
\* files that appear complete, each under a path of its own. This is CoBar!Spec with
\* the stutter named first, which is how TLC finds it soonest; so below.
handedDisk == {p \in disk : pc[p] # "new"}
CoBar == INSTANCE Coordinator
           WITH Events <- Phys, Files <- Phys, FileOf <- PathOf, disk <- handedDisk
CoordinatorSpec == CoBar!Init /\ [][UNCHANGED CoBar!vars \/ CoBar!Next]_(CoBar!vars)

\* The coordinator's side does to the files what the sessions' relies on.
ObservedFsSpec == Fs!Init /\ [][UNCHANGED Fs!vars \/ Fs!Next]_(Fs!vars)

\* The two together: no stage of the pipeline ever finds its file gone, whatever the
\* sessions rename, remove, prune and upload again meanwhile.
FilesStay == \A p \in Phys : pc[p] \in Co!Processing => p \in disk

\* The promises of ObservedFs for uncontested files, with the pipeline itself in the
\* place of the calls ObservedFs counts.
HandedOverQuiet == Fs!HandedOverQuiet
NoMappingLeaks == Fs!NoMappingLeaks
=============================================================================
