----------------------------- MODULE ObservedFs -----------------------------
(***************************************************************************)
(* internal/ftp: the virtual file system the cameras upload to. Each camera*)
(* address has one VirtualRegistry, shared by all its sessions, that maps  *)
(* the names the camera uses to physical files of the temp dir; closing a  *)
(* file opened for writing unmaps its name and hands the physical file to  *)
(* the coordinator. The registry is locked, the file system is not: every  *)
(* action is one critical section or one file operation, and a session may *)
(* be overtaken between two of them. A session is a thread of FTP commands.*)
(***************************************************************************)
EXTENDS Naturals, FiniteSets

CONSTANTS Cameras,    \* addresses with a zone
          Sessions,   \* authenticated sessions
          CameraOf,   \* the address a session comes from
          Names,      \* virtual paths, cleaned
          Phys,       \* physical names: what uuid.New() can still draw from
          MaxCalls,   \* bound: calls of Process under way on one file
          None        \* no physical file

ASSUME SessionsAssumption == CameraOf \in [Sessions -> Cameras]
ASSUME NoneAssumption == None \notin Phys \cup Cameras
ASSUME BoundAssumption == MaxCalls \in Nat \ {0}

VARIABLES
  registry,   \* per camera, VirtualRegistry.mappings
  op,         \* what each session is in the middle of
  disk,       \* the physical files present in the temp dir
  calls,      \* calls of coordinator.Process under way on each file
  drawnBy,    \* ghost: the camera a physical name was generated for
  left,       \* ghost: files an I/O error or the coordinator left behind
  contested   \* ghost: files a second session took up while one was at work on them

vars == <<registry, op, disk, calls, drawnBy, left, contested>>

Idle == [at |-> "idle", name |-> None, phys |-> None, mode |-> None]

\* The flags ftpserverlib opens with: STOR creates, APPE and RETR do not.
Modes == {"store", "append", "read"}

Init ==
  /\ registry = [c \in Cameras |-> [v \in Names |-> None]]
  /\ op = [s \in Sessions |-> Idle]
  /\ disk = {}
  /\ calls = [p \in Phys |-> 0]
  /\ drawnBy = [p \in Phys |-> None]
  /\ left = {} /\ contested = {}

\* Mutant of Cam: one registry for all cameras.
CamIgnoresAddress(s) == CHOOSE c \in Cameras : TRUE

\* The registry of a session: getOrCreateRegistry looks it up by address.
Cam(s) == CameraOf[s]
Mapped(s, v) == registry[Cam(s)][v]
Map(s, v, p) == registry' = [registry EXCEPT ![Cam(s)][v] = p]
At(s, place) == op[s].at = place
MoveTo(s, place) == op' = [op EXCEPT ![s].at = place]
\* Mutant of Finish: the session keeps its place.
FinishKeepsPlace(s) == op' = [op EXCEPT ![s].name = None, ![s].phys = None]

Finish(s) == op' = [op EXCEPT ![s] = Idle]
Start(s, place, v, p, m) ==
  op' = [op EXCEPT ![s] = [at |-> place, name |-> v, phys |-> p, mode |-> m]]

\* A session is at work on a file from its OpenFile to the end of Close, or while it
\* removes it; one that reads a file or asks for its status leaves it as it is.
Uses(s, p) ==
  /\ op[s].phys = p
  /\ \/ op[s].at \in {"closing", "removing"}
     \/ op[s].at \in {"opening", "transfer"} /\ op[s].mode # "read"

\* A session takes a file up, through a name it has found in the registry.
TakesUp(p) ==
  contested' = IF \E t \in Sessions : Uses(t, p) THEN contested \cup {p} ELSE contested

-----------------------------------------------------------------------------
\* OpenFile looks its name up, or for a write draws a new physical name for it.
OpenMapped(s, v, m) ==
  /\ At(s, "idle")
  /\ Mapped(s, v) # None
  /\ Start(s, "opening", v, Mapped(s, v), m)
  /\ IF m = "read" THEN UNCHANGED contested ELSE TakesUp(Mapped(s, v))
  /\ UNCHANGED <<registry, disk, calls, drawnBy, left>>

OpenNew(s, v, m) ==
  /\ At(s, "idle")
  /\ Mapped(s, v) = None /\ m # "read"
  /\ \E p \in Phys :
       /\ drawnBy[p] = None
       /\ Start(s, "opening", v, p, m)
       /\ Map(s, v, p)
       /\ drawnBy' = [drawnBy EXCEPT ![p] = CameraOf[s]]
  /\ UNCHANGED <<disk, calls, left, contested>>

\* The physical open, outside the lock.
OpenSucceeds(s) ==
  /\ At(s, "opening")
  /\ op[s].phys \in disk \/ op[s].mode = "store"
  /\ disk' = disk \cup {op[s].phys}
  /\ MoveTo(s, "transfer")
  /\ UNCHANGED <<registry, calls, drawnBy, left, contested>>

OpenFails(s) ==
  /\ At(s, "opening")
  /\ Finish(s)
  /\ left' = left \cup {op[s].phys}
  /\ UNCHANGED <<registry, disk, calls, drawnBy, contested>>

\* The end of a transfer, aborted or complete, closes the file.
CloseFile(s) ==
  /\ At(s, "transfer")
  /\ IF op[s].mode = "read" THEN Finish(s) ELSE MoveTo(s, "closing")
  /\ UNCHANGED <<registry, disk, calls, drawnBy, left, contested>>

CloseFails(s) ==
  /\ At(s, "transfer")
  /\ Finish(s)
  /\ left' = left \cup {op[s].phys}
  /\ UNCHANGED <<registry, disk, calls, drawnBy, contested>>

\* Mutants of HandOver: the mapping stays, or Process is started only while the
\* name still maps to the file.
HandOverKeepsName(s) ==
  /\ At(s, "closing")
  /\ calls[op[s].phys] < MaxCalls
  /\ calls' = [calls EXCEPT ![op[s].phys] = @ + 1]
  /\ Finish(s)
  /\ UNCHANGED <<registry, disk, drawnBy, left, contested>>
HandOverIfMapped(s) ==
  /\ At(s, "closing")
  /\ calls[op[s].phys] < MaxCalls
  /\ Map(s, op[s].name, None)
  /\ IF Mapped(s, op[s].name) = op[s].phys
     THEN calls' = [calls EXCEPT ![op[s].phys] = @ + 1] ELSE UNCHANGED calls
  /\ Finish(s)
  /\ UNCHANGED <<disk, drawnBy, left, contested>>

\* The name is unmapped, whatever it maps to by now, and Process is started.
HandOver(s) ==
  /\ At(s, "closing")
  /\ calls[op[s].phys] < MaxCalls
  /\ Map(s, op[s].name, None)
  /\ calls' = [calls EXCEPT ![op[s].phys] = @ + 1]
  /\ Finish(s)
  /\ UNCHANGED <<disk, drawnBy, left, contested>>

\* Process ends: the file is removed, unless it is retained or cannot be.
ProcessEnds(p) ==
  /\ calls[p] > 0
  /\ calls' = [calls EXCEPT ![p] = @ - 1]
  /\ \/ disk' = disk \ {p} /\ UNCHANGED left
     \/ left' = left \cup {p} /\ UNCHANGED disk
  /\ UNCHANGED <<registry, op, drawnBy, contested>>

-----------------------------------------------------------------------------
RemoveBegins(s, v) ==
  /\ At(s, "idle")
  /\ Mapped(s, v) # None
  /\ Start(s, "removing", v, Mapped(s, v), None)
  /\ Map(s, v, None)
  /\ TakesUp(Mapped(s, v))
  /\ UNCHANGED <<disk, calls, drawnBy, left>>

RemoveEnds(s) ==
  /\ At(s, "removing")
  /\ Finish(s)
  /\ \/ disk' = disk \ {op[s].phys} /\ UNCHANGED left
     \/ left' = left \cup {op[s].phys} /\ UNCHANGED disk
  /\ UNCHANGED <<registry, calls, drawnBy, contested>>

\* Mutant of Rename: the old name is not deleted.
RenameKeepsOld(s, v, w) ==
  /\ At(s, "idle")
  /\ Mapped(s, v) # None
  /\ Map(s, w, Mapped(s, v))
  /\ TakesUp(Mapped(s, v))
  /\ UNCHANGED <<op, disk, calls, drawnBy, left>>

\* Rename touches the mapping only, under one lock: the old name goes, then the
\* new one is set, over whatever it mapped to.
Rename(s, v, w) ==
  /\ At(s, "idle")
  /\ Mapped(s, v) # None
  /\ registry' = [registry EXCEPT ![Cam(s)] = [[@ EXCEPT ![v] = None] EXCEPT ![w] = Mapped(s, v)]]
  /\ TakesUp(Mapped(s, v))
  /\ UNCHANGED <<op, disk, calls, drawnBy, left>>

\* Stat reads the mapping under the lock, the file system outside of it, and
\* takes the lock again to prune a mapping whose file was not there.
StatReads(s, v) ==
  /\ At(s, "idle")
  /\ Mapped(s, v) # None
  /\ Start(s, "stat", v, Mapped(s, v), None)
  /\ UNCHANGED <<registry, disk, calls, drawnBy, left, contested>>

StatLooks(s) ==
  /\ At(s, "stat")
  /\ IF op[s].phys \in disk THEN Finish(s) ELSE MoveTo(s, "prune")
  /\ UNCHANGED <<registry, disk, calls, drawnBy, left, contested>>

Prune(s) ==
  /\ At(s, "prune")
  /\ Map(s, op[s].name, None)
  /\ Finish(s)
  /\ UNCHANGED <<disk, calls, drawnBy, left, contested>>

Next ==
  \/ \E s \in Sessions :
       \/ \E v \in Names :
            \/ \E m \in Modes : OpenMapped(s, v, m) \/ OpenNew(s, v, m)
            \/ RemoveBegins(s, v) \/ StatReads(s, v)
            \/ \E w \in Names : Rename(s, v, w)
       \/ OpenSucceeds(s) \/ OpenFails(s)
       \/ CloseFile(s) \/ CloseFails(s) \/ HandOver(s)
       \/ RemoveEnds(s) \/ StatLooks(s) \/ Prune(s)
  \/ \E p \in Phys : ProcessEnds(p)

Spec == Init /\ [][Next]_vars
-----------------------------------------------------------------------------
Places == {"idle", "opening", "transfer", "closing", "removing", "stat", "prune"}

\* Every variable has its type.
TypeOK ==
  /\ registry \in [Cameras -> [Names -> Phys \cup {None}]]
  /\ op \in [Sessions -> [at : Places, name : Names \cup {None},
                          phys : Phys \cup {None}, mode : Modes \cup {None}]]
  /\ \A s \in Sessions : ~At(s, "idle") => op[s].name \in Names /\ op[s].phys \in Phys
  /\ disk \subseteq Phys /\ left \subseteq Phys /\ contested \subseteq Phys
  /\ calls \in [Phys -> 0..MaxCalls]
  /\ drawnBy \in [Phys -> Cameras \cup {None}]

\* A physical file belongs to the camera it was drawn for: no other camera's
\* registry names it and no other camera's session works on it.
CamerasIsolated ==
  /\ \A c \in Cameras, v \in Names :
       registry[c][v] # None => drawnBy[registry[c][v]] = c
  /\ \A s \in Sessions : ~At(s, "idle") => drawnBy[op[s].phys] = CameraOf[s]

\* No two names of a camera map to one file, however its sessions rename,
\* remove and upload over each other.
MappingInjective ==
  \A c \in Cameras, v, w \in Names :
    registry[c][v] = registry[c][w] /\ registry[c][v] # None => v = w

Writing(s) == At(s, "transfer") /\ op[s].mode # "read"
Holds(s, p) == op[s].phys = p /\ (Writing(s) \/ At(s, "closing") \/ At(s, "removing"))

\* No file is forgotten: what is in the temp dir is being written, handed over,
\* processed or removed, unless an error or the retention of files left it.
NoOrphan ==
  \A p \in disk \ left : calls[p] > 0 \/ \E s \in Sessions : Holds(s, p)

\* The coordinator owns what it is processing (server.go:361): a file that is handed
\* over is there, is handed over once, and no session names it or works on it any
\* more. However many sessions the camera has, and whatever they open, rename, look
\* at and prune, it takes two of them at work on the same file to break this.
OwnedOnce ==
  \A p \in Phys \ contested : calls[p] > 0 =>
    /\ p \in disk /\ calls[p] = 1
    /\ \A s \in Sessions : ~Uses(s, p)
    /\ \A c \in Cameras, v \in Names : registry[c][v] # p

\* What is handed over is complete: no session writes to it any more.
HandedOverQuiet ==
  \A s \in Sessions : Writing(s) => calls[op[s].phys] = 0

\* server.go:265 taken at its word, "Lazy pruning of stale mappings": the mapping
\* Stat deletes is of a file that is not there.
PruneOnlyStale ==
  [][\A s \in Sessions : Prune(s) /\ Mapped(s, op[s].name) # None
       => Mapped(s, op[s].name) \notin disk]_vars

\* The registry does not grow over a long session: but for I/O errors and files two
\* sessions were at work on at once, a camera none of whose sessions is at work has
\* no mapping left.
NoMappingLeaks ==
  \A c \in Cameras :
    (\A s \in Sessions : Cam(s) = c => At(s, "idle")) =>
      \A v \in Names : registry[c][v] # None => registry[c][v] \in left \cup contested
=============================================================================
