-------------------------- MODULE ObservedFsProofs --------------------------
(***************************************************************************)
(* What holds of the FTP server's registries for any number of cameras,    *)
(* sessions, names and files, and however the sessions of one camera run   *)
(* over each other.                                                        *)
(***************************************************************************)
EXTENDS ObservedFs, TLAPS

-----------------------------------------------------------------------------
\* What a session is in the middle of always has a name and a physical file.
OpTyped ==
  /\ op \in [Sessions -> [at : Places, name : Names \cup {None},
                          phys : Phys \cup {None}, mode : Modes \cup {None}]]
  /\ \A s \in Sessions : ~At(s, "idle") => op[s].name \in Names /\ op[s].phys \in Phys

\* The three ways a session goes on keep what it is in the middle of typed.
LEMMA FinishTyped ==
  ASSUME OpTyped, NEW s \in Sessions, Finish(s) PROVE OpTyped'
BY DEF OpTyped, Finish, Idle, At, Places

LEMMA MoveTyped ==
  ASSUME OpTyped, NEW s \in Sessions, ~At(s, "idle"), NEW place \in Places, MoveTo(s, place)
  PROVE  OpTyped'
<1> DEFINE o == [op[s] EXCEPT !.at = place]
<1>1. /\ o \in [at : Places, name : Names \cup {None},
                phys : Phys \cup {None}, mode : Modes \cup {None}]
      /\ o.name \in Names /\ o.phys \in Phys
  BY DEF OpTyped, At
<1>2. op' = [op EXCEPT ![s] = o]
  BY DEF MoveTo, OpTyped
<1> HIDE DEF o
<1>3. QED
  BY <1>1, <1>2 DEF OpTyped, At

LEMMA StartTyped ==
  ASSUME OpTyped, NEW s \in Sessions, NEW place \in Places, NEW v \in Names, NEW p \in Phys,
         NEW m \in Modes \cup {None}, Start(s, place, v, p, m)
  PROVE  OpTyped'
BY DEF OpTyped, Start, At

LEMMA TakesUpGrows ==
  ASSUME NEW p \in Phys, TakesUp(p) PROVE contested' \subseteq contested \cup {p}
BY DEF TakesUp

LEMMA StepType == TypeOK /\ [Next]_vars => TypeOK'
<1> SUFFICES ASSUME TypeOK, [Next]_vars PROVE TypeOK'
  OBVIOUS
<1>0. OpTyped /\ registry \in [Cameras -> [Names -> Phys \cup {None}]]
  BY DEF TypeOK, OpTyped
<1> USE BoundAssumption, SessionsAssumption DEF TypeOK, Map, Mapped, Cam
<1>1. ASSUME NEW s \in Sessions, NEW v \in Names, NEW m \in Modes, OpenMapped(s, v, m) PROVE TypeOK'
  <2>1. OpTyped'
    BY <1>0, <1>1, StartTyped DEF OpenMapped, At, Places
  <2>2. QED
    BY <2>1, <1>0, <1>1, TakesUpGrows DEF OpenMapped, OpTyped, At
<1>2. ASSUME NEW s \in Sessions, NEW v \in Names, NEW m \in Modes, OpenNew(s, v, m) PROVE TypeOK'
  <2>1. OpTyped'
    BY <1>0, <1>2, StartTyped DEF OpenNew, At, Places
  <2>2. QED
    BY <2>1, <1>0, <1>2 DEF OpenNew, OpTyped, At
<1>3. ASSUME NEW s \in Sessions, NEW v \in Names, RemoveBegins(s, v) PROVE TypeOK'
  <2>1. OpTyped'
    BY <1>0, <1>3, StartTyped DEF RemoveBegins, At, Places
  <2>2. QED
    BY <2>1, <1>0, <1>3, TakesUpGrows DEF RemoveBegins, OpTyped, At
<1>4. ASSUME NEW s \in Sessions, NEW v \in Names, StatReads(s, v) PROVE TypeOK'
  <2>1. OpTyped'
    BY <1>0, <1>4, StartTyped DEF StatReads, At, Places
  <2>2. QED
    BY <2>1, <1>0, <1>4 DEF StatReads, OpTyped, At
<1>5. ASSUME NEW s \in Sessions, NEW v \in Names, NEW w \in Names, Rename(s, v, w) PROVE TypeOK'
  <2>1. OpTyped'
    BY <1>0, <1>5 DEF Rename, OpTyped, At
  <2>2. QED
    BY <2>1, <1>0, <1>5, TakesUpGrows DEF Rename, OpTyped, At
<1>6. ASSUME NEW s \in Sessions, OpenSucceeds(s) PROVE TypeOK'
  <2>1. OpTyped'
    BY <1>0, <1>6, MoveTyped DEF OpenSucceeds, At, Places, OpTyped
  <2>2. QED
    BY <2>1, <1>0, <1>6 DEF OpenSucceeds, OpTyped, At
<1>7. ASSUME NEW s \in Sessions, OpenFails(s) PROVE TypeOK'
  <2>1. OpTyped'
    BY <1>0, <1>7, FinishTyped DEF OpenFails, At, OpTyped
  <2>2. QED
    BY <2>1, <1>0, <1>7 DEF OpenFails, OpTyped, At
<1>8. ASSUME NEW s \in Sessions, CloseFile(s) PROVE TypeOK'
  <2>1. OpTyped'
    BY <1>0, <1>8, FinishTyped, MoveTyped DEF CloseFile, At, Places, OpTyped
  <2>2. QED
    BY <2>1, <1>0, <1>8 DEF CloseFile, OpTyped, At
<1>9. ASSUME NEW s \in Sessions, CloseFails(s) PROVE TypeOK'
  <2>1. OpTyped'
    BY <1>0, <1>9, FinishTyped DEF CloseFails, At, OpTyped
  <2>2. QED
    BY <2>1, <1>0, <1>9 DEF CloseFails, OpTyped, At
<1>10. ASSUME NEW s \in Sessions, HandOver(s) PROVE TypeOK'
  <2>1. OpTyped'
    BY <1>0, <1>10, FinishTyped DEF HandOver, At, OpTyped
  <2>2. QED
    BY <2>1, <1>0, <1>10 DEF HandOver, OpTyped, At
<1>11. ASSUME NEW s \in Sessions, RemoveEnds(s) PROVE TypeOK'
  <2>1. OpTyped'
    BY <1>0, <1>11, FinishTyped DEF RemoveEnds, At, OpTyped
  <2>2. QED
    BY <2>1, <1>0, <1>11 DEF RemoveEnds, OpTyped, At
<1>12. ASSUME NEW s \in Sessions, StatLooks(s) PROVE TypeOK'
  <2>1. OpTyped'
    BY <1>0, <1>12, FinishTyped, MoveTyped DEF StatLooks, At, Places, OpTyped
  <2>2. QED
    BY <2>1, <1>0, <1>12 DEF StatLooks, OpTyped, At
<1>13. ASSUME NEW s \in Sessions, Prune(s) PROVE TypeOK'
  <2>1. OpTyped'
    BY <1>0, <1>13, FinishTyped DEF Prune, At, OpTyped
  <2>2. QED
    BY <2>1, <1>0, <1>13 DEF Prune, OpTyped, At
<1>14. ASSUME NEW p \in Phys, ProcessEnds(p) PROVE TypeOK'
  BY <1>14, <1>0 DEF ProcessEnds, OpTyped, At
<1>15. CASE UNCHANGED vars
  BY <1>15 DEF vars, OpTyped, At
<1>16. QED
  BY <1>1, <1>2, <1>3, <1>4, <1>5, <1>6, <1>7, <1>8, <1>9, <1>10, <1>11, <1>12, <1>13, <1>14, <1>15 DEF Next

-----------------------------------------------------------------------------
\* A file stays with the camera it was drawn for: every new mapping and every
\* operation of a session takes it from the registry of the session's camera.
LEMMA StepIsolated == TypeOK /\ CamerasIsolated /\ [Next]_vars => CamerasIsolated'
<1> SUFFICES ASSUME TypeOK, CamerasIsolated, [Next]_vars PROVE CamerasIsolated'
  OBVIOUS
<1> USE SessionsAssumption, NoneAssumption
    DEF TypeOK, CamerasIsolated, At, Start, Finish, MoveTo, Map, Mapped, Cam, Idle
<1>1. ASSUME NEW s \in Sessions, NEW v \in Names, NEW m \in Modes, OpenMapped(s, v, m) PROVE CamerasIsolated'
  BY <1>1 DEF OpenMapped
<1>2. ASSUME NEW s \in Sessions, NEW v \in Names, NEW m \in Modes, OpenNew(s, v, m) PROVE CamerasIsolated'
  BY <1>2 DEF OpenNew
<1>3. ASSUME NEW s \in Sessions, NEW v \in Names, RemoveBegins(s, v) PROVE CamerasIsolated'
  BY <1>3 DEF RemoveBegins
<1>4. ASSUME NEW s \in Sessions, NEW v \in Names, StatReads(s, v) PROVE CamerasIsolated'
  BY <1>4 DEF StatReads
<1>5. ASSUME NEW s \in Sessions, NEW v \in Names, NEW w \in Names, Rename(s, v, w) PROVE CamerasIsolated'
  BY <1>5 DEF Rename
<1>6. ASSUME NEW s \in Sessions, OpenSucceeds(s) PROVE CamerasIsolated'
  BY <1>6 DEF OpenSucceeds
<1>7. ASSUME NEW s \in Sessions, OpenFails(s) PROVE CamerasIsolated'
  BY <1>7 DEF OpenFails
<1>8. ASSUME NEW s \in Sessions, CloseFile(s) PROVE CamerasIsolated'
  <2>1. CASE Finish(s)
    BY <1>8, <2>1 DEF CloseFile
  <2>2. CASE MoveTo(s, "closing")
    BY <1>8, <2>2 DEF CloseFile
  <2>3. QED
    BY <1>8, <2>1, <2>2 DEF CloseFile
<1>9. ASSUME NEW s \in Sessions, CloseFails(s) PROVE CamerasIsolated'
  BY <1>9 DEF CloseFails
<1>10. ASSUME NEW s \in Sessions, HandOver(s) PROVE CamerasIsolated'
  BY <1>10 DEF HandOver
<1>11. ASSUME NEW s \in Sessions, RemoveEnds(s) PROVE CamerasIsolated'
  BY <1>11 DEF RemoveEnds
<1>12. ASSUME NEW s \in Sessions, StatLooks(s) PROVE CamerasIsolated'
  <2>1. CASE Finish(s)
    BY <1>12, <2>1 DEF StatLooks
  <2>2. CASE MoveTo(s, "prune")
    BY <1>12, <2>2 DEF StatLooks
  <2>3. QED
    BY <1>12, <2>1, <2>2 DEF StatLooks
<1>13. ASSUME NEW s \in Sessions, Prune(s) PROVE CamerasIsolated'
  BY <1>13 DEF Prune
<1>14. ASSUME NEW p \in Phys, ProcessEnds(p) PROVE CamerasIsolated'
  BY <1>14 DEF ProcessEnds
<1>15. CASE UNCHANGED vars
  BY <1>15 DEF vars
<1>16. QED
  BY <1>1, <1>2, <1>3, <1>4, <1>5, <1>6, <1>7, <1>8, <1>9, <1>10, <1>11, <1>12, <1>13, <1>14, <1>15 DEF Next

-----------------------------------------------------------------------------
\* The registry after a Rename.
LEMMA RenameMaps ==
  ASSUME TypeOK, NEW s \in Sessions, NEW v \in Names, NEW w \in Names, Rename(s, v, w)
  PROVE  /\ \A c \in Cameras : c # Cam(s) => registry'[c] = registry[c]
         /\ \A x \in Names : registry'[Cam(s)][x] =
              IF x = w THEN registry[Cam(s)][v] ELSE IF x = v THEN None ELSE registry[Cam(s)][x]
BY SessionsAssumption DEF TypeOK, Rename, Mapped, Cam

\* No step gives a second name to a file: OpenFile maps a name nobody has drawn,
\* Rename takes the old name away.
LEMMA StepInjective ==
  TypeOK /\ CamerasIsolated /\ MappingInjective /\ [Next]_vars => MappingInjective'
<1> SUFFICES ASSUME TypeOK, CamerasIsolated, MappingInjective, [Next]_vars PROVE MappingInjective'
  OBVIOUS
<1> USE SessionsAssumption, NoneAssumption
    DEF TypeOK, MappingInjective, Start, Finish, MoveTo, Map, Mapped, Cam
<1>1. ASSUME NEW s \in Sessions, NEW v \in Names, NEW m \in Modes, OpenMapped(s, v, m) PROVE MappingInjective'
  BY <1>1 DEF OpenMapped
<1>2. ASSUME NEW s \in Sessions, NEW v \in Names, NEW m \in Modes, OpenNew(s, v, m) PROVE MappingInjective'
  BY <1>2 DEF OpenNew, CamerasIsolated
<1>3. ASSUME NEW s \in Sessions, NEW v \in Names, RemoveBegins(s, v) PROVE MappingInjective'
  BY <1>3 DEF RemoveBegins
<1>4. ASSUME NEW s \in Sessions, NEW v \in Names, StatReads(s, v) PROVE MappingInjective'
  BY <1>4 DEF StatReads
<1>5. ASSUME NEW s \in Sessions, NEW v \in Names, NEW w \in Names, Rename(s, v, w) PROVE MappingInjective'
  BY <1>5, RenameMaps DEF Rename
<1>6. ASSUME NEW s \in Sessions, OpenSucceeds(s) PROVE MappingInjective'
  BY <1>6 DEF OpenSucceeds
<1>7. ASSUME NEW s \in Sessions, OpenFails(s) PROVE MappingInjective'
  BY <1>7 DEF OpenFails
<1>8. ASSUME NEW s \in Sessions, CloseFile(s) PROVE MappingInjective'
  BY <1>8 DEF CloseFile
<1>9. ASSUME NEW s \in Sessions, CloseFails(s) PROVE MappingInjective'
  BY <1>9 DEF CloseFails
<1>10. ASSUME NEW s \in Sessions, HandOver(s) PROVE MappingInjective'
  BY <1>10 DEF HandOver
<1>11. ASSUME NEW s \in Sessions, RemoveEnds(s) PROVE MappingInjective'
  BY <1>11 DEF RemoveEnds
<1>12. ASSUME NEW s \in Sessions, StatLooks(s) PROVE MappingInjective'
  BY <1>12 DEF StatLooks
<1>13. ASSUME NEW s \in Sessions, Prune(s) PROVE MappingInjective'
  BY <1>13 DEF Prune
<1>14. ASSUME NEW p \in Phys, ProcessEnds(p) PROVE MappingInjective'
  BY <1>14 DEF ProcessEnds
<1>15. CASE UNCHANGED vars
  BY <1>15 DEF vars
<1>16. QED
  BY <1>1, <1>2, <1>3, <1>4, <1>5, <1>6, <1>7, <1>8, <1>9, <1>10, <1>11, <1>12, <1>13, <1>14, <1>15 DEF Next

-----------------------------------------------------------------------------
\* A file always has somebody who will deal with it, or has been left behind by
\* an error: a writer hands it over, a call of Process or a Remove deletes it.
LEMMA StepNoOrphan == TypeOK /\ NoOrphan /\ [Next]_vars => NoOrphan'
<1> SUFFICES ASSUME TypeOK, NoOrphan, [Next]_vars PROVE NoOrphan'
  OBVIOUS
<1> USE DEF TypeOK, NoOrphan, Holds, Writing, At, Start, Finish, MoveTo, Idle
<1>1. ASSUME NEW s \in Sessions, NEW v \in Names, NEW m \in Modes, OpenMapped(s, v, m) PROVE NoOrphan'
  BY <1>1 DEF OpenMapped
<1>2. ASSUME NEW s \in Sessions, NEW v \in Names, NEW m \in Modes, OpenNew(s, v, m) PROVE NoOrphan'
  BY <1>2 DEF OpenNew
<1>3. ASSUME NEW s \in Sessions, NEW v \in Names, RemoveBegins(s, v) PROVE NoOrphan'
  BY <1>3 DEF RemoveBegins
<1>4. ASSUME NEW s \in Sessions, NEW v \in Names, StatReads(s, v) PROVE NoOrphan'
  BY <1>4 DEF StatReads
<1>5. ASSUME NEW s \in Sessions, NEW v \in Names, NEW w \in Names, Rename(s, v, w) PROVE NoOrphan'
  BY <1>5 DEF Rename
<1>6. ASSUME NEW s \in Sessions, OpenSucceeds(s) PROVE NoOrphan'
  BY <1>6 DEF OpenSucceeds
<1>7. ASSUME NEW s \in Sessions, OpenFails(s) PROVE NoOrphan'
  BY <1>7 DEF OpenFails
<1>8. ASSUME NEW s \in Sessions, CloseFile(s) PROVE NoOrphan'
  <2>1. CASE op[s].mode = "read"
    BY <1>8, <2>1 DEF CloseFile
  <2>2. CASE op[s].mode # "read"
    BY <1>8, <2>2 DEF CloseFile
  <2>3. QED
    BY <2>1, <2>2
<1>9. ASSUME NEW s \in Sessions, CloseFails(s) PROVE NoOrphan'
  BY <1>9 DEF CloseFails
<1>10. ASSUME NEW s \in Sessions, HandOver(s) PROVE NoOrphan'
  BY <1>10 DEF HandOver
<1>11. ASSUME NEW s \in Sessions, RemoveEnds(s) PROVE NoOrphan'
  BY <1>11 DEF RemoveEnds
<1>12. ASSUME NEW s \in Sessions, StatLooks(s) PROVE NoOrphan'
  BY <1>12 DEF StatLooks
<1>13. ASSUME NEW s \in Sessions, Prune(s) PROVE NoOrphan'
  BY <1>13 DEF Prune
<1>14. ASSUME NEW p \in Phys, ProcessEnds(p) PROVE NoOrphan'
  BY <1>14 DEF ProcessEnds
<1>15. CASE UNCHANGED vars
  BY <1>15 DEF vars
<1>16. QED
  BY <1>1, <1>2, <1>3, <1>4, <1>5, <1>6, <1>7, <1>8, <1>9, <1>10, <1>11, <1>12, <1>13, <1>14, <1>15 DEF Next

-----------------------------------------------------------------------------
Inv == TypeOK /\ CamerasIsolated /\ MappingInjective /\ NoOrphan

LEMMA InitInv == Init => Inv
BY BoundAssumption
DEF Init, Inv, TypeOK, CamerasIsolated, MappingInjective, NoOrphan, Idle, At, Places

LEMMA StepInv == Inv /\ [Next]_vars => Inv'
BY StepType, StepIsolated, StepInjective, StepNoOrphan DEF Inv

LEMMA InvHolds == Spec => []Inv
BY InitInv, StepInv, PTL DEF Spec

\* Type correctness of the registries, the sessions and the temp dir.
THEOREM FsTypeCorrect == Spec => []TypeOK
<1>1. Inv => TypeOK
  BY DEF Inv
<1>2. QED
  BY <1>1, InvHolds, PTL

\* Whatever its sessions do, a camera never comes to name, read, write, rename or
\* remove a file that another camera uploaded.
THEOREM Isolation == Spec => []CamerasIsolated
<1>1. Inv => CamerasIsolated
  BY DEF Inv
<1>2. QED
  BY <1>1, InvHolds, PTL

\* No interleaving of the sessions of a camera makes two of its names share a
\* physical file: one Remove or one Close deals with one upload only.
THEOREM Injectivity == Spec => []MappingInjective
<1>1. Inv => MappingInjective
  BY DEF Inv
<1>2. QED
  BY <1>1, InvHolds, PTL

\* Files do not pile up in the temp dir unseen: each is written to, handed over,
\* processed or removed by somebody, unless an error left it there.
THEOREM NothingForgotten == Spec => []NoOrphan
<1>1. Inv => NoOrphan
  BY DEF Inv
<1>2. QED
  BY <1>1, InvHolds, PTL

-----------------------------------------------------------------------------
\* What holds of a file that no two sessions were ever at work on at once, however
\* many sessions the camera has: one session works on it, under the name that is
\* mapped to it; the file of a transfer is there; a mapping of it is that of its
\* session, or was left by an error; once handed over it is nobody else's.
ByOne(p) == \A s, t \in Sessions : Uses(s, p) /\ Uses(t, p) => s = t
ByItsName(p) ==
  \A s \in Sessions, c \in Cameras, v \in Names :
    Uses(s, p) /\ registry[c][v] = p => v = op[s].name /\ ~At(s, "removing")
Present(p) ==
  \A s \in Sessions : Uses(s, p) /\ op[s].at \in {"transfer", "closing"} => p \in disk
ForAReason(p) ==
  \A c \in Cameras, v \in Names :
    registry[c][v] = p => p \in left \/ \E s \in Sessions : Cam(s) = c /\ Uses(s, p)
Owned(p) ==
  calls[p] # 0 =>
    /\ p \in disk /\ calls[p] = 1
    /\ \A s \in Sessions : ~Uses(s, p)
    /\ \A c \in Cameras, v \in Names : registry[c][v] # p

Sole(p) == ByOne(p) /\ ByItsName(p) /\ Present(p) /\ ForAReason(p) /\ Owned(p)

DrawnBeforeOwned == \A p \in Phys : calls[p] # 0 => drawnBy[p] # None
SoleInv == \A p \in Phys \ contested : Sole(p)

\* A call of Process is on a file some camera has drawn.
LEMMA StepDrawn ==
  ASSUME TypeOK, CamerasIsolated, DrawnBeforeOwned, [Next]_vars PROVE DrawnBeforeOwned'
<1> USE SessionsAssumption, NoneAssumption DEF TypeOK, CamerasIsolated, DrawnBeforeOwned, At
<1>1. ASSUME NEW s \in Sessions, NEW v \in Names, NEW m \in Modes, OpenMapped(s, v, m) PROVE DrawnBeforeOwned'
  BY <1>1 DEF OpenMapped
<1>2. ASSUME NEW s \in Sessions, NEW v \in Names, NEW m \in Modes, OpenNew(s, v, m) PROVE DrawnBeforeOwned'
  BY <1>2 DEF OpenNew
<1>3. ASSUME NEW s \in Sessions, NEW v \in Names, RemoveBegins(s, v) PROVE DrawnBeforeOwned'
  BY <1>3 DEF RemoveBegins
<1>4. ASSUME NEW s \in Sessions, NEW v \in Names, StatReads(s, v) PROVE DrawnBeforeOwned'
  BY <1>4 DEF StatReads
<1>5. ASSUME NEW s \in Sessions, NEW v \in Names, NEW w \in Names, Rename(s, v, w) PROVE DrawnBeforeOwned'
  BY <1>5 DEF Rename
<1>6. ASSUME NEW s \in Sessions, OpenSucceeds(s) PROVE DrawnBeforeOwned'
  BY <1>6 DEF OpenSucceeds
<1>7. ASSUME NEW s \in Sessions, OpenFails(s) PROVE DrawnBeforeOwned'
  BY <1>7 DEF OpenFails
<1>8. ASSUME NEW s \in Sessions, CloseFile(s) PROVE DrawnBeforeOwned'
  BY <1>8 DEF CloseFile
<1>9. ASSUME NEW s \in Sessions, CloseFails(s) PROVE DrawnBeforeOwned'
  BY <1>9 DEF CloseFails
<1>10. ASSUME NEW s \in Sessions, HandOver(s) PROVE DrawnBeforeOwned'
  BY <1>10 DEF HandOver
<1>11. ASSUME NEW s \in Sessions, RemoveEnds(s) PROVE DrawnBeforeOwned'
  BY <1>11 DEF RemoveEnds
<1>12. ASSUME NEW s \in Sessions, StatLooks(s) PROVE DrawnBeforeOwned'
  BY <1>12 DEF StatLooks
<1>13. ASSUME NEW s \in Sessions, Prune(s) PROVE DrawnBeforeOwned'
  BY <1>13 DEF Prune
<1>14. ASSUME NEW p \in Phys, ProcessEnds(p) PROVE DrawnBeforeOwned'
  BY <1>14 DEF ProcessEnds
<1>15. CASE UNCHANGED vars
  BY <1>15 DEF vars
<1>16. QED
  BY <1>1, <1>2, <1>3, <1>4, <1>5, <1>6, <1>7, <1>8, <1>9, <1>10, <1>11, <1>12, <1>13, <1>14, <1>15 DEF Next

Safe == TypeOK /\ CamerasIsolated /\ MappingInjective /\ DrawnBeforeOwned

\* A physical name nobody has drawn yet is nobody's.
LEMMA NewIsNobodys ==
  ASSUME Safe, NEW q \in Phys, drawnBy[q] = None
  PROVE  /\ \A c \in Cameras, x \in Names : registry[c][x] # q
         /\ \A t \in Sessions : ~Uses(t, q)
<1>1. \A c \in Cameras : drawnBy[q] # c
  BY NoneAssumption
<1>2. \A c \in Cameras, x \in Names : registry[c][x] # q
  BY <1>1, NoneAssumption DEF Safe, CamerasIsolated
<1>3. \A t \in Sessions : Uses(t, q) => ~At(t, "idle")
  BY DEF Uses, At
<1>4. QED
  BY <1>1, <1>2, <1>3, SessionsAssumption DEF Safe, CamerasIsolated, Uses

\* The close of the file itself and the look of Stat change nobody's work.
LEMMA QuietStep ==
  ASSUME Safe, NEW p \in Phys, Sole(p), NEW s \in Sessions, CloseFile(s) \/ StatLooks(s)
  PROVE  Sole(p)'
<1>1. /\ op \in [Sessions -> [at : Places, name : Names \cup {None},
                              phys : Phys \cup {None}, mode : Modes \cup {None}]]
      /\ \/ Finish(s) /\ (At(s, "stat") \/ (At(s, "transfer") /\ op[s].mode = "read"))
         \/ MoveTo(s, "closing") /\ At(s, "transfer") /\ op[s].mode # "read"
         \/ MoveTo(s, "prune") /\ At(s, "stat")
  BY DEF Safe, TypeOK, CloseFile, StatLooks
<1>2. UNCHANGED <<registry, disk, calls, drawnBy, left, contested>>
  BY DEF CloseFile, StatLooks
<1>3. \A t \in Sessions :
        /\ Uses(t, p)' <=> Uses(t, p)
        /\ Uses(t, p)' => /\ op'[t].name = op[t].name
                          /\ At(t, "removing")' <=> At(t, "removing")
                          /\ op'[t].at \in {"transfer", "closing"} => op[t].at \in {"transfer", "closing"}
  <2>1. CASE Finish(s) /\ (At(s, "stat") \/ (At(s, "transfer") /\ op[s].mode = "read"))
    BY <1>1, <2>1 DEF Finish, Uses, At, Idle
  <2>2. CASE MoveTo(s, "closing") /\ At(s, "transfer") /\ op[s].mode # "read"
    BY <1>1, <2>2 DEF MoveTo, Uses, At
  <2>3. CASE MoveTo(s, "prune") /\ At(s, "stat")
    BY <1>1, <2>3 DEF MoveTo, Uses, At
  <2>4. QED
    BY <1>1, <2>1, <2>2, <2>3
<1>4. QED
  BY <1>2, <1>3 DEF Sole, ByOne, ByItsName, Present, ForAReason, Owned

\* A second session at work on a file would have made it contested.
LEMMA StepByOne ==
  ASSUME Safe, NEW p \in Phys, p \notin contested', Sole(p), [Next]_vars PROVE ByOne(p)'
<1>0. ASSUME NEW s \in Sessions, CloseFile(s) \/ StatLooks(s) PROVE ByOne(p)'
  BY <1>0, QuietStep DEF Sole
<1> USE SessionsAssumption, NoneAssumption
    DEF Safe, TypeOK, CamerasIsolated, At, Start, Finish, MoveTo,
        Map, Mapped, Cam, Idle, Uses, Sole, ByOne
<1>1. ASSUME NEW s \in Sessions, NEW v \in Names, NEW m \in Modes, OpenMapped(s, v, m) PROVE ByOne(p)'
  BY <1>1 DEF OpenMapped, TakesUp
<1>2. ASSUME NEW s \in Sessions, NEW v \in Names, NEW m \in Modes, OpenNew(s, v, m) PROVE ByOne(p)'
  BY <1>2 DEF OpenNew
<1>3. ASSUME NEW s \in Sessions, NEW v \in Names, RemoveBegins(s, v) PROVE ByOne(p)'
  BY <1>3 DEF RemoveBegins, TakesUp
<1>4. ASSUME NEW s \in Sessions, NEW v \in Names, StatReads(s, v) PROVE ByOne(p)'
  BY <1>4 DEF StatReads
<1>5. ASSUME NEW s \in Sessions, NEW v \in Names, NEW w \in Names, Rename(s, v, w) PROVE ByOne(p)'
  BY <1>5, RenameMaps DEF Rename, TakesUp
<1>6. ASSUME NEW s \in Sessions, OpenSucceeds(s) PROVE ByOne(p)'
  BY <1>6 DEF OpenSucceeds
<1>7. ASSUME NEW s \in Sessions, OpenFails(s) PROVE ByOne(p)'
  BY <1>7 DEF OpenFails
<1>8. ASSUME NEW s \in Sessions, CloseFile(s) PROVE ByOne(p)'
  BY <1>0, <1>8
<1>9. ASSUME NEW s \in Sessions, CloseFails(s) PROVE ByOne(p)'
  BY <1>9 DEF CloseFails
<1>10. ASSUME NEW s \in Sessions, HandOver(s) PROVE ByOne(p)'
  BY <1>10 DEF HandOver
<1>11. ASSUME NEW s \in Sessions, RemoveEnds(s) PROVE ByOne(p)'
  BY <1>11 DEF RemoveEnds
<1>12. ASSUME NEW s \in Sessions, StatLooks(s) PROVE ByOne(p)'
  BY <1>0, <1>12
<1>13. ASSUME NEW s \in Sessions, Prune(s) PROVE ByOne(p)'
  BY <1>13 DEF Prune
<1>14. ASSUME NEW q \in Phys, ProcessEnds(q) PROVE ByOne(p)'
  BY <1>14 DEF ProcessEnds
<1>15. CASE UNCHANGED vars
  BY <1>15 DEF vars
<1>16. QED
  BY <1>1, <1>2, <1>3, <1>4, <1>5, <1>6, <1>7, <1>8, <1>9, <1>10, <1>11, <1>12, <1>13, <1>14, <1>15 DEF Next

\* Whoever takes a file up does so by its only name; a Rename of it would contest it.
LEMMA StepByItsName ==
  ASSUME Safe, NEW p \in Phys, p \notin contested', Sole(p), [Next]_vars PROVE ByItsName(p)'
<1>0. ASSUME NEW s \in Sessions, CloseFile(s) \/ StatLooks(s) PROVE ByItsName(p)'
  BY <1>0, QuietStep DEF Sole
<1>a. ASSUME NEW q \in Phys, drawnBy[q] = None
       PROVE  (\A c \in Cameras, x \in Names : registry[c][x] # q) /\ \A t \in Sessions : ~Uses(t, q)
  BY <1>a, NewIsNobodys
<1> USE SessionsAssumption, NoneAssumption
    DEF Safe, TypeOK, CamerasIsolated, At, Start, Finish, MoveTo,
        Map, Mapped, Cam, Idle, Uses, MappingInjective, Sole, ByOne, ByItsName
<1>1. ASSUME NEW s \in Sessions, NEW v \in Names, NEW m \in Modes, OpenMapped(s, v, m) PROVE ByItsName(p)'
  BY <1>1 DEF OpenMapped, TakesUp
<1>2. ASSUME NEW s \in Sessions, NEW v \in Names, NEW m \in Modes, OpenNew(s, v, m) PROVE ByItsName(p)'
  <2>1. PICK q \in Phys : /\ drawnBy[q] = None
                          /\ op' = [op EXCEPT ![s] = [at |-> "opening", name |-> v, phys |-> q, mode |-> m]]
                          /\ registry' = [registry EXCEPT ![Cam(s)][v] = q]
    BY <1>2 DEF OpenNew
  <2>2. \A c \in Cameras, x \in Names : registry[c][x] # q
    BY <1>a, <2>1
  <2>3. \A t \in Sessions : ~Uses(t, q)
    BY <1>a, <2>1
  <2>4. CASE p = q
    BY <2>1, <2>2, <2>3, <2>4
  <2>5. CASE p # q
    BY <2>1, <2>5
  <2>6. QED
    BY <2>4, <2>5
<1>3. ASSUME NEW s \in Sessions, NEW v \in Names, RemoveBegins(s, v) PROVE ByItsName(p)'
  BY <1>3 DEF RemoveBegins, TakesUp
<1>4. ASSUME NEW s \in Sessions, NEW v \in Names, StatReads(s, v) PROVE ByItsName(p)'
  BY <1>4 DEF StatReads
<1>5. ASSUME NEW s \in Sessions, NEW v \in Names, NEW w \in Names, Rename(s, v, w) PROVE ByItsName(p)'
  BY <1>5, RenameMaps DEF Rename, TakesUp
<1>6. ASSUME NEW s \in Sessions, OpenSucceeds(s) PROVE ByItsName(p)'
  BY <1>6 DEF OpenSucceeds
<1>7. ASSUME NEW s \in Sessions, OpenFails(s) PROVE ByItsName(p)'
  BY <1>7 DEF OpenFails
<1>8. ASSUME NEW s \in Sessions, CloseFile(s) PROVE ByItsName(p)'
  BY <1>0, <1>8
<1>9. ASSUME NEW s \in Sessions, CloseFails(s) PROVE ByItsName(p)'
  BY <1>9 DEF CloseFails
<1>10. ASSUME NEW s \in Sessions, HandOver(s) PROVE ByItsName(p)'
  BY <1>10 DEF HandOver
<1>11. ASSUME NEW s \in Sessions, RemoveEnds(s) PROVE ByItsName(p)'
  BY <1>11 DEF RemoveEnds
<1>12. ASSUME NEW s \in Sessions, StatLooks(s) PROVE ByItsName(p)'
  BY <1>0, <1>12
<1>13. ASSUME NEW s \in Sessions, Prune(s) PROVE ByItsName(p)'
  BY <1>13 DEF Prune
<1>14. ASSUME NEW q \in Phys, ProcessEnds(q) PROVE ByItsName(p)'
  BY <1>14 DEF ProcessEnds
<1>15. CASE UNCHANGED vars
  BY <1>15 DEF vars
<1>16. QED
  BY <1>1, <1>2, <1>3, <1>4, <1>5, <1>6, <1>7, <1>8, <1>9, <1>10, <1>11, <1>12, <1>13, <1>14, <1>15 DEF Next

\* Only the session at work on a file, or the call that owns it, removes it.
LEMMA StepPresent ==
  ASSUME Safe, NEW p \in Phys, p \notin contested', Sole(p), [Next]_vars PROVE Present(p)'
<1>0. ASSUME NEW s \in Sessions, CloseFile(s) \/ StatLooks(s) PROVE Present(p)'
  BY <1>0, QuietStep DEF Sole
<1> USE SessionsAssumption, NoneAssumption
    DEF Safe, TypeOK, CamerasIsolated, At, Start, Finish, MoveTo,
        Map, Mapped, Cam, Idle, Uses, Sole, ByOne, Present, Owned
<1>1. ASSUME NEW s \in Sessions, NEW v \in Names, NEW m \in Modes, OpenMapped(s, v, m) PROVE Present(p)'
  BY <1>1 DEF OpenMapped, TakesUp
<1>2. ASSUME NEW s \in Sessions, NEW v \in Names, NEW m \in Modes, OpenNew(s, v, m) PROVE Present(p)'
  BY <1>2 DEF OpenNew
<1>3. ASSUME NEW s \in Sessions, NEW v \in Names, RemoveBegins(s, v) PROVE Present(p)'
  BY <1>3 DEF RemoveBegins, TakesUp
<1>4. ASSUME NEW s \in Sessions, NEW v \in Names, StatReads(s, v) PROVE Present(p)'
  BY <1>4 DEF StatReads
<1>5. ASSUME NEW s \in Sessions, NEW v \in Names, NEW w \in Names, Rename(s, v, w) PROVE Present(p)'
  BY <1>5, RenameMaps DEF Rename, TakesUp
<1>6. ASSUME NEW s \in Sessions, OpenSucceeds(s) PROVE Present(p)'
  BY <1>6 DEF OpenSucceeds
<1>7. ASSUME NEW s \in Sessions, OpenFails(s) PROVE Present(p)'
  BY <1>7 DEF OpenFails
<1>8. ASSUME NEW s \in Sessions, CloseFile(s) PROVE Present(p)'
  BY <1>0, <1>8
<1>9. ASSUME NEW s \in Sessions, CloseFails(s) PROVE Present(p)'
  BY <1>9 DEF CloseFails
<1>10. ASSUME NEW s \in Sessions, HandOver(s) PROVE Present(p)'
  BY <1>10 DEF HandOver
<1>11. ASSUME NEW s \in Sessions, RemoveEnds(s) PROVE Present(p)'
  BY <1>11 DEF RemoveEnds
<1>12. ASSUME NEW s \in Sessions, StatLooks(s) PROVE Present(p)'
  BY <1>0, <1>12
<1>13. ASSUME NEW s \in Sessions, Prune(s) PROVE Present(p)'
  BY <1>13 DEF Prune
<1>14. ASSUME NEW q \in Phys, ProcessEnds(q) PROVE Present(p)'
  BY <1>14 DEF ProcessEnds
<1>15. CASE UNCHANGED vars
  BY <1>15 DEF vars
<1>16. QED
  BY <1>1, <1>2, <1>3, <1>4, <1>5, <1>6, <1>7, <1>8, <1>9, <1>10, <1>11, <1>12, <1>13, <1>14, <1>15 DEF Next

\* A mapping goes with the end of the work on its file, unless that fails.
LEMMA StepForAReason ==
  ASSUME Safe, NEW p \in Phys, p \notin contested', Sole(p), [Next]_vars PROVE ForAReason(p)'
<1>0. ASSUME NEW s \in Sessions, CloseFile(s) \/ StatLooks(s) PROVE ForAReason(p)'
  BY <1>0, QuietStep DEF Sole
<1> USE SessionsAssumption, NoneAssumption
    DEF Safe, TypeOK, CamerasIsolated, At, Start, Finish, MoveTo,
        Map, Mapped, Cam, Idle, Uses, MappingInjective, Sole, ByItsName, ForAReason
<1>1. ASSUME NEW s \in Sessions, NEW v \in Names, NEW m \in Modes, OpenMapped(s, v, m) PROVE ForAReason(p)'
  BY <1>1 DEF OpenMapped, TakesUp
<1>2. ASSUME NEW s \in Sessions, NEW v \in Names, NEW m \in Modes, OpenNew(s, v, m) PROVE ForAReason(p)'
  <2>1. PICK q \in Phys : /\ drawnBy[q] = None
                          /\ op' = [op EXCEPT ![s] = [at |-> "opening", name |-> v, phys |-> q, mode |-> m]]
                          /\ registry' = [registry EXCEPT ![Cam(s)][v] = q]
    BY <1>2 DEF OpenNew
  <2>2. CASE p = q
    BY <1>2, <2>1, <2>2 DEF OpenNew
  <2>3. CASE p # q
    <3>1. \A c \in Cameras, x \in Names : registry'[c][x] = p => registry[c][x] = p
      BY <2>1, <2>3
    <3>2. \A t \in Sessions : Uses(t, p) => Uses(t, p)'
      BY <1>2, <2>1 DEF OpenNew
    <3>3. left' = left
      BY <1>2 DEF OpenNew
    <3> HIDE DEF Uses
    <3>4. QED
      BY <3>1, <3>2, <3>3
  <2>4. QED
    BY <2>2, <2>3
<1>3. ASSUME NEW s \in Sessions, NEW v \in Names, RemoveBegins(s, v) PROVE ForAReason(p)'
  <2>1. \A c \in Cameras, x \in Names : registry'[c][x] = p => registry[c][x] = p
    BY <1>3 DEF RemoveBegins
  <2>2. \A t \in Sessions : Uses(t, p) => Uses(t, p)'
    BY <1>3 DEF RemoveBegins
  <2>3. left' = left
    BY <1>3 DEF RemoveBegins
  <2> HIDE DEF Uses
  <2>4. QED
    BY <2>1, <2>2, <2>3
<1>4. ASSUME NEW s \in Sessions, NEW v \in Names, StatReads(s, v) PROVE ForAReason(p)'
  BY <1>4 DEF StatReads
<1>5. ASSUME NEW s \in Sessions, NEW v \in Names, NEW w \in Names, Rename(s, v, w) PROVE ForAReason(p)'
  BY <1>5, RenameMaps DEF Rename, TakesUp
<1>6. ASSUME NEW s \in Sessions, OpenSucceeds(s) PROVE ForAReason(p)'
  BY <1>6 DEF OpenSucceeds
<1>7. ASSUME NEW s \in Sessions, OpenFails(s) PROVE ForAReason(p)'
  BY <1>7 DEF OpenFails
<1>8. ASSUME NEW s \in Sessions, CloseFile(s) PROVE ForAReason(p)'
  BY <1>0, <1>8
<1>9. ASSUME NEW s \in Sessions, CloseFails(s) PROVE ForAReason(p)'
  BY <1>9 DEF CloseFails
<1>10. ASSUME NEW s \in Sessions, HandOver(s) PROVE ForAReason(p)'
  BY <1>10 DEF HandOver
<1>11. ASSUME NEW s \in Sessions, RemoveEnds(s) PROVE ForAReason(p)'
  BY <1>11 DEF RemoveEnds
<1>12. ASSUME NEW s \in Sessions, StatLooks(s) PROVE ForAReason(p)'
  BY <1>0, <1>12
<1>13. ASSUME NEW s \in Sessions, Prune(s) PROVE ForAReason(p)'
  BY <1>13 DEF Prune
<1>14. ASSUME NEW q \in Phys, ProcessEnds(q) PROVE ForAReason(p)'
  BY <1>14 DEF ProcessEnds
<1>15. CASE UNCHANGED vars
  BY <1>15 DEF vars
<1>16. QED
  BY <1>1, <1>2, <1>3, <1>4, <1>5, <1>6, <1>7, <1>8, <1>9, <1>10, <1>11, <1>12, <1>13, <1>14, <1>15 DEF Next

\* The hand-over takes the last name of a file, which nobody can take up then.
LEMMA StepOwnedFile ==
  ASSUME Safe, NEW p \in Phys, p \notin contested', Sole(p), [Next]_vars PROVE Owned(p)'
<1>0. ASSUME NEW s \in Sessions, CloseFile(s) \/ StatLooks(s) PROVE Owned(p)'
  BY <1>0, QuietStep DEF Sole
<1> USE SessionsAssumption, NoneAssumption
    DEF Safe, TypeOK, CamerasIsolated, At, Start, Finish, MoveTo,
        Map, Mapped, Cam, Idle, Uses, MappingInjective, DrawnBeforeOwned, Sole, ByOne, ByItsName, Present, Owned
<1>1. ASSUME NEW s \in Sessions, NEW v \in Names, NEW m \in Modes, OpenMapped(s, v, m) PROVE Owned(p)'
  BY <1>1 DEF OpenMapped, TakesUp
<1>2. ASSUME NEW s \in Sessions, NEW v \in Names, NEW m \in Modes, OpenNew(s, v, m) PROVE Owned(p)'
  BY <1>2 DEF OpenNew
<1>3. ASSUME NEW s \in Sessions, NEW v \in Names, RemoveBegins(s, v) PROVE Owned(p)'
  BY <1>3 DEF RemoveBegins, TakesUp
<1>4. ASSUME NEW s \in Sessions, NEW v \in Names, StatReads(s, v) PROVE Owned(p)'
  BY <1>4 DEF StatReads
<1>5. ASSUME NEW s \in Sessions, NEW v \in Names, NEW w \in Names, Rename(s, v, w) PROVE Owned(p)'
  BY <1>5, RenameMaps DEF Rename, TakesUp
<1>6. ASSUME NEW s \in Sessions, OpenSucceeds(s) PROVE Owned(p)'
  BY <1>6 DEF OpenSucceeds
<1>7. ASSUME NEW s \in Sessions, OpenFails(s) PROVE Owned(p)'
  BY <1>7 DEF OpenFails
<1>8. ASSUME NEW s \in Sessions, CloseFile(s) PROVE Owned(p)'
  BY <1>0, <1>8
<1>9. ASSUME NEW s \in Sessions, CloseFails(s) PROVE Owned(p)'
  BY <1>9 DEF CloseFails
<1>10. ASSUME NEW s \in Sessions, HandOver(s) PROVE Owned(p)'
  <2>1. CASE op[s].phys = p
    <3>1. Uses(s, p) /\ calls[p] = 0
      BY <1>10, <2>1 DEF HandOver
    <3>2. p \in disk' /\ calls'[p] = 1
      BY <1>10, <2>1, <3>1 DEF HandOver
    <3>3. \A t \in Sessions : ~Uses(t, p)'
      BY <1>10, <2>1, <3>1 DEF HandOver
    <3>4. \A c \in Cameras, v \in Names : registry'[c][v] # p
      BY <1>10, <2>1, <3>1 DEF HandOver
    <3>5. QED
      BY <3>2, <3>3, <3>4
  <2>2. CASE op[s].phys # p
    BY <1>10, <2>2 DEF HandOver
  <2>3. QED
    BY <2>1, <2>2
<1>11. ASSUME NEW s \in Sessions, RemoveEnds(s) PROVE Owned(p)'
  BY <1>11 DEF RemoveEnds
<1>12. ASSUME NEW s \in Sessions, StatLooks(s) PROVE Owned(p)'
  BY <1>0, <1>12
<1>13. ASSUME NEW s \in Sessions, Prune(s) PROVE Owned(p)'
  BY <1>13 DEF Prune
<1>14. ASSUME NEW q \in Phys, ProcessEnds(q) PROVE Owned(p)'
  BY <1>14 DEF ProcessEnds
<1>15. CASE UNCHANGED vars
  BY <1>15 DEF vars
<1>16. QED
  BY <1>1, <1>2, <1>3, <1>4, <1>5, <1>6, <1>7, <1>8, <1>9, <1>10, <1>11, <1>12, <1>13, <1>14, <1>15 DEF Next

\* A file only ever becomes contested, so the invariant of the others is inductive.
LEMMA StepSole == Inv /\ DrawnBeforeOwned /\ SoleInv /\ [Next]_vars => SoleInv'
<1> SUFFICES ASSUME Inv, DrawnBeforeOwned, SoleInv, [Next]_vars PROVE SoleInv'
  OBVIOUS
<1>1. Safe
  BY DEF Inv, Safe
<1>2. contested \subseteq contested'
  BY DEF Next, vars, TakesUp, OpenMapped, OpenNew, RemoveBegins, StatReads, Rename, OpenSucceeds,
         OpenFails, CloseFile, CloseFails, HandOver, RemoveEnds, StatLooks, Prune, ProcessEnds
<1>3. ASSUME NEW p \in Phys, p \notin contested' PROVE Sole(p)'
  <2>1. Sole(p)
    BY <1>2, <1>3 DEF SoleInv
  <2>2. ByOne(p)' /\ ByItsName(p)' /\ Present(p)' /\ ForAReason(p)' /\ Owned(p)'
    BY <1>1, <1>3, <2>1, StepByOne, StepByItsName, StepPresent, StepForAReason, StepOwnedFile
  <2>3. QED
    BY <2>2 DEF Sole
<1>4. QED
  BY <1>3 DEF SoleInv

FilesInv == DrawnBeforeOwned /\ SoleInv

LEMMA InitFiles == Init => FilesInv
BY NoneAssumption
DEF Init, FilesInv, DrawnBeforeOwned, SoleInv, Sole, ByOne, ByItsName, Present, ForAReason, Owned,
    Uses, Idle

LEMMA StepFiles == Inv /\ FilesInv /\ [Next]_vars => FilesInv'
BY StepSole, StepDrawn DEF Inv, FilesInv

LEMMA FilesInvHolds == Spec => []FilesInv
BY InitFiles, StepFiles, InvHolds, PTL DEF Spec

\* A file that Process works on is there, once, and nobody else's: whatever the
\* sessions of the camera do, they cannot open, rename or remove it under the
\* coordinator, unless two of them were at work on it at once.
THEOREM Ownership == Spec => []OwnedOnce
<1>1. Inv /\ FilesInv => OwnedOnce
  BY DEF Inv, TypeOK, FilesInv, SoleInv, Sole, Owned, OwnedOnce
<1>2. QED
  BY <1>1, InvHolds, FilesInvHolds, PTL

\* The registry of a camera whose sessions are all idle maps only names of files
\* that an error left behind, or that two of its sessions were at work on at once.
THEOREM NoLeaks == Spec => []NoMappingLeaks
<1>1. Inv /\ FilesInv => NoMappingLeaks
  <2> SUFFICES ASSUME Inv, FilesInv, NEW c \in Cameras, NEW v \in Names, registry[c][v] # None,
                      \A s \in Sessions : Cam(s) = c => At(s, "idle"),
                      registry[c][v] \notin contested
               PROVE  registry[c][v] \in left
    BY DEF NoMappingLeaks
  <2>1. Sole(registry[c][v])
    BY DEF Inv, TypeOK, FilesInv, SoleInv
  <2>2. QED
    BY <2>1 DEF Sole, ForAReason, Uses, At
<1>2. QED
  BY <1>1, InvHolds, FilesInvHolds, PTL

-----------------------------------------------------------------------------
\* A camera that has one session at a time.
OneSession == \A s, t \in Sessions : CameraOf[s] = CameraOf[t] => s = t

\* Two sessions come to be at work on one file only if they are of one camera and
\* are up at the same time.
THEOREM Uncontested == ASSUME OneSession PROVE Spec => [](contested = {})
<1>1. Init => contested = {}
  BY DEF Init
<1>2. Inv /\ contested = {} /\ [Next]_vars => (contested = {})'
  <2> SUFFICES ASSUME Inv, contested = {}, [Next]_vars PROVE contested' = {}
    OBVIOUS
  <2>1. ASSUME NEW s \in Sessions, At(s, "idle"), NEW v \in Names, Mapped(s, v) # None, TakesUp(Mapped(s, v))
        PROVE  contested' = {}
    <3>1. CameraOf[s] \in Cameras /\ drawnBy[Mapped(s, v)] = CameraOf[s]
      BY <2>1, SessionsAssumption DEF Inv, CamerasIsolated, Mapped, Cam
    <3>2. \A t \in Sessions : ~Uses(t, Mapped(s, v))
      BY <2>1, <3>1, SessionsAssumption DEF Inv, CamerasIsolated, OneSession, Uses, At
    <3>3. QED
      BY <2>1, <3>2 DEF TakesUp
  <2>2. QED
    BY <2>1
    DEF Next, vars, OpenMapped, OpenNew, RemoveBegins, StatReads, Rename, OpenSucceeds,
        OpenFails, CloseFile, CloseFails, HandOver, RemoveEnds, StatLooks, Prune, ProcessEnds
<1>3. QED
  BY <1>1, <1>2, InvHolds, PTL DEF Spec

\* What Process is started on is complete: no session writes to it any more, as long
\* as the camera has one session at a time.
THEOREM QuietHandover == ASSUME OneSession PROVE Spec => []HandedOverQuiet
<1>1. Inv /\ FilesInv /\ contested = {} => HandedOverQuiet
  <2> SUFFICES ASSUME Inv, FilesInv, contested = {}, NEW s \in Sessions, Writing(s)
               PROVE  calls[op[s].phys] = 0
    BY DEF HandedOverQuiet
  <2>1. op[s].phys \in Phys /\ Uses(s, op[s].phys)
    BY DEF Inv, TypeOK, Writing, Uses, At
  <2>2. Owned(op[s].phys)
    BY <2>1 DEF FilesInv, SoleInv, Sole
  <2>3. QED
    BY <2>1, <2>2 DEF Owned
<1>2. QED
  BY <1>1, InvHolds, FilesInvHolds, Uncontested, PTL
=============================================================================
