---------------------------- MODULE Application ----------------------------
(***************************************************************************)
(* The life of the process: main, App.Start and App.Stop, the goroutines of*)
(* the FTP and the API server, and the cameras' sessions, around the       *)
(* coordinator's pipeline. A server is started in a goroutine that makes   *)
(* its object first and listens later, and that Stop does not wait for;    *)
(* closing the FTP listener leaves the connections it has accepted alone,  *)
(* whether a camera has logged in on them or not, and a transfer goes on   *)
(* when its connection ends; a server that fails takes the process with it.*)
(* WaitGroup.Wait has two steps, between which a new call of Process is a  *)
(* misuse the runtime panics on.                                           *)
(***************************************************************************)
EXTENDS Coordinator

CONSTANT Sessions   \* the cameras' FTP connections

VARIABLES
  main,      \* where main, and Stop in it, stands, or how the process ended
  ftp,       \* the goroutine of ftp.Server.Start
  api,       \* the goroutine of api.Server.Start
  conns,     \* the connections the listener has accepted
  transfers, \* the uploads taken up from a session and not closed yet
  missed,    \* ghost: calls that had not registered when Wait returned
  clean      \* ghost: Stop closed a listener when all was calm

cameras == <<conns, transfers>>
appVars == <<main, ftp, api, cameras, missed, clean>>
allVars == <<vars, appVars>>

\* The process is there: it has neither left main, nor called os.Exit or been
\* killed ("died"), nor panicked.
Alive == main \notin {"exited", "died", "panicked"}

AppInit ==
  /\ Init
  /\ main = "built" /\ ftp = "none" /\ api = "none"
  /\ conns = {} /\ transfers = {}
  /\ missed = {} /\ clean = FALSE

\* A step of the coordinator that the rest of the process takes no part in.
Alone(A) == A /\ UNCHANGED appVars

-----------------------------------------------------------------------------
\* App.Start: two go statements.
Start ==
  /\ main = "built"
  /\ main' = "started" /\ ftp' = "spawned" /\ api' = "spawned"
  /\ UNCHANGED <<vars, cameras, missed, clean>>

\* signal.Notify: up to here a signal ends the process.
NotifySignals ==
  /\ main = "started" /\ main' = "serving"
  /\ UNCHANGED <<vars, ftp, api, cameras, missed, clean>>

Signal ==
  /\ \/ main \in {"built", "started"} /\ main' = "died"
     \/ main = "serving" /\ main' = "stopping"
  /\ UNCHANGED <<vars, ftp, api, cameras, missed, clean>>

StopCancels ==
  /\ main = "stopping" /\ main' = "cancelled"
  /\ Cancel
  /\ UNCHANGED <<ftp, api, cameras, missed, clean>>

\* Nobody is connected, no upload is being written, and none is between its go
\* statement and the first line of its call.
Calm == conns = {} /\ transfers = {} /\ \A e \in Events : pc[e] # "spawned"

\* Mutants of StopFtp: the listener stays open, or the API is stopped along.
StopFtpKeepsListener ==
  /\ main = "cancelled" /\ main' = "toWait"
  /\ clean' = (ftp = "listening" /\ Calm)
  /\ UNCHANGED <<vars, ftp, api, cameras, missed>>
StopFtpAndApi ==
  /\ main = "cancelled" /\ main' = "toWait"
  /\ ftp' = IF ftp = "listening" THEN "closed" ELSE ftp
  /\ api' = IF api \in {"made", "listening"} THEN "closed" ELSE api
  /\ clean' = (ftp = "listening" /\ Calm)
  /\ UNCHANGED <<vars, cameras, missed>>

\* ftpServer.Stop: without a server object it does nothing, without a listener
\* it is an error Stop only notes; neither keeps the goroutine from listening.
StopFtp ==
  /\ main = "cancelled" /\ main' = "toWait"
  /\ ftp' = IF ftp = "listening" THEN "closed" ELSE ftp
  /\ clean' = (ftp = "listening" /\ Calm)
  /\ UNCHANGED <<vars, api, cameras, missed>>

\* Wait returns: the coordinator's step, and main goes on.
WaitOver ==
  /\ WaitReturn
  /\ main' = "stopApi"
  /\ missed' = {e \in Events : pc[e] \in {"new", "spawned"}}
  /\ UNCHANGED <<ftp, api, cameras, clean>>

\* Mutant of WaitBegins: Stop does not wait.
WaitSkipped ==
  /\ main = "toWait" /\ main' = "stopApi"
  /\ missed' = {e \in Events : pc[e] \in {"new", "spawned"}}
  /\ UNCHANGED <<vars, ftp, api, cameras, clean>>

\* wg.Wait: at once if the counter is 0, else as one that waits for it.
WaitBegins ==
  /\ main = "toWait"
  /\ \/ WaitOver
     \/ wg # 0 /\ main' = "blocked" /\ UNCHANGED <<vars, ftp, api, cameras, missed, clean>>

\* The waiter was released when the counter reached 0, and looks at it again.
WaitWakes ==
  /\ main = "released"
  /\ \/ WaitOver
     \/ wg # 0 /\ main' = "panicked" /\ UNCHANGED <<vars, ftp, api, cameras, missed, clean>>

\* apiServer.Stop: without a server object it does nothing; a server object that
\* has been shut down never listens.
StopApi ==
  /\ main = "stopApi" /\ main' = "leaving"
  /\ api' = IF api \in {"made", "listening"} THEN "closed" ELSE api
  /\ UNCHANGED <<vars, ftp, cameras, missed, clean>>

Leave ==
  /\ main = "leaving" /\ main' = "exited"
  /\ UNCHANGED <<vars, ftp, api, cameras, missed, clean>>

MainStep ==
  \/ Start \/ NotifySignals \/ StopCancels \/ StopFtp
  \/ WaitBegins \/ WaitWakes \/ StopApi \/ Leave

-----------------------------------------------------------------------------
\* The servers' goroutines: the object, then the listener; without a configuration
\* for it, api.Server.Start returns at once.
FtpServes ==
  /\ \/ ftp = "spawned" /\ ftp' = "made"
     \/ ftp = "made" /\ ftp' = "listening"
  /\ UNCHANGED <<vars, main, api, cameras, missed, clean>>

ApiServes ==
  /\ \/ api = "spawned" /\ api' \in {"made", "none"}
     \/ api = "made" /\ api' = "listening"
  /\ UNCHANGED <<vars, main, ftp, cameras, missed, clean>>

\* A server that cannot listen, or whose listener fails, calls logger.Fatal.
Fatal ==
  /\ ftp \in {"made", "listening"} \/ api \in {"made", "listening"}
  /\ main' = "died"
  /\ UNCHANGED <<vars, ftp, api, cameras, missed, clean>>

\* The listener accepts a connection.
Connect(s) ==
  /\ ftp = "listening" /\ s \notin conns
  /\ conns' = conns \cup {s}
  /\ UNCHANGED <<vars, main, ftp, api, transfers, missed, clean>>

\* The end of a connection. Nothing waits for its transfers.
Disconnect(s) ==
  /\ s \in conns
  /\ conns' = conns \ {s}
  /\ UNCHANGED <<vars, main, ftp, api, transfers, missed, clean>>

\* An upload is taken up on a connection that is up. The login before it asks for the
\* credentials and the camera's zone, not for the listener: AuthUser may come at any
\* time, also after Stop. Closing the file hands it over, or fails.
TransferBegins(e) ==
  /\ conns # {} /\ pc[e] = "new" /\ e \notin transfers
  /\ transfers' = transfers \cup {e}
  /\ UNCHANGED <<vars, main, ftp, api, conns, missed, clean>>

TransferFails(e) ==
  /\ e \in transfers
  /\ transfers' = transfers \ {e}
  /\ UNCHANGED <<vars, main, ftp, api, conns, missed, clean>>

SessionUploads(e) ==
  /\ e \in transfers
  /\ transfers' = transfers \ {e}
  /\ Upload(e)
  /\ UNCHANGED <<main, ftp, api, conns, missed, clean>>

\* The Done that takes the counter to 0 releases the one who waits.
ExitReleases(e) ==
  /\ Exit(e)
  /\ main' = IF main = "blocked" /\ wg = 1 THEN "released" ELSE main
  /\ UNCHANGED <<ftp, api, cameras, missed, clean>>

\* A step of a call of Process that main takes no notice of.
CallStep(e) == (pc[e] # "exiting" /\ Step(e)) \/ Timeout(e)

Running ==
  \/ MainStep \/ Signal \/ FtpServes \/ ApiServes \/ Fatal
  \/ \E s \in Sessions : Connect(s) \/ Disconnect(s)
  \/ \E e \in Events :
       \/ TransferBegins(e) \/ TransferFails(e) \/ SessionUploads(e)
       \/ Alone(CallStep(e)) \/ ExitReleases(e)

\* There is nothing after the end of the process.
AppNext == Alive /\ Running

AppSpec == AppInit /\ [][AppNext]_allVars

\* As long as there is a process, goroutines run, deadlines pass, and a call made
\* with a context returns once that context is done. A send to a channel that has
\* room, and keeps it, is made; as a call takes one permit only, no more is needed.
\* Main takes its steps, but no signal need come, no server start, and no camera
\* call.
Live(A) == Alive /\ Alone(A)
Moves(e) ==
  \/ Live(Enter(e) \/ Acquire(e) \/ BackoffFires(e) \/ BackoffCancelled(e))
  \/ CtxDone(e) /\ Live(AnalyzeReturn(e) \/ SaveReturn(e))
  \/ Live(NotifyDone(e) \/ Cleanup(e) \/ Release(e))
  \/ Alive /\ ExitReleases(e)
AppFairness ==
  /\ WF_allVars(Alive /\ MainStep)
  /\ \A e \in Events :
       /\ WF_allVars(Moves(e)) /\ WF_allVars(Live(Timeout(e)))
       /\ \A n \in Notifiers : WF_allVars(CtxDone(e) /\ Live(SendReturn(e, n)))

AppFairSpec == AppSpec /\ AppFairness
-----------------------------------------------------------------------------
\* The variables of the process have their types.
AppTypeOK ==
  /\ main \in {"built", "started", "serving", "stopping", "cancelled", "toWait", "blocked",
               "released", "stopApi", "leaving", "exited", "died", "panicked"}
  /\ ftp \in {"none", "spawned", "made", "listening", "closed"}
  /\ api \in {"none", "spawned", "made", "listening", "closed"}
  /\ conns \subseteq Sessions
  /\ transfers \subseteq Events
  /\ missed \subseteq Events
  /\ clean \in BOOLEAN

\* A process that leaves main has dealt to the end with every call that had
\* registered when Wait returned: what it loses, Wait could not know of.
ExitLosesOnlyMissed ==
  main = "exited" => \A e \in Events \ missed : pc[e] \in {"new", "done"}

\* The artifacts a notification links to are served for as long as the calls Wait
\* waits for may send one (app.go:202).
ApiOutlivesPipeline ==
  api = "closed" => \A e \in Events \ missed : pc[e] \in {"new", "done"}

\* A Stop that closes the listener, "so no new uploads are accepted" (app.go:197), at
\* a calm moment loses nothing: the process does not panic, and exits with every
\* upload handled.
\* Calm is more than that no camera is logged in: a connection accepted before may
\* still log in and upload, and a transfer hands its file over after its session
\* is gone.
CleanStopLosesNothing ==
  clean => /\ main # "panicked"
           /\ main = "exited" => \A e \in Events : pc[e] \in {"new", "done"}

\* Every upload handed over is dealt with to the end, whatever the analyzer, the
\* storage and the notifiers do, unless the process ends: in the long run no call
\* is under way.
UploadsSettle == <>[](Alive => \A e \in Events : pc[e] \in {"new", "done"})

\* A signal, once main listens for it, ends the process, whatever the calls in
\* flight, the cameras and the servers do.
SignalEndsProcess == main = "stopping" ~> ~Alive
=============================================================================
