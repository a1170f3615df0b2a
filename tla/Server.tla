------------------------------- MODULE Server -------------------------------
(****************************************************************************)
(* Capture through `serve` and the collection workers, and the switch both  *)
(* obey: archive.capture_enabled in the config file. The server applies it  *)
(* at start and on SIGHUP (cmd/cogvault/archive_serve.go, serve.go) through *)
(* the gate each archive tool enters (internal/mcp/archive_tools.go); a     *)
(* worker reads the file before each claim (internal/archivegate).          *)
(*                                                                          *)
(* A setting is "on", "off", "blocked" (on, while the activation check      *)
(* fails) or "invalid" (unreadable, refused by validation, or with a        *)
(* restart-only key changed).                                               *)
(****************************************************************************)
EXTENDS Integers, FiniteSets

CONSTANTS
  Calls,               \* calls of archive tools that may run at once
  Workers,             \* collection workers
  MaxEdits             \* bound of the model

ASSUME ServerAssumption ==
  /\ IsFiniteSet(Calls) /\ IsFiniteSet(Workers)
  /\ MaxEdits \in Nat

VARIABLES
  file,       \* the setting in the config file
  hups,       \* SIGHUPs in the channel serveWithReload listens on, 0 or 1
  pending,    \* reloads queued for the reload goroutine, 0 or 1
  server,     \* where serveWithReload is
  cancelled,  \* the reload context has ended
  reload,     \* the reload goroutine: [pc, was, want]
  gate,       \* ArchiveGate: [open, inflight, drained]
  listed,     \* the archive tools are registered
  calls,      \* where each call is
  workers,    \* where each worker loop is
  left,       \* edits the model has left
  late        \* jobs each worker began since the file stopped allowing it

vars == <<file, hups, pending, server, cancelled, reload, gate, listed, calls, workers, left, late>>
running == <<hups, pending, server, cancelled>>

Settings == {"on", "off", "blocked", "invalid"}
Idle == [pc |-> "idle", was |-> FALSE, want |-> FALSE]

-----------------------------------------------------------------------------
(* ArchiveGate. drained is "none", "waiting" for the calls that were         *)
(* admitted, or "closed"; Close hands out the channel that waits already.   *)

Enter_Unlocked == TRUE

Enter == gate.open

Released(g) ==
  [g EXCEPT !.inflight = @ - 1,
            !.drained = IF g.inflight = 1 /\ @ = "waiting" THEN "closed" ELSE @]

Opened(g) == [g EXCEPT !.open = TRUE]

Closed(g) ==
  [g EXCEPT !.open = FALSE, !.drained = IF g.inflight = 0 THEN "closed" ELSE "waiting"]

-----------------------------------------------------------------------------
(* newArchiveRuntime: a blocked or invalid setting is an error at start.    *)
Init ==
  /\ file \in {"on", "off"}
  /\ hups = 0 /\ pending = 0
  /\ server = "serving"
  /\ cancelled = FALSE
  /\ reload = Idle
  /\ gate = [open |-> file = "on", inflight |-> 0, drained |-> "none"]
  /\ listed = (file = "on")
  /\ calls = [c \in Calls |-> "out"]
  /\ workers = [w \in Workers |-> "polling"]
  /\ left = MaxEdits
  /\ late = [w \in Workers |-> 0]

WorkerAllowed == file = "on"

(* An operator writes the file and signals the server. The runtime drops a   *)
(* signal that finds the channel full.                                      *)
EditConfig(setting) ==
  /\ left > 0 /\ setting # file
  /\ file' = setting
  /\ left' = left - 1
  /\ late' = IF WorkerAllowed THEN [w \in Workers |-> 0] ELSE late
  /\ hups' = 1
  /\ UNCHANGED <<pending, server, cancelled, reload, gate, listed, calls, workers>>

Terminate ==
  /\ server = "serving"
  /\ server' = "stopping"
  /\ UNCHANGED <<file, hups, pending, cancelled, reload, gate, listed, calls, workers, left, late>>

-----------------------------------------------------------------------------
(* serveWithReload.                                                         *)

Queued_Unbuffered == IF reload.pc = "idle" THEN 1 ELSE 0

(* A send to the channel of capacity 1; when it is full a reload is queued    *)
(* already.                                                                 *)
Queued == 1

TakeSignal ==
  /\ server = "serving" /\ hups = 1
  /\ hups' = 0
  /\ pending' = Queued
  /\ UNCHANGED <<file, server, cancelled, reload, gate, listed, calls, workers, left, late>>

(* Shutdown returns once no request runs, or after its 10 s; the deferred     *)
(* function then ends the reload context and closes the channel.            *)
ShutDown ==
  /\ server = "stopping"
  /\ server' = "joining"
  /\ cancelled' = TRUE
  /\ UNCHANGED <<file, hups, pending, reload, gate, listed, calls, workers, left, late>>

Joined == server = "joining" /\ reload.pc = "idle" /\ pending = 0

(* The reload goroutine has drained the closed channel and ended; runServe    *)
(* closes the archive and the process ends, its calls with it.              *)
CloseArchive ==
  /\ Joined
  /\ server' = "closed"
  /\ calls' = [c \in Calls |-> "out"]
  /\ UNCHANGED <<file, hups, pending, cancelled, reload, gate, listed, workers, left, late>>

-----------------------------------------------------------------------------
(* archiveRuntime.Reload.                                                   *)

Goto(pc) == reload' = [reload EXCEPT !.pc = pc]

BeginReload ==
  /\ reload.pc = "idle" /\ pending = 1
  /\ pending' = 0
  /\ \/ cancelled /\ UNCHANGED reload
     \/ ~cancelled /\ reload' = [Idle EXCEPT !.pc = "loading", !.was = gate.open]
  /\ UNCHANGED <<file, hups, server, cancelled, gate, listed, calls, workers, left, late>>

(* config.Load, configDiff, and what they allow.                            *)
LoadConfig ==
  /\ reload.pc = "loading"
  /\ \/ /\ file = "invalid"
        /\ reload' = Idle
     \/ /\ file # "invalid"
        /\ LET want == file \in {"on", "blocked"} IN
           reload' = IF want = reload.was THEN Idle
                     ELSE [reload EXCEPT !.pc = IF want THEN "checking" ELSE "closing",
                                         !.want = want]
  /\ UNCHANGED <<file, running, gate, listed, calls, workers, left, late>>

(* The activation check: it reads the evidence again, not the config.       *)
CheckActivation ==
  /\ reload.pc = "checking"
  /\ \/ file # "blocked" /\ Goto("opening")
     \/ file = "blocked" /\ reload' = Idle
  /\ UNCHANGED <<file, running, gate, listed, calls, workers, left, late>>

OpenGate ==
  /\ reload.pc = "opening"
  /\ gate' = Opened(gate)
  /\ Goto("adding")
  /\ UNCHANGED <<file, running, listed, calls, workers, left, late>>

AddTools ==
  /\ reload.pc = "adding"
  /\ listed' = TRUE
  /\ reload' = Idle
  /\ UNCHANGED <<file, running, gate, calls, workers, left, late>>

CloseGate ==
  /\ reload.pc = "closing"
  /\ gate' = Closed(gate)
  /\ Goto("deleting")
  /\ UNCHANGED <<file, running, listed, calls, workers, left, late>>

DeleteTools ==
  /\ reload.pc = "deleting"
  /\ listed' = FALSE
  /\ Goto("draining")
  /\ UNCHANGED <<file, running, gate, calls, workers, left, late>>

(* The wait ends with the last admitted call: "disabled" is reported.       *)
Drained ==
  /\ reload.pc = "draining"
  /\ gate.drained = "closed"
  /\ reload' = [Idle EXCEPT !.pc = "disabled"]
  /\ UNCHANGED <<file, running, gate, listed, calls, workers, left, late>>

(* ... or with the drain bound, or with the context.                        *)
DrainGivenUp ==
  /\ reload.pc = "draining"
  /\ reload' = Idle
  /\ UNCHANGED <<file, running, gate, listed, calls, workers, left, late>>

ReloadReturns ==
  /\ reload.pc = "disabled"
  /\ reload' = Idle
  /\ UNCHANGED <<file, running, gate, listed, calls, workers, left, late>>

-----------------------------------------------------------------------------
(* A call of an archive tool. mcp-go looks the handler up, and runs it after *)
(* it let go of its lock.                                                   *)
LookUpHandler(c) ==
  /\ calls[c] = "out" /\ listed /\ server = "serving"
  /\ calls' = [calls EXCEPT ![c] = "found"]
  /\ UNCHANGED <<file, running, reload, gate, listed, workers, left, late>>

EnterGate(c) ==
  /\ calls[c] = "found"
  /\ \/ /\ Enter
        /\ gate' = [gate EXCEPT !.inflight = @ + 1]
        /\ calls' = [calls EXCEPT ![c] = "storing"]
     \/ /\ ~Enter
        /\ calls' = [calls EXCEPT ![c] = "out"]
        /\ UNCHANGED gate
  /\ UNCHANGED <<file, running, reload, listed, workers, left, late>>

CallEnds(c) ==
  /\ calls[c] = "storing"
  /\ gate' = Released(gate)
  /\ calls' = [calls EXCEPT ![c] = "out"]
  /\ UNCHANGED <<file, running, reload, listed, workers, left, late>>

-----------------------------------------------------------------------------
(* RunLoop of a worker: the gate, then at most one job, again and again.     *)

CheckGate(w) ==
  /\ workers[w] = "polling" /\ WorkerAllowed
  /\ workers' = [workers EXCEPT ![w] = "allowed"]
  /\ UNCHANGED <<file, running, reload, gate, listed, calls, left, late>>

RunJob(w) ==
  /\ workers[w] = "allowed"
  /\ workers' = [workers EXCEPT ![w] = "running"]
  /\ late' = [late EXCEPT ![w] = IF WorkerAllowed THEN @ ELSE @ + 1]
  /\ UNCHANGED <<file, running, reload, gate, listed, calls, left>>

(* The job ended, or none was due, or the worker was stopped and came back.  *)
JobEnds(w) ==
  /\ workers[w] \in {"allowed", "running"}
  /\ workers' = [workers EXCEPT ![w] = "polling"]
  /\ UNCHANGED <<file, running, reload, gate, listed, calls, left, late>>

ReloadStep ==
  \/ BeginReload \/ LoadConfig \/ CheckActivation \/ OpenGate \/ AddTools
  \/ CloseGate \/ DeleteTools \/ Drained \/ ReloadReturns

ServeStep == TakeSignal \/ ShutDown \/ CloseArchive

Next ==
  \/ \E setting \in Settings : EditConfig(setting)
  \/ Terminate
  \/ ServeStep
  \/ server # "closed" /\ (ReloadStep \/ DrainGivenUp)
  \/ \E c \in Calls :
       server # "closed" /\ (LookUpHandler(c) \/ EnterGate(c) \/ CallEnds(c))
  \/ \E w \in Workers : CheckGate(w) \/ RunJob(w) \/ JobEnds(w)

Spec == Init /\ [][Next]_vars

(* The server's goroutines run and every admitted call ends; the drain bound  *)
(* passes in the end.                                                       *)
FairSpec ==
  /\ Spec
  /\ WF_vars(ServeStep)
  /\ WF_vars(server # "closed" /\ ReloadStep)
  /\ WF_vars(server # "closed" /\ DrainGivenUp)
  /\ \A c \in Calls : WF_vars(server # "closed" /\ (EnterGate(c) \/ CallEnds(c)))

-----------------------------------------------------------------------------
(* Properties.                                                              *)

TypeOK ==
  /\ file \in Settings
  /\ hups \in 0..1 /\ pending \in 0..1
  /\ server \in {"serving", "stopping", "joining", "closed"}
  /\ cancelled \in BOOLEAN
  /\ reload \in [pc : {"idle", "loading", "checking", "opening", "adding", "closing",
                       "deleting", "draining", "disabled"}, was : BOOLEAN, want : BOOLEAN]
  /\ gate \in [open : BOOLEAN, inflight : 0..Cardinality(Calls),
               drained : {"none", "waiting", "closed"}]
  /\ listed \in BOOLEAN
  /\ calls \in [Calls -> {"out", "found", "storing"}]
  /\ workers \in [Workers -> {"polling", "allowed", "running"}]

(* When a reload reports capture disabled nothing stores any more, also not a *)
(* call that found its handler before the tools were removed, nor one left   *)
(* over from an earlier disabling whose wait was given up (ArchiveGate.Close *)
(* and Enter, Reload).                                                      *)
DisabledIsQuiet ==
  reload.pc = "disabled" => \A c \in Calls : calls[c] # "storing"

(* Once the operators stop editing, the server comes to do what the file      *)
(* last said, however many signals came while a reload ran; a listed tool is *)
(* callable. A file that is refused, or not activated, changes nothing.     *)
LastEditIsApplied ==
  \/ <>(server # "serving")
  \/ /\ <>[](file = "on" => gate.open /\ listed)
     /\ <>[](file = "off" => ~gate.open /\ ~listed)

(* The archive is closed only when no reload can touch its gate or tools,     *)
(* although SIGTERM may come in the middle of one (serveWithReload).        *)
NoReloadOutlives == server = "closed" => reload.pc = "idle" /\ pending = 0

(* The file alone stops a worker: it begins at most the one job whose gate    *)
(* it had passed (RunLoop asks before each claim, not once).                *)
WorkersStopAtOnce == \A w \in Workers : late[w] <= 1

(* What deploy documentation says of the tools: they are exposed only while   *)
(* the activation check passes, and a reload checks it.                     *)
ReloadedIsActivated ==
  \/ <>(server # "serving")
  \/ <>[](file = "blocked" => ~listed)
==============================================================================
