----------------------------- MODULE Offloader -----------------------------
(***************************************************************************)
(* cli._run, _shutdown, _worker and main: the run loop that gives every    *)
(* logger plugged in a worker thread, serves the workers' jobs (Console),  *)
(* stops on Ctrl-C, and ends with an exit status that says what went wrong.*)
(*                                                                         *)
(* A worker is the thread of a port; what it does to its logger and files  *)
(* is OffloadStore and Configure, and here only how it ends.  Left out:    *)
(* Ruskin running (which only delays a start), the terminal's status line, *)
(* and a second Ctrl-C before _shutdown has entered its loop, which ends   *)
(* the program with a traceback and status 130.                            *)
(***************************************************************************)
EXTENDS Console, Functions

CONSTANTS
  Once,       \* --once
  MaxPlugs,   \* bound: how often a logger is plugged in
  MaxCtrlC    \* bound: how often Ctrl-C is pressed

ASSUME OffloaderAssumption ==
  /\ "nobody" \notin Ports
  /\ Once \in BOOLEAN
  /\ MaxPlugs \in Nat
  /\ MaxCtrlC \in Nat

VARIABLES
  mode,        \* "run" in _run, "stopping" in _shutdown, "ended" after either
  quit,        \* the second Ctrl-C ended it
  present,     \* _run's `present`: the ports seen by this turn's look
  workers,     \* the keys of _run's `workers`
  finished,    \* _run's `finished`
  startedAny,  \* _run's `started_any`
  doing,       \* where each port's worker thread is
  failedNote,  \* the ports with an entry in `_failed`
  unreadyNote, \* the ports with an entry in `_not_ready`
  failed,      \* Settings.failed
  notReady,    \* Settings.not_ready
  plugged,     \* the ports a logger is plugged into
  plugs,       \* how often one was
  presses,     \* how often Ctrl-C was pressed
  due,         \* the ports plugged in since a worker last started there
  seenGone     \* the ports _run has seen empty since their last worker ended

loopVars == <<mode, quit, present, workers, finished, startedAny>>
workerVars == <<doing, failedNote, unreadyNote, failed, notReady>>
portVars == <<plugged, plugs, due, seenGone>>
vars == <<consoleVars, loopVars, workerVars, portVars, presses>>

\* A worker is `started` until it has a stage, and `unstaged` between giving it up and its bookkeeping.
Staged == {"working", "asking", "configuring", "writing", "calling"}
Doing == Staged \cup {"none", "started", "unstaged", "noted", "dead"}
Alive(p) == doing[p] \notin {"none", "dead"}

TypeOK ==
  /\ ConsoleTypeOK
  /\ mode \in {"run", "stopping", "ended"}
  /\ {quit, startedAny} \subseteq BOOLEAN
  /\ {present, workers, finished, failedNote, unreadyNote, failed, notReady, plugged, due, seenGone}
       \subseteq SUBSET Ports
  /\ doing \in [Ports -> Doing]
  /\ \A p \in Ports : /\ reply[p] \in Answers => doing[p] = "asking"
                     /\ reply[p] \in Results => doing[p] = "calling"
  /\ plugs \in 0..MaxPlugs
  /\ presses \in 0..MaxCtrlC

Init ==
  /\ ConsoleInit
  /\ mode = "run"
  /\ quit = FALSE
  /\ present = {}
  /\ workers = {}
  /\ finished = {}
  /\ startedAny = FALSE
  /\ doing = [p \in Ports |-> "none"]
  /\ failedNote = {}
  /\ unreadyNote = {}
  /\ failed = {}
  /\ notReady = {}
  /\ plugged = {}
  /\ plugs = 0
  /\ presses = 0
  /\ due = {}
  /\ seenGone = Ports

(***************************************************************************)
(* The worker thread of a port.                                            *)
(***************************************************************************)
Become(p, place) == doing' = [doing EXCEPT ![p] = place]

Settle(p) ==
  /\ doing[p] = "started"
  /\ Become(p, "working")
  /\ UNCHANGED <<consoleVars, loopVars, failedNote, unreadyNote, failed, notReady, portVars, presses>>

\* Identified, downloaded, saved, and --configure wanted: ask the operator, unless stopping.
AskToConfigure(p) ==
  /\ doing[p] = "working"
  /\ ~stop
  /\ Put(Question(p))
  /\ Become(p, "asking")
  /\ UNCHANGED <<loopVars, failedNote, unreadyNote, failed, notReady, portVars, presses>>

\* `_not_ready[link.port] = ...`, on to the NetCDF file.
NotConfigured(p) ==
  /\ unreadyNote' = unreadyNote \cup {p}
  /\ Become(p, "writing")
  /\ UNCHANGED <<loopVars, failedNote, failed, notReady, portVars, presses>>

SkipConfigure(p) ==
  /\ doing[p] = "working"
  /\ stop
  /\ NotConfigured(p)
  /\ UNCHANGED consoleVars

\* Configured earlier in this session, or --configure not given.
LeaveAsIs(p) ==
  /\ doing[p] = "working"
  /\ Become(p, "writing")
  /\ UNCHANGED <<consoleVars, loopVars, failedNote, unreadyNote, failed, notReady, portVars, presses>>

Configure(p) ==
  /\ doing[p] = "asking"
  /\ reply[p] = "yes"
  /\ Take(p)
  /\ Become(p, "configuring")
  /\ UNCHANGED <<loopVars, failedNote, unreadyNote, failed, notReady, portVars, presses>>

Decline(p) ==
  /\ doing[p] = "asking"
  /\ \/ reply[p] = "no" /\ Take(p)
     \/ Cancel(p)
  /\ NotConfigured(p)

Configured(p) ==
  /\ doing[p] = "configuring"
  /\ Become(p, "writing")
  /\ UNCHANGED <<consoleVars, loopVars, failedNote, unreadyNote, failed, notReady, portVars, presses>>

\* A ConfigError or LinkError, or a logger that is not logging afterwards.
ConfigureFails(p) ==
  /\ doing[p] = "configuring"
  /\ NotConfigured(p)
  /\ UNCHANGED consoleVars

WriteNetCDF(p) ==
  /\ doing[p] = "writing"
  /\ Put(Call(p))
  /\ Become(p, "calling")
  /\ UNCHANGED <<loopVars, failedNote, unreadyNote, failed, notReady, portVars, presses>>

\* offload() returns or raises, and _worker's `finally` begins with `_stage(port, None)`.
EndsWith(p, note) ==
  /\ failedNote' = failedNote \cup note
  /\ Become(p, "unstaged")
  /\ UNCHANGED <<loopVars, unreadyNote, failed, notReady, portVars, presses>>

\* The logger's memory was empty: there is no NetCDF to write.
NothingToWrite(p) ==
  /\ doing[p] = "writing"
  /\ EndsWith(p, {})
  /\ UNCHANGED consoleVars

Written(p) ==
  /\ doing[p] = "calling"
  /\ reply[p] \in Results
  /\ Take(p)
  /\ EndsWith(p, IF reply[p] = "failed" THEN {p} ELSE {})

\* Stopped after a block, a serial error, or any other exception of the download.
OffloadFails(p) ==
  /\ doing[p] = "working"
  /\ EndsWith(p, {p})
  /\ UNCHANGED consoleVars

\* A SerialException goes past _configure_step: the cable was pulled out, or the port failed.  Nothing is noted if its
\* wording is that of a port in use.
PortLost(p) ==
  /\ doing[p] = "configuring"
  /\ \E note \in SUBSET {p} : EndsWith(p, note)
  /\ UNCHANGED consoleVars

\* Any other exception goes past it too: a reply that cannot be read, a report that cannot be written.
OffloadRaises(p) ==
  /\ doing[p] \in {"configuring", "writing"}
  /\ EndsWith(p, {p})
  /\ UNCHANGED consoleVars

\* Another copy of the program holds the port, or a port lost in the download is taken for one: not a failure.
PortBusy(p) ==
  /\ doing[p] = "working"
  /\ EndsWith(p, {})
  /\ UNCHANGED consoleVars

NoteFailed(p) ==
  /\ doing[p] = "unstaged"
  /\ failedNote' = failedNote \ {p}
  /\ failed' = failed \cup (failedNote \cap {p})
  /\ Become(p, "noted")
  /\ UNCHANGED <<consoleVars, loopVars, unreadyNote, notReady, portVars, presses>>

\* Mutant: a logger that failed is not reported as not ready as well.
NoteNotReadyUnlessFailed(p) ==
  /\ doing[p] = "noted"
  /\ unreadyNote' = unreadyNote \ {p}
  /\ notReady' = notReady \cup ((unreadyNote \cap {p}) \ failed)
  /\ Become(p, "dead")
  /\ UNCHANGED <<consoleVars, loopVars, failedNote, failed, portVars, presses>>

NoteNotReady(p) ==
  /\ doing[p] = "noted"
  /\ unreadyNote' = unreadyNote \ {p}
  /\ notReady' = notReady \cup (unreadyNote \cap {p})
  /\ Become(p, "dead")
  /\ UNCHANGED <<consoleVars, loopVars, failedNote, failed, portVars, presses>>

\* After main has returned the daemon threads are gone.
Worker(p) ==
  /\ mode # "ended"
  /\ \/ Settle(p) \/ AskToConfigure(p) \/ SkipConfigure(p) \/ LeaveAsIs(p)
     \/ Configure(p) \/ Decline(p) \/ Configured(p) \/ ConfigureFails(p)
     \/ WriteNetCDF(p) \/ NothingToWrite(p) \/ Written(p)
     \/ OffloadFails(p) \/ PortLost(p) \/ OffloadRaises(p) \/ PortBusy(p)
     \/ NoteFailed(p) \/ NoteNotReady(p)

(***************************************************************************)
(* The run loop, on the main thread.                                       *)
(***************************************************************************)
LookForPorts ==
  /\ mode = "run"
  /\ at = "look"
  /\ present' = plugged
  /\ seenGone' = seenGone \cup {p \in Ports \ plugged : ~Alive(p)}
  /\ at' = "reap"
  /\ UNCHANGED <<jobs, job, result, pressed, stop, reply, cancelled, lost, mode, quit, workers, finished, startedAny,
                 workerVars, plugged, plugs, due, presses>>

Ended == {p \in workers : ~Alive(p)}

\* Mutant: a port stays in `finished` when it is unplugged.
RemainingForEver == finished \cup Ended

Remaining == (finished \cup Ended) \cap present

StartWorkers ==
  LET new == (present \ (workers \ Ended)) \ Remaining IN
  /\ mode = "run"
  /\ at = "reap"
  /\ workers' = (workers \ Ended) \cup new
  /\ finished' = Remaining
  /\ startedAny' = (startedAny \/ new # {})
  /\ doing' = [p \in Ports |-> IF p \in new THEN "started" ELSE doing[p]]
  /\ due' = due \ new
  /\ seenGone' = seenGone \ new
  /\ at' = "get"
  /\ present' = {}
  /\ UNCHANGED <<jobs, job, result, pressed, stop, reply, cancelled, lost, mode, quit,
                 failedNote, unreadyNote, failed, notReady, plugged, plugs, presses>>

\* Mutant: --once does not wait for the workers that are left.
ExitOnceWithWorkers ==
  /\ mode = "run"
  /\ at = "reap"
  /\ Once
  /\ startedAny
  /\ workers' = {}
  /\ finished' = Remaining
  /\ mode' = "ended"
  /\ at' = "ended"
  /\ UNCHANGED <<jobs, job, result, pressed, stop, reply, cancelled, lost, quit, present, startedAny, workerVars,
                 portVars, presses>>

\* --once: no worker is left and ONCE_GRACE_S has passed.
ExitOnce ==
  /\ mode = "run"
  /\ at = "reap"
  /\ Once
  /\ startedAny
  /\ workers \ Ended = {}
  /\ workers' = {}
  /\ finished' = Remaining
  /\ mode' = "ended"
  /\ at' = "ended"
  /\ UNCHANGED <<jobs, job, result, pressed, stop, reply, cancelled, lost, quit, present, startedAny, workerVars,
                 portVars, presses>>

\* Mutant: _shutdown waits for the workers without serving their jobs.
AwaitWorkersIdly ==
  /\ mode = "stopping"
  /\ at = "look"
  /\ \A p \in workers : ~Alive(p)
  /\ at' = "ended"
  /\ mode' = "ended"
  /\ UNCHANGED <<jobs, job, result, pressed, stop, reply, cancelled, lost, quit, present, workers, finished, startedAny,
                 workerVars, portVars, presses>>

\* _shutdown's loop: serve while a worker is alive.
AwaitWorkers ==
  /\ mode = "stopping"
  /\ at = "look"
  /\ \/ /\ \E p \in workers : Alive(p)
        /\ at' = "get"
        /\ mode' = mode
     \/ /\ \A p \in workers : ~Alive(p)
        /\ at' = "ended"
        /\ mode' = "ended"
  /\ UNCHANGED <<jobs, job, result, pressed, stop, reply, cancelled, lost, quit, present, workers, finished, startedAny,
                 workerVars, portVars, presses>>

\* The KeyboardInterrupt in _run: _shutdown begins.
Shutdown ==
  /\ mode = "run"
  /\ mode' = "stopping"
  /\ stop' = TRUE
  /\ at' = "look"
  /\ UNCHANGED <<quit, failed, notReady>>

\* Mutant: the abandoned workers are not reported.
QuitInSilence ==
  /\ mode = "stopping"
  /\ mode' = "ended"
  /\ quit' = TRUE
  /\ at' = "ended"
  /\ UNCHANGED <<stop, failed, notReady>>

\* The KeyboardInterrupt in _shutdown: the workers are abandoned, and their stages reported.
QuitAtOnce ==
  /\ mode = "stopping"
  /\ mode' = "ended"
  /\ quit' = TRUE
  /\ at' = "ended"
  /\ failed' = failed \cup {p \in Ports : doing[p] \in Staged}
  /\ notReady' = notReady \cup {p \in Ports : doing[p] = "configuring"}
  /\ UNCHANGED stop

Raise ==
  /\ job' = NoJob
  /\ result' = Waiting
  /\ pressed' = FALSE
  /\ Shutdown \/ QuitAtOnce
  /\ present' = {}
  /\ UNCHANGED <<jobs, workers, finished, startedAny, doing, failedNote, unreadyNote, portVars>>

Press ==
  /\ presses < MaxCtrlC
  /\ presses' = presses + 1

\* Ctrl-C outside of a job.
InterruptLoop ==
  /\ Press
  /\ at \in {"look", "reap", "get"}
  /\ Raise
  /\ UNCHANGED <<reply, cancelled, lost>>

\* Ctrl-C at the prompt: _answer's `finally` releases the asker with "".
InterruptPrompt ==
  /\ Press
  /\ at = "prompt"
  /\ Release("no")
  /\ Raise
  /\ UNCHANGED lost

\* Ctrl-C between two statements of serve(): before the handler is set, or before `done` is.
InterruptServe ==
  /\ Press
  /\ at \in {"taken", "restored"}
  /\ lost' = IF job.kind = "call" THEN lost \cup {job.by} ELSE lost
  /\ Raise
  /\ UNCHANGED <<reply, cancelled>>

\* Ctrl-C during a call is held until its file is complete.
HoldCtrlC ==
  /\ Press
  /\ at = "call"
  /\ pressed' = TRUE
  /\ UNCHANGED <<jobs, at, job, result, stop, reply, cancelled, lost, loopVars, workerVars, portVars>>

HeldCtrlC ==
  /\ at = "restored"
  /\ pressed
  /\ Release(result)
  /\ Raise
  /\ UNCHANGED <<lost, presses>>

CtrlC == InterruptLoop \/ InterruptPrompt \/ InterruptServe \/ HoldCtrlC

Serve ==
  /\ \/ TakeJob \/ NoJobInTime \/ SkipCancelled \/ ShowPrompt
     \/ \E answer \in Answers : Answer(answer)
     \/ StartCall
     \/ \E outcome \in Results : FinishCall(outcome)
     \/ CallDone
  /\ UNCHANGED <<loopVars, workerVars, portVars, presses>>

Main == LookForPorts \/ StartWorkers \/ ExitOnce \/ AwaitWorkers \/ Serve \/ HeldCtrlC

(***************************************************************************)
(* The operator's hands.  Once stopping, nobody looks at the ports; that a *)
(* worker whose logger is pulled out may fail is in OffloadFails, PortLost.*)
(***************************************************************************)
PlugIn(p) ==
  /\ mode = "run"
  /\ p \notin plugged
  /\ plugs < MaxPlugs
  /\ plugged' = plugged \cup {p}
  /\ plugs' = plugs + 1
  /\ due' = due \cup {p}
  /\ UNCHANGED <<consoleVars, loopVars, workerVars, seenGone, presses>>

PullOut(p) ==
  /\ mode = "run"
  /\ p \in plugged
  /\ plugged' = plugged \ {p}
  /\ due' = due \ {p}
  /\ UNCHANGED <<consoleVars, loopVars, workerVars, plugs, seenGone, presses>>

Next ==
  \/ Main
  \/ CtrlC
  \/ \E p \in Ports : Worker(p) \/ PlugIn(p) \/ PullOut(p)

\* The main thread and each worker run on; the operator answers a question in the end, and a call ends.
Spec == Init /\ [][Next]_vars /\ WF_vars(Main) /\ \A p \in Ports : WF_vars(Worker(p))

(***************************************************************************)
(* Properties.                                                             *)
(***************************************************************************)
\* A worker that waits for a job is waited for in turn: its job is queued or being served, unless Ctrl-C hit serve()
\* between two statements, or (a question) the worker is about to see `stop`.  Otherwise run_in_main() never returns.
NoJobForgotten ==
  \A p \in Ports : reply[p] = Waiting =>
    /\ doing[p] = "calling" => Call(p) \in Range(jobs) \cup {job} \/ p \in lost
    /\ doing[p] = "asking" => Question(p) \in Range(jobs) \cup {job} \/ stop

\* One Ctrl-C, or --once, ends the program only when every worker has ended by itself: no logger is left in the middle
\* of its configuration, no download without its bookkeeping.
NobodyAbandoned == mode = "ended" /\ ~quit => \A p \in Ports : ~Alive(p)

\* The exit status is complete: whatever a worker has noted against its logger is in the summaries when the program
\* ends.  Not so for workers abandoned by the second Ctrl-C in their last steps: one past its last stage is missed
\* altogether, and one that is writing its NetCDF is reported as failed but not as NOT READY TO DEPLOY.
ExitStatusComplete ==
  mode = "ended" =>
    /\ \A p \in failedNote : p \in failed \/ (quit /\ doing[p] = "unstaged")
    /\ \A p \in unreadyNote :
         p \in notReady \/ (quit /\ doing[p] \in {"writing", "calling", "unstaged", "noted"})
    /\ quit => \A p \in Ports : doing[p] \in Staged => p \in failed

\* What was noted against a logger goes nowhere but into the summaries, and stays there.
NotesReachSummary ==
  [][ /\ failedNote \ failedNote' \subseteq failed' /\ unreadyNote \ unreadyNote' \subseteq notReady'
      /\ failed \subseteq failed' /\ notReady \subseteq notReady' ]_vars

\* Ctrl-C ends the program, once the operator has answered what is asked, unless it hit serve() between two statements.
CtrlCEnds == stop ~> (mode = "ended" \/ lost # {})

\* A logger plugged in at a port that _run has seen empty since the last worker there ended gets a worker, unless it is
\* pulled out or the program ends first.
SeenGoneIsServed == \A p \in Ports : (p \in due /\ p \in seenGone) ~> (p \notin due \/ mode # "run")

\* What cli.py says of a failed download: it "resumes if you reconnect the logger".  The code needs the port seen empty in
\* between, and does not look while the operator is asked about another logger or a NetCDF file is written.
ReconnectIsServed == \A p \in Ports : (p \in due) ~> (p \notin due \/ mode # "run")
=============================================================================
