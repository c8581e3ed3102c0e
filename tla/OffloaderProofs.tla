-------------------------- MODULE OffloaderProofs --------------------------
(***************************************************************************)
(* Theorems about Offloader, and so about Console: for every set of ports, *)
(* any number of Ctrl-C and of loggers plugged in, with --once or without. *)
(***************************************************************************)
EXTENDS Offloader, TLAPS

-----------------------------------------------------------------------------
(* The inductive invariant, in the parts that a step is checked against.   *)

LoopTyped ==
  /\ mode \in {"run", "stopping", "ended"} /\ quit \in BOOLEAN
  /\ workers \subseteq Ports
  /\ present \subseteq Ports /\ plugged \subseteq Ports
  /\ doing \in [Ports -> Doing]

NotesTyped == {failedNote, unreadyNote, failed, notReady} \subseteq SUBSET Ports

JobsTyped ==
  /\ jobs \in Seq(Job)
  /\ job \in Job \cup {NoJob}
  /\ at \in {"look", "reap", "get", "taken", "prompt", "call", "restored", "ended"}
  /\ result \in Results \cup {Waiting}
  /\ reply \in [Ports -> Answers \cup Results \cup {Waiting}]
  /\ cancelled \subseteq Ports

\* What serve() is doing tells whether it has a job, and of which kind.
JobFits ==
  /\ at \in {"look", "reap", "get", "ended"} => job = NoJob
  /\ at \in {"taken", "prompt", "call", "restored"} => job \in Job
  /\ at = "prompt" => job.kind = "question"
  /\ at \in {"call", "restored"} => job.kind = "call"
  /\ at = "restored" => result \in Results

\* Only `stop` makes a worker give a question up.
CancelledByStop == cancelled # {} => stop

\* Shutting down, `stop` is set.
StoppingByStop == mode = "stopping" => stop

\* A worker that waits for a call is in the queue, or in serve(), or lost; one that waits
\* for an answer too, unless it may see `stop`.
Queued(p) ==
  reply[p] = Waiting =>
    /\ doing[p] = "calling" => (\E i \in 1..Len(jobs) : jobs[i] = Call(p)) \/ job = Call(p) \/ p \in lost
    /\ doing[p] = "asking" => (\E i \in 1..Len(jobs) : jobs[i] = Question(p)) \/ job = Question(p) \/ stop
AllQueued == \A p \in Ports : Queued(p)

\* _run knows of every worker that is alive.
WorkersKnown == \A p \in Ports : Alive(p) => p \in workers

\* What is noted against a logger is noted where its worker still has to pass.
NotesFit ==
  /\ \A p \in failedNote : doing[p] = "unstaged"
  /\ \A p \in unreadyNote : doing[p] \in {"writing", "calling", "unstaged", "noted"}

\* How the program ends.
EndsWell ==
  /\ quit => mode = "ended"
  /\ mode = "ended" /\ ~quit => \A p \in Ports : ~Alive(p)
  /\ quit => \A p \in Ports : doing[p] \in Staged => p \in failed

IInv ==
  /\ LoopTyped /\ NotesTyped /\ JobsTyped /\ JobFits /\ CancelledByStop /\ StoppingByStop /\ AllQueued
  /\ WorkersKnown /\ NotesFit /\ EndsWell

-----------------------------------------------------------------------------
(* What the workers and the main thread do to each other's state.          *)

\* A worker's step moves that worker, from a place where it is alive, and nothing of _run's.
Moves(p) ==
  /\ mode # "ended"
  /\ Alive(p)
  /\ \E place \in Doing : doing' = [doing EXCEPT ![p] = place]
  /\ UNCHANGED <<loopVars, plugged, at, job, result, stop, pressed, lost>>

LEMMA WorkerMoves ==
  ASSUME NEW p \in Ports, Worker(p)
  PROVE  Moves(p)
<1> USE DEF Moves, Become, Alive, Doing, Staged, loopVars, consoleVars, portVars
<1>1. CASE Settle(p)
  BY <1>1 DEF Settle, Worker
<1>2. CASE AskToConfigure(p)
  BY <1>2 DEF AskToConfigure, Put, Worker
<1>3. CASE SkipConfigure(p) \/ ConfigureFails(p)
  BY <1>3 DEF SkipConfigure, ConfigureFails, NotConfigured, Worker
<1>4. CASE LeaveAsIs(p) \/ Configured(p)
  BY <1>4 DEF LeaveAsIs, Configured, Worker
<1>5. CASE Configure(p)
  BY <1>5 DEF Configure, Take, Worker
<1>6. CASE Decline(p)
  BY <1>6 DEF Decline, NotConfigured, Take, Cancel, Worker
<1>7. CASE WriteNetCDF(p)
  BY <1>7 DEF WriteNetCDF, Put, Worker
<1>8. CASE NothingToWrite(p) \/ OffloadFails(p) \/ PortLost(p) \/ OffloadRaises(p) \/ PortBusy(p)
  BY <1>8 DEF NothingToWrite, OffloadFails, PortLost, OffloadRaises, PortBusy, EndsWith, Worker
<1>9. CASE Written(p)
  BY <1>9 DEF Written, EndsWith, Take, Worker
<1>10. CASE NoteFailed(p) \/ NoteNotReady(p)
  BY <1>10 DEF NoteFailed, NoteNotReady, Worker
<1> QED
  BY <1>1, <1>2, <1>3, <1>4, <1>5, <1>6, <1>7, <1>8, <1>9, <1>10 DEF Worker

\* serve() moves no worker and ends nothing.
LEMMA ServeKeeps ==
  ASSUME Serve
  PROVE  UNCHANGED <<loopVars, workerVars, portVars, stop, pressed, lost, presses>>
BY DEF Serve, TakeJob, NoJobInTime, SkipCancelled, ShowPrompt, Answer, StartCall, FinishCall, CallDone, portVars

\* Ctrl-C leaves the workers alone, but for the summaries.
LEMMA RaiseKeeps ==
  ASSUME Raise
  PROVE  /\ UNCHANGED <<jobs, workers, doing, failedNote, unreadyNote, plugged>>
         /\ present' = {}
         /\ \/ mode = "run" /\ mode' = "stopping" /\ stop' = TRUE /\ UNCHANGED <<quit, failed, notReady>>
            \/ /\ mode = "stopping" /\ mode' = "ended" /\ quit' = TRUE /\ stop' = stop
               /\ failed' = failed \cup {p \in Ports : doing[p] \in Staged}
               /\ notReady' = notReady \cup {p \in Ports : doing[p] = "configuring"}
         /\ at' \in {"look", "ended"} /\ job' = NoJob /\ result' = Waiting /\ pressed' = FALSE
BY DEF Raise, Shutdown, QuitAtOnce, portVars

\* Every step, by what it does to the workers.
ByWorker == \E p \in Ports : Worker(p)
ByRaise == InterruptLoop \/ InterruptPrompt \/ InterruptServe \/ HeldCtrlC
Other ==
  \/ Serve \/ HoldCtrlC \/ LookForPorts
  \/ \E p \in Ports : PlugIn(p) \/ PullOut(p)

LEMMA StepByKind ==
  ASSUME Next
  PROVE  ByWorker \/ ByRaise \/ Other \/ StartWorkers \/ ExitOnce \/ AwaitWorkers
BY DEF Next, Main, CtrlC, ByWorker, ByRaise, Other

LEMMA OtherKeeps ==
  ASSUME Other
  PROVE  UNCHANGED <<mode, quit, workers, doing, failedNote, unreadyNote, failed, notReady, stop, lost>>
<1>1. CASE Serve
  BY <1>1, ServeKeeps DEF loopVars, workerVars
<1>2. CASE HoldCtrlC
  BY <1>2 DEF HoldCtrlC, loopVars, workerVars
<1>3. CASE LookForPorts
  BY <1>3 DEF LookForPorts, workerVars
<1>4. ASSUME NEW p \in Ports, PlugIn(p) \/ PullOut(p)
      PROVE  UNCHANGED <<mode, quit, workers, doing, failedNote, unreadyNote, failed, notReady, stop, lost>>
  BY <1>4 DEF PlugIn, PullOut, loopVars, workerVars, consoleVars
<1> QED
  BY <1>1, <1>2, <1>3, <1>4 DEF Other

-----------------------------------------------------------------------------
(* The run loop's part of the invariant.                                   *)

LEMMA LoopStep ==
  ASSUME LoopTyped, Next
  PROVE  LoopTyped'
<1>1. CASE ByWorker
  <2>1. PICK p \in Ports : Moves(p)
    BY <1>1, WorkerMoves DEF ByWorker
  <2> QED
    BY <2>1 DEF Moves, LoopTyped, loopVars
<1>2. CASE ByRaise
  <2>1. Raise
    BY <1>2 DEF ByRaise, InterruptLoop, InterruptPrompt, InterruptServe, HeldCtrlC
  <2> QED
    BY <2>1, RaiseKeeps DEF LoopTyped
<1>3. CASE Other
  <2>1. CASE Serve
    BY <2>1, ServeKeeps DEF LoopTyped, loopVars, workerVars, portVars
  <2>2. CASE HoldCtrlC
    BY <2>2 DEF HoldCtrlC, LoopTyped, loopVars, workerVars, portVars
  <2>3. CASE LookForPorts
    BY <2>3 DEF LookForPorts, LoopTyped, workerVars
  <2>4. ASSUME NEW p \in Ports, PlugIn(p) \/ PullOut(p)
        PROVE  LoopTyped'
    BY <2>4 DEF PlugIn, PullOut, LoopTyped, loopVars, workerVars
  <2> QED
    BY <1>3, <2>1, <2>2, <2>3, <2>4 DEF Other
<1>4. CASE StartWorkers
  BY <1>4 DEF StartWorkers, Ended, LoopTyped, Doing
<1>5. CASE ExitOnce
  BY <1>5 DEF ExitOnce, LoopTyped, workerVars, portVars
<1>6. CASE AwaitWorkers
  BY <1>6 DEF AwaitWorkers, LoopTyped, workerVars, portVars
<1> QED
  BY <1>1, <1>2, <1>3, <1>4, <1>5, <1>6, StepByKind

\* A worker that is alive stays among `workers`: it is struck off only when it has ended.
LEMMA KnownStep ==
  ASSUME LoopTyped, WorkersKnown, Next
  PROVE  WorkersKnown'
<1> USE DEF WorkersKnown, Alive
<1>1. CASE ByWorker
  <2>1. PICK p \in Ports : Moves(p)
    BY <1>1, WorkerMoves DEF ByWorker
  <2> QED
    BY <2>1 DEF Moves, LoopTyped, loopVars
<1>2. CASE ByRaise
  <2>1. Raise
    BY <1>2 DEF ByRaise, InterruptLoop, InterruptPrompt, InterruptServe, HeldCtrlC
  <2> QED
    BY <2>1, RaiseKeeps
<1>3. CASE Other
  BY <1>3, OtherKeeps
<1>4. CASE StartWorkers
  BY <1>4 DEF StartWorkers, Ended
<1>5. CASE ExitOnce
  BY <1>5 DEF ExitOnce, Ended, workerVars
<1>6. CASE AwaitWorkers
  BY <1>6 DEF AwaitWorkers, workerVars
<1> QED
  BY <1>1, <1>2, <1>3, <1>4, <1>5, <1>6, StepByKind

\* The program ends with no worker alive, or the summaries name those it abandons.
LEMMA EndStep ==
  ASSUME LoopTyped, WorkersKnown, EndsWell, Next
  PROVE  EndsWell'
<1> USE DEF EndsWell
<1>1. CASE ByWorker
  <2>1. PICK p \in Ports : Moves(p)
    BY <1>1, WorkerMoves DEF ByWorker
  <2> QED
    BY <2>1 DEF Moves, loopVars
<1>2. CASE ByRaise
  <2>1. Raise
    BY <1>2 DEF ByRaise, InterruptLoop, InterruptPrompt, InterruptServe, HeldCtrlC
  <2>2. CASE mode = "run"
    <3>1. mode' = "stopping" /\ quit' = quit
      BY <2>1, <2>2, RaiseKeeps
    <3> QED
      BY <2>2, <3>1 DEF LoopTyped
  <2>3. CASE mode # "run"
    <3>1. quit' = TRUE /\ mode' = "ended" /\ doing' = doing
      BY <2>1, <2>3, RaiseKeeps
    <3>2. failed' = failed \cup {p \in Ports : doing[p] \in Staged}
      BY <2>1, <2>3, RaiseKeeps
    <3> QED
      BY <3>1, <3>2
  <2> QED
    BY <2>2, <2>3
<1>3. CASE Other
  BY <1>3, OtherKeeps DEF Alive
<1>4. CASE StartWorkers
  BY <1>4 DEF StartWorkers
<1>5. CASE ExitOnce
  BY <1>5 DEF ExitOnce, Ended, WorkersKnown, Alive, workerVars
<1>6. CASE AwaitWorkers
  BY <1>6 DEF AwaitWorkers, WorkersKnown, Alive, workerVars
<1> QED
  BY <1>1, <1>2, <1>3, <1>4, <1>5, <1>6, StepByKind

\* The notes are made and taken at their places in the worker's code.
LEMMA NotesOfWorker ==
  ASSUME LoopTyped, NotesTyped, NotesFit, NEW p \in Ports, Worker(p)
  PROVE  NotesTyped' /\ NotesFit'
<1> USE DEF NotesTyped, NotesFit, LoopTyped, Become
<1>1. CASE Settle(p)
  BY <1>1 DEF Settle
<1>2. CASE AskToConfigure(p)
  BY <1>2 DEF AskToConfigure
<1>3. CASE SkipConfigure(p)
  BY <1>3 DEF SkipConfigure, NotConfigured
<1>4. CASE LeaveAsIs(p)
  BY <1>4 DEF LeaveAsIs
<1>5. CASE Configure(p)
  BY <1>5 DEF Configure
<1>6. CASE Decline(p)
  BY <1>6 DEF Decline, NotConfigured
<1>7. CASE Configured(p)
  BY <1>7 DEF Configured
<1>8. CASE ConfigureFails(p)
  BY <1>8 DEF ConfigureFails, NotConfigured
<1>9. CASE WriteNetCDF(p)
  BY <1>9 DEF WriteNetCDF
<1>10. CASE NothingToWrite(p)
  BY <1>10 DEF NothingToWrite, EndsWith
<1>11. CASE Written(p)
  BY <1>11 DEF Written, EndsWith
<1>12. CASE OffloadFails(p) \/ PortLost(p) \/ OffloadRaises(p) \/ PortBusy(p)
  BY <1>12 DEF OffloadFails, PortLost, OffloadRaises, PortBusy, EndsWith
<1>13. CASE NoteFailed(p)
  BY <1>13 DEF NoteFailed
<1>14. CASE NoteNotReady(p)
  BY <1>14 DEF NoteNotReady
<1> QED
  BY <1>1, <1>2, <1>3, <1>4, <1>5, <1>6, <1>7, <1>8, <1>9, <1>10, <1>11, <1>12, <1>13, <1>14 DEF Worker

LEMMA NotesStep ==
  ASSUME LoopTyped, WorkersKnown, NotesTyped, NotesFit, Next
  PROVE  NotesTyped' /\ NotesFit'
<1>1. CASE ByWorker
  BY <1>1, NotesOfWorker DEF ByWorker
<1> USE DEF NotesTyped, NotesFit
<1>2. CASE ByRaise
  <2>1. Raise
    BY <1>2 DEF ByRaise, InterruptLoop, InterruptPrompt, InterruptServe, HeldCtrlC
  <2>2. UNCHANGED <<doing, failedNote, unreadyNote>>
    BY <2>1, RaiseKeeps
  <2>3. failed' \subseteq Ports /\ notReady' \subseteq Ports
    BY <2>1, RaiseKeeps
  <2> QED
    BY <2>2, <2>3
<1>3. CASE Other
  BY <1>3, OtherKeeps
<1>4. CASE StartWorkers
  <2>1. \A p \in Ports : Alive(p) => doing'[p] = doing[p]
    BY <1>4 DEF StartWorkers, Ended, WorkersKnown
  <2>2. UNCHANGED <<failedNote, unreadyNote, failed, notReady>>
    BY <1>4 DEF StartWorkers
  <2> QED
    BY <2>1, <2>2 DEF Alive
<1>5. CASE ExitOnce
  BY <1>5 DEF ExitOnce, workerVars
<1>6. CASE AwaitWorkers
  BY <1>6 DEF AwaitWorkers, workerVars
<1> QED
  BY <1>1, <1>2, <1>3, <1>4, <1>5, <1>6, StepByKind

-----------------------------------------------------------------------------
(* serve() and its queue.                                                  *)

LEMMA JobsOfWorker ==
  ASSUME JobsTyped, JobFits, CancelledByStop, NEW p \in Ports, Worker(p)
  PROVE  JobsTyped' /\ JobFits' /\ CancelledByStop'
<1>1. UNCHANGED <<at, job, result, stop>>
  BY WorkerMoves DEF Moves
<1>2. JobFits'
  BY <1>1 DEF JobFits
<1>3. jobs' \in Seq(Job) /\ reply' \in [Ports -> Answers \cup Results \cup {Waiting}]
      /\ cancelled' \subseteq Ports /\ (cancelled' # cancelled => stop)
  <2> USE DEF JobsTyped, Take, Put, Cancel, consoleVars
  <2>1. CASE AskToConfigure(p) \/ WriteNetCDF(p)
    <3>1. Question(p) \in Job /\ Call(p) \in Job
      BY DEF Question, Call, Job, Kinds
    <3> QED
      BY <2>1, <3>1 DEF AskToConfigure, WriteNetCDF
  <2>2. CASE Configure(p) \/ Decline(p)
    BY <2>2 DEF Configure, Decline
  <2>3. CASE Written(p)
    BY <2>3 DEF Written
  <2>4. CASE ~(AskToConfigure(p) \/ WriteNetCDF(p) \/ Configure(p) \/ Decline(p) \/ Written(p))
    <3>1. UNCHANGED consoleVars
      BY <2>4 DEF Worker, Settle, SkipConfigure, LeaveAsIs, Configured, ConfigureFails, NothingToWrite, OffloadFails,
         PortLost, OffloadRaises, PortBusy, NoteFailed, NoteNotReady
    <3> QED
      BY <3>1
  <2> QED
    BY <2>1, <2>2, <2>3, <2>4
<1> QED
  BY <1>1, <1>2, <1>3 DEF JobsTyped, CancelledByStop

LEMMA JobsOfServe ==
  ASSUME JobsTyped, JobFits, CancelledByStop, Serve
  PROVE  JobsTyped' /\ JobFits' /\ CancelledByStop'
<1> USE DEF JobsTyped, JobFits, CancelledByStop
<1>1. CASE TakeJob
  BY <1>1 DEF TakeJob
<1>2. CASE NoJobInTime
  BY <1>2 DEF NoJobInTime
<1>3. CASE SkipCancelled
  BY <1>3 DEF SkipCancelled
<1>4. CASE ShowPrompt
  BY <1>4 DEF ShowPrompt
<1>5. ASSUME NEW answer \in Answers, Answer(answer)
      PROVE  JobsTyped' /\ JobFits' /\ CancelledByStop'
  BY <1>5 DEF Answer, Release, Job
<1>6. CASE StartCall
  BY <1>6 DEF StartCall
<1>7. ASSUME NEW outcome \in Results, FinishCall(outcome)
      PROVE  JobsTyped' /\ JobFits' /\ CancelledByStop'
  BY <1>7 DEF FinishCall
<1>8. CASE CallDone
  BY <1>8 DEF CallDone, Release, Job
<1> QED
  BY <1>1, <1>2, <1>3, <1>4, <1>5, <1>6, <1>7, <1>8 DEF Serve

LEMMA JobsOfRaise ==
  ASSUME JobsTyped, JobFits, CancelledByStop, ByRaise
  PROVE  JobsTyped' /\ JobFits' /\ CancelledByStop'
<1>1. Raise
  BY DEF ByRaise, InterruptLoop, InterruptPrompt, InterruptServe, HeldCtrlC
<1>2. JobFits'
  BY <1>1, RaiseKeeps DEF JobFits
<1>3. reply' \in [Ports -> Answers \cup Results \cup {Waiting}] /\ cancelled' \subseteq cancelled
  <2>1. CASE InterruptLoop \/ InterruptServe
    BY <2>1 DEF InterruptLoop, InterruptServe, JobsTyped
  <2>2. CASE InterruptPrompt
    BY <2>2 DEF InterruptPrompt, Release, JobsTyped, JobFits, Job, Answers
  <2>3. CASE HeldCtrlC
    BY <2>3 DEF HeldCtrlC, Release, JobsTyped, JobFits, Job
  <2> QED
    BY <2>1, <2>2, <2>3 DEF ByRaise
<1>4. stop => stop'
  BY <1>1, RaiseKeeps
<1>5. JobsTyped'
  BY <1>1, <1>3, RaiseKeeps DEF JobsTyped, NoJob
<1> QED
  BY <1>2, <1>3, <1>4, <1>5 DEF CancelledByStop

\* The other steps of the main thread and of the operator touch no job.
LEMMA OthersServeNothing ==
  ASSUME Next, ~ByWorker, ~ByRaise, ~Serve
  PROVE  /\ UNCHANGED <<jobs, job, result, stop, reply, cancelled, lost>>
         /\ \/ at' = at
            \/ at \in {"look", "reap"} /\ at' \in {"reap", "get", "ended"}
<1>1. CASE LookForPorts \/ StartWorkers \/ ExitOnce \/ AwaitWorkers
  BY <1>1 DEF LookForPorts, StartWorkers, ExitOnce, AwaitWorkers
<1>2. CASE HoldCtrlC
  BY <1>2 DEF HoldCtrlC
<1>3. ASSUME NEW p \in Ports, PlugIn(p) \/ PullOut(p)
      PROVE  UNCHANGED <<jobs, job, result, stop, reply, cancelled, lost, at>>
  BY <1>3 DEF PlugIn, PullOut, consoleVars
<1> QED
  BY <1>1, <1>2, <1>3, StepByKind DEF Other

LEMMA JobsStep ==
  ASSUME JobsTyped, JobFits, CancelledByStop, Next
  PROVE  JobsTyped' /\ JobFits' /\ CancelledByStop'
<1>1. CASE ByWorker
  BY <1>1, JobsOfWorker DEF ByWorker
<1>2. CASE ByRaise
  BY <1>2, JobsOfRaise
<1>3. CASE Serve
  BY <1>3, JobsOfServe
<1>4. CASE ~ByWorker /\ ~ByRaise /\ ~Serve
  BY <1>4, OthersServeNothing DEF JobsTyped, JobFits, CancelledByStop
<1> QED
  BY <1>1, <1>2, <1>3, <1>4

-----------------------------------------------------------------------------
(* No job is forgotten.                                                    *)

InQueue(j) == \E i \in 1..Len(jobs) : jobs[i] = j

LEMMA QueueOfPut ==
  ASSUME JobsTyped, NEW j \in Job, Put(j)
  PROVE  InQueue(j)' /\ \A k \in Job : InQueue(k) => InQueue(k)'
<1>1. jobs' = Append(jobs, j) /\ jobs \in Seq(Job)
  BY DEF Put, JobsTyped
<1>2. Len(jobs') = Len(jobs) + 1 /\ jobs'[Len(jobs) + 1] = j /\ Len(jobs) \in Nat
  BY <1>1
<1>3. \A i \in 1..Len(jobs) : jobs'[i] = jobs[i]
  BY <1>1
<1> QED
  BY <1>2, <1>3 DEF InQueue

LEMMA QueueOfTake ==
  ASSUME JobsTyped, TakeJob
  PROVE  \A k \in Job : InQueue(k) => InQueue(k)' \/ job' = k
<1> SUFFICES ASSUME NEW k \in Job, NEW i \in 1..Len(jobs), jobs[i] = k, i # 1
             PROVE  InQueue(k)'
  BY DEF InQueue, TakeJob, JobsTyped
<1>1. jobs' = Tail(jobs) /\ jobs \in Seq(Job) /\ jobs # <<>>
  BY DEF TakeJob, JobsTyped
<1>2. Len(jobs') = Len(jobs) - 1 /\ i - 1 \in 1..Len(jobs') /\ jobs'[i - 1] = k
  BY <1>1
<1> QED
  BY <1>2 DEF InQueue

LEMMA QueuedByWorker ==
  ASSUME LoopTyped, JobsTyped, AllQueued, NEW p \in Ports, Worker(p)
  PROVE  AllQueued'
<1> SUFFICES ASSUME NEW q \in Ports PROVE Queued(q)'
  BY DEF AllQueued
<1>1. UNCHANGED <<job, stop, lost>>
  BY WorkerMoves DEF Moves
<1>2. Question(q) \in Job /\ Call(q) \in Job /\ Question(p) \in Job /\ Call(p) \in Job
  BY DEF Question, Call, Job, Kinds
<1>3. \A k \in Job : InQueue(k) => InQueue(k)'
  <2>1. CASE AskToConfigure(p) \/ WriteNetCDF(p)
    BY <1>2, <2>1, QueueOfPut DEF AskToConfigure, WriteNetCDF
  <2>2. CASE ~(AskToConfigure(p) \/ WriteNetCDF(p))
    <3>1. jobs' = jobs
      BY <2>2 DEF Worker, Settle, SkipConfigure, LeaveAsIs, Configured, ConfigureFails, NothingToWrite, OffloadFails,
         PortLost, OffloadRaises, PortBusy, NoteFailed, NoteNotReady, Configure, Decline, Written, Take, Cancel, consoleVars
    <3> QED
      BY <3>1 DEF InQueue
  <2> QED
    BY <2>1, <2>2
<1>4. CASE q # p
  <2>1. doing'[q] = doing[q]
    BY <1>4, WorkerMoves DEF Moves, LoopTyped
  <2>2. reply'[q] = reply[q]
    BY <1>4 DEF Worker, Settle, SkipConfigure, LeaveAsIs, Configured, ConfigureFails, NothingToWrite, OffloadFails,
       PortLost, OffloadRaises, PortBusy, NoteFailed, NoteNotReady, Configure, Decline, Written, Take, Cancel, consoleVars,
       AskToConfigure, WriteNetCDF, Put, JobsTyped
  <2> QED
    BY <1>1, <1>2, <1>3, <2>1, <2>2 DEF AllQueued, Queued, InQueue
<1>5. CASE q = p
  <2>1. CASE AskToConfigure(p)
    <3>1. doing'[p] = "asking" /\ InQueue(Question(p))'
      BY <1>2, <2>1, QueueOfPut DEF AskToConfigure, Become, LoopTyped
    <3> QED
      BY <1>5, <3>1 DEF Queued, InQueue
  <2>2. CASE WriteNetCDF(p)
    <3>1. doing'[p] = "calling" /\ InQueue(Call(p))'
      BY <1>2, <2>2, QueueOfPut DEF WriteNetCDF, Become, LoopTyped
    <3> QED
      BY <1>5, <3>1 DEF Queued, InQueue
  <2>3. CASE ~(AskToConfigure(p) \/ WriteNetCDF(p))
    <3>1. doing'[p] \notin {"calling", "asking"}
      BY <2>3 DEF Worker, Settle, SkipConfigure, LeaveAsIs, Configured, ConfigureFails, NothingToWrite, OffloadFails,
         PortLost, OffloadRaises, PortBusy, NoteFailed, NoteNotReady, Configure, Decline, Written, NotConfigured, EndsWith, Become, LoopTyped
    <3> QED
      BY <1>5, <3>1 DEF Queued
  <2> QED
    BY <2>1, <2>2, <2>3
<1> QED
  BY <1>4, <1>5

\* Whom serve() answers no longer waits, unless he gave his question up.
LEMMA Released ==
  ASSUME JobsTyped, NEW answer \in Answers \cup Results, job \in Job, Release(answer), NEW q \in Ports
  PROVE  /\ job.by # q => reply'[q] = reply[q]
         /\ job.by = q => reply'[q] # Waiting \/ (job.kind = "question" /\ cancelled # {})
<1>1. reply \in [Ports -> Answers \cup Results \cup {Waiting}] /\ job.by \in Ports
  BY DEF JobsTyped, Job
<1>2. answer # Waiting
  BY DEF Answers, Results, Waiting
<1> QED
  BY <1>1, <1>2 DEF Release

LEMMA QueuedByServe ==
  ASSUME LoopTyped, JobsTyped, JobFits, CancelledByStop, AllQueued, Serve
  PROVE  AllQueued'
<1> SUFFICES ASSUME NEW q \in Ports PROVE Queued(q)'
  BY DEF AllQueued
<1>1. UNCHANGED <<doing, stop, lost>>
  BY ServeKeeps DEF workerVars
<1>2. Question(q) \in Job /\ Call(q) \in Job /\ Question(q) # NoJob /\ Call(q) # NoJob
  BY DEF Question, Call, Job, Kinds, NoJob
<1>3. Queued(q)
  BY DEF AllQueued
<1>4. CASE TakeJob
  <2>1. job = NoJob /\ reply' = reply
    BY <1>4 DEF TakeJob, JobFits
  <2>2. InQueue(Question(q)) => InQueue(Question(q))' \/ job' = Question(q)
    BY <1>2, <1>4, QueueOfTake
  <2>3. InQueue(Call(q)) => InQueue(Call(q))' \/ job' = Call(q)
    BY <1>2, <1>4, QueueOfTake
  <2> QED
    BY <1>1, <1>2, <1>3, <2>1, <2>2, <2>3 DEF Queued, InQueue
<1>5. CASE SkipCancelled
  <2>1. stop /\ job.kind = "question" /\ UNCHANGED <<jobs, reply>>
    BY <1>5 DEF SkipCancelled, CancelledByStop
  <2>2. job # Call(q)
    BY <2>1 DEF Call
  <2> QED
    BY <1>1, <1>3, <2>1, <2>2 DEF Queued
<1>6. CASE NoJobInTime \/ ShowPrompt \/ StartCall \/ \E outcome \in Results : FinishCall(outcome)
  BY <1>1, <1>3, <1>6 DEF NoJobInTime, ShowPrompt, StartCall, FinishCall, Queued
<1>7. ASSUME NEW answer \in Answers, Answer(answer)
      PROVE  Queued(q)'
  <2>1. job \in Job /\ job.kind = "question" /\ jobs' = jobs /\ Release(answer)
    BY <1>7 DEF Answer, JobFits
  <2>2. job.by = q => reply'[q] # Waiting \/ stop
    BY <2>1, Released DEF CancelledByStop
  <2>3. job.by # q => reply'[q] = reply[q] /\ job # Call(q) /\ job # Question(q)
    BY <2>1, Released DEF Call, Question
  <2>4. job # Call(q)
    BY <2>1 DEF Call
  <2>5. CASE job.by # q
    BY <1>1, <1>3, <2>1, <2>3, <2>5 DEF Queued
  <2>6. CASE job.by = q /\ reply'[q] # Waiting
    BY <2>6 DEF Queued
  <2>7. CASE job.by = q /\ reply'[q] = Waiting
    <3>1. reply[q] = Waiting
      BY <2>1, <2>7 DEF Release, JobsTyped, Job, Answers, Waiting
    <3> QED
      BY <1>1, <1>3, <2>1, <2>2, <2>4, <2>7, <3>1 DEF Queued
  <2> QED
    BY <2>5, <2>6, <2>7
<1>8. CASE CallDone
  <2>1. job \in Job /\ job.kind = "call" /\ jobs' = jobs /\ Release(result) /\ result \in Results
    BY <1>8 DEF CallDone, JobFits
  <2>2. job.by = q => reply'[q] # Waiting
    BY <2>1, Released
  <2>3. job.by # q => reply'[q] = reply[q] /\ job # Call(q) /\ job # Question(q)
    BY <2>1, Released DEF Call, Question
  <2> QED
    BY <1>1, <1>3, <2>1, <2>2, <2>3 DEF Queued
<1> QED
  BY <1>4, <1>5, <1>6, <1>7, <1>8 DEF Serve

LEMMA StopStep ==
  ASSUME StoppingByStop, Next
  PROVE  StoppingByStop'
<1> USE DEF StoppingByStop
<1>1. CASE ByWorker
  <2>1. PICK p \in Ports : Moves(p)
    BY <1>1, WorkerMoves DEF ByWorker
  <2> QED
    BY <2>1 DEF Moves, loopVars
<1>2. CASE ByRaise
  <2>1. Raise
    BY <1>2 DEF ByRaise, InterruptLoop, InterruptPrompt, InterruptServe, HeldCtrlC
  <2> QED
    BY <2>1, RaiseKeeps
<1>3. CASE Other
  BY <1>3, OtherKeeps
<1>4. CASE StartWorkers \/ ExitOnce \/ AwaitWorkers
  BY <1>4 DEF StartWorkers, ExitOnce, AwaitWorkers
<1> QED
  BY <1>1, <1>2, <1>3, <1>4, StepByKind

\* A Ctrl-C forgets a call only where it says so, in `lost`.
LEMMA QueuedByRaise ==
  ASSUME JobsTyped, JobFits, StoppingByStop, AllQueued, ByRaise
  PROVE  AllQueued'
<1> SUFFICES ASSUME NEW q \in Ports PROVE Queued(q)'
  BY DEF AllQueued
<1>1. Raise
  BY DEF ByRaise, InterruptLoop, InterruptPrompt, InterruptServe, HeldCtrlC
<1>2. UNCHANGED <<doing, jobs>> /\ stop'
  BY <1>1, RaiseKeeps DEF StoppingByStop
<1>3. Queued(q) /\ Call(q) # NoJob
  BY DEF AllQueued, Call, NoJob
<1>4. SUFFICES ASSUME reply'[q] = Waiting, doing[q] = "calling"
               PROVE  (\E i \in 1..Len(jobs) : jobs[i] = Call(q)) \/ q \in lost'
  BY <1>2 DEF Queued
<1>5. CASE InterruptLoop
  <2>1. job = NoJob /\ UNCHANGED <<reply, lost>>
    BY <1>5 DEF InterruptLoop, JobFits
  <2> QED
    BY <1>3, <1>4, <2>1 DEF Queued
<1>6. CASE InterruptPrompt
  <2>1. job \in Job /\ job.kind = "question" /\ Release("no") /\ lost' = lost
    BY <1>6 DEF InterruptPrompt, JobFits
  <2>2. job # Call(q)
    BY <2>1 DEF Call
  <2>3. reply[q] = Waiting
    BY <1>4, <2>1 DEF Release, JobsTyped, Job, Waiting
  <2> QED
    BY <1>3, <1>4, <2>1, <2>2, <2>3 DEF Queued
<1>7. CASE InterruptServe
  <2>1. reply' = reply /\ (job = Call(q) => q \in lost') /\ lost \subseteq lost'
    BY <1>7 DEF InterruptServe, Call
  <2> QED
    BY <1>3, <1>4, <2>1 DEF Queued
<1>8. CASE HeldCtrlC
  <2>1. job \in Job /\ job.kind = "call" /\ Release(result) /\ result \in Results /\ lost' = lost
    BY <1>8 DEF HeldCtrlC, JobFits
  <2>2. job.by # q
    BY <1>4, <2>1, Released
  <2>3. reply[q] = Waiting /\ job # Call(q)
    BY <1>4, <2>1, <2>2, Released DEF Call
  <2> QED
    BY <1>3, <1>4, <2>1, <2>3 DEF Queued
<1> QED
  BY <1>5, <1>6, <1>7, <1>8 DEF ByRaise

LEMMA QueuedStep ==
  ASSUME LoopTyped, JobsTyped, JobFits, CancelledByStop, StoppingByStop, AllQueued, Next
  PROVE  AllQueued'
<1>1. CASE ByWorker
  BY <1>1, QueuedByWorker DEF ByWorker
<1>2. CASE ByRaise
  BY <1>2, QueuedByRaise
<1>3. CASE Serve
  BY <1>3, QueuedByServe
<1>4. CASE ~ByWorker /\ ~ByRaise /\ ~Serve
  <2>1. UNCHANGED <<jobs, job, stop, reply, lost>>
    BY <1>4, OthersServeNothing
  <2>2. \A q \in Ports : doing'[q] = doing[q] \/ doing'[q] = "started"
    <3>1. CASE StartWorkers
      BY <3>1 DEF StartWorkers
    <3>2. CASE ExitOnce \/ AwaitWorkers
      BY <3>2 DEF ExitOnce, AwaitWorkers, workerVars
    <3>3. CASE Other
      BY <3>3, OtherKeeps
    <3> QED
      BY <1>4, <3>1, <3>2, <3>3, StepByKind
  <2> QED
    BY <2>1, <2>2 DEF AllQueued, Queued
<1> QED
  BY <1>1, <1>2, <1>3, <1>4

-----------------------------------------------------------------------------
(* The invariant, and what follows from it.                                *)

LEMMA InitIInv == Init => IInv
<1> SUFFICES ASSUME Init PROVE IInv
  OBVIOUS
<1> USE DEF Init, ConsoleInit
<1>1. LoopTyped /\ NotesTyped
  BY DEF LoopTyped, NotesTyped, Doing
<1>2. JobsTyped /\ JobFits /\ CancelledByStop /\ StoppingByStop
  BY DEF JobsTyped, JobFits, CancelledByStop, StoppingByStop
<1>3. AllQueued
  BY DEF AllQueued, Queued
<1>4. WorkersKnown /\ NotesFit /\ EndsWell
  BY DEF WorkersKnown, NotesFit, EndsWell, Alive
<1> QED
  BY <1>1, <1>2, <1>3, <1>4 DEF IInv

LEMMA NextIInv == IInv /\ [Next]_vars => IInv'
<1> SUFFICES ASSUME IInv, [Next]_vars PROVE IInv'
  OBVIOUS
<1>1. CASE Next
  <2> USE <1>1 DEF IInv
  <2>1. LoopTyped' /\ WorkersKnown' /\ EndsWell'
    BY LoopStep, KnownStep, EndStep
  <2>2. NotesTyped' /\ NotesFit'
    BY NotesStep
  <2>3. JobsTyped' /\ JobFits' /\ CancelledByStop'
    BY JobsStep
  <2>4. StoppingByStop' /\ AllQueued'
    BY StopStep, QueuedStep
  <2> QED
    BY <2>1, <2>2, <2>3, <2>4
<1>2. CASE UNCHANGED vars
  <2> USE <1>2 DEF vars, consoleVars, loopVars, workerVars, portVars, IInv
  <2>1. LoopTyped' /\ NotesTyped' /\ WorkersKnown' /\ NotesFit' /\ EndsWell'
    BY DEF LoopTyped, NotesTyped, WorkersKnown, NotesFit, EndsWell, Alive
  <2>2. JobsTyped' /\ JobFits' /\ CancelledByStop' /\ StoppingByStop'
    BY DEF JobsTyped, JobFits, CancelledByStop, StoppingByStop
  <2>3. AllQueued'
    BY DEF AllQueued, Queued
  <2> QED
    BY <2>1, <2>2, <2>3
<1> QED
  BY <1>1, <1>2

\* The inductive invariant holds of every behaviour of the run loop, its workers and serve().
THEOREM Invariance == Spec => []IInv
BY InitIInv, NextIInv, PTL DEF Spec

\* A worker of _worker that waits in ask() or run_in_main() is in the queue, or in serve()'s hands, or its call
\* was lost to a Ctrl-C between two statements of serve(), or its question is about to see `stop`.
THEOREM JobsAreServed == Spec => []NoJobForgotten
<1>1. IInv => NoJobForgotten
  <2> SUFFICES ASSUME IInv, NEW p \in Ports, reply[p] = Waiting
               PROVE  /\ doing[p] = "calling" => Call(p) \in Range(jobs) \cup {job} \/ p \in lost
                      /\ doing[p] = "asking" => Question(p) \in Range(jobs) \cup {job} \/ stop
    BY DEF NoJobForgotten
  <2>1. Queued(p) /\ jobs \in Seq(Job)
    BY DEF IInv, AllQueued, JobsTyped
  <2>2. \A i \in 1..Len(jobs) : jobs[i] \in Range(jobs)
    BY <2>1 DEF Range
  <2> QED
    BY <2>1, <2>2 DEF Queued
<1> QED
  BY <1>1, Invariance, PTL

\* --once and a single Ctrl-C let every worker of _run come to its end.
THEOREM EndedByThemselves == Spec => []NobodyAbandoned
<1>1. IInv => NobodyAbandoned
  BY DEF IInv, EndsWell, NobodyAbandoned
<1> QED
  BY <1>1, Invariance, PTL

\* main's exit status speaks of every logger with something noted against it, but those a second Ctrl-C
\* abandons in the last steps of _worker.
THEOREM StatusComplete == Spec => []ExitStatusComplete
<1>1. IInv => ExitStatusComplete
  <2> SUFFICES ASSUME IInv, mode = "ended" PROVE ExitStatusComplete
    BY DEF ExitStatusComplete
  <2>1. CASE quit
    BY <2>1 DEF IInv, EndsWell, NotesFit, ExitStatusComplete
  <2>2. CASE ~quit
    <3>1. \A p \in Ports : doing[p] \in {"none", "dead"}
      BY <2>2 DEF IInv, EndsWell, Alive
    <3>2. failedNote = {} /\ unreadyNote = {}
      BY <3>1 DEF IInv, NotesFit, NotesTyped
    <3> QED
      BY <2>2, <3>2 DEF ExitStatusComplete
  <2> QED
    BY <2>1, <2>2
<1> QED
  BY <1>1, Invariance, PTL

-----------------------------------------------------------------------------
(* The bookkeeping, step by step.                                          *)

NotesKept ==
  /\ failedNote \ failedNote' \subseteq failed' /\ unreadyNote \ unreadyNote' \subseteq notReady'
  /\ failed \subseteq failed' /\ notReady \subseteq notReady'

LEMMA NotesKeptByWorker ==
  ASSUME NEW p \in Ports, Worker(p)
  PROVE  NotesKept
<1> USE DEF NotesKept
<1>1. CASE NoteFailed(p)
  BY <1>1 DEF NoteFailed
<1>2. CASE NoteNotReady(p)
  BY <1>2 DEF NoteNotReady
<1>3. CASE SkipConfigure(p) \/ Decline(p) \/ ConfigureFails(p)
  BY <1>3 DEF SkipConfigure, Decline, ConfigureFails, NotConfigured
<1>4. CASE NothingToWrite(p) \/ Written(p) \/ OffloadFails(p) \/ PortLost(p) \/ OffloadRaises(p) \/ PortBusy(p)
  BY <1>4 DEF NothingToWrite, Written, OffloadFails, PortLost, OffloadRaises, PortBusy, EndsWith
<1>5. CASE Settle(p) \/ AskToConfigure(p) \/ LeaveAsIs(p) \/ Configure(p) \/ Configured(p) \/ WriteNetCDF(p)
  BY <1>5 DEF Settle, AskToConfigure, LeaveAsIs, Configure, Configured, WriteNetCDF
<1> QED
  BY <1>1, <1>2, <1>3, <1>4, <1>5 DEF Worker

\* What _offload_once, _configure_step or the NetCDF writing noted against a logger is moved to the summaries by _worker,
\* and nothing strikes it out again.
THEOREM NotesAreKept == Spec => NotesReachSummary
<1>1. [Next]_vars => [NotesKept]_vars
  <2> SUFFICES ASSUME [Next]_vars PROVE NotesKept
    OBVIOUS
  <2>1. CASE ByWorker
    BY <2>1, NotesKeptByWorker DEF ByWorker
  <2>2. CASE ByRaise
    <3>1. Raise
      BY <2>2 DEF ByRaise, InterruptLoop, InterruptPrompt, InterruptServe, HeldCtrlC
    <3> QED
      BY <3>1, RaiseKeeps DEF NotesKept
  <2>3. CASE Other
    BY <2>3, OtherKeeps DEF NotesKept
  <2>4. CASE StartWorkers \/ ExitOnce \/ AwaitWorkers
    BY <2>4 DEF StartWorkers, ExitOnce, AwaitWorkers, workerVars, NotesKept
  <2>5. CASE UNCHANGED vars
    BY <2>5 DEF vars, workerVars, NotesKept
  <2> QED
    BY <2>1, <2>2, <2>3, <2>4, <2>5, StepByKind
<1>2. [][NotesKept]_vars => NotesReachSummary
  BY PTL DEF NotesReachSummary, NotesKept
<1> QED
  BY <1>1, <1>2, PTL DEF Spec

-----------------------------------------------------------------------------
(* Every answer reaches the worker that asked, for the job that it asked.  *)

\* The worker of a job waits for it, or has given the question up.
Awaited(j) ==
  \/ j.kind = "call" /\ doing[j.by] = "calling" /\ reply[j.by] = Waiting
  \/ j.kind = "question" /\ (j.by \in cancelled \/ (doing[j.by] = "asking" /\ reply[j.by] = Waiting))

JobsFit ==
  /\ \A i \in 1..Len(jobs) : Awaited(jobs[i]) /\ jobs[i] # job
  /\ job \in Job => Awaited(job)
  /\ \A i, j \in 1..Len(jobs) : jobs[i] = jobs[j] => i = j

RepliesFit ==
  \A p \in Ports : /\ reply[p] \in Answers => doing[p] = "asking"
                   /\ reply[p] \in Results => doing[p] = "calling"

LEMMA JobFacts ==
  ASSUME JobsTyped
  PROVE  /\ \A i \in 1..Len(jobs) : jobs[i] \in Job
         /\ \A j \in Job : j.by \in Ports /\ j.kind \in {"call", "question"}
         /\ \A j, k \in Job : j.by = k.by /\ j.kind = k.kind => j = k
         /\ \A q \in Ports : Question(q) \in Job /\ Call(q) \in Job
         /\ \A q \in Ports : Question(q).by = q /\ Question(q).kind = "question" /\ Call(q).by = q /\ Call(q).kind = "call"
<1>1. \A i \in 1..Len(jobs) : jobs[i] \in Job
  BY DEF JobsTyped
<1>2. \A j \in Job : j.by \in Ports /\ j.kind \in {"call", "question"} /\ j = [by |-> j.by, kind |-> j.kind]
  BY DEF Job, Kinds
<1>3. \A q \in Ports : Question(q) \in Job /\ Call(q) \in Job
  BY DEF Job, Kinds, Question, Call
<1>4. \A q \in Ports : Question(q).by = q /\ Question(q).kind = "question" /\ Call(q).by = q /\ Call(q).kind = "call"
  BY DEF Question, Call
<1>5. ASSUME NEW j \in Job, NEW k \in Job, j.by = k.by, j.kind = k.kind
      PROVE  j = k
  <2>1. j = [by |-> j.by, kind |-> j.kind] /\ k = [by |-> k.by, kind |-> k.kind]
    BY <1>2
  <2> QED
    BY <1>5, <2>1
<1> QED
  BY <1>1, <1>2, <1>3, <1>4, <1>5

\* A worker that neither asks nor calls, or has its reply, has no job but questions given up.
LEMMA NoJobOf ==
  ASSUME JobsTyped, JobsFit, NEW p \in Ports, doing[p] \notin {"asking", "calling"} \/ reply[p] # Waiting
  PROVE  /\ \A i \in 1..Len(jobs) : jobs[i].by = p => jobs[i].kind = "question" /\ p \in cancelled
         /\ job \in Job /\ job.by = p => job.kind = "question" /\ p \in cancelled
BY JobFacts DEF JobsFit, Awaited

LEMMA FitOfPut ==
  ASSUME LoopTyped, JobsTyped, JobsFit, RepliesFit, NEW p \in Ports, NEW j \in Job, j.by = p, Put(j),
         doing[p] \notin {"asking", "calling"}, doing' = [doing EXCEPT ![p] = IF j.kind = "call" THEN "calling" ELSE "asking"],
         j.kind = "question" => cancelled = {}
  PROVE  JobsFit' /\ RepliesFit'
<1>1. jobs' = Append(jobs, j) /\ jobs \in Seq(Job) /\ UNCHANGED <<job, reply, cancelled>>
  BY DEF Put, JobsTyped
<1>2. Len(jobs') = Len(jobs) + 1 /\ Len(jobs) \in Nat /\ jobs'[Len(jobs) + 1] = j /\ \A i \in 1..Len(jobs) : jobs'[i] = jobs[i]
  BY <1>1
<1>3. reply[p] = Waiting
  BY DEF RepliesFit, JobsTyped
<1>4. \A i \in 1..Len(jobs) : jobs[i].by = p => jobs[i].kind = "question" /\ p \in cancelled
  BY NoJobOf
<1>5. job \in Job /\ job.by = p => job.kind = "question" /\ p \in cancelled
  BY NoJobOf
<1>6. Awaited(j)' /\ j # job
  BY <1>1, <1>3, <1>5, JobFacts DEF Awaited, LoopTyped
<1>7. \A i \in 1..Len(jobs) : Awaited(jobs[i])' /\ jobs[i] # j
  <2> SUFFICES ASSUME NEW i \in 1..Len(jobs) PROVE Awaited(jobs[i])' /\ jobs'[i] # j
    BY <1>2 DEF Awaited
  <2>1. CASE jobs[i].by = p
    <3>1. jobs[i].kind = "question" /\ p \in cancelled /\ j.kind # "question"
      BY <1>4, <2>1
    <3> QED
      BY <1>1, <1>2, <2>1, <3>1 DEF Awaited
  <2>2. CASE jobs[i].by # p
    <3>1. jobs[i].by \in Ports /\ Awaited(jobs[i])
      BY JobFacts DEF JobsFit
    <3>2. doing'[jobs[i].by] = doing[jobs[i].by] /\ jobs'[i] = jobs[i]
      BY <1>2, <2>2, <3>1 DEF LoopTyped
    <3> QED
      BY <1>1, <2>2, <3>1, <3>2 DEF Awaited
  <2> QED
    BY <2>1, <2>2
<1>8. job \in Job => Awaited(job)'
  <2>1. CASE job \in Job /\ job.by = p
    BY <1>1, <1>5, <2>1 DEF Awaited
  <2>2. CASE job \in Job /\ job.by # p
    <3>1. job.by \in Ports /\ Awaited(job) /\ doing'[job.by] = doing[job.by]
      BY <2>2, JobFacts DEF JobsFit, LoopTyped
    <3> QED
      BY <1>1, <3>1 DEF Awaited
  <2> QED
    BY <2>1, <2>2
<1>9. \A i \in 1..Len(jobs') : i \in 1..Len(jobs) \/ i = Len(jobs) + 1
  BY <1>2
<1>10. JobsFit'
  <2>1. ASSUME NEW i \in 1..Len(jobs')
        PROVE  Awaited(jobs[i])' /\ jobs'[i] # job
    <3>1. CASE i \in 1..Len(jobs)
      BY <1>2, <1>7, <3>1 DEF JobsFit
    <3>2. CASE i = Len(jobs) + 1
      BY <1>2, <1>6, <3>2 DEF Awaited
    <3> QED
      BY <1>9, <3>1, <3>2
  <2>2. ASSUME NEW i \in 1..Len(jobs'), NEW k \in 1..Len(jobs'), jobs'[i] = jobs'[k]
        PROVE  i = k
    <3>1. CASE i \in 1..Len(jobs) /\ k \in 1..Len(jobs)
      BY <1>2, <2>2, <3>1 DEF JobsFit
    <3>2. CASE i = Len(jobs) + 1 /\ k \in 1..Len(jobs)
      BY <1>2, <1>7, <2>2, <3>2
    <3>3. CASE i \in 1..Len(jobs) /\ k = Len(jobs) + 1
      BY <1>2, <1>7, <2>2, <3>3
    <3> QED
      BY <1>9, <3>1, <3>2, <3>3
  <2> QED
    BY <1>1, <1>8, <2>1, <2>2 DEF JobsFit
<1>11. RepliesFit'
  BY <1>1, <1>3 DEF RepliesFit, LoopTyped, Answers, Results, Waiting
<1> QED
  BY <1>10, <1>11

LEMMA FitOfWorker ==
  ASSUME LoopTyped, JobsTyped, CancelledByStop, JobsFit, RepliesFit, NEW p \in Ports, Worker(p)
  PROVE  JobsFit' /\ RepliesFit'
<1>1. Question(p) \in Job /\ Call(p) \in Job /\ Question(p).by = p /\ Call(p).by = p
      /\ Question(p).kind = "question" /\ Call(p).kind = "call"
  BY JobFacts
<1>2. CASE AskToConfigure(p)
  <2>1. doing[p] = "working" /\ doing' = [doing EXCEPT ![p] = "asking"] /\ Put(Question(p)) /\ cancelled = {}
    BY <1>2 DEF AskToConfigure, Become, CancelledByStop
  <2> QED
    BY <1>1, <2>1, FitOfPut
<1>3. CASE WriteNetCDF(p)
  <2>1. doing[p] = "writing" /\ doing' = [doing EXCEPT ![p] = "calling"] /\ Put(Call(p))
    BY <1>3 DEF WriteNetCDF, Become
  <2> QED
    BY <1>1, <2>1, FitOfPut
<1>4. CASE ~AskToConfigure(p) /\ ~WriteNetCDF(p)
  <2>1. UNCHANGED <<jobs, job>> /\ reply'[p] = Waiting /\ doing'[p] \notin {"asking", "calling"}
        /\ \A q \in Ports \ {p} : reply'[q] = reply[q] /\ doing'[q] = doing[q]
    <3>1. CASE Configure(p) \/ Written(p)
      BY <3>1 DEF Configure, Written, Take, Become, EndsWith, LoopTyped, JobsTyped
    <3>2. CASE Decline(p)
      <4>1. doing[p] = "asking" /\ doing' = [doing EXCEPT ![p] = "writing"] /\ UNCHANGED <<jobs, job>>
        BY <3>2 DEF Decline, NotConfigured, Become, Take, Cancel
      <4>2. reply'[p] = Waiting /\ \A q \in Ports \ {p} : reply'[q] = reply[q]
        BY <3>2 DEF Decline, Take, Cancel, JobsTyped
      <4> QED
        BY <4>1, <4>2 DEF LoopTyped
    <3>3. CASE ~Configure(p) /\ ~Written(p) /\ ~Decline(p)
      <4>1. UNCHANGED consoleVars /\ doing[p] \notin {"asking", "calling"}
            /\ \E place \in Doing \ {"asking", "calling"} : doing' = [doing EXCEPT ![p] = place]
        BY <1>4, <3>3 DEF Worker, Settle, SkipConfigure, LeaveAsIs, Configured, ConfigureFails, NothingToWrite, OffloadFails,
           PortLost, OffloadRaises, PortBusy, NoteFailed, NoteNotReady, Become, NotConfigured, EndsWith, Doing, Staged
      <4>2. reply[p] = Waiting
        BY <4>1 DEF RepliesFit, JobsTyped
      <4> QED
        BY <4>1, <4>2 DEF LoopTyped, consoleVars
    <3> QED
      BY <3>1, <3>2, <3>3
  <2>2. /\ \/ doing[p] \notin {"asking", "calling"} \/ reply[p] # Waiting
           \/ p \in cancelled' /\ doing[p] = "asking"
        /\ cancelled \subseteq cancelled' /\ cancelled' \subseteq cancelled \cup {p}
    <3>1. CASE Configure(p)
      BY <3>1 DEF Configure, Take, Waiting
    <3>2. CASE Written(p)
      BY <3>2 DEF Written, Take, Results, Waiting
    <3>3. CASE Decline(p)
      BY <3>3 DEF Decline, Take, Cancel, Waiting
    <3>4. CASE ~Configure(p) /\ ~Written(p) /\ ~Decline(p)
      <4>1. UNCHANGED consoleVars /\ doing[p] \notin {"asking", "calling"}
        BY <1>4, <3>4 DEF Worker, Settle, SkipConfigure, LeaveAsIs, Configured, ConfigureFails, NothingToWrite, OffloadFails,
           PortLost, OffloadRaises, PortBusy, NoteFailed, NoteNotReady, NotConfigured, EndsWith
      <4> QED
        BY <4>1 DEF consoleVars
    <3> QED
      BY <3>1, <3>2, <3>3, <3>4
  <2>3. cancelled \subseteq cancelled' /\ cancelled' \subseteq cancelled \cup {p}
    BY <2>2
  <2>4. ASSUME NEW j \in Job, Awaited(j)
        PROVE  Awaited(j)'
    <3>1. j.by \in Ports
      BY JobFacts
    <3>2. CASE j.by # p
      BY <2>1, <2>3, <2>4, <3>1, <3>2 DEF Awaited
    <3>3. CASE j.by = p
      <4>1. j.kind = "question" /\ (p \in cancelled \/ p \in cancelled')
        BY <2>2, <2>4, <3>3 DEF Awaited
      <4> QED
        BY <2>3, <3>3, <4>1 DEF Awaited
    <3> QED
      BY <3>2, <3>3
  <2>5. JobsFit'
    BY <2>1, <2>4, JobFacts DEF JobsFit
  <2>6. RepliesFit'
    BY <2>1 DEF RepliesFit, Answers, Results, Waiting
  <2> QED
    BY <2>5, <2>6
<1> QED
  BY <1>2, <1>3, <1>4

\* Who is answered has one job in the hands of serve(), and no other that it waits for.
LEMMA FitOfRelease ==
  ASSUME LoopTyped, JobsTyped, JobsFit, RepliesFit, job \in Job, NEW answer, Release(answer),
         answer \in IF job.kind = "call" THEN Results ELSE Answers, UNCHANGED <<jobs, doing>>, job' = NoJob
  PROVE  JobsFit' /\ RepliesFit'
<1>1. job.by \in Ports /\ Awaited(job) /\ \A i \in 1..Len(jobs) : jobs[i] \in Job /\ jobs[i] # job /\ Awaited(jobs[i])
  BY JobFacts DEF JobsFit
<1>2. ASSUME NEW j \in Job, Awaited(j), j # job
      PROVE  Awaited(j)'
  <2>1. j.by = job.by => j.kind # job.kind
    BY <1>2, JobFacts
  <2>2. reply'[j.by] = reply[j.by] \/ (j.by = job.by /\ ~(job.kind = "question" /\ job.by \in cancelled))
    BY <1>1, <1>2, JobFacts DEF Release, JobsTyped
  <2>3. j.by \in cancelled => j.by \in cancelled' \/ (j.by = job.by /\ job.kind = "question")
    BY <1>1, <1>2, JobFacts DEF Release
  <2>4. CASE j.by # job.by
    BY <1>2, <2>2, <2>3, <2>4 DEF Awaited
  <2>5. CASE j.by = job.by /\ job.kind = "call"
    <3>1. j.kind = "question" /\ doing[j.by] = "calling"
      BY <1>1, <1>2, <2>1, <2>5, JobFacts DEF Awaited
    <3> QED
      BY <1>2, <2>3, <2>5, <3>1 DEF Awaited
  <2>6. CASE j.by = job.by /\ job.kind = "question"
    <3>1. j.kind = "call" /\ doing[j.by] = "calling"
      BY <1>2, <2>1, <2>6, JobFacts DEF Awaited
    <3>2. job.by \in cancelled
      BY <1>1, <2>6, <3>1 DEF Awaited
    <3> QED
      BY <1>2, <2>2, <2>6, <3>1, <3>2 DEF Awaited
  <2> QED
    BY <1>1, <2>4, <2>5, <2>6, JobFacts
<1>3. JobsFit'
  <2>1. \A i \in 1..Len(jobs) : Awaited(jobs[i])' /\ jobs[i] # NoJob
    BY <1>1, <1>2 DEF Awaited, Job, NoJob, Kinds
  <2> QED
    BY <2>1 DEF JobsFit, Job, NoJob, Kinds
<1>4. RepliesFit'
  <2>1. CASE job.kind = "question" /\ job.by \in cancelled
    BY <2>1 DEF Release, RepliesFit
  <2>2. CASE ~(job.kind = "question" /\ job.by \in cancelled)
    <3>1. reply' = [reply EXCEPT ![job.by] = answer]
      BY <2>2 DEF Release
    <3>2. doing[job.by] = IF job.kind = "call" THEN "calling" ELSE "asking"
      BY <1>1, <2>2 DEF Awaited
    <3> QED
      BY <1>1, <3>1, <3>2 DEF RepliesFit, JobsTyped, Answers, Results
  <2> QED
    BY <2>1, <2>2
<1> QED
  BY <1>3, <1>4

LEMMA FitOfServe ==
  ASSUME LoopTyped, JobsTyped, JobFits, JobsFit, RepliesFit, Serve
  PROVE  JobsFit' /\ RepliesFit'
<1>1. doing' = doing
  BY ServeKeeps DEF workerVars
<1>2. CASE TakeJob
  <2>1. jobs' = Tail(jobs) /\ jobs # <<>> /\ jobs \in Seq(Job) /\ job' = jobs[1] /\ UNCHANGED <<reply, cancelled>>
    BY <1>2 DEF TakeJob, JobsTyped
  <2>2. Len(jobs) \in Nat /\ 1 \in 1..Len(jobs) /\ \A i \in 1..Len(jobs') : jobs'[i] = jobs[i + 1] /\ i + 1 \in 1..Len(jobs) /\ i + 1 # 1
    BY <2>1
  <2>3. \A i \in 1..Len(jobs) : Awaited(jobs[i]) /\ \A k \in 1..Len(jobs) : jobs[i] = jobs[k] => i = k
    BY DEF JobsFit
  <2>4. \A i \in 1..Len(jobs') : Awaited(jobs[i])' /\ jobs'[i] # job'
    BY <1>1, <2>1, <2>2, <2>3 DEF Awaited
  <2>5. Awaited(job)'
    BY <1>1, <2>1, <2>2, <2>3 DEF Awaited
  <2>6. ASSUME NEW i \in 1..Len(jobs'), NEW k \in 1..Len(jobs'), jobs'[i] = jobs'[k]
        PROVE  i = k
    <3>1. jobs'[i] = jobs[i + 1] /\ i + 1 \in 1..Len(jobs)
      BY <2>2
    <3>2. jobs'[k] = jobs[k + 1] /\ k + 1 \in 1..Len(jobs)
      BY <2>2
    <3>3. i + 1 = k + 1
      BY <3>1, <3>2, <2>3, <2>6
    <3>4. Len(jobs') \in Nat
      BY <2>1, <2>2
    <3> QED
      BY <3>3, <3>4
  <2> QED
    BY <1>1, <2>1, <2>4, <2>5, <2>6 DEF JobsFit, RepliesFit
<1>3. CASE SkipCancelled
  <2>1. job \in Job /\ job.kind = "question" /\ job.by \in cancelled /\ UNCHANGED <<jobs, reply>> /\ job' = NoJob
        /\ cancelled' = cancelled \ {job.by}
    BY <1>3 DEF SkipCancelled, JobFits
  <2>2. \A i \in 1..Len(jobs) : jobs[i] \in Job /\ jobs[i] # job /\ Awaited(jobs[i]) /\ jobs[i] # NoJob
    BY JobFacts DEF JobsFit, Job, NoJob, Kinds
  <2>3. \A i \in 1..Len(jobs) : Awaited(jobs[i])'
    BY <1>1, <2>1, <2>2, JobFacts DEF Awaited
  <2> QED
    BY <1>1, <2>1, <2>2, <2>3 DEF JobsFit, RepliesFit, Job, NoJob, Kinds
<1>4. CASE NoJobInTime \/ ShowPrompt \/ StartCall \/ \E outcome \in Results : FinishCall(outcome)
  BY <1>1, <1>4 DEF NoJobInTime, ShowPrompt, StartCall, FinishCall, JobsFit, RepliesFit, Awaited
<1>5. ASSUME NEW answer \in Answers, Answer(answer)
      PROVE  JobsFit' /\ RepliesFit'
  <2>1. job \in Job /\ job.kind = "question" /\ jobs' = jobs /\ job' = NoJob /\ Release(answer)
    BY <1>5 DEF Answer, JobFits
  <2> QED
    BY <1>1, <2>1, FitOfRelease
<1>6. CASE CallDone
  <2>1. job \in Job /\ job.kind = "call" /\ result \in Results /\ jobs' = jobs /\ job' = NoJob /\ Release(result)
    BY <1>6 DEF CallDone, JobFits
  <2> QED
    BY <1>1, <2>1, FitOfRelease
<1> QED
  BY <1>2, <1>3, <1>4, <1>5, <1>6 DEF Serve

LEMMA FitOfRaise ==
  ASSUME LoopTyped, JobsTyped, JobFits, JobsFit, RepliesFit, ByRaise
  PROVE  JobsFit' /\ RepliesFit'
<1>1. Raise
  BY DEF ByRaise, InterruptLoop, InterruptPrompt, InterruptServe, HeldCtrlC
<1>2. UNCHANGED <<jobs, doing>> /\ job' = NoJob
  BY <1>1, RaiseKeeps
<1>3. CASE InterruptLoop \/ InterruptServe
  <2>1. UNCHANGED <<reply, cancelled>>
    BY <1>3 DEF InterruptLoop, InterruptServe
  <2>2. \A i \in 1..Len(jobs) : jobs[i] # NoJob
    BY JobFacts DEF Job, NoJob, Kinds
  <2> QED
    BY <1>2, <2>1, <2>2 DEF JobsFit, RepliesFit, Awaited, Job, NoJob, Kinds
<1>4. CASE InterruptPrompt
  <2>1. job \in Job /\ job.kind = "question" /\ Release("no") /\ "no" \in Answers
    BY <1>4 DEF InterruptPrompt, JobFits, Answers
  <2> QED
    BY <1>2, <2>1, FitOfRelease
<1>5. CASE HeldCtrlC
  <2>1. job \in Job /\ job.kind = "call" /\ Release(result) /\ result \in Results
    BY <1>5 DEF HeldCtrlC, JobFits
  <2> QED
    BY <1>2, <2>1, FitOfRelease
<1> QED
  BY <1>3, <1>4, <1>5 DEF ByRaise

LEMMA FitStep ==
  ASSUME LoopTyped, JobsTyped, JobFits, CancelledByStop, WorkersKnown, JobsFit, RepliesFit, Next
  PROVE  JobsFit' /\ RepliesFit'
<1>1. CASE ByWorker
  BY <1>1, FitOfWorker DEF ByWorker
<1>2. CASE ByRaise
  BY <1>2, FitOfRaise
<1>3. CASE Serve
  BY <1>3, FitOfServe
<1>4. CASE ~ByWorker /\ ~ByRaise /\ ~Serve
  <2>1. UNCHANGED <<jobs, job, reply, cancelled>>
    BY <1>4, OthersServeNothing
  <2>2. \A q \in Ports : Alive(q) => doing'[q] = doing[q]
    <3>1. CASE StartWorkers
      BY <3>1 DEF StartWorkers, Ended, WorkersKnown
    <3>2. CASE ExitOnce \/ AwaitWorkers
      BY <3>2 DEF ExitOnce, AwaitWorkers, workerVars
    <3>3. CASE Other
      BY <3>3, OtherKeeps
    <3> QED
      BY <1>4, <3>1, <3>2, <3>3, StepByKind
  <2>3. ASSUME NEW j \in Job, Awaited(j)
        PROVE  Awaited(j)'
    BY <2>1, <2>2, <2>3, JobFacts DEF Awaited, Alive
  <2>4. JobsFit'
    BY <2>1, <2>3, JobFacts DEF JobsFit
  <2>5. RepliesFit'
    BY <2>1, <2>2 DEF RepliesFit, Alive
  <2> QED
    BY <2>4, <2>5
<1> QED
  BY <1>1, <1>2, <1>3, <1>4

-----------------------------------------------------------------------------
(* Types, the rest of them included.                                       *)

RestTyped ==
  /\ {pressed, stop, startedAny} \subseteq BOOLEAN
  /\ lost \subseteq Ports
  /\ {finished, due, seenGone} \subseteq SUBSET Ports
  /\ plugs \in 0..MaxPlugs
  /\ presses \in 0..MaxCtrlC

LEMMA RestStep ==
  ASSUME LoopTyped, JobsTyped, JobFits, RestTyped, Next
  PROVE  RestTyped'
<1>0. MaxPlugs \in Nat /\ MaxCtrlC \in Nat
  BY OffloaderAssumption
<1> USE DEF RestTyped
<1>1. ASSUME NEW p \in Ports, Worker(p)
      PROVE  RestTyped'
  <2>1. UNCHANGED <<pressed, stop, startedAny, lost, finished>>
    BY <1>1, WorkerMoves DEF Moves, loopVars
  <2>2. UNCHANGED <<portVars, presses>>
    BY <1>1 DEF Worker, Settle, AskToConfigure, SkipConfigure, LeaveAsIs, Configure, Decline, Configured, ConfigureFails,
       WriteNetCDF, NothingToWrite, Written, OffloadFails, PortLost, OffloadRaises, PortBusy, NoteFailed, NoteNotReady, NotConfigured, EndsWith
  <2> QED
    BY <2>1, <2>2 DEF portVars
<1>2. CASE Serve
  BY <1>2, ServeKeeps DEF loopVars, portVars
<1>3. CASE ByRaise
  <2>1. Raise /\ UNCHANGED <<portVars, startedAny, finished>>
    BY <1>3 DEF ByRaise, InterruptLoop, InterruptPrompt, InterruptServe, HeldCtrlC, Raise
  <2>2. pressed' = FALSE /\ stop' \in BOOLEAN
    BY <2>1, RaiseKeeps
  <2>3. presses' \in 0..MaxCtrlC
    BY <1>0, <1>3 DEF ByRaise, InterruptLoop, InterruptPrompt, InterruptServe, HeldCtrlC, Press
  <2>4. lost' \subseteq Ports
    BY <1>3, JobFacts DEF ByRaise, InterruptLoop, InterruptPrompt, InterruptServe, HeldCtrlC, JobFits
  <2> QED
    BY <2>1, <2>2, <2>3, <2>4 DEF portVars
<1>4. CASE HoldCtrlC
  BY <1>0, <1>4 DEF HoldCtrlC, Press, loopVars, portVars
<1>5. CASE LookForPorts
  BY <1>5 DEF LookForPorts
<1>6. CASE StartWorkers
  <2>1. finished' \subseteq Ports
    BY <1>6 DEF StartWorkers, Remaining, LoopTyped
  <2> QED
    BY <1>6, <2>1 DEF StartWorkers
<1>7. CASE ExitOnce
  <2>1. finished' \subseteq Ports
    BY <1>7 DEF ExitOnce, Remaining, LoopTyped
  <2> QED
    BY <1>7, <2>1 DEF ExitOnce, portVars
<1>8. CASE AwaitWorkers
  BY <1>8 DEF AwaitWorkers, portVars
<1>9. ASSUME NEW p \in Ports, PlugIn(p) \/ PullOut(p)
      PROVE  RestTyped'
  BY <1>0, <1>9 DEF PlugIn, PullOut, consoleVars, loopVars
<1> QED
  BY <1>1, <1>2, <1>3, <1>4, <1>5, <1>6, <1>7, <1>8, <1>9, StepByKind DEF ByWorker, Other

Fits == JobsFit /\ RepliesFit /\ RestTyped

\* All variables of the program have their types, and an answer waits only for the worker that asked, a call's outcome
\* for the one that called: ask() and run_in_main() return what serve() did with their own job.
THEOREM TypeCorrect == Spec => []TypeOK
<1>1. Init => Fits
  <2> SUFFICES ASSUME Init PROVE Fits
    OBVIOUS
  <2>1. JobsFit /\ RepliesFit
    BY DEF Init, ConsoleInit, JobsFit, RepliesFit, Job, NoJob, Kinds, Answers, Results, Waiting
  <2>2. RestTyped
    <3>1. {pressed, stop, startedAny} \subseteq BOOLEAN
      BY DEF Init, ConsoleInit
    <3>2. lost \subseteq Ports /\ {finished, due, seenGone} \subseteq SUBSET Ports
      BY DEF Init, ConsoleInit
    <3>3. plugs \in 0..MaxPlugs /\ presses \in 0..MaxCtrlC
      BY OffloaderAssumption DEF Init
    <3> QED
      BY <3>1, <3>2, <3>3 DEF RestTyped
  <2> QED
    BY <2>1, <2>2 DEF Fits
<1>2. IInv /\ Fits /\ [Next]_vars => Fits'
  <2> SUFFICES ASSUME IInv, Fits, [Next]_vars PROVE Fits'
    OBVIOUS
  <2>1. CASE Next
    BY <2>1, FitStep, RestStep DEF IInv, Fits
  <2>2. CASE UNCHANGED vars
    BY <2>2 DEF vars, consoleVars, loopVars, workerVars, portVars, Fits, JobsFit, RepliesFit, RestTyped, Awaited
  <2> QED
    BY <2>1, <2>2
<1>3. IInv /\ Fits => TypeOK
  <2> SUFFICES ASSUME IInv, Fits PROVE TypeOK
    OBVIOUS
  <2>1. ConsoleTypeOK
    BY DEF IInv, JobsTyped, Fits, RestTyped, ConsoleTypeOK
  <2> QED
    BY <2>1 DEF IInv, LoopTyped, NotesTyped, Fits, RepliesFit, RestTyped, TypeOK
<1> QED
  BY <1>1, <1>2, <1>3, Invariance, PTL DEF Spec
=============================================================================
