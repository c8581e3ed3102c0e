------------------------------ MODULE Console ------------------------------
(***************************************************************************)
(* console.Console: the main thread's service of the worker threads.  A    *)
(* worker puts a job in `_jobs` and waits: ask() puts a question for the   *)
(* operator, run_in_main() a call (the writing of a NetCDF file).  The     *)
(* main thread takes one job at a time in serve().  A Ctrl-C is an         *)
(* exception in the main thread wherever it is, except during a call.      *)
(*                                                                         *)
(* The component has no specification of its own: Offloader composes it    *)
(* with the workers and with the run loop that calls serve().              *)
(*                                                                         *)
(* Abstractions.  A worker waits for one job at a time and is a port, so a *)
(* job is a port and a kind.  The acknowledgement of an alarm is a         *)
(* question whose answer is not used, and is left out, as is what is       *)
(* written to the terminal while a question is on it.                      *)
(***************************************************************************)
EXTENDS Naturals, Sequences

CONSTANT Ports

VARIABLES
  jobs,       \* Console._jobs
  at,         \* where the main thread is, in _run, _shutdown or serve()
  job,        \* the job serve() has taken, or NoJob
  result,     \* what the call returned, before `done` is set
  pressed,    \* a Ctrl-C is held until the call is over
  stop,       \* Settings.stop and Console.stop, which are set together
  reply,      \* what each worker's job has been answered with, once it is done
  cancelled,  \* the workers whose question was cancelled, until serve() is through with it
  lost        \* the workers whose call serve() took and left for ever

consoleVars == <<jobs, at, job, result, pressed, stop, reply, cancelled, lost>>

Kinds == {"question", "call"}
Job == [by : Ports, kind : Kinds]
NoJob == [by |-> "nobody", kind |-> "none"]
Question(p) == [by |-> p, kind |-> "question"]
Call(p) == [by |-> p, kind |-> "call"]

Waiting == "waiting"
Answers == {"yes", "no"}
Results == {"written", "failed"}

ConsoleTypeOK ==
  /\ jobs \in Seq(Job)
  /\ at \in {"look", "reap", "get", "taken", "prompt", "call", "restored", "ended"}
  /\ job \in Job \cup {NoJob}
  /\ result \in Results \cup {Waiting}
  /\ pressed \in BOOLEAN
  /\ stop \in BOOLEAN
  /\ reply \in [Ports -> Answers \cup Results \cup {Waiting}]
  /\ cancelled \subseteq Ports
  /\ lost \subseteq Ports

ConsoleInit ==
  /\ jobs = <<>>
  /\ at = "look"
  /\ job = NoJob
  /\ result = Waiting
  /\ pressed = FALSE
  /\ stop = FALSE
  /\ reply = [p \in Ports |-> Waiting]
  /\ cancelled = {}
  /\ lost = {}

(***************************************************************************)
(* The workers' side.                                                      *)
(***************************************************************************)
Put(j) ==
  /\ jobs' = Append(jobs, j)
  /\ UNCHANGED <<at, job, result, pressed, stop, reply, cancelled, lost>>

\* ask() or run_in_main() returns.
Take(p) ==
  /\ reply' = [reply EXCEPT ![p] = Waiting]
  /\ UNCHANGED <<jobs, at, job, result, pressed, stop, cancelled, lost>>

\* ask() polls `stop` and gives its question up: the answer is "".
Cancel(p) ==
  /\ stop
  /\ reply[p] = Waiting
  /\ cancelled' = cancelled \cup {p}
  /\ UNCHANGED <<jobs, at, job, result, pressed, stop, reply, lost>>

(***************************************************************************)
(* The main thread's side: serve().                                        *)
(***************************************************************************)
TakeJob ==
  /\ at = "get"
  /\ jobs # <<>>
  /\ job' = Head(jobs)
  /\ jobs' = Tail(jobs)
  /\ at' = "taken"
  /\ UNCHANGED <<result, pressed, stop, reply, cancelled, lost>>

\* The timeout of `_jobs.get`.
NoJobInTime ==
  /\ at = "get"
  /\ jobs = <<>>
  /\ at' = "look"
  /\ UNCHANGED <<jobs, job, result, pressed, stop, reply, cancelled, lost>>

\* Mutant: once stopping, whatever is queued is dropped.
SkipWhenStopping ==
  /\ at = "taken"
  /\ stop
  /\ at' = "look"
  /\ job' = NoJob
  /\ cancelled' = cancelled \ {job.by}
  /\ UNCHANGED <<jobs, result, pressed, stop, reply, lost>>

SkipCancelled ==
  /\ at = "taken"
  /\ job.kind = "question"
  /\ job.by \in cancelled
  /\ at' = "look"
  /\ job' = NoJob
  /\ cancelled' = cancelled \ {job.by}
  /\ UNCHANGED <<jobs, result, pressed, stop, reply, lost>>

ShowPrompt ==
  /\ at = "taken"
  /\ job.kind = "question"
  /\ job.by \notin cancelled
  /\ at' = "prompt"
  /\ UNCHANGED <<jobs, job, result, pressed, stop, reply, cancelled, lost>>

\* A question that was cancelled while it was on screen has nobody waiting for its answer.
Release(answer) ==
  LET nobody == job.kind = "question" /\ job.by \in cancelled IN
  /\ reply' = IF nobody THEN reply ELSE [reply EXCEPT ![job.by] = answer]
  /\ cancelled' = IF nobody THEN cancelled \ {job.by} ELSE cancelled

Answer(answer) ==
  /\ at = "prompt"
  /\ Release(answer)
  /\ at' = "look"
  /\ job' = NoJob
  /\ UNCHANGED <<jobs, result, pressed, stop, lost>>

\* Mutant: a question is run as a call.
StartAny ==
  /\ at = "taken"
  /\ at' = "call"
  /\ UNCHANGED <<jobs, job, result, pressed, stop, reply, cancelled, lost>>

\* The SIGINT handler of serve() is in place from here until the call is over.
StartCall ==
  /\ at = "taken"
  /\ job.kind = "call"
  /\ at' = "call"
  /\ UNCHANGED <<jobs, job, result, pressed, stop, reply, cancelled, lost>>

FinishCall(outcome) ==
  /\ at = "call"
  /\ result' = outcome
  /\ at' = "restored"
  /\ UNCHANGED <<jobs, job, pressed, stop, reply, cancelled, lost>>

\* `done.set()`; a Ctrl-C that was held is acted on by the caller (Offloader!HeldCtrlC).
CallDone ==
  /\ at = "restored"
  /\ ~pressed
  /\ Release(result)
  /\ at' = "look"
  /\ job' = NoJob
  /\ result' = Waiting
  /\ UNCHANGED <<jobs, pressed, stop, lost>>
=============================================================================
