----------------------------- MODULE Configure -----------------------------
(***************************************************************************)
(* The configure step of rbr-tpw: what is sent to a logger after its       *)
(* download has been saved, what the report says of it, and what is left   *)
(* of the logger when a reply is lost, a command is refused, the cable is  *)
(* pulled, or Ctrl-C is hit.                                               *)
(*                                                                         *)
(* Source: cli._configure_step and _configure_state, configure.configure   *)
(* and _apply, lock.Session.                                               *)
(*                                                                         *)
(* Each action is one exchange with the logger.  A write that gets no      *)
(* reply was dropped or was obeyed: nothing tells which.  A read fails     *)
(* only if it gets no reply twice (link.query), or a reply that cannot be  *)
(* read.  "logging" stands for logging or pending, "stopped" for every     *)
(* other status.  The battery counter, the start and end times and the     *)
(* period are one write, "settings"; the reads of the status, schedule,    *)
(* memory, power and clock at the end are one, "readback".                 *)
(***************************************************************************)
EXTENDS Integers

CONSTANTS
    MaxOffloads,    \* how often the logger is connected
    MaxLosses,      \* commands or replies lost
    Refusals,       \* what the logger may refuse, whatever its state
    MayUnplug       \* whether the cable may be pulled

ASSUME ConfigureAssumption ==
    /\ MaxOffloads \in Nat /\ MaxLosses \in Nat /\ MayUnplug \in BOOLEAN
    /\ Refusals \subseteq {"unlock", "write", "memclear", "verify", "enable", "relock"}

VARIABLES
    cfg,        \* DeployConfig, and whether the driver is configurable
    \* the logger: its status, whether its memory holds data, whether it is locked,
    \* what was done to it in this connection
    status, used, locked, did,
    plugged,    \* its cable
    \* the run: Ctrl-C was hit; the serial number is in Settings.configured
    stop, configured, offloads, losses,
    \* this connection
    pc,         \* the command sent next
    key,        \* Session.write has unlocked for it
    tries,      \* `lock on` got no reply once (1), or was given up (2)
    entered,    \* the `with Session` was entered
    seen,       \* the status last read
    steps,      \* the steps in the report
    error,      \* the exception raised: one _configure_step catches, or another
    notReady,   \* _not_ready[port]
    failed      \* how the worker ended; _failed[port] is set by "port" and "error" only

logger == <<status, used, locked, did>>
run == <<cfg, plugged, stop, configured, offloads>>
talk == <<key, tries, entered, seen, steps, error>>
outcome == <<notReady, failed>>
vars == <<logger, run, losses, pc, talk, outcome>>

DeployConfigs == [supported : BOOLEAN, clock : BOOLEAN, erase : BOOLEAN, enable : BOOLEAN]
Statuses == {"logging", "stopped"}
Writes == {"stop", "settings", "permit"}
Queries == {"sampling", "memory", "status", "meminfo", "readback"}
InSession == {"status", "clock", "memclear", "meminfo", "verify", "unlock", "enable",
              "relock"} \cup Writes
Talking == {"sampling", "memory", "enter", "readback"} \cup InSession
Places == {"idle", "decide", "ask", "report", "failed", "escaped", "end"} \cup Talking
Changes == {"stop", "erase", "enable"}
Steps == Changes \cup {"stop_sent", "erase_sent", "enable_sent"}
SentStep == [stop |-> "stop_sent", erase |-> "erase_sent", enable |-> "enable_sent"]

Reasons == {"none", "unsupported", "stopped", "declined", "failed", "not logging"}
Errors == {"none", "caught", "other"}
Endings == {"no", "busy", "port", "error"}

TypeOK ==
    /\ cfg \in DeployConfigs
    /\ status \in Statuses /\ used \in BOOLEAN /\ locked \in BOOLEAN /\ did \subseteq Changes
    /\ plugged \in BOOLEAN /\ stop \in BOOLEAN /\ configured \in BOOLEAN
    /\ offloads \in 0..MaxOffloads /\ losses \in 0..MaxLosses
    /\ pc \in Places
    /\ key \in BOOLEAN /\ tries \in 0..2 /\ entered \in BOOLEAN /\ error \in Errors
    /\ seen \in Statuses \cup {"unread"}
    /\ steps \subseteq Steps
    /\ notReady \in Reasons
    /\ failed \in Endings

Init ==
    /\ cfg \in DeployConfigs
    /\ status \in Statuses /\ used \in BOOLEAN /\ locked = TRUE /\ did = {}
    /\ plugged = TRUE /\ stop = FALSE /\ configured = FALSE
    /\ offloads = 0 /\ losses = 0
    /\ pc = "idle" /\ key = FALSE /\ tries = 0 /\ entered = FALSE /\ error = "none"
    /\ seen = status /\ steps = {}
    /\ notReady = "none" /\ failed = "no"

-----------------------------------------------------------------------------
(* The offload before it, and whether to configure at all.                 *)

\* The logger is connected.  Its snapshot re-locks it (unlocked_if_possible) unless the
\* logger refuses the key.
Begin ==
    /\ pc = "idle" /\ plugged /\ ~ stop /\ offloads < MaxOffloads
    /\ offloads' = offloads + 1
    /\ pc' = "decide"
    /\ (locked' = TRUE \/ UNCHANGED locked) /\ did' = {}
    /\ seen' = status /\ steps' = {} /\ error' = "none"
    /\ key' = FALSE /\ tries' = 0 /\ entered' = FALSE
    /\ notReady' = "none" /\ failed' = "no"
    /\ UNCHANGED <<cfg, status, used, plugged, stop, configured, losses>>

\* Another program has the port: it is not opened, and the logger is left to that program.
PortInUse ==
    /\ pc = "idle" /\ plugged /\ ~ stop /\ offloads < MaxOffloads
    /\ offloads' = offloads + 1
    /\ pc' = "end" /\ failed' = "busy" /\ notReady' = "none"
    /\ seen' = "unread" /\ steps' = {} /\ error' = "none" /\ did' = {}
    /\ key' = FALSE /\ tries' = 0 /\ entered' = FALSE
    /\ UNCHANGED <<cfg, status, used, locked, plugged, stop, configured, losses>>

\* Its download fails or is stopped: the configure step is not reached.
OffloadFails ==
    /\ pc = "decide" /\ pc' = "end" /\ failed' = "error"
    /\ UNCHANGED <<logger, run, losses, talk, notReady>>

Skip(reason) ==
    /\ pc = "decide" /\ pc' = "end" /\ notReady' = reason
    /\ UNCHANGED <<logger, run, losses, talk, failed>>

Unsupported == ~ cfg.supported /\ Skip("unsupported")

AlreadyConfigured ==
    /\ cfg.supported /\ configured
    /\ Skip(IF seen = "logging" THEN "none" ELSE "not logging")

SkipStopping == cfg.supported /\ ~ configured /\ stop /\ Skip("stopped")

\* Mutant: a replugged logger is configured again.
ConsiderAgain ==
    /\ pc = "decide" /\ cfg.supported /\ ~ stop
    /\ pc' = "ask"
    /\ UNCHANGED <<logger, run, losses, talk, outcome>>

Consider ==
    /\ pc = "decide" /\ cfg.supported /\ ~ configured /\ ~ stop
    /\ pc' = "ask"
    /\ UNCHANGED <<logger, run, losses, talk, outcome>>

\* The operator says no, or the question is cut short by Ctrl-C.
Decline ==
    /\ pc = "ask" /\ pc' = "end" /\ notReady' = "declined"
    /\ UNCHANGED <<logger, run, losses, talk, failed>>

\* The operator says yes, or --yes.
StartConfigure ==
    /\ pc = "ask" /\ pc' = "sampling"
    /\ UNCHANGED <<logger, run, losses, talk, outcome>>

-----------------------------------------------------------------------------
(* The order of the commands, and the step report.                         *)

\* Where an exception is dealt with outside the session.
Handler(e) == IF e = "caught" THEN "failed" ELSE "escaped"

Settings == IF cfg.clock THEN "clock" ELSE "settings"

\* The command after the one at pc has succeeded.
Following ==
    CASE pc = "sampling" -> IF cfg.enable /\ ~ cfg.erase THEN "memory" ELSE "enter"
      [] pc = "memory"   -> "enter"
      [] pc = "enter"    -> "status"
      [] pc = "status"   -> IF status = "logging" THEN "stop" ELSE Settings
      [] pc = "stop"     -> Settings
      [] pc = "clock"    -> "settings"
      [] pc = "settings" -> IF cfg.erase THEN "permit" ELSE "verify"
      [] pc = "permit"   -> "memclear"
      [] pc = "memclear" -> "meminfo"
      [] pc = "meminfo"  -> "verify"
      [] pc = "verify"   -> IF cfg.enable THEN "unlock" ELSE "relock"
      [] pc = "unlock"   -> "enable"
      [] pc = "enable"   -> "relock"
      [] pc = "relock"   -> IF error = "none" THEN "readback" ELSE Handler(error)
      [] pc = "readback" -> "report"

\* Mutant: nothing is recorded until a command is confirmed.
SentBeforeNever(p) == {}

\* "<name>_sent" is recorded before a command that changes the logger.
SentBefore(p) ==
    CASE p = "stop"     -> {SentStep.stop}
      [] p = "memclear" -> {SentStep.erase}
      [] p = "enable"   -> {SentStep.enable}
      [] OTHER          -> {}

\* Mutant: Ctrl-C ends a configuration, as it ends a download.
ProceedsUnlessStopped(done) ==
    /\ pc' = IF stop THEN "end" ELSE Following
    /\ steps' = steps \cup done \cup SentBefore(Following)
    /\ key' = FALSE /\ entered' = (entered \/ pc = "enter")
    /\ seen' = IF pc \in {"status", "readback"} THEN status ELSE seen
    /\ UNCHANGED <<run, tries, error, outcome>>

\* Ctrl-C is not looked at.
Proceeds(done) ==
    /\ pc' = Following
    /\ steps' = steps \cup done \cup SentBefore(Following)
    /\ key' = FALSE /\ entered' = (entered \/ pc = "enter")
    /\ seen' = IF pc \in {"status", "readback"} THEN status ELSE seen
    /\ UNCHANGED <<run, tries, error, outcome>>

\* An exception goes out through Session.__exit__, if the session was entered.
Unwinds(e, done) ==
    /\ pc' = IF pc \in InSession THEN "relock" ELSE Handler(e)
    /\ error' = e /\ key' = FALSE
    /\ steps' = steps \cup done
    /\ UNCHANGED <<run, tries, entered, seen, outcome>>

\* A ConfigError or a LinkError.
Raises(done) == Unwinds("caught", done)

Lose(n) == losses + n <= MaxLosses /\ losses' = losses + n

\* What the logger does with a command that reaches it.
Obeys ==
    CASE pc = "stop" /\ ~ locked ->
             /\ status' = "stopped" /\ did' = did \cup {"stop"}
             /\ UNCHANGED <<used, locked>>
      [] pc = "memclear" /\ ~ locked ->
             /\ used' = FALSE /\ did' = did \cup {"erase"}
             /\ UNCHANGED <<status, locked>>
      [] pc = "enable" /\ ~ locked /\ ~ used ->
             /\ status' = "logging" /\ did' = did \cup {"enable"}
             /\ UNCHANGED <<used, locked>>
      [] pc = "relock" -> locked' = TRUE /\ UNCHANGED <<status, used, did>>
      [] OTHER -> UNCHANGED logger

-----------------------------------------------------------------------------
(* Session: unlock before every write, re-lock on the way out.             *)

Unlocking == pc \in {"enter", "unlock"} \/ (pc \in Writes /\ ~ key)

Unlock ==
    /\ plugged /\ Unlocking
    /\ locked' = FALSE /\ UNCHANGED <<status, used, did, losses>>
    /\ IF pc \in Writes
         THEN key' = TRUE /\ UNCHANGED <<run, pc, tries, entered, seen, steps, error, outcome>>
         ELSE Proceeds({})

\* No reply to `lock OFF`, or two missing ones to `now` before it.
UnlockLost ==
    /\ plugged /\ Unlocking /\ Lose(1) /\ Raises({})
    /\ locked' \in {locked, FALSE} /\ UNCHANGED <<status, used, did>>

UnlockRefused ==
    /\ plugged /\ Unlocking /\ "unlock" \in Refusals /\ Raises({})
    /\ UNCHANGED <<logger, losses>>

Relock ==
    /\ plugged /\ pc = "relock" /\ Obeys /\ Proceeds({})
    /\ UNCHANGED losses

\* An error reply is noted, no more.
RelockRefused ==
    /\ plugged /\ pc = "relock" /\ "relock" \in Refusals
    /\ tries' = 2 /\ pc' = Following
    /\ UNCHANGED <<logger, run, losses, key, entered, seen, steps, error, outcome>>

\* Mutant: `lock on` is sent until it is answered.
RelockLostAgain ==
    /\ plugged /\ pc = "relock" /\ Lose(1)
    /\ tries' = tries + 1 /\ pc' = "relock"
    /\ (Obeys \/ UNCHANGED logger)
    /\ UNCHANGED <<run, key, entered, seen, steps, error, outcome>>

\* Mutant: `lock on` is not sent again.
RelockLostOnce ==
    /\ plugged /\ pc = "relock" /\ Lose(1)
    /\ tries' = tries + 1 /\ pc' = Following
    /\ (Obeys \/ UNCHANGED logger)
    /\ UNCHANGED <<run, key, entered, seen, steps, error, outcome>>

\* Sent again once, then given up.
RelockLost ==
    /\ plugged /\ pc = "relock" /\ Lose(1)
    /\ tries' = tries + 1
    /\ pc' = IF tries = 0 THEN "relock" ELSE Following
    /\ (Obeys \/ UNCHANGED logger)
    /\ UNCHANGED <<run, key, entered, seen, steps, error, outcome>>

-----------------------------------------------------------------------------
(* configure and _apply.                                                   *)

\* The memory check before anything is written is for a deployment with no erase.
QueryAnswered ==
    /\ plugged /\ pc \in Queries
    /\ pc \in {"memory", "meminfo"} => ~ used
    /\ Proceeds(IF pc = "meminfo" THEN {"erase"} ELSE {})
    /\ UNCHANGED <<logger, losses>>

QueryLost ==
    /\ plugged /\ pc \in Queries /\ Lose(2) /\ Raises({})
    /\ UNCHANGED logger

\* A reply that is not what was asked for: a key is missing, or a number or a time cannot
\* be read.  That KeyError or ValueError is neither a ConfigError nor a LinkError.
Malformed ==
    /\ plugged /\ Lose(1) /\ Unwinds("other", {})
    /\ pc \in Queries \cup {"clock"} \/ (pc = "settings" /\ key) \/ Unlocking
    /\ UNCHANGED logger

EnableNeedsErase ==
    /\ plugged /\ pc = "memory" /\ used /\ Raises({})
    /\ UNCHANGED <<logger, losses>>

\* The step is recorded, then the memory is looked at.
MemoryNotEmpty ==
    /\ plugged /\ pc = "meminfo" /\ used /\ Raises({"erase"})
    /\ UNCHANGED <<logger, losses>>

Sent == {"clock", "memclear"} \cup {p \in Writes : key}

\* E0406 to `stop`, not running, is as good as a reply.
CommandAnswered ==
    /\ plugged /\ pc \in Sent /\ Obeys
    /\ Proceeds(IF pc = "stop" THEN {"stop"} ELSE {})
    /\ UNCHANGED losses

\* The prompt comes back, with the memory as it was.
MemclearIgnored ==
    /\ plugged /\ pc = "memclear" /\ "memclear" \in Refusals /\ Proceeds({})
    /\ UNCHANGED <<logger, losses>>

\* No reply: it is not sent again.
CommandLost ==
    /\ plugged /\ pc \in Sent \cup {"verify", "enable"} /\ Lose(1) /\ Raises({})
    /\ (Obeys \/ UNCHANGED logger)

\* An error, an unexpected reply, a clock out of tolerance, or settings that validate()
\* will not send.
WriteRefused ==
    /\ plugged /\ pc \in {"sampling", "clock"} \cup {p \in Writes : key}
    /\ "write" \in Refusals /\ Raises({})
    /\ UNCHANGED <<logger, losses>>

\* E0402, memory not empty, matters only to enable.
VerifyAnswered ==
    /\ plugged /\ pc = "verify" /\ (used => ~ cfg.enable) /\ Proceeds({})
    /\ UNCHANGED <<logger, losses>>

VerifyRefused ==
    /\ plugged /\ pc = "verify"
    /\ (used /\ cfg.enable) \/ "verify" \in Refusals
    /\ Raises({})
    /\ UNCHANGED <<logger, losses>>

EnableAnswered ==
    /\ plugged /\ pc = "enable" /\ ~ used /\ ~ locked
    /\ Obeys /\ Proceeds({"enable"})
    /\ UNCHANGED losses

\* The step is recorded, then its reply is looked at.
EnableRefused ==
    /\ plugged /\ pc = "enable" /\ (used \/ "enable" \in Refusals) /\ Raises({"enable"})
    /\ UNCHANGED <<logger, losses>>

-----------------------------------------------------------------------------
(* The outcome.                                                            *)

\* A number read back that cannot be told fails what comes after the verdict.
Report ==
    /\ pc = "report" /\ pc' = "end"
    /\ configured' = TRUE
    /\ notReady' = IF seen = "logging" THEN "none" ELSE "not logging"
    /\ \/ UNCHANGED <<losses, failed>>
       \/ Lose(1) /\ failed' = "error"
    /\ UNCHANGED <<logger, cfg, plugged, stop, offloads, talk>>

\* CONFIGURE FAILED: a ConfigError or a LinkError.  The status is asked for, best effort.
ReportFailure ==
    /\ pc = "failed" /\ pc' = "end"
    /\ notReady' = "failed"
    /\ UNCHANGED <<logger, run, losses, talk, failed>>

\* Mutant: only what was raised before the session is noted.
EscapeUnnoted ==
    /\ pc = "escaped" /\ pc' = "end"
    /\ failed' = IF entered THEN "no" ELSE "error"
    /\ UNCHANGED <<logger, run, losses, talk, notReady>>

\* Any other exception goes past all this to _worker, which says what it was.
Escape ==
    /\ pc = "escaped" /\ pc' = "end" /\ failed' = "error"
    /\ UNCHANGED <<logger, run, losses, talk, notReady>>

\* What a lost port is taken for: a failed port or, by the system's wording of the error
\* ("Access is denied", "PermissionError"), a port that another program has.
LostAs == {"port", "busy"}

\* Mutant: `lock on` is sent until the port is back.
PortErrorRetried ==
    /\ ~ plugged /\ pc \in Talking \ {"relock"}
    /\ pc' = "end" /\ failed' \in LostAs
    /\ UNCHANGED <<logger, run, losses, talk, notReady>>

\* The port is gone: a SerialException goes past all this to _worker, which notes it unless
\* it takes it for a port in use.  In relock it is passed on by _drain; after the second
\* `lock on` it is noted in the transcript, no more.
PortError ==
    /\ ~ plugged /\ pc \in {"decide"} \cup Talking
    /\ IF pc = "relock" /\ tries > 0
         THEN pc' = Following /\ tries' = 2 /\ UNCHANGED failed
         ELSE pc' = "end" /\ failed' \in LostAs /\ UNCHANGED tries
    /\ UNCHANGED <<logger, run, losses, key, entered, seen, steps, error, notReady>>

\* The worker ends; the logger may be connected again.
End ==
    /\ pc = "end" /\ pc' = "idle"
    /\ UNCHANGED <<logger, run, losses, talk, outcome>>

-----------------------------------------------------------------------------
(* What happens meanwhile.                                                 *)

CtrlC ==
    /\ ~ stop /\ stop' = TRUE
    /\ UNCHANGED <<logger, cfg, plugged, configured, offloads, losses, pc, talk, outcome>>

Unplug ==
    /\ MayUnplug /\ plugged /\ plugged' = FALSE
    /\ UNCHANGED <<logger, cfg, stop, configured, offloads, losses, pc, talk, outcome>>

Replug ==
    /\ ~ plugged /\ pc = "idle" /\ plugged' = TRUE
    /\ UNCHANGED <<logger, cfg, stop, configured, offloads, losses, pc, talk, outcome>>

\* A deployment ends, at its end time or in another program; not in the minute after
\* this one enabled it.
DeploymentEnds ==
    /\ "enable" \notin did \/ pc = "idle"
    /\ status = "logging" /\ status' = "stopped"
    /\ UNCHANGED <<used, locked, did, run, losses, pc, talk, outcome>>

LogSample ==
    /\ status = "logging" /\ ~ used /\ used' = TRUE
    /\ UNCHANGED <<status, locked, did, run, losses, pc, talk, outcome>>

-----------------------------------------------------------------------------
Decide ==
    \/ PortInUse \/ OffloadFails \/ Unsupported \/ AlreadyConfigured \/ SkipStopping \/ Consider
    \/ Decline \/ StartConfigure

Exchange ==
    \/ Unlock \/ UnlockLost \/ UnlockRefused \/ Relock \/ RelockRefused \/ RelockLost
    \/ QueryAnswered \/ QueryLost \/ Malformed \/ EnableNeedsErase \/ MemoryNotEmpty
    \/ CommandAnswered \/ MemclearIgnored \/ CommandLost \/ WriteRefused
    \/ VerifyAnswered \/ VerifyRefused \/ EnableAnswered \/ EnableRefused

Finish == Report \/ ReportFailure \/ Escape \/ PortError \/ End

Meanwhile == CtrlC \/ Unplug \/ Replug \/ DeploymentEnds \/ LogSample

Next == Begin \/ Decide \/ Exchange \/ Finish \/ Meanwhile

Spec == Init /\ [][Next]_vars

\* The worker runs on, Ctrl-C or not: every command is answered or times out.
FairSpec == Spec /\ WF_vars(Exchange \/ Finish)

-----------------------------------------------------------------------------
(* What must hold.                                                         *)

\* CONFIGURE FAILED never says that nothing happened to the logger when something did,
\* whatever was lost: "memory not erased", or no word on logging, is true.
ReportHidesNothing ==
    \A x \in did : x \in steps \/ SentStep[x] \in steps

\* It says that the memory was erased, logging stopped or enabled, only if it was
\* (configure.py: "<name>" once it is confirmed).
ConfirmedIsTrue ==
    \A x \in Changes : x \in steps => x \in did

\* _worker has a reason for an offload that is incomplete.
Noted == failed \in {"port", "error"}

\* A logger whose port was opened is handed back with nothing said only if its status, when
\* last read, was logging; and if it was configured just now, it is logging.  (Unless its
\* port was lost and taken for one in use: then nothing is ever said, cli.py:803.)
ReadyMeansLogging ==
    pc = "end" /\ seen # "unread" /\ notReady = "none" /\ failed = "no" =>
        seen = "logging" /\ (entered => status = "logging")

\* A configuration that was begun and not finished is told of, whatever else ended it: the
\* logger is NOT READY TO DEPLOY, or its offload is incomplete.
UnfinishedIsNoted ==
    pc = "end" /\ entered /\ ~ configured /\ failed # "busy" =>
        notReady = "failed" \/ Noted

\* A logger configured in this session is not stopped, erased or enabled again by it,
\* however often it is plugged in.
ConfiguredIsLeftAlone ==
    [][configured => did' \subseteq did]_vars

\* A logger that was unlocked by the session is locked again at its end, whatever was
\* raised, unless `lock on` itself failed twice, or the port did.
RelockedAfterSession ==
    pc = "end" /\ entered /\ tries < 2 /\ failed \notin {"port", "busy"} => locked

\* A logger that was stopped or erased is not left idle in silence: Ctrl-C or not, its
\* worker gets to an end, where it logs or somebody is told, or its port was taken for one
\* in use.
NeverLeftIdle ==
    pc \in Talking /\ did # {} ~> pc = "end" /\ (status = "logging" \/ notReady # "none" \/ failed # "no")
=============================================================================
