-------------------------- MODULE ConfigureProofs --------------------------
(***************************************************************************)
(* Proofs about Configure, for any number of offloads and losses, whatever *)
(* the logger refuses, with or without the cable being pulled.             *)
(***************************************************************************)
EXTENDS Configure, TLAPS

\* Between the status read and the end of the session the logger is stopped, until it is
\* enabled.
AfterStop == {"clock", "settings", "permit", "memclear", "meminfo", "verify", "unlock", "enable"}

\* What is about to change the logger has been announced in the report.
Announced ==
    /\ pc = "stop" => "stop_sent" \in steps
    /\ pc = "memclear" => "erase_sent" \in steps
    /\ pc = "enable" => "enable_sent" \in steps

\* `lock on` is sent at most twice, and last.
TriesCounted ==
    /\ pc \in {"decide", "ask"} \cup (Talking \ {"relock", "readback"}) => tries = 0
    /\ pc = "relock" => tries \in {0, 1}

\* Within the session, and after it.
SessionKept ==
    /\ pc \in InSession \cup {"readback", "report"} => entered
    /\ pc \in {"decide", "ask", "sampling", "memory", "enter"} => ~ entered
    /\ pc \in {"readback", "report"} => error = "none"
    /\ pc \in Writes /\ key => ~ locked
    /\ pc \in {"readback", "report", "failed", "escaped"} /\ entered /\ tries < 2 => locked

\* A logger that runs after its stop has been enabled, and goes on running.
RunsAsEnabled ==
    /\ pc \in AfterStop => status = "stopped"
    /\ pc \in {"relock", "readback", "report"} /\ error = "none" /\ status = "logging" => "enable" \in did
    /\ pc = "report" /\ seen = "logging" => status = "logging" /\ "enable" \in did
    /\ pc = "end" /\ entered /\ notReady = "none" /\ failed = "no" => "enable" \in did

\* The logger is configured in one connection; in a later one it is left alone.
LeftAlone ==
    /\ pc \in {"ask", "failed", "escaped", "report"} \cup Talking => ~ configured
    /\ pc # "end" /\ pc # "idle" => notReady = "none" /\ failed = "no"
    /\ configured /\ pc = "decide" => did = {}

\* What is erased is unlocked; what is enabled is unlocked and empty.
FitToEnable ==
    /\ pc \in {"memclear", "enable"} => ~ locked
    /\ pc \in {"unlock", "enable"} => ~ used

\* A logger that does what it confirms.
Honest == "memclear" \notin Refusals /\ "enable" \notin Refusals

Confirms ==
    Honest => ConfirmedIsTrue /\ (pc = "meminfo" => "erase" \in did)

-----------------------------------------------------------------------------
(* Types.                                                                  *)

LoggerTyped ==
    /\ status \in Statuses /\ used \in BOOLEAN /\ locked \in BOOLEAN
    /\ did \subseteq Changes
RunTyped ==
    /\ cfg \in DeployConfigs /\ plugged \in BOOLEAN /\ stop \in BOOLEAN /\ configured \in BOOLEAN
    /\ offloads \in 0..MaxOffloads /\ losses \in 0..MaxLosses
TalkTyped ==
    /\ key \in BOOLEAN /\ tries \in 0..2 /\ entered \in BOOLEAN /\ error \in Errors
    /\ seen \in Statuses \cup {"unread"}
PlaceTyped == pc \in Places
StepsTyped == steps \subseteq Steps
OutcomeTyped == notReady \in Reasons /\ failed \in Endings

\* What the lemmas about the session start from.
Known ==
    /\ PlaceTyped /\ LoggerTyped /\ TalkTyped
    /\ TriesCounted /\ LeftAlone /\ SessionKept

\* TypeOK, in the parts that a step is checked against.
LEMMA TypeParts ==
    TypeOK <=> LoggerTyped /\ RunTyped /\ TalkTyped /\ PlaceTyped /\ StepsTyped /\ OutcomeTyped
BY DEF TypeOK, LoggerTyped, RunTyped, TalkTyped, PlaceTyped, StepsTyped, OutcomeTyped

\* Whatever is sent, something comes after it.
LEMMA FollowingPlace == pc \in Talking => Following \in Places
BY DEF Talking, InSession, Writes, Following, Handler, Settings, Places

\* What is recorded before a command is a step of the report.
LEMMA AnnouncedSteps == ASSUME NEW p PROVE SentBefore(p) \subseteq Steps
BY DEF SentBefore, SentStep, Steps

\* A logger that obeys a command, or never got it, stays a logger.
LEMMA ObeysTyped == LoggerTyped /\ (Obeys \/ UNCHANGED logger) => LoggerTyped'
BY DEF LoggerTyped, Obeys, Statuses, Changes, logger

\* The logger keeps its type.
LEMMA LoggerStaysTyped ==
    LoggerTyped /\ [Next]_vars => LoggerTyped'
<1> SUFFICES ASSUME LoggerTyped, [Next]_vars
             PROVE  LoggerTyped'
  OBVIOUS
<1> USE ConfigureAssumption, ObeysTyped DEF LoggerTyped, Statuses, logger, run, talk,
     outcome, Skip, Lose, Raises, Unwinds, Handler, Proceeds
<1>1. CASE Begin
  BY <1>1 DEF Begin
<1>2. CASE Decide
  <2>1. CASE PortInUse
    BY <2>1 DEF PortInUse
  <2>2. CASE ~ PortInUse
    BY <1>2, <2>2 DEF Decide, OffloadFails, Unsupported, AlreadyConfigured, SkipStopping,
       Consider, Decline, StartConfigure
  <2> QED
    BY <2>1, <2>2
<1>3. CASE Exchange
  BY <1>3 DEF Exchange, Unlock, UnlockLost, UnlockRefused, Relock, RelockRefused,
     RelockLost, QueryAnswered, QueryLost, Malformed, EnableNeedsErase, MemoryNotEmpty,
     CommandAnswered, MemclearIgnored, CommandLost, WriteRefused, VerifyAnswered,
     VerifyRefused, EnableAnswered, EnableRefused
<1>4. CASE Finish
  BY <1>4 DEF Finish, Report, ReportFailure, Escape, PortError, LostAs, End
<1>5. CASE Meanwhile
  BY <1>5 DEF Meanwhile, CtrlC, Unplug, Replug, DeploymentEnds, LogSample
<1>6. CASE UNCHANGED vars
  BY <1>6 DEF vars
<1> QED
  BY <1>1, <1>2, <1>3, <1>4, <1>5, <1>6 DEF Next

\* So does the run, ...
LEMMA RunStaysTyped ==
    RunTyped /\ [Next]_vars => RunTyped'
<1> SUFFICES ASSUME RunTyped, [Next]_vars
             PROVE  RunTyped'
  OBVIOUS
<1> USE ConfigureAssumption DEF RunTyped, logger, run, talk, outcome, Skip, Lose,
     Raises, Unwinds, Handler, Proceeds
<1>1. CASE Begin
  BY <1>1 DEF Begin
<1>2. CASE Decide
  <2>1. CASE PortInUse
    BY <2>1 DEF PortInUse
  <2>2. CASE ~ PortInUse
    BY <1>2, <2>2 DEF Decide, OffloadFails, Unsupported, AlreadyConfigured, SkipStopping,
       Consider, Decline, StartConfigure
  <2> QED
    BY <2>1, <2>2
<1>3. CASE Exchange
  <2>1. CASE Unlock
    BY <2>1 DEF Unlock
  <2>2. CASE UnlockLost
    BY <2>2 DEF UnlockLost
  <2>3. CASE UnlockRefused
    BY <2>3 DEF UnlockRefused
  <2>4. CASE Relock
    BY <2>4 DEF Relock
  <2>5. CASE RelockRefused
    BY <2>5 DEF RelockRefused
  <2>6. CASE RelockLost
    BY <2>6 DEF RelockLost
  <2>7. CASE QueryAnswered
    BY <2>7 DEF QueryAnswered
  <2>8. CASE QueryLost
    BY <2>8 DEF QueryLost
  <2>9. CASE EnableNeedsErase
    BY <2>9 DEF EnableNeedsErase
  <2>10. CASE MemoryNotEmpty
    BY <2>10 DEF MemoryNotEmpty
  <2>11. CASE CommandAnswered
    BY <2>11 DEF CommandAnswered
  <2>12. CASE MemclearIgnored
    BY <2>12 DEF MemclearIgnored
  <2>13. CASE CommandLost
    BY <2>13 DEF CommandLost
  <2>14. CASE WriteRefused
    BY <2>14 DEF WriteRefused
  <2>15. CASE VerifyAnswered
    BY <2>15 DEF VerifyAnswered
  <2>16. CASE VerifyRefused
    BY <2>16 DEF VerifyRefused
  <2>17. CASE EnableAnswered
    BY <2>17 DEF EnableAnswered
  <2>18. CASE EnableRefused
    BY <2>18 DEF EnableRefused
  <2>19. CASE Malformed
    BY <2>19 DEF Malformed
  <2> QED
    BY <1>3, <2>1, <2>2, <2>3, <2>4, <2>5, <2>6, <2>7, <2>8, <2>9, <2>10, <2>11, <2>12,
       <2>13, <2>14, <2>15, <2>16, <2>17, <2>18, <2>19 DEF Exchange
<1>4. CASE Finish
  <2>1. CASE Report
    <3>1. losses' = losses \/ (losses' = losses + 1 /\ losses' <= MaxLosses)
      BY <2>1 DEF Report
    <3>2. UNCHANGED <<cfg, plugged, stop, offloads>> /\ configured' = TRUE
      BY <2>1 DEF Report
    <3>3. losses' \in 0..MaxLosses
      BY <3>1
    <3> QED
      BY <3>2, <3>3
  <2>2. CASE ~ Report
    BY <1>4, <2>2 DEF Finish, ReportFailure, Escape, PortError, End
  <2> QED
    BY <2>1, <2>2
<1>5. CASE Meanwhile
  BY <1>5 DEF Meanwhile, CtrlC, Unplug, Replug, DeploymentEnds, LogSample
<1>6. CASE UNCHANGED vars
  BY <1>6 DEF vars
<1> QED
  BY <1>1, <1>2, <1>3, <1>4, <1>5, <1>6 DEF Next

\* ... this connection, ...
LEMMA TalkStaysTyped ==
    LoggerTyped /\ TalkTyped /\ TriesCounted /\ [Next]_vars => TalkTyped'
<1> SUFFICES ASSUME LoggerTyped /\ TalkTyped /\ TriesCounted, [Next]_vars
             PROVE  TalkTyped'
  OBVIOUS
<1> USE ConfigureAssumption DEF LoggerTyped, TalkTyped, TriesCounted, Statuses, Errors,
     logger, run, talk, outcome, Skip, Lose, Raises, Unwinds, Handler, Proceeds
<1>1. CASE Begin
  <2>1. seen' \in Statuses \cup {"unread"}
    BY <1>1 DEF Begin
  <2>2. key' \in BOOLEAN /\ entered' \in BOOLEAN /\ error' \in Errors
    BY <1>1 DEF Begin
  <2>3. tries' \in 0..2
    BY <1>1 DEF Begin
  <2> QED
    BY <2>1, <2>2, <2>3
<1>2. CASE Decide
  <2>1. CASE PortInUse
    <3>1. seen' \in Statuses \cup {"unread"}
      BY <2>1 DEF PortInUse
    <3>2. key' \in BOOLEAN /\ entered' \in BOOLEAN /\ error' \in Errors
      BY <2>1 DEF PortInUse
    <3>3. tries' \in 0..2
      BY <2>1 DEF PortInUse
    <3> QED
      BY <3>1, <3>2, <3>3
  <2>2. CASE ~ PortInUse
    BY <1>2, <2>2 DEF Decide, OffloadFails, Unsupported, AlreadyConfigured, SkipStopping,
       Consider, Decline, StartConfigure
  <2> QED
    BY <2>1, <2>2
<1>3. CASE Exchange
  <2>1. CASE Unlock
    BY <2>1 DEF Unlock
  <2>2. CASE UnlockLost
    BY <2>2 DEF UnlockLost
  <2>3. CASE UnlockRefused
    BY <2>3 DEF UnlockRefused
  <2>4. CASE Relock
    BY <2>4 DEF Relock
  <2>5. CASE RelockRefused
    BY <2>5 DEF RelockRefused
  <2>6. CASE RelockLost
    BY <2>6 DEF RelockLost
  <2>7. CASE QueryAnswered
    BY <2>7 DEF QueryAnswered
  <2>8. CASE QueryLost
    BY <2>8 DEF QueryLost
  <2>9. CASE EnableNeedsErase
    BY <2>9 DEF EnableNeedsErase
  <2>10. CASE MemoryNotEmpty
    BY <2>10 DEF MemoryNotEmpty
  <2>11. CASE CommandAnswered
    BY <2>11 DEF CommandAnswered
  <2>12. CASE MemclearIgnored
    BY <2>12 DEF MemclearIgnored
  <2>13. CASE CommandLost
    BY <2>13 DEF CommandLost
  <2>14. CASE WriteRefused
    BY <2>14 DEF WriteRefused
  <2>15. CASE VerifyAnswered
    BY <2>15 DEF VerifyAnswered
  <2>16. CASE VerifyRefused
    BY <2>16 DEF VerifyRefused
  <2>17. CASE EnableAnswered
    BY <2>17 DEF EnableAnswered
  <2>18. CASE EnableRefused
    BY <2>18 DEF EnableRefused
  <2>19. CASE Malformed
    BY <2>19 DEF Malformed
  <2> QED
    BY <1>3, <2>1, <2>2, <2>3, <2>4, <2>5, <2>6, <2>7, <2>8, <2>9, <2>10, <2>11, <2>12,
       <2>13, <2>14, <2>15, <2>16, <2>17, <2>18, <2>19 DEF Exchange
<1>4. CASE Finish
  <2>1. CASE Report
    BY <2>1 DEF Report
  <2>2. CASE ReportFailure
    BY <2>2 DEF ReportFailure
  <2>3. CASE PortError
    BY <2>3 DEF PortError, LostAs
  <2>4. CASE End
    BY <2>4 DEF End
  <2>5. CASE Escape
    BY <2>5 DEF Escape
  <2> QED
    BY <1>4, <2>1, <2>2, <2>3, <2>4, <2>5 DEF Finish
<1>5. CASE Meanwhile
  BY <1>5 DEF Meanwhile, CtrlC, Unplug, Replug, DeploymentEnds, LogSample
<1>6. CASE UNCHANGED vars
  BY <1>6 DEF vars
<1> QED
  BY <1>1, <1>2, <1>3, <1>4, <1>5, <1>6 DEF Next

\* ... the place in it, ...
LEMMA PlaceStaysTyped ==
    PlaceTyped /\ [Next]_vars => PlaceTyped'
<1> SUFFICES ASSUME PlaceTyped, [Next]_vars
             PROVE  PlaceTyped'
  OBVIOUS
<1> USE ConfigureAssumption, FollowingPlace DEF PlaceTyped, Unlocking, Sent, Places,
     Talking, InSession, Writes, Queries, logger, run, talk, outcome, Skip, Lose,
     Raises, Unwinds, Handler, Proceeds
<1>1. CASE Begin
  BY <1>1 DEF Begin
<1>2. CASE Decide
  BY <1>2 DEF Decide, PortInUse, OffloadFails, Unsupported, AlreadyConfigured, SkipStopping,
     Consider, Decline, StartConfigure
<1>3. CASE Exchange
  BY <1>3 DEF Exchange, Unlock, UnlockLost, UnlockRefused, Relock, RelockRefused,
     RelockLost, QueryAnswered, QueryLost, Malformed, EnableNeedsErase, MemoryNotEmpty,
     CommandAnswered, MemclearIgnored, CommandLost, WriteRefused, VerifyAnswered,
     VerifyRefused, EnableAnswered, EnableRefused
<1>4. CASE Finish
  BY <1>4 DEF Finish, Report, ReportFailure, Escape, PortError, LostAs, End
<1>5. CASE Meanwhile
  BY <1>5 DEF Meanwhile, CtrlC, Unplug, Replug, DeploymentEnds, LogSample
<1>6. CASE UNCHANGED vars
  BY <1>6 DEF vars
<1> QED
  BY <1>1, <1>2, <1>3, <1>4, <1>5, <1>6 DEF Next

\* ... the report, ...
LEMMA StepsStayTyped ==
    StepsTyped /\ [Next]_vars => StepsTyped'
<1> SUFFICES ASSUME StepsTyped, [Next]_vars
             PROVE  StepsTyped'
  OBVIOUS
<1> USE ConfigureAssumption, AnnouncedSteps DEF StepsTyped, Steps, Changes, logger, run,
     talk, outcome, Skip, Lose, Raises, Unwinds, Handler, Proceeds
<1>1. CASE Begin
  BY <1>1 DEF Begin
<1>2. CASE Decide
  BY <1>2 DEF Decide, PortInUse, OffloadFails, Unsupported, AlreadyConfigured, SkipStopping,
     Consider, Decline, StartConfigure
<1>3. CASE Exchange
  BY <1>3 DEF Exchange, Unlock, UnlockLost, UnlockRefused, Relock, RelockRefused,
     RelockLost, QueryAnswered, QueryLost, Malformed, EnableNeedsErase, MemoryNotEmpty,
     CommandAnswered, MemclearIgnored, CommandLost, WriteRefused, VerifyAnswered,
     VerifyRefused, EnableAnswered, EnableRefused
<1>4. CASE Finish
  BY <1>4 DEF Finish, Report, ReportFailure, Escape, PortError, LostAs, End
<1>5. CASE Meanwhile
  BY <1>5 DEF Meanwhile, CtrlC, Unplug, Replug, DeploymentEnds, LogSample
<1>6. CASE UNCHANGED vars
  BY <1>6 DEF vars
<1> QED
  BY <1>1, <1>2, <1>3, <1>4, <1>5, <1>6 DEF Next

\* ... and the outcome.
LEMMA OutcomeStaysTyped ==
    OutcomeTyped /\ [Next]_vars => OutcomeTyped'
<1> SUFFICES ASSUME OutcomeTyped, [Next]_vars
             PROVE  OutcomeTyped'
  OBVIOUS
<1> USE ConfigureAssumption DEF OutcomeTyped, Reasons, Endings, logger, run, talk,
     outcome, Skip, Lose, Raises, Unwinds, Handler, Proceeds
<1>1. CASE Begin
  BY <1>1 DEF Begin
<1>2. CASE Decide
  BY <1>2 DEF Decide, PortInUse, OffloadFails, Unsupported, AlreadyConfigured, SkipStopping,
     Consider, Decline, StartConfigure
<1>3. CASE Exchange
  BY <1>3 DEF Exchange, Unlock, UnlockLost, UnlockRefused, Relock, RelockRefused,
     RelockLost, QueryAnswered, QueryLost, Malformed, EnableNeedsErase, MemoryNotEmpty,
     CommandAnswered, MemclearIgnored, CommandLost, WriteRefused, VerifyAnswered,
     VerifyRefused, EnableAnswered, EnableRefused
<1>4. CASE Finish
  BY <1>4 DEF Finish, Report, ReportFailure, Escape, PortError, LostAs, End
<1>5. CASE Meanwhile
  BY <1>5 DEF Meanwhile, CtrlC, Unplug, Replug, DeploymentEnds, LogSample
<1>6. CASE UNCHANGED vars
  BY <1>6 DEF vars
<1> QED
  BY <1>1, <1>2, <1>3, <1>4, <1>5, <1>6 DEF Next

\* `lock on` is sent at most twice.
LEMMA TriesStayCounted ==
    TalkTyped /\ TriesCounted /\ [Next]_vars => TriesCounted'
<1> SUFFICES ASSUME TalkTyped /\ TriesCounted, [Next]_vars
             PROVE  TriesCounted'
  OBVIOUS
<1> USE ConfigureAssumption DEF TalkTyped, TriesCounted, Unlocking, Sent, Following,
     Settings, Talking, InSession, Writes, Queries, logger, run, talk, outcome, Skip,
     Lose, Raises, Unwinds, Handler, Proceeds
<1>1. CASE Begin
  BY <1>1 DEF Begin
<1>2. CASE Decide
  BY <1>2 DEF Decide, PortInUse, OffloadFails, Unsupported, AlreadyConfigured, SkipStopping,
     Consider, Decline, StartConfigure
<1>3. CASE Exchange
  <2>1. CASE Unlock
    BY <2>1 DEF Unlock
  <2>2. CASE UnlockLost
    BY <2>2 DEF UnlockLost
  <2>3. CASE UnlockRefused
    BY <2>3 DEF UnlockRefused
  <2>4. CASE Relock
    BY <2>4 DEF Relock
  <2>5. CASE RelockRefused
    BY <2>5 DEF RelockRefused
  <2>6. CASE RelockLost
    BY <2>6 DEF RelockLost
  <2>7. CASE QueryAnswered
    BY <2>7 DEF QueryAnswered
  <2>8. CASE QueryLost
    BY <2>8 DEF QueryLost
  <2>9. CASE EnableNeedsErase
    BY <2>9 DEF EnableNeedsErase
  <2>10. CASE MemoryNotEmpty
    BY <2>10 DEF MemoryNotEmpty
  <2>11. CASE CommandAnswered
    BY <2>11 DEF CommandAnswered
  <2>12. CASE MemclearIgnored
    BY <2>12 DEF MemclearIgnored
  <2>13. CASE CommandLost
    BY <2>13 DEF CommandLost
  <2>14. CASE WriteRefused
    BY <2>14 DEF WriteRefused
  <2>15. CASE VerifyAnswered
    BY <2>15 DEF VerifyAnswered
  <2>16. CASE VerifyRefused
    BY <2>16 DEF VerifyRefused
  <2>17. CASE EnableAnswered
    BY <2>17 DEF EnableAnswered
  <2>18. CASE EnableRefused
    BY <2>18 DEF EnableRefused
  <2>19. CASE Malformed
    BY <2>19 DEF Malformed
  <2> QED
    BY <1>3, <2>1, <2>2, <2>3, <2>4, <2>5, <2>6, <2>7, <2>8, <2>9, <2>10, <2>11, <2>12,
       <2>13, <2>14, <2>15, <2>16, <2>17, <2>18, <2>19 DEF Exchange
<1>4. CASE Finish
  BY <1>4 DEF Finish, Report, ReportFailure, Escape, PortError, LostAs, End
<1>5. CASE Meanwhile
  BY <1>5 DEF Meanwhile, CtrlC, Unplug, Replug, DeploymentEnds, LogSample
<1>6. CASE UNCHANGED vars
  BY <1>6 DEF vars
<1> QED
  BY <1>1, <1>2, <1>3, <1>4, <1>5, <1>6 DEF Next

-----------------------------------------------------------------------------
(* The parts of the invariant, one by one.                                 *)

\* A command that changes the logger is recorded before it is sent.
LEMMA StaysAnnounced ==
    LoggerTyped /\ Announced /\ ReportHidesNothing /\ [Next]_vars => Announced'
<1> SUFFICES ASSUME LoggerTyped /\ Announced /\ ReportHidesNothing, [Next]_vars
             PROVE  Announced'
  OBVIOUS
<1> USE ConfigureAssumption DEF Announced, Following, Settings, SentBefore, SentStep,
     Obeys, Unlocking, Sent, Talking, InSession, Writes, Queries, logger, run, talk,
     outcome, Skip, Lose, Raises, Unwinds, Handler, Proceeds
<1>1. CASE Begin
  BY <1>1 DEF Begin
<1>2. CASE Decide
  BY <1>2 DEF Decide, PortInUse, OffloadFails, Unsupported, AlreadyConfigured, SkipStopping,
     Consider, Decline, StartConfigure
<1>3. CASE Exchange
  <2>1. CASE Unlock
    BY <2>1 DEF Unlock
  <2>2. CASE UnlockLost
    BY <2>2 DEF UnlockLost
  <2>3. CASE UnlockRefused
    BY <2>3 DEF UnlockRefused
  <2>4. CASE Relock
    BY <2>4 DEF Relock
  <2>5. CASE RelockRefused
    BY <2>5 DEF RelockRefused
  <2>6. CASE RelockLost
    BY <2>6 DEF RelockLost
  <2>7. CASE QueryAnswered
    BY <2>7 DEF QueryAnswered
  <2>8. CASE QueryLost
    BY <2>8 DEF QueryLost
  <2>9. CASE EnableNeedsErase
    BY <2>9 DEF EnableNeedsErase
  <2>10. CASE MemoryNotEmpty
    BY <2>10 DEF MemoryNotEmpty
  <2>11. CASE CommandAnswered
    BY <2>11 DEF CommandAnswered
  <2>12. CASE MemclearIgnored
    BY <2>12 DEF MemclearIgnored
  <2>13. CASE CommandLost
    BY <2>13 DEF CommandLost
  <2>14. CASE WriteRefused
    BY <2>14 DEF WriteRefused
  <2>15. CASE VerifyAnswered
    BY <2>15 DEF VerifyAnswered
  <2>16. CASE VerifyRefused
    BY <2>16 DEF VerifyRefused
  <2>17. CASE EnableAnswered
    BY <2>17 DEF EnableAnswered
  <2>18. CASE EnableRefused
    BY <2>18 DEF EnableRefused
  <2>19. CASE Malformed
    BY <2>19 DEF Malformed
  <2> QED
    BY <1>3, <2>1, <2>2, <2>3, <2>4, <2>5, <2>6, <2>7, <2>8, <2>9, <2>10, <2>11, <2>12,
       <2>13, <2>14, <2>15, <2>16, <2>17, <2>18, <2>19 DEF Exchange
<1>4. CASE Finish
  BY <1>4 DEF Finish, Report, ReportFailure, Escape, PortError, LostAs, End
<1>5. CASE Meanwhile
  BY <1>5 DEF Meanwhile, CtrlC, Unplug, Replug, DeploymentEnds, LogSample
<1>6. CASE UNCHANGED vars
  BY <1>6 DEF vars
<1> QED
  BY <1>1, <1>2, <1>3, <1>4, <1>5, <1>6 DEF Next

\* So nothing that happens to the logger is missing from the report.
LEMMA NothingBecomesHidden ==
    LoggerTyped /\ Announced /\ ReportHidesNothing /\ [Next]_vars => ReportHidesNothing'
<1> SUFFICES ASSUME LoggerTyped /\ Announced /\ ReportHidesNothing, [Next]_vars
             PROVE  ReportHidesNothing'
  OBVIOUS
<1> USE ConfigureAssumption DEF LoggerTyped, Changes, Announced, ReportHidesNothing,
     Following, Settings, SentBefore, SentStep, Obeys, Unlocking, Sent, Talking,
     InSession, Writes, Queries, logger, run, talk, outcome, Skip, Lose, Raises,
     Unwinds, Handler, Proceeds
<1>1. CASE Begin
  BY <1>1 DEF Begin
<1>2. CASE Decide
  BY <1>2 DEF Decide, PortInUse, OffloadFails, Unsupported, AlreadyConfigured, SkipStopping,
     Consider, Decline, StartConfigure
<1>3. CASE Exchange
  <2>1. CASE Unlock
    BY <2>1 DEF Unlock
  <2>2. CASE UnlockLost
    BY <2>2 DEF UnlockLost
  <2>3. CASE UnlockRefused
    BY <2>3 DEF UnlockRefused
  <2>4. CASE Relock
    BY <2>4 DEF Relock
  <2>5. CASE RelockRefused
    BY <2>5 DEF RelockRefused
  <2>6. CASE RelockLost
    BY <2>6 DEF RelockLost
  <2>7. CASE QueryAnswered
    BY <2>7 DEF QueryAnswered
  <2>8. CASE QueryLost
    BY <2>8 DEF QueryLost
  <2>9. CASE EnableNeedsErase
    BY <2>9 DEF EnableNeedsErase
  <2>10. CASE MemoryNotEmpty
    BY <2>10 DEF MemoryNotEmpty
  <2>11. CASE CommandAnswered
    <3>1. CASE pc = "stop"
      BY <2>11, <3>1 DEF CommandAnswered
    <3>2. CASE pc = "memclear"
      BY <2>11, <3>2 DEF CommandAnswered
    <3>3. CASE pc \notin {"stop", "memclear"}
      BY <2>11, <3>3 DEF CommandAnswered
    <3> QED
      BY <2>11, <3>1, <3>2, <3>3 DEF CommandAnswered
  <2>12. CASE MemclearIgnored
    BY <2>12 DEF MemclearIgnored
  <2>13. CASE CommandLost
    BY <2>13 DEF CommandLost
  <2>14. CASE WriteRefused
    BY <2>14 DEF WriteRefused
  <2>15. CASE VerifyAnswered
    BY <2>15 DEF VerifyAnswered
  <2>16. CASE VerifyRefused
    BY <2>16 DEF VerifyRefused
  <2>17. CASE EnableAnswered
    BY <2>17 DEF EnableAnswered
  <2>18. CASE EnableRefused
    BY <2>18 DEF EnableRefused
  <2>19. CASE Malformed
    BY <2>19 DEF Malformed
  <2> QED
    BY <1>3, <2>1, <2>2, <2>3, <2>4, <2>5, <2>6, <2>7, <2>8, <2>9, <2>10, <2>11, <2>12,
       <2>13, <2>14, <2>15, <2>16, <2>17, <2>18, <2>19 DEF Exchange
<1>4. CASE Finish
  BY <1>4 DEF Finish, Report, ReportFailure, Escape, PortError, LostAs, End
<1>5. CASE Meanwhile
  BY <1>5 DEF Meanwhile, CtrlC, Unplug, Replug, DeploymentEnds, LogSample
<1>6. CASE UNCHANGED vars
  BY <1>6 DEF vars
<1> QED
  BY <1>1, <1>2, <1>3, <1>4, <1>5, <1>6 DEF Next

\* After a session without a port error the logger is locked, unless `lock on` failed.
LEMMA StaysInSession ==
    Known /\ [Next]_vars => SessionKept'
<1> SUFFICES ASSUME PlaceTyped, LoggerTyped, TalkTyped, TriesCounted, LeftAlone,
                    SessionKept, [Next]_vars
             PROVE  SessionKept'
  BY DEF Known
<1> USE ConfigureAssumption DEF PlaceTyped, Places, LoggerTyped, TalkTyped,
     TriesCounted, LeftAlone, SessionKept, Following, Settings, SentBefore, SentStep,
     Obeys, Unlocking, Sent, Talking, InSession, Writes, Queries, logger, run, talk,
     outcome, Skip, Lose, Raises, Unwinds, Handler, Proceeds
<1>1. CASE Begin
  BY <1>1 DEF Begin
<1>2. CASE Decide
  <2>1. CASE OffloadFails
    BY <2>1 DEF OffloadFails
  <2>2. CASE Unsupported
    BY <2>2 DEF Unsupported
  <2>3. CASE AlreadyConfigured
    BY <2>3 DEF AlreadyConfigured
  <2>4. CASE SkipStopping
    BY <2>4 DEF SkipStopping
  <2>5. CASE Consider
    BY <2>5 DEF Consider
  <2>6. CASE Decline
    BY <2>6 DEF Decline
  <2>7. CASE StartConfigure
    BY <2>7 DEF StartConfigure
  <2>8. CASE PortInUse
    BY <2>8 DEF PortInUse
  <2> QED
    BY <1>2, <2>1, <2>2, <2>3, <2>4, <2>5, <2>6, <2>7, <2>8 DEF Decide
<1>3. CASE Exchange
  <2>1. CASE Unlock
    BY <2>1 DEF Unlock
  <2>2. CASE UnlockLost
    BY <2>2 DEF UnlockLost
  <2>3. CASE UnlockRefused
    BY <2>3 DEF UnlockRefused
  <2>4. CASE Relock
    BY <2>4 DEF Relock
  <2>5. CASE RelockRefused
    BY <2>5 DEF RelockRefused
  <2>6. CASE RelockLost
    BY <2>6 DEF RelockLost
  <2>7. CASE QueryAnswered
    BY <2>7 DEF QueryAnswered
  <2>8. CASE QueryLost
    BY <2>8 DEF QueryLost
  <2>9. CASE EnableNeedsErase
    BY <2>9 DEF EnableNeedsErase
  <2>10. CASE MemoryNotEmpty
    BY <2>10 DEF MemoryNotEmpty
  <2>11. CASE CommandAnswered
    BY <2>11 DEF CommandAnswered
  <2>12. CASE MemclearIgnored
    BY <2>12 DEF MemclearIgnored
  <2>13. CASE CommandLost
    BY <2>13 DEF CommandLost
  <2>14. CASE WriteRefused
    BY <2>14 DEF WriteRefused
  <2>15. CASE VerifyAnswered
    BY <2>15 DEF VerifyAnswered
  <2>16. CASE VerifyRefused
    BY <2>16 DEF VerifyRefused
  <2>17. CASE EnableAnswered
    BY <2>17 DEF EnableAnswered
  <2>18. CASE EnableRefused
    BY <2>18 DEF EnableRefused
  <2>19. CASE Malformed
    BY <2>19 DEF Malformed
  <2> QED
    BY <1>3, <2>1, <2>2, <2>3, <2>4, <2>5, <2>6, <2>7, <2>8, <2>9, <2>10, <2>11, <2>12,
       <2>13, <2>14, <2>15, <2>16, <2>17, <2>18, <2>19 DEF Exchange
<1>4. CASE Finish
  <2>1. CASE Report
    BY <2>1 DEF Report
  <2>2. CASE ReportFailure
    BY <2>2 DEF ReportFailure
  <2>3. CASE PortError
    BY <2>3 DEF PortError, LostAs
  <2>4. CASE End
    BY <2>4 DEF End
  <2>5. CASE Escape
    BY <2>5 DEF Escape
  <2> QED
    BY <1>4, <2>1, <2>2, <2>3, <2>4, <2>5 DEF Finish
<1>5. CASE Meanwhile
  BY <1>5 DEF Meanwhile, CtrlC, Unplug, Replug, DeploymentEnds, LogSample
<1>6. CASE UNCHANGED vars
  BY <1>6 DEF vars
<1> QED
  BY <1>1, <1>2, <1>3, <1>4, <1>5, <1>6 DEF Next

\* No command is sent to a logger configured before.
LEMMA StaysLeftAlone ==
    Known /\ [Next]_vars => LeftAlone'
<1> SUFFICES ASSUME PlaceTyped, LoggerTyped, TalkTyped, TriesCounted, LeftAlone,
                    SessionKept, [Next]_vars
             PROVE  LeftAlone'
  BY DEF Known
<1> USE ConfigureAssumption DEF PlaceTyped, Places, LoggerTyped, TalkTyped,
     TriesCounted, LeftAlone, SessionKept, Following, Settings, SentBefore, SentStep,
     Obeys, Unlocking, Sent, Talking, InSession, Writes, Queries, logger, run, talk,
     outcome, Skip, Lose, Raises, Unwinds, Handler, Proceeds
<1>1. CASE Begin
  BY <1>1 DEF Begin
<1>2. CASE Decide
  <2>1. CASE OffloadFails
    BY <2>1 DEF OffloadFails
  <2>2. CASE Unsupported
    BY <2>2 DEF Unsupported
  <2>3. CASE AlreadyConfigured
    BY <2>3 DEF AlreadyConfigured
  <2>4. CASE SkipStopping
    BY <2>4 DEF SkipStopping
  <2>5. CASE Consider
    BY <2>5 DEF Consider
  <2>6. CASE Decline
    BY <2>6 DEF Decline
  <2>7. CASE StartConfigure
    BY <2>7 DEF StartConfigure
  <2>8. CASE PortInUse
    BY <2>8 DEF PortInUse
  <2> QED
    BY <1>2, <2>1, <2>2, <2>3, <2>4, <2>5, <2>6, <2>7, <2>8 DEF Decide
<1>3. CASE Exchange
  <2>1. CASE Unlock
    BY <2>1 DEF Unlock
  <2>2. CASE UnlockLost
    BY <2>2 DEF UnlockLost
  <2>3. CASE UnlockRefused
    BY <2>3 DEF UnlockRefused
  <2>4. CASE Relock
    BY <2>4 DEF Relock
  <2>5. CASE RelockRefused
    BY <2>5 DEF RelockRefused
  <2>6. CASE RelockLost
    BY <2>6 DEF RelockLost
  <2>7. CASE QueryAnswered
    BY <2>7 DEF QueryAnswered
  <2>8. CASE QueryLost
    BY <2>8 DEF QueryLost
  <2>9. CASE EnableNeedsErase
    BY <2>9 DEF EnableNeedsErase
  <2>10. CASE MemoryNotEmpty
    BY <2>10 DEF MemoryNotEmpty
  <2>11. CASE CommandAnswered
    BY <2>11 DEF CommandAnswered
  <2>12. CASE MemclearIgnored
    BY <2>12 DEF MemclearIgnored
  <2>13. CASE CommandLost
    BY <2>13 DEF CommandLost
  <2>14. CASE WriteRefused
    BY <2>14 DEF WriteRefused
  <2>15. CASE VerifyAnswered
    BY <2>15 DEF VerifyAnswered
  <2>16. CASE VerifyRefused
    BY <2>16 DEF VerifyRefused
  <2>17. CASE EnableAnswered
    BY <2>17 DEF EnableAnswered
  <2>18. CASE EnableRefused
    BY <2>18 DEF EnableRefused
  <2>19. CASE Malformed
    BY <2>19 DEF Malformed
  <2> QED
    BY <1>3, <2>1, <2>2, <2>3, <2>4, <2>5, <2>6, <2>7, <2>8, <2>9, <2>10, <2>11, <2>12,
       <2>13, <2>14, <2>15, <2>16, <2>17, <2>18, <2>19 DEF Exchange
<1>4. CASE Finish
  <2>1. CASE Report
    BY <2>1 DEF Report
  <2>2. CASE ReportFailure
    BY <2>2 DEF ReportFailure
  <2>3. CASE PortError
    BY <2>3 DEF PortError, LostAs
  <2>4. CASE End
    BY <2>4 DEF End
  <2>5. CASE Escape
    BY <2>5 DEF Escape
  <2> QED
    BY <1>4, <2>1, <2>2, <2>3, <2>4, <2>5 DEF Finish
<1>5. CASE Meanwhile
  BY <1>5 DEF Meanwhile, CtrlC, Unplug, Replug, DeploymentEnds, LogSample
<1>6. CASE UNCHANGED vars
  BY <1>6 DEF vars
<1> QED
  BY <1>1, <1>2, <1>3, <1>4, <1>5, <1>6 DEF Next

\* The worker ends with the logger as the session left it.
LEMMA StaysRelocked ==
    Known /\ RelockedAfterSession /\ [Next]_vars => RelockedAfterSession'
<1> SUFFICES ASSUME PlaceTyped, LoggerTyped, TalkTyped, TriesCounted, LeftAlone,
                    SessionKept, RelockedAfterSession, [Next]_vars
             PROVE  RelockedAfterSession'
  BY DEF Known
<1> USE ConfigureAssumption DEF PlaceTyped, Places, LoggerTyped, TalkTyped,
     TriesCounted, LeftAlone, SessionKept, RelockedAfterSession, Following, Settings,
     SentBefore, SentStep, Obeys, Unlocking, Sent, Talking, InSession, Writes, Queries,
     logger, run, talk, outcome, Skip, Lose, Raises, Unwinds, Handler, Proceeds
<1>1. CASE Begin
  BY <1>1 DEF Begin
<1>2. CASE Decide
  BY <1>2 DEF Decide, PortInUse, OffloadFails, Unsupported, AlreadyConfigured, SkipStopping,
     Consider, Decline, StartConfigure
<1>3. CASE Exchange
  <2>1. CASE Unlock
    BY <2>1 DEF Unlock
  <2>2. CASE UnlockLost
    BY <2>2 DEF UnlockLost
  <2>3. CASE UnlockRefused
    BY <2>3 DEF UnlockRefused
  <2>4. CASE Relock
    BY <2>4 DEF Relock
  <2>5. CASE RelockRefused
    BY <2>5 DEF RelockRefused
  <2>6. CASE RelockLost
    BY <2>6 DEF RelockLost
  <2>7. CASE QueryAnswered
    BY <2>7 DEF QueryAnswered
  <2>8. CASE QueryLost
    BY <2>8 DEF QueryLost
  <2>9. CASE EnableNeedsErase
    BY <2>9 DEF EnableNeedsErase
  <2>10. CASE MemoryNotEmpty
    BY <2>10 DEF MemoryNotEmpty
  <2>11. CASE CommandAnswered
    BY <2>11 DEF CommandAnswered
  <2>12. CASE MemclearIgnored
    BY <2>12 DEF MemclearIgnored
  <2>13. CASE CommandLost
    BY <2>13 DEF CommandLost
  <2>14. CASE WriteRefused
    BY <2>14 DEF WriteRefused
  <2>15. CASE VerifyAnswered
    BY <2>15 DEF VerifyAnswered
  <2>16. CASE VerifyRefused
    BY <2>16 DEF VerifyRefused
  <2>17. CASE EnableAnswered
    BY <2>17 DEF EnableAnswered
  <2>18. CASE EnableRefused
    BY <2>18 DEF EnableRefused
  <2>19. CASE Malformed
    BY <2>19 DEF Malformed
  <2> QED
    BY <1>3, <2>1, <2>2, <2>3, <2>4, <2>5, <2>6, <2>7, <2>8, <2>9, <2>10, <2>11, <2>12,
       <2>13, <2>14, <2>15, <2>16, <2>17, <2>18, <2>19 DEF Exchange
<1>4. CASE Finish
  BY <1>4 DEF Finish, Report, ReportFailure, Escape, PortError, LostAs, End
<1>5. CASE Meanwhile
  BY <1>5 DEF Meanwhile, CtrlC, Unplug, Replug, DeploymentEnds, LogSample
<1>6. CASE UNCHANGED vars
  BY <1>6 DEF vars
<1> QED
  BY <1>1, <1>2, <1>3, <1>4, <1>5, <1>6 DEF Next

\* Once stopped, the logger runs only if it is enabled, and then goes on running.
LEMMA KeepsRunningAsEnabled ==
    Known /\ RunsAsEnabled /\ [Next]_vars => RunsAsEnabled'
<1> SUFFICES ASSUME PlaceTyped, LoggerTyped, TalkTyped, TriesCounted, LeftAlone,
                    SessionKept, RunsAsEnabled, [Next]_vars
             PROVE  RunsAsEnabled'
  BY DEF Known
<1> USE ConfigureAssumption DEF PlaceTyped, Places, LoggerTyped, TalkTyped,
     TriesCounted, LeftAlone, SessionKept, LostAs, RunsAsEnabled,
     AfterStop, Statuses, Following, Settings, SentBefore, SentStep, Obeys, Unlocking,
     Sent, Talking, InSession, Writes, Queries, logger, run, talk, outcome, Skip, Lose,
     Raises, Unwinds, Handler, Proceeds
<1>1. CASE Begin
  BY <1>1 DEF Begin
<1>2. CASE Decide
  <2>1. CASE OffloadFails
    BY <2>1 DEF OffloadFails
  <2>2. CASE Unsupported
    BY <2>2 DEF Unsupported
  <2>3. CASE AlreadyConfigured
    BY <2>3 DEF AlreadyConfigured
  <2>4. CASE SkipStopping
    BY <2>4 DEF SkipStopping
  <2>5. CASE Consider
    BY <2>5 DEF Consider
  <2>6. CASE Decline
    BY <2>6 DEF Decline
  <2>7. CASE StartConfigure
    BY <2>7 DEF StartConfigure
  <2>8. CASE PortInUse
    BY <2>8 DEF PortInUse
  <2> QED
    BY <1>2, <2>1, <2>2, <2>3, <2>4, <2>5, <2>6, <2>7, <2>8 DEF Decide
<1>3. CASE Exchange
  <2>1. CASE Unlock
    BY <2>1 DEF Unlock
  <2>2. CASE UnlockLost
    BY <2>2 DEF UnlockLost
  <2>3. CASE UnlockRefused
    BY <2>3 DEF UnlockRefused
  <2>4. CASE Relock
    BY <2>4 DEF Relock
  <2>5. CASE RelockRefused
    BY <2>5 DEF RelockRefused
  <2>6. CASE RelockLost
    BY <2>6 DEF RelockLost
  <2>7. CASE QueryAnswered
    BY <2>7 DEF QueryAnswered
  <2>8. CASE QueryLost
    BY <2>8 DEF QueryLost
  <2>9. CASE EnableNeedsErase
    BY <2>9 DEF EnableNeedsErase
  <2>10. CASE MemoryNotEmpty
    BY <2>10 DEF MemoryNotEmpty
  <2>11. CASE CommandAnswered
    <3>1. CASE pc = "stop"
      BY <2>11, <3>1 DEF CommandAnswered
    <3>2. CASE pc = "memclear"
      BY <2>11, <3>2 DEF CommandAnswered
    <3>3. CASE pc = "clock"
      BY <2>11, <3>3 DEF CommandAnswered
    <3>4. CASE pc = "settings"
      BY <2>11, <3>4 DEF CommandAnswered
    <3>5. CASE pc = "permit"
      BY <2>11, <3>5 DEF CommandAnswered
    <3> QED
      BY <2>11, <3>1, <3>2, <3>3, <3>4, <3>5 DEF CommandAnswered
  <2>12. CASE MemclearIgnored
    BY <2>12 DEF MemclearIgnored
  <2>13. CASE CommandLost
    BY <2>13 DEF CommandLost
  <2>14. CASE WriteRefused
    BY <2>14 DEF WriteRefused
  <2>15. CASE VerifyAnswered
    BY <2>15 DEF VerifyAnswered
  <2>16. CASE VerifyRefused
    BY <2>16 DEF VerifyRefused
  <2>17. CASE EnableAnswered
    BY <2>17 DEF EnableAnswered
  <2>18. CASE EnableRefused
    BY <2>18 DEF EnableRefused
  <2>19. CASE Malformed
    BY <2>19 DEF Malformed
  <2> QED
    BY <1>3, <2>1, <2>2, <2>3, <2>4, <2>5, <2>6, <2>7, <2>8, <2>9, <2>10, <2>11, <2>12,
       <2>13, <2>14, <2>15, <2>16, <2>17, <2>18, <2>19 DEF Exchange
<1>4. CASE Finish
  BY <1>4 DEF Finish, Report, ReportFailure, Escape, PortError, LostAs, End
<1>5. CASE Meanwhile
  BY <1>5 DEF Meanwhile, CtrlC, Unplug, Replug, DeploymentEnds, LogSample
<1>6. CASE UNCHANGED vars
  BY <1>6 DEF vars
<1> QED
  BY <1>1, <1>2, <1>3, <1>4, <1>5, <1>6 DEF Next

\* So a configured logger that is read back as running still is when the worker ends.
LEMMA StaysReady ==
    Known /\ RunsAsEnabled /\ ReadyMeansLogging /\ [Next]_vars => ReadyMeansLogging'
<1> SUFFICES ASSUME PlaceTyped, LoggerTyped, TalkTyped, TriesCounted, LeftAlone,
                    SessionKept, RunsAsEnabled, ReadyMeansLogging, [Next]_vars
             PROVE  ReadyMeansLogging'
  BY DEF Known
<1> USE ConfigureAssumption DEF PlaceTyped, Places, LoggerTyped, TalkTyped,
     TriesCounted, LeftAlone, SessionKept, RunsAsEnabled, LostAs,
     ReadyMeansLogging, AfterStop, Statuses, Following, Settings, SentBefore, SentStep,
     Obeys, Unlocking, Sent, Talking, InSession, Writes, Queries, logger, run, talk,
     outcome, Skip, Lose, Raises, Unwinds, Handler, Proceeds
<1>1. CASE Begin
  BY <1>1 DEF Begin
<1>2. CASE Decide
  BY <1>2 DEF Decide, PortInUse, OffloadFails, Unsupported, AlreadyConfigured, SkipStopping,
     Consider, Decline, StartConfigure
<1>3. CASE Exchange
  <2>1. CASE Unlock
    BY <2>1 DEF Unlock
  <2>2. CASE UnlockLost
    BY <2>2 DEF UnlockLost
  <2>3. CASE UnlockRefused
    BY <2>3 DEF UnlockRefused
  <2>4. CASE Relock
    BY <2>4 DEF Relock
  <2>5. CASE RelockRefused
    BY <2>5 DEF RelockRefused
  <2>6. CASE RelockLost
    BY <2>6 DEF RelockLost
  <2>7. CASE QueryAnswered
    BY <2>7 DEF QueryAnswered
  <2>8. CASE QueryLost
    BY <2>8 DEF QueryLost
  <2>9. CASE EnableNeedsErase
    BY <2>9 DEF EnableNeedsErase
  <2>10. CASE MemoryNotEmpty
    BY <2>10 DEF MemoryNotEmpty
  <2>11. CASE CommandAnswered
    BY <2>11 DEF CommandAnswered
  <2>12. CASE MemclearIgnored
    BY <2>12 DEF MemclearIgnored
  <2>13. CASE CommandLost
    BY <2>13 DEF CommandLost
  <2>14. CASE WriteRefused
    BY <2>14 DEF WriteRefused
  <2>15. CASE VerifyAnswered
    BY <2>15 DEF VerifyAnswered
  <2>16. CASE VerifyRefused
    BY <2>16 DEF VerifyRefused
  <2>17. CASE EnableAnswered
    BY <2>17 DEF EnableAnswered
  <2>18. CASE EnableRefused
    BY <2>18 DEF EnableRefused
  <2>19. CASE Malformed
    BY <2>19 DEF Malformed
  <2> QED
    BY <1>3, <2>1, <2>2, <2>3, <2>4, <2>5, <2>6, <2>7, <2>8, <2>9, <2>10, <2>11, <2>12,
       <2>13, <2>14, <2>15, <2>16, <2>17, <2>18, <2>19 DEF Exchange
<1>4. CASE Finish
  BY <1>4 DEF Finish, Report, ReportFailure, Escape, PortError, LostAs, End
<1>5. CASE Meanwhile
  BY <1>5 DEF Meanwhile, CtrlC, Unplug, Replug, DeploymentEnds, LogSample
<1>6. CASE UNCHANGED vars
  BY <1>6 DEF vars
<1> QED
  BY <1>1, <1>2, <1>3, <1>4, <1>5, <1>6 DEF Next

\* Whatever ends a configuration that was begun, it is told of.
LEMMA KeepsNoting ==
    Known /\ UnfinishedIsNoted /\ [Next]_vars => UnfinishedIsNoted'
<1> SUFFICES ASSUME PlaceTyped, LoggerTyped, TalkTyped, TriesCounted, LeftAlone,
                    SessionKept, UnfinishedIsNoted, [Next]_vars
             PROVE  UnfinishedIsNoted'
  BY DEF Known
<1> USE ConfigureAssumption DEF PlaceTyped, Places, LoggerTyped, TalkTyped,
     TriesCounted, LeftAlone, SessionKept, LostAs, UnfinishedIsNoted, Noted,
     Following, Settings, SentBefore, SentStep, Obeys, Unlocking, Sent, Talking,
     InSession, Writes, Queries, logger, run, talk, outcome, Skip, Lose, Raises,
     Unwinds, Handler, Proceeds
<1>1. CASE Begin
  BY <1>1 DEF Begin
<1>2. CASE Decide
  BY <1>2 DEF Decide, PortInUse, OffloadFails, Unsupported, AlreadyConfigured, SkipStopping,
     Consider, Decline, StartConfigure
<1>3. CASE Exchange
  <2>1. CASE Unlock
    BY <2>1 DEF Unlock
  <2>2. CASE UnlockLost
    BY <2>2 DEF UnlockLost
  <2>3. CASE UnlockRefused
    BY <2>3 DEF UnlockRefused
  <2>4. CASE Relock
    BY <2>4 DEF Relock
  <2>5. CASE RelockRefused
    BY <2>5 DEF RelockRefused
  <2>6. CASE RelockLost
    BY <2>6 DEF RelockLost
  <2>7. CASE QueryAnswered
    BY <2>7 DEF QueryAnswered
  <2>8. CASE QueryLost
    BY <2>8 DEF QueryLost
  <2>9. CASE EnableNeedsErase
    BY <2>9 DEF EnableNeedsErase
  <2>10. CASE MemoryNotEmpty
    BY <2>10 DEF MemoryNotEmpty
  <2>11. CASE CommandAnswered
    BY <2>11 DEF CommandAnswered
  <2>12. CASE MemclearIgnored
    BY <2>12 DEF MemclearIgnored
  <2>13. CASE CommandLost
    BY <2>13 DEF CommandLost
  <2>14. CASE WriteRefused
    BY <2>14 DEF WriteRefused
  <2>15. CASE VerifyAnswered
    BY <2>15 DEF VerifyAnswered
  <2>16. CASE VerifyRefused
    BY <2>16 DEF VerifyRefused
  <2>17. CASE EnableAnswered
    BY <2>17 DEF EnableAnswered
  <2>18. CASE EnableRefused
    BY <2>18 DEF EnableRefused
  <2>19. CASE Malformed
    BY <2>19 DEF Malformed
  <2> QED
    BY <1>3, <2>1, <2>2, <2>3, <2>4, <2>5, <2>6, <2>7, <2>8, <2>9, <2>10, <2>11, <2>12,
       <2>13, <2>14, <2>15, <2>16, <2>17, <2>18, <2>19 DEF Exchange
<1>4. CASE Finish
  BY <1>4 DEF Finish, Report, ReportFailure, Escape, PortError, LostAs, End
<1>5. CASE Meanwhile
  BY <1>5 DEF Meanwhile, CtrlC, Unplug, Replug, DeploymentEnds, LogSample
<1>6. CASE UNCHANGED vars
  BY <1>6 DEF vars
<1> QED
  BY <1>1, <1>2, <1>3, <1>4, <1>5, <1>6 DEF Next

\* The logger is unlocked for what erases or enables it, and empty for the latter.
LEMMA StaysFitToEnable ==
    Known /\ RunsAsEnabled /\ FitToEnable /\ [Next]_vars => FitToEnable'
<1> SUFFICES ASSUME PlaceTyped, LoggerTyped, TalkTyped, TriesCounted, LeftAlone,
                    SessionKept, RunsAsEnabled, FitToEnable, [Next]_vars
             PROVE  FitToEnable'
  BY DEF Known
<1> USE ConfigureAssumption DEF PlaceTyped, Places, LoggerTyped, TalkTyped,
     TriesCounted, LeftAlone, SessionKept, RunsAsEnabled, FitToEnable, AfterStop,
     Statuses, Following, Settings, SentBefore, SentStep, Obeys, Unlocking, Sent,
     Talking, InSession, Writes, Queries, logger, run, talk, outcome, Skip, Lose,
     Raises, Unwinds, Handler, Proceeds
<1>1. CASE Begin
  BY <1>1 DEF Begin
<1>2. CASE Decide
  BY <1>2 DEF Decide, PortInUse, OffloadFails, Unsupported, AlreadyConfigured, SkipStopping,
     Consider, Decline, StartConfigure
<1>3. CASE Exchange
  <2>1. CASE Unlock
    BY <2>1 DEF Unlock
  <2>2. CASE UnlockLost
    BY <2>2 DEF UnlockLost
  <2>3. CASE UnlockRefused
    BY <2>3 DEF UnlockRefused
  <2>4. CASE Relock
    BY <2>4 DEF Relock
  <2>5. CASE RelockRefused
    BY <2>5 DEF RelockRefused
  <2>6. CASE RelockLost
    BY <2>6 DEF RelockLost
  <2>7. CASE QueryAnswered
    BY <2>7 DEF QueryAnswered
  <2>8. CASE QueryLost
    BY <2>8 DEF QueryLost
  <2>9. CASE EnableNeedsErase
    BY <2>9 DEF EnableNeedsErase
  <2>10. CASE MemoryNotEmpty
    BY <2>10 DEF MemoryNotEmpty
  <2>11. CASE CommandAnswered
    BY <2>11 DEF CommandAnswered
  <2>12. CASE MemclearIgnored
    BY <2>12 DEF MemclearIgnored
  <2>13. CASE CommandLost
    BY <2>13 DEF CommandLost
  <2>14. CASE WriteRefused
    BY <2>14 DEF WriteRefused
  <2>15. CASE VerifyAnswered
    BY <2>15 DEF VerifyAnswered
  <2>16. CASE VerifyRefused
    BY <2>16 DEF VerifyRefused
  <2>17. CASE EnableAnswered
    BY <2>17 DEF EnableAnswered
  <2>18. CASE EnableRefused
    BY <2>18 DEF EnableRefused
  <2>19. CASE Malformed
    BY <2>19 DEF Malformed
  <2> QED
    BY <1>3, <2>1, <2>2, <2>3, <2>4, <2>5, <2>6, <2>7, <2>8, <2>9, <2>10, <2>11, <2>12,
       <2>13, <2>14, <2>15, <2>16, <2>17, <2>18, <2>19 DEF Exchange
<1>4. CASE Finish
  BY <1>4 DEF Finish, Report, ReportFailure, Escape, PortError, LostAs, End
<1>5. CASE Meanwhile
  BY <1>5 DEF Meanwhile, CtrlC, Unplug, Replug, DeploymentEnds, LogSample
<1>6. CASE UNCHANGED vars
  BY <1>6 DEF vars
<1> QED
  BY <1>1, <1>2, <1>3, <1>4, <1>5, <1>6 DEF Next

\* What an honest logger confirms is so.
LEMMA KeepsConfirming ==
    Known /\ RunsAsEnabled /\ FitToEnable /\ Confirms /\ [Next]_vars => Confirms'
<1> SUFFICES ASSUME PlaceTyped, LoggerTyped, TalkTyped, TriesCounted, LeftAlone,
                    SessionKept, RunsAsEnabled, FitToEnable, Confirms, [Next]_vars
             PROVE  Confirms'
  BY DEF Known
<1> USE ConfigureAssumption DEF PlaceTyped, Places, LoggerTyped, TalkTyped,
     TriesCounted, LeftAlone, SessionKept, RunsAsEnabled, FitToEnable, Honest, Confirms,
     ConfirmedIsTrue, Changes, Following, Settings, SentBefore, SentStep, Obeys,
     Unlocking, Sent, Talking, InSession, Writes, Queries, logger, run, talk, outcome,
     Skip, Lose, Raises, Unwinds, Handler, Proceeds
<1>1. CASE Begin
  BY <1>1 DEF Begin
<1>2. CASE Decide
  BY <1>2 DEF Decide, PortInUse, OffloadFails, Unsupported, AlreadyConfigured, SkipStopping,
     Consider, Decline, StartConfigure
<1>3. CASE Exchange
  <2>1. CASE Unlock
    BY <2>1 DEF Unlock
  <2>2. CASE UnlockLost
    BY <2>2 DEF UnlockLost
  <2>3. CASE UnlockRefused
    BY <2>3 DEF UnlockRefused
  <2>4. CASE Relock
    BY <2>4 DEF Relock
  <2>5. CASE RelockRefused
    BY <2>5 DEF RelockRefused
  <2>6. CASE RelockLost
    BY <2>6 DEF RelockLost
  <2>7. CASE QueryAnswered
    BY <2>7 DEF QueryAnswered
  <2>8. CASE QueryLost
    BY <2>8 DEF QueryLost
  <2>9. CASE EnableNeedsErase
    BY <2>9 DEF EnableNeedsErase
  <2>10. CASE MemoryNotEmpty
    BY <2>10 DEF MemoryNotEmpty
  <2>11. CASE CommandAnswered
    <3>1. CASE pc = "stop"
      BY <2>11, <3>1 DEF CommandAnswered
    <3>2. CASE pc = "memclear"
      BY <2>11, <3>2 DEF CommandAnswered
    <3>3. CASE pc \notin {"stop", "memclear"}
      BY <2>11, <3>3 DEF CommandAnswered
    <3> QED
      BY <2>11, <3>1, <3>2, <3>3 DEF CommandAnswered
  <2>12. CASE MemclearIgnored
    BY <2>12 DEF MemclearIgnored
  <2>13. CASE CommandLost
    BY <2>13 DEF CommandLost
  <2>14. CASE WriteRefused
    BY <2>14 DEF WriteRefused
  <2>15. CASE VerifyAnswered
    BY <2>15 DEF VerifyAnswered
  <2>16. CASE VerifyRefused
    BY <2>16 DEF VerifyRefused
  <2>17. CASE EnableAnswered
    BY <2>17 DEF EnableAnswered
  <2>18. CASE EnableRefused
    BY <2>18 DEF EnableRefused
  <2>19. CASE Malformed
    BY <2>19 DEF Malformed
  <2> QED
    BY <1>3, <2>1, <2>2, <2>3, <2>4, <2>5, <2>6, <2>7, <2>8, <2>9, <2>10, <2>11, <2>12,
       <2>13, <2>14, <2>15, <2>16, <2>17, <2>18, <2>19 DEF Exchange
<1>4. CASE Finish
  BY <1>4 DEF Finish, Report, ReportFailure, Escape, PortError, LostAs, End
<1>5. CASE Meanwhile
  BY <1>5 DEF Meanwhile, CtrlC, Unplug, Replug, DeploymentEnds, LogSample
<1>6. CASE UNCHANGED vars
  BY <1>6 DEF vars
<1> QED
  BY <1>1, <1>2, <1>3, <1>4, <1>5, <1>6 DEF Next

-----------------------------------------------------------------------------
(* The invariant, and what follows from it.                                *)

IInv ==
    /\ TypeOK /\ TriesCounted
    /\ Announced /\ ReportHidesNothing
    /\ SessionKept /\ LeftAlone /\ RelockedAfterSession
    /\ RunsAsEnabled /\ FitToEnable /\ Confirms
    /\ ReadyMeansLogging /\ UnfinishedIsNoted

\* Before the first logger is connected nothing has been sent.
LEMMA Initially == Init => IInv
<1> SUFFICES ASSUME Init PROVE IInv
  OBVIOUS
<1>1. TypeOK
  <2>1. status \in Statuses /\ seen \in Statuses
    BY DEF Init
  <2>2. LoggerTyped
    BY <2>1 DEF Init, LoggerTyped
  <2>3. RunTyped
    <3>1. cfg \in DeployConfigs /\ plugged \in BOOLEAN /\ stop \in BOOLEAN /\ configured \in BOOLEAN
      BY DEF Init
    <3>2. offloads \in 0..MaxOffloads /\ losses \in 0..MaxLosses
      BY ConfigureAssumption DEF Init
    <3> QED
      BY <3>1, <3>2 DEF RunTyped
  <2>4. TalkTyped
    <3>1. tries \in 0..2
      BY DEF Init
    <3>2. key \in BOOLEAN /\ entered \in BOOLEAN /\ error \in Errors
      BY DEF Init, Errors
    <3> QED
      BY <2>1, <3>1, <3>2 DEF TalkTyped
  <2>5. PlaceTyped /\ StepsTyped /\ OutcomeTyped
    BY DEF Init, PlaceTyped, Places, StepsTyped, OutcomeTyped, Reasons, Endings
  <2> QED
    BY <2>2, <2>3, <2>4, <2>5, TypeParts
<1>2. pc = "idle" /\ did = {} /\ notReady = "none" /\ failed = "no"
  BY DEF Init
<1>3. TriesCounted /\ SessionKept /\ LeftAlone
  BY <1>2 DEF TriesCounted, SessionKept, LeftAlone, Talking, InSession, Writes
<1>4. Announced /\ RunsAsEnabled /\ FitToEnable
  BY <1>2 DEF Announced, RunsAsEnabled, FitToEnable, AfterStop
<1>5. ReportHidesNothing /\ RelockedAfterSession /\ ReadyMeansLogging /\ UnfinishedIsNoted
  BY <1>2 DEF ReportHidesNothing, RelockedAfterSession, ReadyMeansLogging, UnfinishedIsNoted
<1>6. Confirms
  BY DEF Init, Confirms, ConfirmedIsTrue, Changes
<1> QED
  BY <1>1, <1>3, <1>4, <1>5, <1>6 DEF IInv

\* Every step of the worker, the logger, the operator and the cable keeps it.
LEMMA Inductive == IInv /\ [Next]_vars => IInv'
<1> SUFFICES ASSUME IInv, [Next]_vars PROVE IInv'
  OBVIOUS
<1>1. /\ LoggerTyped /\ RunTyped /\ TalkTyped /\ PlaceTyped /\ StepsTyped /\ OutcomeTyped
      /\ TriesCounted /\ Announced /\ ReportHidesNothing /\ SessionKept /\ LeftAlone
      /\ RelockedAfterSession /\ RunsAsEnabled /\ FitToEnable /\ Confirms
  BY TypeParts DEF IInv
<1>2. /\ LoggerTyped' /\ RunTyped' /\ TalkTyped' /\ PlaceTyped' /\ StepsTyped' /\ OutcomeTyped'
      /\ TriesCounted'
  BY <1>1, LoggerStaysTyped, RunStaysTyped, TalkStaysTyped, PlaceStaysTyped, StepsStayTyped,
     OutcomeStaysTyped, TriesStayCounted
<1>3. TypeOK'
  BY <1>2 DEF TypeOK, LoggerTyped, RunTyped, TalkTyped, PlaceTyped, StepsTyped, OutcomeTyped
<1>4. Announced' /\ ReportHidesNothing'
  BY <1>1, StaysAnnounced, NothingBecomesHidden
<1>5. Known
  BY <1>1 DEF Known
<1>6. SessionKept' /\ LeftAlone' /\ RelockedAfterSession'
  BY <1>1, <1>5, StaysInSession, StaysLeftAlone, StaysRelocked
<1>7. RunsAsEnabled' /\ FitToEnable' /\ Confirms'
  BY <1>1, <1>5, KeepsRunningAsEnabled, StaysFitToEnable, KeepsConfirming
<1>8. ReadyMeansLogging' /\ UnfinishedIsNoted'
  BY <1>1, <1>5, StaysReady, KeepsNoting DEF IInv
<1> QED
  BY <1>2, <1>3, <1>4, <1>6, <1>7, <1>8 DEF IInv

\* IInv holds throughout.
THEOREM Invariance == Spec => []IInv
BY Initially, Inductive, PTL DEF Spec

\* The state keeps its types.
THEOREM TypeCorrect == Spec => []TypeOK
<1>1. IInv => TypeOK
  BY DEF IInv
<1> QED
  BY <1>1, Invariance, PTL

\* CONFIGURE FAILED never says that nothing happened to the logger when something did,
\* whatever replies are lost or refused, with the cable pulled or not.
THEOREM NothingIsHidden == Spec => []ReportHidesNothing
<1>1. IInv => ReportHidesNothing
  BY DEF IInv
<1> QED
  BY <1>1, Invariance, PTL

\* A logger handed back with nothing said was logging when last asked, and is logging if it
\* was configured just now, unless its lost port was taken for one in use (_worker).
THEOREM ReadyIsLogging == Spec => []ReadyMeansLogging
<1>1. IInv => ReadyMeansLogging
  BY DEF IInv
<1> QED
  BY <1>1, Invariance, PTL

\* A session that ends without a port error, whatever was raised in it, leaves the logger
\* locked, unless `lock on` was refused or got no reply twice.
THEOREM SessionsRelock == Spec => []RelockedAfterSession
<1>1. IInv => RelockedAfterSession
  BY DEF IInv
<1> QED
  BY <1>1, Invariance, PTL

\* A configuration that is begun and not finished is told of, whatever is lost, refused,
\* garbled or pulled (_worker, _configure_step): the logger is NOT READY TO DEPLOY, or its
\* offload is incomplete, unless its lost port was taken for one in use.
THEOREM FailureIsAnnounced == Spec => []UnfinishedIsNoted
<1>1. IInv => UnfinishedIsNoted
  BY DEF IInv
<1> QED
  BY <1>1, Invariance, PTL

\* The report of a logger that does what it confirms says only what is so.
THEOREM ReportIsTrue == Honest /\ Spec => []ConfirmedIsTrue
<1>1. Honest /\ IInv => ConfirmedIsTrue
  BY DEF IInv, Confirms
<1>2. CASE ~ Honest
  BY <1>2
<1>3. CASE Honest
  <2>1. IInv => ConfirmedIsTrue
    BY <1>1, <1>3
  <2> QED
    BY <2>1, Invariance, PTL
<1> QED
  BY <1>2, <1>3

\* A logger configured in this session is not stopped, erased or enabled again.
THEOREM ConfiguredStaysAlone == Spec => ConfiguredIsLeftAlone
<1>1. IInv /\ [Next]_vars => [configured => did' \subseteq did]_vars
  <2> SUFFICES ASSUME IInv, Next, configured PROVE did' \subseteq did
    OBVIOUS
  <2>1. pc \notin {"ask", "failed", "escaped", "report"} \cup Talking /\ (pc = "decide" => did = {})
    BY DEF IInv, LeftAlone
  <2> USE DEF logger
  <2>2. CASE Begin
    BY <2>2 DEF Begin
  <2>3. CASE Decide
    BY <2>3, <2>1 DEF Decide, PortInUse, OffloadFails, Unsupported, AlreadyConfigured, SkipStopping,
       Consider, Decline, StartConfigure, Skip
  <2>4. CASE Exchange
    <3>1. pc \in Talking
      BY <2>4 DEF Exchange, Unlock, UnlockLost, UnlockRefused, Relock, RelockRefused,
         RelockLost, QueryAnswered, QueryLost, Malformed, EnableNeedsErase, MemoryNotEmpty,
         CommandAnswered, MemclearIgnored, CommandLost, WriteRefused, VerifyAnswered,
         VerifyRefused, EnableAnswered, EnableRefused, Unlocking, Sent, Queries, Talking,
         InSession, Writes
    <3> QED
      BY <3>1, <2>1
  <2>5. CASE Finish
    BY <2>5, <2>1 DEF Finish, Report, ReportFailure, Escape, PortError, LostAs, End
  <2>6. CASE Meanwhile
    BY <2>6 DEF Meanwhile, CtrlC, Unplug, Replug, DeploymentEnds, LogSample
  <2> QED
    BY <2>2, <2>3, <2>4, <2>5, <2>6 DEF Next
<1> QED
  BY <1>1, Invariance, PTL DEF Spec, ConfiguredIsLeftAlone
=============================================================================
