# A TLA+ model of rbr-tpw

`rbr-offload` (package `rbr_tpw`) watches a computer's USB ports for RBR loggers, downloads each one's memory, keeps
it under `OUTDIR/raw` as one growing image per deployment with a record per offload, writes a NetCDF file, and, on
request, erases, configures and enables the logger for its next deployment. The data it handles exist once: what a
logger measured is erased on the strength of what this program believes is on disk. This directory models the parts of
it where order, interruption and stale state decide whether that belief is right.

## The system

Paths are below `src/src/rbr_tpw/`.

| Component | State it keeps | Operations | What is hard | What makes it correct |
|---|---|---|---|---|
| Deployment store and offload: `cli.offload`, `_find_deployment`, `_store_dataset`; `drivers.L2Driver.download`; `solo.download` | `raw/<stem>.bin`, `raw/<serial>_<tag>.json`, `raw/.partial/*.part` | find the deployment on disk, check that the logger still holds it, resume a partial file, store whole or append, write the record, remove part files | a stop between any two steps; a logger erased and enabled again elsewhere; torn appends; a host clock that steps back; images damaged from outside | nothing recorded is lost or mixed with another deployment; the memory is erased only once it is saved |
| Configure: `cli._configure_step`, `configure.configure`, `_apply` | the step report, `Settings.configured`, `configure_failed` | stop, set clock, battery, schedule, erase, verify, enable, read back | lost replies to commands that did take effect; Ctrl-C; a replugged logger | the report never claims less than was done; a logger is configured once per session; one left idle is reported NOT READY |
| Write lock: `lock.Session`, `unlocked_if_possible` | the logger's lock and challenge | unlock, write, relock | a lost reply to `lock OFF` or `lock on` | the logger ends locked |
| Serial link: `link.Link` | input buffer, transcript | `command`, `command_until_prompt`, `query`, `read_data` | late replies, echoes, stale prompts, bad CRCs, retries | a reply is never taken for another command's; a write is never sent twice |
| Timing lock: `hostclock.transfer`, `timing_critical` | `_TIMING_LOCK`, `_timing`, `_transfers` | enter and leave either kind of section | threads of several loggers; exceptions in a section | no transfer during a timing-critical step; nobody waits for ever |
| Workers and run loop: `cli._worker`, `_run`, `_shutdown`, `main` | `workers`, `finished`, `_stages`, `_failed`, `_not_ready`, `Settings.failed`, `not_ready` | scan ports, start and reap workers, Ctrl-C once and twice, exit status | unplugging and replugging between scans, Ctrl-C between two steps of a worker | every logger is served; the exit status names every failure |
| Console: `console.Console` | `_jobs`, `_held`, `_status`, `stop` | `ask`, `run_in_main`, `serve`, `write`, `status` | a question cancelled while it is answered; Ctrl-C within `serve` | each job is answered once; no output is lost; nobody waits for ever |
| Drivers with several datasets: `drivers.Driver.download`, `gen4.Gen4Driver.download` | one part file and one image per dataset or object | the same identity check, over sections and objects | one dataset of several failing | as for the store |
| Time resolution: `rawbin.decode`, `resolve_time_arrays`; `ncwrite.offload_views` | none (pure) | sample times from anchors, re-timing of runs on a reset clock | which offload's skew belongs to which run | only a skew measured on the same unbroken clock is applied; times increase |
| Rebuild: `cli._rebuild`, `_raw_files` | none | the NetCDF file again from records | grown images, stopped offloads, records of one deployment | any record of a deployment gives all that was saved of it |
| Decoders, equations, NetCDF layout, estimates: `rawbin`, `easyparse`, `gen4`, `rsk`, `equations`, `ncwrite`, `power` | none | byte layouts and floating-point formulas | | |

A worker thread per port runs `offload`: it talks to the logger through `Link`, takes the timing lock around clock
measurements and block transfers, reads and writes the store, asks the operator and writes NetCDF through `Console` on
the main thread; the configure step comes between the saved download and the NetCDF file. `_run` on the main thread
starts workers and serves the console; Ctrl-C reaches the workers as `Settings.stop`, polled after each block.

## What is modelled

### `OffloadStore`: one logger and its files

One action per step of `cli.offload` that reads or changes the logger or a file. Its variables fall in three groups:
the logger (`ep`, the deployment it is enabled for; `used`, how much it has logged; `hv`, whether its header has
changed since), the directory (`image`, `records`, `parts`, and `lost`, which images somebody damaged) and the offload
in progress (`pc`, `tag`, `full`, `total`, `held`, `dl`, `outcome`).

| Code | Actions |
|---|---|
| `offload` up to the snapshot | `Begin` |
| `_find_deployment` | `FindNone`, `FindHeld` |
| `L2Driver.download`, the identity check | `CheckMismatch`, `CheckHeaderChanged`, `CheckSame` |
| `solo.download` | `OpenPart`, `PartTooLong`, `ReadBlock`, `TearBlock` |
| `L2Driver.download`, after the read; `as_full` | `ReceiveFull`, `ReceiveSegment`, `ReceiveVerified`, `ReceiveMismatch` |
| `_store_dataset` | `StoreWhole`, `StoreAppend`, `TearAppend` |
| record and part files | `WriteRecord`, `RemovePart`, `AllRemoved` |
| the configure step, as far as the memory goes | `EraseMemory`, `EnableLogger`, `LeaveLogger` |
| Ctrl-C, an error, an unplugged cable, a stopped computer, at any step | `Interrupt` |
| the logger, Ruskin, the disk | `Log`, `ChangeHeader`, `EraseElsewhere`, `EnableElsewhere`, `DamageImage` |

Memory and files are sequences of cells, and a cell knows which deployment wrote it and where it belongs; that is what
lets a property say "of this deployment, in the right place, without a gap" while `SameHeld` and `Verified` may
compare only what the code compares. `HeaderOf` gives each deployment its header and `Alike` the places where
deployments store equal data, so the identity check is as easily deceived as the real one: two deployments can agree
on a whole head block and tail block. They never agree on `Alike`'s excluded cells, the header and the first time
anchor, unless a configuration says so.

Abstractions, each on the safe side of the code or named here as an assumption:

- A checksum is the content it sums (no SHA-256 collisions).
- An absent file is an empty one: `is_file`, `exists` and the size test decide the same for both.
- A stopped append leaves a prefix of its bytes. A rename is atomic, so `_write_bytes` and `_write_json` happen or do
  not; a leftover `.tmp` file is never read.
- The header written to a new part file (buffered until the first block's `fsync`) is on disk at once. Losing it only
  leaves an empty part file, which the next offload treats as none.
- No two offloads of one logger have the same time tag (its resolution is a second and an offload takes longer), but
  tags need not increase: the host clock may step back.
- The identity check's two block reads, and the header read that opens a part file, are one step each: they happen
  with the port held exclusively, and the logger only appends meanwhile.
- Damage from outside shortens or removes an image; a changed byte is the same case to `_find_deployment` (checksum).
- Transcripts, warnings, alarms and the NetCDF file are left out: no step of the offload depends on them.

### `DeploymentArchive`: what the store promises

The abstract specification: per deployment, how many cells are on disk. `Save` adds one whole offload at a time, and
the memory may be erased by the tool only when everything promised at the snapshot is saved. `OffloadStore` implements
it under `saved[e] = OnDisk(e)`, the longest record of deployment `e` that holds the memory of `e` and of no other
deployment, and that its image still matches.

### `HostClock`: the timing lock

Worker threads share one host. A block transfer of one logger would delay the timestamps by which another's clock is
measured, so `hostclock.transfer` wraps each block and `hostclock.timing_critical` each timing step. One action per
stretch of code that the condition variable `_quiet` or the lock `_TIMING_LOCK` makes atomic:

| Code | Actions |
|---|---|
| `transfer` | `WantTransfer`, `EnterTransfer` or `PauseTransfer`, `LeaveTransfer` |
| `timing_critical` | `WantTiming`, `TakeLock`, `RaiseFlag`, `FindQuiet` or `SleepUntilQuiet`, `ShortenInterval`, `LowerFlag`, `RestoreInterval`, `ReleaseLock` |

A thread that waits on `_quiet` is in the set `asleep` until `notify_all` empties it, and looks at its condition again
when it wakes. A body that raises leaves by the same `finally` as one that ends, so there is one action for both.
`MaxSteps` bounds the timing steps of a thread (an offload has up to three: skew, clock set, clock check).

### `Configure`: what is done to the logger afterwards

`cli._configure_step`, `configure.configure`, `configure._apply` and `lock.Session`, one action per exchange with the
logger. `pc` is the command sent next; `Following` is the order of the commands; `status`, `used` and `locked` are the
logger; `did` is what happened to it in this connection, and `steps` what the report says of that.

| Code | Actions |
|---|---|
| `_configure_step`, whether to configure | `Unsupported`, `AlreadyConfigured`, `SkipStopping`, `Consider`, `Decline`, `StartConfigure` |
| `Session.unlock`, `write`, `relock` | `Unlock`, `UnlockLost`, `UnlockRefused`, `Relock`, `RelockLost`, `RelockRefused` |
| the reads of `configure` and `_apply` | `QueryAnswered`, `QueryLost`, `Malformed`, `EnableNeedsErase`, `MemoryNotEmpty` |
| the writes of `_apply` | `CommandAnswered`, `CommandLost`, `WriteRefused`, `MemclearIgnored`, `VerifyAnswered`, `VerifyRefused`, `EnableAnswered`, `EnableRefused` |
| `_configure_step`, the outcome | `Report`, `ReportFailure` |
| `_worker`, its `except` clauses and `finally` | `PortError`, `Escape`, `End` |
| the offload before it | `Begin`, `PortInUse`, `OffloadFails` |
| Ctrl-C; the cable; the logger by itself | `CtrlC`; `Unplug`, `Replug`; `DeploymentEnds`, `LogSample` |

A command whose reply does not come may or may not have been obeyed; a read is sent twice before it fails, a write is
not. `Refusals` names what the logger may refuse for reasons of its own; what it refuses for a reason the model has
(data in memory at `verify` or `enable`) it always may. A logger that is *pending* counts as logging, and may hold no
data until it starts. The values of the settings, the clock's convergence and the battery counter are left out: they
fail, or they do not. So is the second Ctrl-C, which abandons the thread. `error` tells what `_configure_step`
catches, a `ConfigError` or a `LinkError`, from what it does not: a reply that cannot be read (`Malformed`) raises a
`KeyError` or a `ValueError`, which leaves the session, re-locks, and ends in `_worker` (`Escape`). `failed` is which of
`_worker`'s `except` clauses the worker ended in, if any. `LostAs` is what the system's wording of a lost port may make
of it (`cli.py:803`): an error, or a port in use, of which nothing is noted. `DeploymentEnds` cannot happen to the
deployment that was enabled seconds ago: `validate` wants an end time in the future.

### `Offloader` and `Console`: workers, jobs and Ctrl-C

`Console` holds the state and actions of `console.Console`; `Offloader` EXTENDS it with the workers and the run loop,
and has the specification. The variables are the job queue and the place of the main thread (`jobs`, `at`, `job`,
`result`, `pressed`), what each worker waits for (`reply`, `cancelled`), the run loop's (`mode`, `present`, `workers`,
`finished`, `startedAny`), where each worker is (`doing`, the code's `_stages` with the steps between them), what is
noted against a logger (`failedNote`, `unreadyNote`: `_failed` and `_not_ready`; `failed`, `notReady`: the summaries
in `Settings`), and the operator's hands (`plugged`, `presses`). `lost` names the workers whose call a Ctrl-C took out
of the queue and dropped; `due` and `seenGone` serve the properties only.

| Code | Actions |
|---|---|
| `Console.ask`, `run_in_main` | `Put`, `Take`, `Cancel`, `Release` (within a worker's step) |
| `Console.serve`, `_answer` | `TakeJob`, `NoJobInTime`, `SkipCancelled`, `ShowPrompt`, `Answer`, `StartCall`, `FinishCall`, `CallDone` |
| `_worker`, `offload`, `_configure_step` | `Settle`, `AskToConfigure`, `SkipConfigure`, `LeaveAsIs`, `Configure`, `Decline`, `Configured`, `ConfigureFails`, `WriteNetCDF`, `NothingToWrite`, `Written`, `OffloadFails`, `PortLost`, `OffloadRaises`, `PortBusy`, `NoteFailed`, `NoteNotReady` |
| `_run`, `_present` | `LookForPorts`, `StartWorkers`, `ExitOnce` |
| `_shutdown` | `AwaitWorkers`, `QuitAtOnce` (second Ctrl-C) |
| Ctrl-C on the main thread | `InterruptLoop`, `InterruptPrompt`, `InterruptServe`; during a call it is held: `HoldCtrlC`, `HeldCtrlC` |
| the operator | `PlugIn`, `PullOut` |

A Ctrl-C is a `KeyboardInterrupt` at whatever statement of the main thread it hits, so `serve` is split where it makes
a difference: after a job was taken from the queue, before its prompt or its call, and after the call. A job is a
worker and a kind, since a worker waits for one at a time. Left out: the acknowledgement of an alarm (a question whose
answer is not used), output held while a prompt is on the screen, the status line, Ruskin running (it delays a start),
and a second Ctrl-C before `_shutdown` has entered its loop, which ends the program with a traceback.

### `Link`: whose reply is it

`link.Link` has no request numbers. It drops what has come before it sends, tells an echo from a reply by the text,
and a block by its header and CRC. `commands` is what the logger has yet to read, `wire` what it has answered and the
host has not got, `input` what the host has got and the code has not consumed; all three are in order. A token carries
the number of the request it answers, which only the properties look at. `obeyed` counts how often the current command
was carried out, `clean` says that no answer to an earlier request was still to come when the current one was sent,
`arrived` that a reply came before the end of the timeout was near.

| Code | Actions |
|---|---|
| `command`, `command_until_prompt`, `query`, `read_data`, Gen4's `download_block` | `Request`, over the kinds write, prompt, query, block, object |
| `_drain`, `wake`, `_send` | `Drain`, `Wake`, `Send` (with `Discarded`, what the code drops first: all that has come, but for a block only part of it) |
| `command`, the reading loop | `StripPrompt`, `TakeLine`, `AcceptEcho` (after `ECHO_GRACE_S`), `NearlyOver`, `Timeout` |
| `command_until_prompt` | `TakeText`, `TakePrompt` |
| `_read_data_once`, `_download_once` | `TakeBlock`, `BlockRefused` |
| `query`, `read_data`, retries | `AttemptFails`, `MayRetry`, within the actions above |
| the logger and the line | `Obeys`, `Refuses`, `LoseCommand`, `Arrive`; a transport that echoes or does not (`echoing`) |

The deadline of `command` is checked whether an echo is held or not, and before anything that came after the last read
is looked at. `late` says that no more of the timeout is left than `ECHO_GRACE_S`, or than one read takes: `NearlyOver`
sets it, once the code has dealt with what came before, and `Timeout` needs nothing else. What is assumed of the time is
that the code reads at least once per `ECHO_GRACE_S`.

A line, a prompt or a whole block is one token; a block of which a part is lost is garbled or never complete. Two
commands are taken to differ in their text. `MaxInFlight` bounds commands and answers on the line together.

### `SampleTimes` and `ClockHistory`: the time of a sample

`SampleTimes` has no state: it holds the decoders' walk over the words of an image (`Marked`, `SoloRecords`,
`L2Records`, `Readings`, `SetStarts`, `Events`, `AnchoredTime`, `DecodeWords`, `decode_easyparse`), `clock_runs`,
`event_indices` and `Starts` (`_starts`, `reset_segment_starts`), what an earlier offload saw (`Saw`, `Seen`,
`SetEnds`, `offload_views`), the choice of the offload whose skew re-times a run (`Bounds`, `Candidates`,
`Consistent`, `Retime`, `resolve_times`, `skew_jump`) and the correction variables of the NetCDF file (`_kept_index`,
`Corrections`), for the three families of loggers whose images differ in this: RBRsolo, other L2 loggers, and Gen3
(EasyParse).

`ClockHistory` is the reference they are checked against: a logger that samples and whose clock runs, restarts at
2000-01-01 after a power loss (`LosePower`), survives a CPU reset (`CpuReset`), is stopped (`Stop`), waits (`Wait`)
and is set by hand (`SetClock`); and `Offload`, which takes the image as it is, or without the last word being
written, measures the skew or fails to, and writes the file. The model remembers the true time and the clock run of
each sample, which nobody stores, and compares with them what the file says. The logger is external; its actions
follow the decoders' comments and the tests' simulated logger.

Time is counted in sampling periods and byte counts in words. A skew is measured exactly, in an instant, so a jump is
any change: drift and its tolerances (`SKEW_JUMP_S`, `PPM`) are left out, as are error codes, the longer event records
of L2 loggers, and Gen4's datasets. A power loss of a stopped logger leaves no trace in its memory and is not
modelled.

### `DatasetStore`: several datasets per deployment, and `--rebuild`

`OffloadStore`'s story for loggers that keep a deployment in several datasets. Bytes within a dataset matter less here
than that there is one file per dataset, written one after the other: one record describes them all.

| Code | Actions |
|---|---|
| `offload` up to the snapshot | `Begin` |
| `_find_deployment`, one file at a time | `Find`, `CheckFile`, `CannotTrust`, `Trust` |
| `gen4.download`, `solo.download` for Gen3 | `Fetch`, `FetchNoBytes`, `FetchStopped` |
| `growth_mismatch`, as the datasets come back | `Receive` |
| `_store_dataset` for each | `Store`, `StoreStopped` |
| the record, the part files, in the order of their names | `WriteRecord`, `RemovePart`, `Finish` |
| Ctrl-C, an error, a stopped computer, at any step | `Interrupt` |
| the logger, Ruskin, the disk | `Log`, `Erase`, `Enable`, `Damage` |

Dataset number 3(l-1)+k is kind k (identity, events, samples) of the l-th deployment in memory: a Gen3 keeps one
deployment, a Gen4 may be enabled again with the earlier ones still there, and uses their labels again once erased.
`Rebuild` and `RawFiles` are operators, as `--rebuild` writes nothing but the NetCDF file. The first cell of a dataset
stands for the head of 512 bytes that a partial file is recognised by, which differs between deployments here; headers
that repeat are `OffloadStore`'s subject. The identity of a deployment (`MetaLen` cells) does not change while it logs.

A Gen4 may answer any read with fewer bytes than asked for, or none (`gen4.py:278`), while a Gen3's short reply is a
`LinkError`. `omits` says what a logger leaves out, chosen at the start from `Omissions`: `omits.short` are the kinds of
object it may stop sending after the head, at any cell; `omits.heads` those of which it may not even send the head. A
head too short to tell deployments apart counts as none: the partial file is
then compared with nothing (`Heads`, `Reusable`), and the object may stay empty. An empty object is downloaded, but
neither stored nor recorded (`ListedIn`). A Gen4 that has no sample yet gets no record (`PrimaryIsThere`, below).

### Mutants

A definition commented `Mutant:` is a broken variant of the definition after it. Nothing uses it; replacing the
original by it makes the property named in `PROJECT.json` fail, which shows the property is able to fail.

## The runs

| Run | Question | Constants | Size |
|---|---|---|---|
| `MCOffloadStore.cfg` | Is anything recorded ever wrong, mixed, out of order, or erased before it is saved? Does an interrupted offload always resume? | 2 deployments, memory of 4 cells, 3 offloads, blocks of 2 | about 1.9 million states |
| `MCOffloadStoreDamage.cfg` | The same store when one image is cut short at any moment, also between its check and the append, and headers repeat | 2 deployments, 5 cells, 2 offloads, 1 damaged image | about 0.5 million |
| `MCOffloadStoreArchive.cfg` | Does it implement `DeploymentArchive`? Does an offload nobody interrupts end with its snapshot saved? | 2 deployments, 4 cells, 2 offloads, blocks of 2 | about 65 thousand |
| `MCHostClock.cfg` | Is a timing step alone, the switch interval put back, every wake-up noticed, and can the threads deadlock? | 3 threads, 2 timing steps each | about 6.6 thousand |
| `MCConfigure.cfg` | Are the report, the verdict and the lock right whatever is lost, garbled, refused or unplugged? Is a logger that was stopped or erased ever left idle in silence? | 2 connections, 3 losses, any refusal | about 0.23 million |
| `MCConfigureEnabled.cfg` | A counterexample (below) | 1 connection, 1 loss, `enable` refused | stops at the counterexample |
| `MCOffloader.cfg` | Is every job served and every failure in the exit status, does `--once` or one Ctrl-C let every worker finish, and does Ctrl-C end the program? | 2 ports, `--once`, 2 plugs, 2 Ctrl-C | about 96 thousand |
| `MCOffloaderReconnect.cfg` | A counterexample (below) | 1 port, 2 plugs | stops at the counterexample |
| `MCLink.cfg` | Is a reply ever taken for another request's, a write carried out twice, a reply overlooked? | 2 requests, 2 places, 2 retries, 4 tokens on the line | about 2.2 million |
| `MCClockHistory.cfg` | Are the published times the true ones, and is everything recoverable kept? | 3 families, 3 sample sets, 2 events after the first, 2 offloads, 1 corrupt event | about 0.8 million |
| `MCClockHistoryTwice.cfg` | A counterexample (below) | RBRsolo, 2 sample sets, 2 events, 2 offloads | stops at the counterexample |
| `MCDatasetStore.cfg` | Are the datasets of a record of one memory, and can every record be rebuilt at any time, whatever the logger leaves out? | 2 deployments, 2 labels, 2 offloads, metadata of 1 and 2 cells, up to 1 of events and 2 of samples, 1 damaged deployment, 1 object cut short; a Gen4 that sends every head but cuts samples or metadata short, or one that leaves out or cuts short samples only | about 4.9 million |

Why these bounds are enough: two deployments are what can be confused; three offloads give a new deployment, its
continuation and one after an erase (or two interrupted attempts and a third that resumes); a block of two cells with
four or five in memory gives a part file that stops within a block, at one, and past one, and an image whose head and
tail blocks overlap, touch, or leave an unread middle. `DamageImage` needs `_find_deployment` to have trusted the
image before it is cut, which two offloads allow. The theorems below remove the bounds for the properties they cover.

A timing step can meet another timing step, a transfer and a sleeping transfer at once with three threads. Two
connections are what "again" takes, and with three losses both `lock on` can be lost after the reply that made the
session end.

Two ports are what it takes for one worker to be served while the other waits, is asked, or is pulled out; two presses
are all the code tells apart. Two requests are what "earlier" and "later" take; with two retries the first of them can
leave two answers behind. In `MCClockHistory.cfg` two events after the first allow a restart and a stop, a CPU reset
or another restart, and two offloads one before and one after; three sample sets put one before, between and after.
`Slack` and `Jitter` are 0 there, for a sampling period longer than the code's tolerances. In `MCDatasetStore.cfg`
the second deployment may be on the logger beside the first or in its place, and one of the two has metadata of two
cells, so that it can be cut short after the head. Of the two kinds of Gen4 there, the first puts `RecordsAreTrue` to
the test with metadata cut short, the second `RecordsRebuild` with a partial file that was resumed unchecked; a Gen3
leaves out nothing, and is checked against both.

Deadlock checking is off for the modules whose history is bounded (`OffloadStore`, `Configure`, `Link`,
`ClockHistory`, `DatasetStore`): once every tag, connection, request or offload is used, the system stops. It is off
for `Offloader`, whose program ends; that it does not stop before is `CtrlCEnds` and `SeenGoneIsServed`. It is on for
`MCHostClock.cfg`, where a thread that is done may always start a transfer, so that a deadlock would be real.

Properties:

- `RecordsAreTrue`, `DeploymentsNotMerged`: what a record describes is one deployment's memory from its first cell.
  This is where a stale part file or image would show.
- `RecordsDescribePrefixes`: `_store_dataset`'s docstring, with torn appends, truncation and damage.
- `RecordsInOrder`: the last record by `offload_index` is also the longest, even with a clock that steps back.
- `NeverStuckOnPart`: the `RuntimeError` "partial file is longer than logger memory" cannot happen while headers
  differ.
- `EraseOnlySaved`, `PartialBytesKept`, `StoreMakesWhole`: what a step may never do. Saved (`Saved(e, n)`) means that a
  record of deployment `e` has `n` cells or more, that they are the memory of `e`, each in its place, and that its image
  begins with them.
- `OffloadSaves`: liveness.
- `ImplementsArchive`: refinement.
- `TimingAlone`, `IntervalRestored`, `EveryoneProceeds`: the timing lock does what it is for, and no wake-up is
  missed.
- `ReportHidesNothing`, `ConfirmedIsTrue`: the report of a failed configuration brackets what happened to the logger.
  The second fails where the logger refuses `enable` (below).
- `ReadyMeansLogging`: when neither NOT READY TO DEPLOY nor an incomplete offload need be noted. `UnfinishedIsNoted`: one
  of the two is, of every configuration begun and not finished. Both except, in so many words, a port that was lost and
  taken for one in use (`failed = "busy"`), where nothing is noted (below); `NeverLeftIdle` counts it as an end.
- `ConfiguredIsLeftAlone`: a replugged logger is not erased and enabled a second time.
- `RelockedAfterSession`: the lock, with the failures of `lock on` itself and a lost port excepted, for every session
  that was entered; of one that was not, see below.
- `NeverLeftIdle`: liveness, Ctrl-C included.
- `NoJobForgotten`: the reason `run_in_main()`, which waits without a timeout, returns at all.
- `NobodyAbandoned`: no logger is left in the middle of its configuration by `--once` or a first Ctrl-C.
- `ExitStatusComplete`, `NotesReachSummary`: what is noted against a logger reaches the exit status. The two
  exceptions the first names, for workers abandoned by a second Ctrl-C, are real.
- `CtrlCEnds`, `SeenGoneIsServed`: liveness of the run loop. `ReconnectIsServed` drops the condition that the port was
  seen empty, and fails (below).
- `OwnReply`, `BlockIsOwn`, `ConfirmedOnce`, `RepliesAreUsed`: the link. `OwnReply` needs `clean`; `BlockIsOwn` does
  not. `RepliesAreUsed` excepts what comes in the last `ECHO_GRACE_S` of a timeout (below).
- `DecodesTheClock`: the decoders give each sample the time that the logger's clock showed, found from the anchors
  stored before it, unless an event that bears on the clock is corrupt.
- `TimesAreTrue`, `MeasuredRunsAreKept`: what the file says is right, and what it leaves out could not have been
  right. They suppose that the record shows every restart of the clock (`CorruptMatters`, `RestartsApart`).
- `AppendKeepsSamples`: the decoders take back nothing when the image grows, even if a record had been cut in two.
- `SkewOfItsOwnClock` drops `RestartsApart`, and fails (below).
- `DatasetStore!RecordsAreTrue`, `RecordsRebuild`: the store with several files, and that `--rebuild` works from any
  state a stopped offload leaves. The first is about loggers that send every head (`HeadsCome`), the second about those
  that send their metadata whole (`MetasCome`): of the others they do not hold (below).

Fairness of `OffloadStore`: `FairSpec` assumes `WF_vars(OffloadStep)` only. A worker thread that has begun an offload
runs on until it ends; nothing makes the operator connect a logger, the logger log, or a crash happen or not happen.
An offload that is interrupted ends with `outcome = "stopped"`, and `OffloadSaves` says nothing of it. In `HostClock`
each thread that has begun something is scheduled (weak fairness per thread, on taking steps that are enabled);
Python's locks are not queues, so nothing is assumed of who gets a lock that several want, and the bound on timing
steps is what keeps one thread from being passed over for ever. In `Configure` an exchange that was begun ends, in a
reply or a timeout; the operator's answer, the cable, losses and Ctrl-C are under no fairness. In `Offloader` the main
thread and each worker run on: weak fairness of `Main`, and of `Worker(p)` for each port. That includes that the
operator answers a question in the end and that a NetCDF file gets written; without either, the program rightly waits.
Plugging, pulling and Ctrl-C are under none. The specifications of `Link`, `ClockHistory` and `DatasetStore` state
safety only.

### Disagreements between the code and its documents

Shown by a run:

- `configure._apply` records the step "enable" before it looks at the reply's error code, against its own comment
  ("`<name>` once it is confirmed"): `MCConfigureEnabled.cfg` ends with a refused `enable` reported as "logging was
  enabled".
- "A partial download resumes if you reconnect the logger" (`cli.py:813`). A port leaves `finished` only if a look at
  the ports finds it empty, and the main thread does not look while it asks or writes. `MCOffloaderReconnect.cfg`: a
  logger pulled out and plugged in again between two looks gets no worker.
- `resolve_times` shifts a run "by the skew measured at an offload made while that clock ran unbroken". Of two
  restarts with no sample between them `_starts` keeps the first only, and an offload between the two then speaks for
  the samples after the second (`MCClockHistoryTwice.cfg`).

Met while modelling, without a run of their own:

- `_worker` takes a `SerialException` worded as an access error for a port in use: "not a failure: another rbr-offload
  ... has this port" (`cli.py:804`). pyserial on Windows words a cable pulled in use like that. `PortError` then ends a
  configuration unfinished with nothing noted and exit status 0: without `failed # "busy"` TLC refutes
  `UnfinishedIsNoted`, and `NeverLeftIdle` if a port taken for one in use does not count as an end.
- `_configure_step` catches `ConfigError` and `LinkError` only (`cli.py:525`), so a reply that cannot be read ends the
  configuration without the alarm and the NOT READY TO DEPLOY that the program's README promises "if any step fails"
  (`Malformed`, `Escape`); the offload is noted as incomplete. A cable pulled out has the same effect where it is not
  taken for a port in use.
- `Session` "always re-locks on exit" (`lock.py:54`), but if the reply to the `lock OFF` in `__enter__` is lost there
  is no exit and the logger stays unlocked (`UnlockLost`, with `entered` still false): without `entered` TLC refutes
  `RelockedAfterSession`. `unlocked_if_possible` re-locks in that case.
- A line equal to the command "is the reply unless another line follows within ECHO_GRACE_S" (`link.py:185`). The
  timeout ends the wait though such a line is held, and the write fails (`NearlyOver`, then `Timeout`).
- A Gen4's partial file "is resumed only if its first bytes match the logger's" (`gen4.py:338`): as many as the logger
  sent, and it may send none. With a logger that leaves out the samples' head, `RecordsAreTrue` without `HeadsCome` is
  refuted: the samples of an erased deployment are recorded as the next one's.
- "A deployment's file is never rewritten in place, so every earlier record's checksum still describes a prefix of it"
  (`cli.py:285`). The metadata of an earlier label, of which `growth_mismatch` looks at the name only, are: cut short
  they replace a longer file, and `RecordsRebuild` without `MetasCome` is refuted.
- `primary` names "the samples, or whatever is not empty" (`drivers.py:223`); a Gen4's names the latest label's samples
  even if there are none yet. What was read is stored, and `datasets[primary]` (`cli.py:680`) is a `KeyError`, so that no
  record is written and the offload fails (`PrimaryIsThere`).
- `solo.download` resumes a part file when the header bytes match, on the comment that this means the same deployment;
  `PLAN-incremental-offload.md` says that a logger whose clock restarts at 2000-01-01 can give two deployments one
  header. With `HeaderOf` equal for two deployments, `RecordsAreTrue` fails; `offload_damage` runs with such headers,
  and holds.
- `_find_deployment` says of its checks "nothing on disk is touched" until all datasets are found (`cli.py:319`), but
  a file may be cut back before the next is found missing. Only bytes past the record go, so `RecordsRebuild` holds.
- `run_in_main` says that "the call runs even after Ctrl-C" (`console.py:157`); a Ctrl-C between two statements of
  `serve` drops it, and its worker waits until a second Ctrl-C. `NoJobForgotten` and `CtrlCEnds` name the case with
  `lost`.
- A second Ctrl-C while a NetCDF file is written reports the logger as failed, but not as NOT READY TO DEPLOY if that
  is what it was about to be.
- On a transport that echoes, `command_until_prompt` looks for an error at the start of the text, where the echo is.
- An error line left over from an earlier request refuses a block: reading a block drains `_buf`, not the port's
  buffer.
- For Gen3, `reset_segment_starts` ignores a failed restart (0x06), and `event_indices` cannot tell two restarts
  without a sample between them apart; `RestartsApart` excludes both.

## What is proved

TLAPS checks the following for every value of the constants. The theorems about `OffloadStore` assume
`StoreAssumption`, those about `HostClock` and `Configure` the assumption of their module, those about `Offloader`
`OffloaderAssumption`, those about `Link` `LinkAssumption`, those about `DatasetStore` `DatasetAssumption`, and those
about `ClockHistory` `TimesAssumption` and `HistoryAssumption`: bounds are numbers, no port, place or thread is the
value that stands for none, and two deployments never store the same first time anchor.

`OffloadStoreProofs`, for every number of deployments and offloads, size of memory and block, headers and alike cells:

- `TypeCorrect`: `Spec => []TypeOK`.
- `RecordsStayTrueOfImages`: `Spec => []RecordsDescribePrefixes`.
- `RecordsStayInOrder`: `Spec => []RecordsInOrder`.

None of the last two is inductive: that an append leaves every earlier record a prefix needs to know that what is
downloaded extends what is held, that what is held is a prefix of its image, and that the current tag's record is not
yet written. `IInv` adds these: `TagIsFresh` (no record carries the tag of the offload in progress before it is
written), `HeldIsOnDisk` (the deployment held is described by its last record, which is a prefix of its image unless
damaged) and `DownloadExtendsHeld` (what is being stored extends what is held). `Invariance` proves `Spec => []IInv`,
one step per action; `IInv` was model-checked first. `PrefixLemmas` holds the facts on prefixes of sequences
(reflexive, transitive, kept by an append, cell by cell) and on the least and the greatest of some numbers.

Its second part, under `HeadersDistinct` (no two deployments share a header, which is what `solo.download` relies
on), for every way the deployments' data may otherwise be alike: `RecordsStayTrue` (`RecordsAreTrue`), `NeverMerged`
(`DeploymentsNotMerged`), `NeverStuck` (`NeverStuckOnPart`). The invariant `Truth` says of which deployment everything
is. A record is of its own, header and data (`RecordsTrue`); what is held is of the deployment its stem's records are
of (`HeldTrue`), and of the one on the logger once it is to be extended (`HeldNow`), because the header tells, or,
under a changed header, the first time anchor; a part file is of the deployment its name tells (`PartsTrue`), and of
the one on the logger once it is opened (`PartNow`); hence so is what is downloaded and stored (`StoredTrue`,
`SegmentTrue`). And a part file of the deployment on the logger ends within its memory (`PartsFit`), which only grows
until it is erased (`LimitKept`), so that it can be resumed.

Its third part:

- `StoresMakeWhole`: `Spec => StoreMakesWhole`, whatever the headers are.
- `ErasesOnlySaved`: `HeadersDistinct => (Spec => EraseOnlySaved)`.
- `PartialBytesStay`: `HeadersDistinct => (Spec => PartialBytesKept)`.
- `StoreImplementsArchive`: `HeadersDistinct /\ MaxLost = 0 => (Spec => ImplementsArchive)`, the refinement of
  `DeploymentArchive`: each step that writes a record is `Save` or, if no more is on disk than before, a stutter.

They rest on three more invariants: an image that is held is as it was held or was cut short (`HeldIsCut`); what is
stored is as long as the snapshot (`AllStored`); and after that a record of that length is there (`AllRecorded`). That
it holds the deployment's memory is `RecordsTrue`, hence `HeadersDistinct`.

`DatasetStoreProofs`, for any number of deployments, labels, offloads and damaged files, and any sizes:

- `TypeCorrect`: `Spec => []TypeOK`, whatever the logger does not send. No run checks this one, nor `HostClock`'s: they
  are proved only.
- `RecordsStayTrue`: `Spec => []RecordsAreTrue`, of a logger that sends the head of every object (`HeadsCome`, a
  premise of the property), whatever is cut short after it.
- `RecordsStayRebuildable`: `Spec => []RecordsRebuild`, of a logger whose metadata come whole (`MetasCome`), whatever
  else does not come.

Neither premise can be dropped (above). What is read: the deployments
in memory are numbered in a row and the first cell of each is there (`MemoryInOrder`),
a logger has all it reported (`WantIsThere`), a part file is of one dataset of one deployment and not longer than that
dataset if it is on the logger (`PartsAreTrue`), so what comes back is of the memory at `Begin` (`GotIsTrue`). What is
stored: the tag is new (`TagIsFresh`), the deployment held is its last record (`HeldIsLast`), and the files stored so
far begin with what was downloaded, which extends what is held (`StoredSoFar`). And the records: each describes
prefixes of its files (`RecordsDescribePrefixes`), a later one of a stem extends an earlier one (`RecordsInOrder`,
`IndexIsBounded`), and their datasets are of one run of deployments (`RecordsOfOneMemory`). The step that needs all of
it is `Receive`: `growth_mismatch` looks only at the latest identity, and that every dataset then extends what is held
follows because a logger numbers its deployments in a row and an erase takes them all (`GrowthExtends`).

`HostClockProofs`, for every finite set of threads:

- `TypeCorrect`: `Spec => []TypeOK`.
- `TimingStepsAlone`: `Spec => []TimingAlone`.
- `IntervalIsRestored`: `Spec => []IntervalRestored`.

The invariant behind them ties the shared variables to where the threads are: the lock is held by the one thread in a
timing step (`LockIsHeld`), the flag is up from `RaiseFlag` to `LowerFlag` (`FlagIsRaised`), `_transfers` is the
number of threads in a block (`TransfersCounted`, by cardinality), nobody enters a block once a timing step found it
quiet (`StaysQuiet`), and the interval a timing step remembers is the usual one (`IntervalKnown`).

`ConfigureProofs`, for any number of connections and losses and any set of refusals: `TypeCorrect`, `NothingIsHidden`,
`SessionsRelock`, `ConfiguredStaysAlone`, `ReadyIsLogging`, `FailureIsAnnounced` (`UnfinishedIsNoted`); and `ReportIsTrue` for a logger that does
what it confirms. The invariant follows the order of the commands: what will change the logger
next is in the report (`Announced`); from the stop to the enable the logger is stopped (`RunsAsEnabled`), unlocked for
what is about to change it and empty for what enables it (`FitToEnable`); and from the moment the session ends it is
locked unless `lock on` failed (`SessionKept`).

`OffloaderProofs`, for any number of ports, plugs and Ctrl-C, with and without `--once`: `JobsAreServed`
(`NoJobForgotten`), `EndedByThemselves` (`NobodyAbandoned`), `StatusComplete` (`ExitStatusComplete`), `NotesAreKept`
(`NotesReachSummary`) and `TypeCorrect`. The invariant says where a job may be: `JobFits` relates the job in hand to
the place of the main thread, `AllQueued` says that a worker that waits has its job in the queue or in hand (or lost),
`CancelledByStop` and `StoppingByStop` that a question is given up only once `stop` is set, as it is in `_shutdown`.
`WorkersKnown` says that whoever is alive is in `workers`, which is what `ExitOnce` and `AwaitWorkers` look at;
`NotesFit` that a note is there only while its worker has yet to pass the place that moves it to the summaries, and
`EndsWell` is what holds once the program has ended. For the types two more facts are needed, since a reply is filed
by worker, not by job: a worker has one job at a time, no two in the queue are equal and none is in hand and queued at
once (`JobsFit`), and an answer or outcome lies only with a worker that waits for it (`RepliesFit`).

`LinkProofs`, for any set of places, number of requests, retries and tokens: `TypeCorrect`, `RepliesAreOwn`
(`OwnReply`), `BlocksAreOwn` (`BlockIsOwn`), `ConfirmedOnceOnly` (`ConfirmedOnce`), `RepliesFound` (`RepliesAreUsed`).
The invariant: nothing on the line is of a later request (`Fresh`); if the line was clean, everything on it is of the
current one (`OwnFit`); a reply that has arrived is still in `input` (`ArrivedFit`); a write's command is under way at
most once, as the last one, and not once obeyed (`OnceFit`); an answer to it that is neither refusal, prompt nor echo
comes of its being obeyed (`WriteFit`); and a prompt that the command was not obeyed for follows an error
(`PromptFit`).

`ClockHistoryProofs`, for any number of samples, events, gaps and offloads:

- `TypeCorrect`: `Spec => []TypeOK`, of which the last lines matter: a correction variable begins before it ends, on the
  kept axis of its file.
- `AppendsKeepSamples`: `Spec => AppendKeepsSamples`.
- `ClockIsDecoded`: `Spec => []DecodesTheClock`.
- `SkewsAreMeasured`: `Spec => []SkewsMeasured`: the skew that an offload measured is that of every sample of the run
  it was made in, the earlier and the later ones, and none if that run is the first and began on a good clock. This is
  what re-timing rests on.
- `TimesStayTrue`: `Spec => [](now < StartTime + Y2001 => TimesAreTrue)`: where the record shows every restart, the
  times published are the true ones, and so are the corrections listed. The hypothesis is the code's own: a clock that
  restarted at 2000 and has run for a year is past 2001, and no flag tells it from a good one; with
  `Y2001 = 1` TLC finds a file of two samples with the wrong times. The bounds of the run imply it.
- `MeasuredRunsStayKept`: `Spec => [](now < StartTime + Y2001 => MeasuredRunsAreKept)`: under the same hypothesis the
  other half: the file is written, and no sample is left out that an offload measured the clock of.

For the first two the invariant says little: the words are words, and the file is what the latest image and records give
(`FileIsOfLatest`). The work is in lemmas about the decoders. A recursive function (`InOrder`, `resolve_times`) is
shown to exist and to have a property by `Recursion` and `StepByStep`, which are stated with sets and functions instead
of operators, and rest on `LeastNat`. From there: the readings that are sure, all but one the last word may take
back in an L2 image, begin the readings of every image grown from it (`SureReadings`); a valid event keeps the number
of readings before it, and one found later has all sure readings before it (`ReadingsBefore`, `GrownEvents`); hence the
same anchors count for each set that is sure (`GrownClock`). For the types, each pass of `resolve_times` leaves the
samples after its run alone and drops none that it re-timed (`Retimed`, `Resolved`), so the first and the last sample
re-timed by an offload are both kept (`CorrectionsFit`).

`ClockIsDecoded` and `SkewsAreMeasured` need what the logger does, `Clocks`: sample sets are whole where an event begins (`Layout`), so that an
event has as many sets before it as are stored before it, and no part of one; a sample's clock is that of the last
anchor and one period for each set since (`ClockCounts`); each restart begins a run (`RunsCounted`); a clock is right,
or behind by the time since it began (`ClockRight`); and `SkewsMeasured`. Numbers of sets are quotients of numbers of
readings, which `Cnt` counts below a place. For `ClockIsDecoded` the anchor that `AnchoredTime` takes is shown to be
the last one stored before the set, or, if that one is corrupt, the first word, whose clock the header repeats
(`AnchorIs`).

`TimesStayTrue` and `MeasuredRunsStayKept` need two more invariants. Not every set of an L2 file is a sample: one may
be half of an event record that an offload cut, and its time counts too, for the passes compare it with its
neighbours. So `Moments` says of each reading, and of each event that is no restart, that there was a moment at which
it was stored, with a clock that agrees with the anchors before it, with all samples of the same run, stored earlier
or later, and with each offload made in that run. `OffloadsInOrder` says that offloads follow the growth of the memory
and of the runs, and that two of one run measured the same skew. `RecordShows` collects the invariants and what the
property assumes of the record; the lemmas after it are about such a state. There each set has a moment (`StandsAt`),
and those moments increase (`TimesGoUp`).

What `_starts` and the views make of the record: each restart that the record shows begins a segment where its run of
the clock begins (`RestartBetween`), and each segment begins at a restart of the memory, or where a view shows that
the clock was set (`BeginsAre`), which it then was (`SetByHand`). A Gen3 event carries no place: that `event_indices`
puts the one restart where it was stored rests on the shape of the times, which step back at most once
(`IndexOfRestart`, `RestartIndex`). Between two segment starts, then, all sets are of one run (`OneRun`).

The times are true: a sample is taken to be on a reset clock just when it is (`ResetIs`), so one that keeps the logger's
time has its true one. For one that was re-timed, `ResolvedTells` says what the passes of `resolve_time_arrays` did: the
offload used is a candidate for a segment that begins before the sample, no other segment begins between the two, and
the skew takes some sample up to it past 2001. So the skew is not 0, and the offload was made on a clock that had
restarted, and that nobody had set (`SkewOfARestart`). Were it of a later run than the sample, a restart stored between
them would begin a segment after the sample that the offload saw; were it of an earlier one, a restart would lie between
them the other way, and with a sample set before it, as `RestartsApart` says, its segment would begin between, or else
the last one the offload saw would lie behind what it saw (`SkewIsOwn`). Last, if an offload re-timed two samples it is
a candidate at the same place for both, so that no segment begins between them and the same one was used for all that
lie there (`RunsAreWhole`); with `KeptIs`, which finds the sample at an index of the kept axis, the corrections are
right (`CorrectionsCover`).

Nothing measured is left out: that an offload which measured the run of a sample, and saw the sample unless nobody
ever set the clock, is a candidate for the segment of the sample (`IsCandidate`), and that it passes the check of
`resolve_time_arrays` (`Consistent`) against everything kept so far, since those times are true ones and its own skew
gives true ones (`TellsTheTime`). So the set of usable offloads is not empty, the pass keeps its samples
(`PassKeeps`), and later passes leave them alone (`ResultKeeps`). The induction over the passes carries along that the
times given so far are true. And a file whose kept times are the true ones, which increase, is not refused
(`NotRefused`).

Only model-checked: liveness (`OffloadSaves`, `EveryoneProceeds`, `NeverLeftIdle`, `CtrlCEnds`, `SeenGoneIsServed`),
which is beyond this prover. Every safety invariant and action property of the passing runs has a theorem.

## What is not modelled, and the plan

- Byte layouts of the memory formats (`rawbin`, `easyparse`, `gen4`, `rsk` beyond the walk over words and events),
  calibration formulas, NetCDF variables and attributes, battery estimates: data without control; tests with recorded
  images fit them better.
- SNTP: one packet and arithmetic on floats; the cache is one value under one lock.
- The console's held output and status line, argument parsing, wording, transcripts.
- The unlocking key's arithmetic; `unlocked_if_possible` beyond the lock it leaves.
- The sectioned headers of L2 loggers other than the RBRsolo (the identity check over two ranges instead of one).
- The simulated logger of the tests: read for what a logger does.

Left, in order:

1. The sectioned headers of L2 loggers, as a second kind of header in `OffloadStore`.
2. The console's held output, as a part of `Console`.
