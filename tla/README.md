# A TLA+ model of ASWLog

ASWLog (`src/ASWLog`) is a C++20 logging library: file, console, memory,
syslog, Windows Event Log and debugger loggers behind one interface, with
asynchronous writing, rotation, a backtrace of filtered entries, rate limiting,
fan-out to several loggers, categories and crash handlers. This directory holds
TLA+ modules that model its parts, the TLC configurations that check them on
small instances, and TLAPS proofs of what should hold for every instance.
Line numbers are those of the sources named in `PROJECT.json` ("map" names the
lines each definition stands for).

## Inventory

| Component | State it keeps | Operations | Interacts with | What makes it correct |
|---|---|---|---|---|
| **Asynchronous text logging** (`TextLogBase`) | under `m_Mutex`: config, initialized/open, deferred work; under `m_QueueMutex`: queue, sequence numbers, drop count, async flags, worker flags; atomics `m_IsAsync`, `m_HasDeferredWork`; the worker thread | log, flush, open, close, initialize, reconfigure, finalize; the worker's loop; `OnCrash()` | output hooks of the concrete logger; callbacks `OnError`, `OnLogEntry`, `OnBackupCreated` call back into it | one thread's entries stay in order; a waiting caller's entry is out of the buffer; closing on an application thread loses nothing queued before; drops are counted once; every call returns |
| **Logger base** (`Base`) | the packed levels, enabled flag, config snapshot, backtrace ring, one report state per error kind | the gate and the steps of `Write()`, `DumpBacktrace()`, `SetMinimumLevel()`, `SetConfig()`, `ReportError()` | its `WriteRecord()` is the text log's or the multi-log's | the ring holds the newest entries, each written at most once; no level update is lost; each suppressed report is counted once |
| **File logger** (`FileLog`) | file stream, day of the file, times of the last failed open and rotation, pending continuation line; on disk: the log and its backups | write, flush, sync, rotate by size, day or call, reopen, clean up backups | other processes that share the log; the worker | no line lost or overwritten by rotation, backups never replaced, the newest kept |
| **Memory logger** (`MemoryLog`) | the newest lines, their bytes, the next sequence number, the limits | write a line, clear, apply limits, get the lines since a number | viewers poll it | a viewer gets each line once, or is told how many it missed; limits hold |
| **Rate limiter** (`Limiter`) | lock-free counters and the next allowed time | `Allow()` | the logging macros, which open a scope with the number of calls refused | exactly the documented calls are allowed; each refused call is told of once |
| **Multi-log** (`MultiLog`) | list of sinks, initialized flag, config | add, remove, fan out each call to a snapshot of the list | other loggers | each entry goes once to each sink listed; `Initialize()` tells what is ready to be written to |
| **Category logger** (`CategoryLog`) | own level, enabled flag; process-wide registry and level rules | create, destroy, apply rules, set or reset level, log | wraps a logger or a category | the last rules apply to categories made before and after them |
| **Crash handling** (`CrashHandler`) | process-wide: installed handlers, whether a crash was handled, list of loggers | install, uninstall, handle a fault, `HandleCrash()` | text loggers' `OnCrash()`, their locks and queue | one crash line per logger, after the entries before it; the other handlers get the crash; no wait beyond a deadline |
| **Fields and scopes** (`Fields`) | a per-thread chain of scopes | make, end, capture a scope; merge fields | entries | an inner field hides an outer one; the chain is restored |
| **Formatting** (`Formatter`, `Unicode`, `Utils`, `Types`) | none | lines, JSON, patterns, time, UTF-8, wildcards, cutting | every logger | what is written can be read back; conversions and `CutToFit()` break no character; a crash line keeps its end |
| **Configuration** (`Config`) | settings | environment and key/value settings | every logger | invalid values leave the setting alone |
| **Console, debugger, syslog, Event Log, null loggers** | a stream or a system handle | output hooks | text logging | pure output |
| **Interface and version** (`Interface`) | none | the forms of a logging call | every logger | no form drops an entry the logger would write |

### What is hard about it

* Threads: any number of application threads and one worker thread per logger
  share two mutexes, two condition variables and atomics read without a lock;
  a limiter and the packed levels have no lock at all.
* Callbacks: `OnError`, `OnLogEntry` and `OnBackupCreated` run outside the
  lock, on application threads or on the worker, and may call any method,
  so the worker may be told to stop, or to go on, by code it runs itself, and an
  error handler may reach the statement whose failure it handles.
* Changing modes: asynchronous writing may be switched on and off while
  entries are queued; the ones written directly must not overtake them. A list
  of sinks, a level or a rule changes while an entry is passed on.
* Failure: a file that can't be opened, a failed flush, an exception in the
  middle of a batch, a thread that can't be started, other processes that rename
  the same log.
* Crashes: the handler runs on a thread that may hold any lock, while the others
  go on, or crash as well.
* Limits: a full queue that blocks or drops, a ring that wraps, a memory log or
  a crash line at its size, a clock at its end.

The hazards, at their lines, and the properties that would show each going
wrong, are listed in `PROJECT.json`.

## Modules and the code

| Module | Models |
|---|---|
| `TextLog` | the queue, the worker, opening and closing |
| `Backtrace`, `NewestEntries` | the levels and the ring; what the ring promises |
| `FileLog` | rotation, reopening and backups, by processes that share a log |
| `MemoryLog` | the kept lines and their viewers |
| `CallSite` (with `Fields`) | a rate-limited logging statement, its scopes, and the throttle of error reports |
| `Routing` | the interface's forms, categories, rules and the multi-log |
| `CrashHandling` | handlers, the registry of loggers, `OnCrash()` among running threads |
| `Text` (with `Unicode`, `Utils`, `Times`, `Formatter`, `Fields`, `CrashText`, `Settings`) | the functions on texts, and what they are checked against |

`MC...` modules hold the small instances TLC checks, `..._proofs` modules the
theorems. A few definitions take an operator as a parameter (`Decode`, `Encode`,
`Pieces`, `RunEnd`, `AppendUpTo`); they are not in "map", and the lines they
stand for are in the entries of the definitions that use them.

### TextLog: the queue, the worker, opening and closing

State: the variables have the names of the members; `m_Out` is the output's
lines in order and `m_Flushed` how many of them have left the logger's buffer.
`pc` and `call` hold where each thread is in its call and what the call keeps
in locals; `wpc`, `entries`, `droppedCount`, `isStopping`, `isWakeDue` are the
worker's. `dropped`, `lost`, `reported` and `closedSequence` are history the
properties refer to.

A step is one critical section of `m_Mutex` or `m_QueueMutex`, or one read of
an atomic. So `QueueRecord()` is `FormatEntry` (the config snapshot and
formatting, before the lock), then one of `QueueDrop`, `QueueWait`,
`QueuePush`, `QueueRefuse`, then `Await` or `Drain` for the waits after it.
A wait on `m_QueueChanged` whose predicate is false puts the thread in
`waiting`; only a notify wakes it, and it tests the predicate again, so a
notify the code forgets is a deadlock of the model. `UpdateWorker()` is split
at its locks (`KeepWorker`, `StopWorker`, `NoWorker` and `WantWorker` decide,
then `JoinWorker`, `StartWorker`, `ActivateAsync`), and `RunWorker()` at its:
`WorkerTake`, `WriteQueuedEntries`, `WorkerDeferred`, `MarkWritten`, the
callbacks, `WorkerWake`, `WorkerTurned`. A handler on the worker is a call by
`W` from within `onError`, `callbacks` or `onWakeError`.

`Failures` lets an open, a flush, an entry's writing (an exception) or a
thread's start fail at any time.

### Backtrace: the gate, the levels and the ring

`m_Levels` is the packed word, one record of three levels read and exchanged
as a whole. `Write()` is `Write`, `Enabled` and `Gate` (the lock-free gate, in
the code's order of reads), `Route` (the minimum level read again), then
`KeepInBacktrace`, or `HasBacktrace`, `DumpLevel`, `TakeBacktrace` and one
`WriteRecord` for each entry and marker; `Throw` is an exception from any of
them. `SetMinimumLevel()` and `ApplyBacktraceConfig()` are each a load and a
compare-exchange that may fail, so two of them interleave at every point.
`NewestEntries` is what `TASWBacktraceConfig` promises, a plain sequence of the
newest entries; `Backtrace` implements it under the mapping that rotates the
circular buffer by its oldest index.

### FileLog: rotation, reopening and backups

`folder` gives each name in the log folder its file, `files` what each file made
so far holds and when it was written; the members of each process's logger are
functions of the process. `pc` and `call` hold where a process is in its call:
`Write` leads to `EnsureReady`, `OpenSucceeds` or `OpenFails`,
`WriteNewFileStartupLines`, `PrepareWrite`, `RolledOver` and `WriteLogEntry`, and
any of the calls that rotate to `BeginRotation`, `FindFreeBackupPath`,
`RenameWithoutReplacing` (and `UnlinkLog` or `ReplaceFile`), then back to the
step in `call.after`. `Initialize` and `ReconfigurePath` share `InitializeOpens`
and `FinishInitialize`, as the code shares `InitializeUnlocked()`.

A process's calls are serial, under its `m_Mutex`; a step is one call to the file
system, which other processes' steps come between. `env` says how a rename that
replaces no file works (`MoveFileExW()`; `link()` and `unlink()`; or a check and
a `rename()`) and which operations may fail, each time or not. Cleanups run
without the lock, from the config of the rotation that queued them. The clock
only goes forward; an entry's stamp may be up to `MaxWait` older than its
writing. A day is `DayLength` ticks, a zone what it adds to the clock, a line one
unit of size. A crash ends a process between any two steps; what it wrote was
flushed.

### MemoryLog: kept lines and their viewers

A step is one critical section of `m_LinesMutex`: `WriteLine`, `ApplyLimits`,
`Clear`, `GetLinesSince`. A line is its number among all written and its size.
`CutToFit` gives every size the UTF-8 backstep may cut a line to. A viewer
keeps the number its last poll returned, as the header's example does.

### CallSite: limiters, scopes and error reports

One logging statement of a program, reached by several threads. `frames` is the
stack of calls each thread is in, since a handler called by `ReportError()` may
reach the statement again. A step of `Allow()` is one atomic operation:
`LoadOnce`, `ExchangeOnce`, `CountCall`, `LoadNextAllowed`, `MoveNextAllowed`
(the compare-exchange), `Refuse`, `TakeRefused`; each works with the clock the
call read when it began, however old by then. `Write` looks at the level again,
as `LogFmt()` does, and may fail, which leads to `ReportError`: the thread's
`IsReportingError` flag, the state of the kind under `m_ErrorReportMutex`, and
the handler (`HandlerReturns`). `scopes` is each thread's chain; the statement
itself opens the scope with the "suppressed" field and `Return` ends it.
`allowed`, `refused`, `told`, `suppressed` and `counted` are history.

### Routing: from a call to the loggers that write it

`Log` is a call in one of the interface's forms, of which some ask
`ShouldLog()` before they format or convert and others don't; the entry then
goes through `WriteToCategory` (the category's gate, its name added to what it
wraps), `WriteToMulti` and `RunHook`, and `FanOut` to a copy of the list, one
`WriteToSink` at a time. The list's changes, `Initialize()`, `Reconfigure()`,
`Open()`, `Close()` and `Flush()` take a copy under the multi-log's lock and
call the sinks without it, so two of them interleave sink by sink. Whether a sink is
initialized and whether it is open are two variables: a file with
`File.AutoOpenClosePerWrite` is closed again after each entry, the startup lines of
its own `Initialize()` included, and any other file may stay closed after a rotation
until an entry opens it again (`WriteToFile`). All configs of an instance agree on
which files are opened for each entry, and a sink's `Initialize()` and the `IsOpen()`
asked after it are one step. The registry
of categories has its lock; `ApplyLevels()` replaces the rules and sets one
category at a time (`ApplyRule`) while it holds it, so a category's own calls
come between. Names are sequences of characters and the rules compare them as
the code does (`CoversAnyPrefix`). `ShouldLog()` calls itself along the categories
an entry passes; the definition says where that ends: every category on `Path` is
enabled, and the first of them with a level of its own gives it (`FirstLevel`).
The lemma `CategoryAsks` shows that this is the code's recursion. The list has
each logger once (`AddLogger`), so that `RemoveLogger` takes the first.
`PathAssumption` says that every path ends: a category wraps a logger that exists
already. `seen` is history: what was listed while a call ran, whom it called, what
`ShouldLog()` was as it began and whether another thread has changed a level, a
rule or the list since.

### CrashHandling: who writes the crash, and what waits for whom

A source of crashes (an exception that ends the program, `abort()`, a fault) has
a chain of handlers; `current` is the one the system calls and `previous` what
each replaced. `InstallCrashHandlers()` and `UninstallCrashHandlers()` hold a lock
that no handler takes, so they are a process of their own (`setup`), which goes
through the sources and has one in hand between two steps: `Install` sets our
handler and `StoreReplaced` stores the one it returned; on Windows `Uninstall` takes
out whichever filter or SIGABRT handler is there, and `PutBack` puts it back unless
it was ours. `Replace` is an application that installs its own. `isTorn` is history:
a handler was looked up while it, or the one it replaced, was in hand, or was replaced
while ours was being taken out.

Loggers live through `Initialize` (which registers them with their lock held), `Open`
(which makes them initialized and does not register them), `Close` (which leaves them on the
list), `Finalize` and `Destroy`, a derived logger's destructor, which calls
`Finalize()` before the base's finds it off the list (`UnregisterBase`). A memory
logger's lines have a lock of their own, which its readers take without the logger's
(`StartRead`), and nothing can be written to it directly.

`Crash` begins at any step of a
thread, and the locks it holds stay held. `HandleFirstCrash` claims
`IsCrashHandled`; `LockListOfLoggers`, `Visit`, `Await`, `LockOutput` and
`WriteCrash` take the registry's lock, wait for each logger's queue and its
locks until the deadline, flush, and write the kept backtrace and the line, past
the buffer where the lock could not be had or in a signal handler; `PassOn` calls
the handler this one replaced (a signal handler's `sigaction()` and the signal coming
again are one step). `Timeout` lets the deadline pass at any wait. Other threads go on with the calls above,
the worker goes on writing, and a second
thread may crash; a thread that calls `HandleCrash()` itself writes its own line.

### Text: functions against references

Each function is checked over every argument of the instance, one step for each,
against a reference written from what a reader of its result does:

* `Unicode`: the UTF-8, UTF-16 and wide decoders and encoders. The references
  decode by the definitions of the encodings; text that is no encoding gives one
  U+FFFD per ill-formed part, and what is encoded reads back.
* `Utils`: the word-at-a-time tests of bytes (with the code's subtraction and
  masks, over words of 3 bytes), JSON escapes, line breaks, cuts, wildcards, and
  ASCII case. `Times`: timestamps with precision, zones and years of any length.
* `Formatter` and `Fields`: the text layout, JSON lines and patterns; a pattern
  gives what the text layout gives for the same placeholders, and each field
  shows once, with the value of the innermost scope.
* `CrashText`: the lines put together in a buffer of 1024 bytes. A JSON line is whole
  however long its parts are. A text line keeps its line ending, whole fields and
  whole line breaks rewritten in it; its category and message are cut by bytes, and no
  room is kept for what follows the category, so a long one cuts off the ids and the message
  (ASWLog_CrashHandler.cpp:886-895).
* `Settings`: the settings by name, from an environment: an invalid value is
  reported and leaves its setting, and no setting depends on another's value.

## What the runs show

| Run | Instance | Shows |
|---|---|---|
| `TextLog_queue` | 2 threads with 3 calls each, queue of 1, configs sync, blocking, dropping | drops are counted once and marked in the right place (`DropsAccounted`); waiting calls and `Flush()` return only once what they promised is out of the buffer (`WaitsCoverQueued`) |
| `TextLog_switch` | 3 and 2 calls, one handler call, queue of 2, all failures | order across async on and off (`OneThreadInOrder`); nothing queued once async is read off (`AsyncOffMeansDrained`); `Close()` on an application thread loses nothing queued before it (`CloseKeepsQueued`; a handler's on the worker waits for nothing) |
| `TextLog_returns` | 2 calls each, one handler call that logs or closes, fair | every call returns (`EveryCallReturns`), the queue drains (`QueueDrains`) |
| `Backtrace_calls` | one thread with 4 calls while another resizes the ring among 4 configs; or two threads changing everything, 3 calls in all | the ring implements `NewestEntries` (`KeepsTheNewest`); each entry is in one place (`InOnePlace`); the packed levels match the ring (`GateMatchesRing`); a thread's error takes its own entries (`OwnEntriesAreTaken`) |
| `FileLog_files` | one process with 4 calls, three configs (two zones, two paths), three environments in which two operations each fail, one crash where a rename is two steps, a cleaner; or two processes that share a log with a path of its own, 2 calls each, over midnight, one crash | no file of lines loses its name (`RotationKeepsLines`); backups are never replaced (`BackupsAreNotReplaced`); daily backups end in time (`DailyBackupsEndInTime`); a new file begins with the startup lines and names the backup it continues, once (`NewFilesContinueBackups`); a closed file was one that failed to open (`ClosedOnlyByFailure`); cleaning keeps the newest and only them (`NewestBackupsStay`) |
| `MemoryLog_lines` | 4 lines of sizes 0, 2 and 5, four limits, a marker of 2 bytes, 3 polls | a viewer counts each line (`ViewerCountsEach`); limits, byte count and newest line (`WithinLimits`); nothing kept is missed silently (`NothingKeptIsMissed`) |
| `CallSite_limits` | 2 threads with 2 calls and 1, a clock of 5 ticks, `Once`, every 2nd, intervals of 0 and 2 ticks, reports an interval of 1 apart, one scope of the first thread's own with a field of the same key | what is allowed, also of two calls that read the same time, and that none is refused without a reason (`AllowsAsDocumented`); what refused calls are told of (`RefusedToldOnce`); which reports count which (`ReportsCountedOnce`) |
| `CrashHandling_crash` | POSIX and Windows, in five instances: up to three calls that install, uninstall or replace the handlers, and the first installing, with one crash of any source at any step of them; a buffering logger that is initialized, opened, closed, finalized and destroyed by two threads, with one crash; two crashes amid entries on an asynchronous logger and its worker; one crash while a memory logger's lines are written and read | entries come before the crash line (`EntriesPrecedeCrashLine`), each logger gets it once (`LoggersGetTheCrash`), only live loggers are visited (`VisitsLiveLoggers`), the other handlers get the crash once for each source (`HandlersGetTheCrash`), and the process ends unless a memory logger's lines stay locked (`ProcessEnds`) |
| `Routing_passing` | two threads, two sinks, a multi-log, categories `N`, `N.H` and `NH`, in five instances: the list changes; sinks are initialized, reconfigured, opened and closed; so are two files, of which one is opened for each entry, while they are written to; levels change under every form of a call; rules are applied while categories are made and destroyed | an entry goes once to each sink listed throughout, and the hook runs once (`FanOutOnce`); a form that asks first drops nothing the gate would pass (`AskedIsWritten`); a successful `Initialize()` leaves each sink ready (`InitializeTellsReady`); a category has the level of its longest rule (`CategoriesFollowTheRules`) |
| `Text_functions` | texts of UTF-8's and UTF-16's boundary values up to length 4, lines of up to 5 characters, cuts to 0..16 bytes, wildcards of 4 in values of 5, instants around zero, midnights and year ends, every placeholder, crash lines around the buffer's end, environments of valid and invalid settings | the eight properties listed under `Text` in `PROJECT.json`, one per family of functions |

Two threads and the worker are every role there is: a thread that changes the
logger, one that uses it, and the worker; a third thread would compete in one
of these roles. A queue of one or two entries fills and drains within the
bounds, so blocking and dropping both happen; three calls let a thread
initialize the logger, use it, and change it while its own entry is queued. Four
calls fill a ring of three and wrap it. In `MemoryLog` the sizes fit, fill, and
exceed the limits, the latter with and without room for the marker. In
`FileLog`, a file of two lines is full, the clock passes one midnight, and four
calls make two backups, of which one may be kept; two suffixes let a third
rotation in the same instant find no name. Two processes are enough for a name to
be taken between its check and the rename; a rename is tried again once in the
instance, ten times in the code. In `CallSite` three calls let two threads both
find the limiter open, one lose the exchange, and a third call, an interval later, be
told of it; or be an interval apart twice. In
`CrashHandling` a second crash is enough to meet the claim of the first at every
step, and three changes of the handlers are each of the three kinds in any order.
In `Routing` the names are the smallest of which one is a prefix of the
other without being its parent.

`Backtrace_calls` and `FileLog_files` each hold two scenarios, kept apart by the
variable `scenario` of the MC module, so that the state space of each stays small
while every action of the module fires in one run. `CHECK_DEADLOCK FALSE` stands
where the calls are bounded or the process may end, and a run comes to a stop.

Two runs show a behaviour that differs from what the repository says; the
findings in `PROJECT.json` quote the line.

* `TextLog_handler_reopens`: a handler on the worker that reconfigures a logger
  whose worker is on its way out leaves `m_IsAsyncActive` set with no worker:
  entries wait until another call updates the worker.
* `FileLog_links`: two processes roll a shared log over at midnight on POSIX.
  Each links the log to a backup's name of its own; the first unlinks the log's
  name and begins a new log, and the second's `unlink()` removes that one, with
  the lines in it.

### Other differences met while modelling, which no run claims

* `TextLog`: an entry formatted before `Reconfigure()` and queued after it is
  written with the old settings (`NewSettingsAfterReconfigure` states the
  opposite). Drops counted with a batch whose writing throws are never reported
  (`DropsAreCounted` with the failure "throw"), where ASWLog_Types.h:63-65 promises a report.
  A handler's `Close()` on the worker waits for nothing, and what was
  queued since the worker took its batch is lost (`CloseKeepsQueued` says nothing of
  it). An entry a callback logs while
  async is being switched off overtakes one the worker queued before.
* `Backtrace`: while a thread writes the backtrace it took, another's error can
  be written before the entries that one kept (`KeptEntriesFirst`).
* `FileLog`: `Reconfigure()` that switches daily rolling on after midnight takes
  the day the file was opened as its day, and an entry that waited for the lock
  over midnight lands in another day's file (ASWLog_Config.h:178), in a shared
  log perhaps in a daily backup. A failed size rotation is tried again at once by
  an entry stamped before the failure (`IsRetryDue`). A cleanup that lists the
  folder between a `link()` and its undoing deletes one backup too many
  (`NewestBackupsStay` without its condition). `Reconfigure()` that only switches
  `AutoOpenClosePerWrite` drops a pending continuation line (`InitializeOpens`,
  ASWLog_FileLog.cpp:708), and one that also finds the log of an earlier day begins
  the new file without startup lines, where ASWLog_Config.h:180 and
  docs/Configuration.md:127 promise them. So does `Open()` of a logger that isn't
  initialized, because its `Initialize()` failed after a rotation.
  `NewFilesContinueBackups` leaves both out (`KeepsStartupLines`, `isInitialized`).
* `CallSite`: an entry the handler logs, or an argument of the statement logs
  while it is evaluated, is in the statement's scope and shows its "suppressed"
  field (Limiter.h:180-182). A count told to an allowed call whose write fails,
  or whose level was raised meanwhile, is gone. A thread that read the clock long
  before it was allowed lets the next call come less than an interval of real
  time after it; the property measures by the times read.
* `CrashHandling`: a crash between the call that sets our handler and the storing of
  the one it returned (ASWLog_CrashHandler.cpp:414, 421, 427-430, 459) never reaches that one,
  which ASWLog_CrashHandler.h:113-114 promises; nor, on Windows, one that comes while
  `UninstallCrashHandlers()` has another's filter or SIGABRT handler out of its place (495-509)
  (`HandlersGetTheCrash` without `isTorn`). `Initialize()` of a logger that `Close()`
  left on the list holds its lock and waits for the list's (ASWLog_TextLogBase.cpp:262), while a handler
  that holds the list's waits for the logger's until its deadline, the order `Finalize()`
  avoids (line 148; `VisitsLiveLoggers` without its exception). A thread that crashes while it holds the lock of a
  memory logger's lines waits for itself, without the deadline that
  ASWLog_CrashHandler.h:53-54 promises (`ProcessEnds` without `LinesStayLocked`).
  A logger that was only ever opened, with `Open()` and not
  `Initialize()`, is initialized but not on the list, and gets no crash line; nor does
  a memory logger whose lock another thread holds. A thread that calls `HandleCrash()`, or crashes, writes nothing
  if the registry's lock stays busy until the deadline. A second thread that
  crashes while the first still writes passes its crash on at once, which may end
  the process before the first's lines (the handlers are "best effort",
  docs/Guarantees.md:80-81).
* `Routing`: `Initialize()` of a multi-log returns false for a file logger with
  `File.AutoOpenClosePerWrite` that is initialized already, which ASWLog_MultiLog.h:119-121
  says is tolerated: it refuses, and between entries it isn't open
  (ASWLog_MultiLog.cpp:181; `RefusesToInitialize`). Concurrent `Initialize()`, `Close()` and `Reconfigure()` of a
  multi-log may leave its sinks in the state of the one and itself in that of the
  other.

### Fairness

`TextLog_returns` assumes weak fairness of each thread's running call and of
the worker: the system schedules them and no lock is held across a wait, so a
step that stays enabled is taken. Nobody has to make a call, and a sleeping
thread is not enabled until it is notified. Periodic wake-ups are part of the
worker's fairness only when a wake-up interval is configured, as in the code.

`CrashHandling_crash` assumes weak fairness of a crashed thread's handler and of
time passing: the other threads may stop anywhere, with any lock of a logger, of its
backtrace or of the list held, and the waits for those have a deadline. The wait for
a memory logger's lines has none (ASWLog_MemoryLog.cpp:174), so whoever reads them is
assumed to end (`EndRead`), unless it crashes, which `ProcessEnds` leaves out: it only
copies lines under the lock, and waits for nothing.

## What is proved

All theorems hold for any number of threads, any capacity, configs and bounds;
TLC found each formula to hold on the instances above first.

**TextLog** (`TextLog_proofs`), from the assumptions on its constants:

* `TypeCorrect`: one lemma per group of actions, and one per helper.
* `AsyncOffIsDrained`: a thread that reads `m_IsAsync` false finds no entry
  queued and unwritten. Not inductive alone: `SeqInv` says that the queue and
  the batch the worker holds are exactly the numbers between the last written
  and the last queued, and `ActiveInv` that async active implies `m_IsAsync`.
  `MutexInv` (one thread at a time is in the part of `UpdateWorker()` under
  `m_WorkerMutex`, and while it starts a worker there is none) is needed for
  `StartWorker`, which must not drop a batch another worker still holds.
* `EachThreadInOrder`: the output, then the batch, then the queue, then the
  entry a thread is logging, are in one order per thread (`OrderInv`); writing
  directly keeps it because nothing is queued then (`AsyncOffIsDrained`).

**TextLog**, dropped entries (in the same module); an exception while an entry
is written skips the report of the drops, so both assume that none is thrown:

* `DropsCounted`: the dropped entries are as many as the four counts add up to.
  Each drop must be a new one: what a thread drops is above what it has placed
  (`DropsPlaced`), and a thread's place only moves up (`PlacedGrows`).
* `DropsAreAccounted`: also where the line about the drops stands, while nobody
  closes the output. Each drop is counted with a full queue (`InQueue`), is in
  the batch being written (`InBatch`) or is marked in the output (`IsMarked`);
  only in the last case may its thread's later entries be in the output or the
  batch. A full queue lets none in, and a thread that writes directly finds the
  queue drained, so that its drops are marked (`DrainedIsMarked`). `OpenInv`: the
  output is open while anything is queued or counted. If the output is closed
  meanwhile, the drops are reported and no line is written.

**TextLog**, waiting for the queue:

* `ClosingKeepsQueued`: who is at the lock has waited for the number it
  remembered (`WaitInv`), and the batch is numbered above those written.
* `WaitsAreCovered`: an action property, for a logger whose flushes and writes do
  not fail. What the worker is done with is in the output or was given up, a
  closed output has nothing left to flush, and the entry a caller waits for is an
  urgent one wherever it is (`SettleInv`), so that its batch is flushed.

**Backtrace** (`Backtrace_proofs`):

* `TypeCorrect`, with the shape of the ring (`RingOK`) and of the gate.
* `RingKeepsTheNewest`: `Spec => Ring!Spec`, by the elements of a rotated
  sequence (`RotatedElements`) for each action that touches the ring.
* `GateMatches`: one thread at a time applies a config; from its resize on
  the ring has the size it wants, and before its resize the level still matches
  the ring (`GateInv`). `LevelsChangeApart` follows from what an exchange
  expects.
* `OwnEntriesTaken`: a thread about to write an entry that dumps has none of
  its own in the ring (`OwnInv`); only the thread itself adds them.
* `EntriesAreInOnePlace`: every sequence (the ring, each thread's hand, the log)
  holds an entry at most once and no two share one, markers aside (`Apart`). An
  entry a thread is about to place has a higher number than those it placed
  (`NumbersOK`), so that it is nowhere yet.

**FileLog** (`FileLog_proofs`):

* `BackupsStay`: where the file system has a rename, or a `link()`, that fails if
  the name is taken, no step of any process replaces a backup. Each action
  either leaves the names, gives one to a file under the log's own name, takes a
  free one, or removes some (`LinkedNotReplaced`, `MovedNotReplaced`,
  `UnlinkedNotReplaced`). Without hard links the check and the rename are two
  steps, and the theorem does not hold, as the code's comment says.
* `MovesKeepLines`: where a rename is one step, every file made has a name until
  a cleanup deletes it (`NamedInv`), which is stronger than what it shows: a file
  must be named before its first line is written.
* `TypeCorrect`, which the next three need: the step a process is at says which
  job it has and what that job holds.
* `ClosedAfterFailure`: `ClosedInv` says of every process, also within a call,
  that an initialized logger which keeps its file open, and whose file is closed, failed its last open or is on
  its way to one (`Reopens`); each early return of a rotation that closed the
  file must lead there.
* `RotationLosesNoLine`: on shared logs it is `MovesKeepLines`. For one process
  no file system is assumed: every file made has a name or was deleted by a
  cleanup, between `link()` and `unlink()` the log has both names, and before the
  rename that could replace something the backup's name is free (`KeptInv`). The
  processes that were never called are idle (`UnusedInv`), and a backup is the
  name its job asked for (`NamesInv`).
* `DailyBackupsEnd`: the order of stamps, days and names through delays, changes
  of zone and crashes, in which the log keeps one name (`IsWhole`). No line is stamped after the last write, nor that after
  now (`TimeInv`); an open file has a day and is not being renamed
  (`HasDayInv`); the day rolls over only to a later one, and an entry that is
  written is of no later day than the log's (`EntryInv`); no file has two names
  but within an unlink, and the open stream is the log (`LinksInv`, `OneNameInv`,
  `StreamInv`); so all lines end by the log's day, and the log by the label of
  the daily backup it becomes (`DayInv`, `DailyInv`). The property asks
  for one zone by whose days each backup ends; the proof gives it the zone of least
  offset among the configs, the default one included, because `Open()` before
  `Initialize()` dates the log by it. A day by any zone is at least the day by that one.

* `NewFilesContinue`: two parts. That no two continuation lines name one backup is
  `ContinuedInv`, of one process on any file system, or of several where a rename is
  one step: no file is the log of two paths, a file that was renamed is no log
  again, and the line that is pending names such a file, which no line and no
  other pending one names. That a file begun by an initialized logger starts with the
  startup lines needs to know the way there, since the open may fail many times
  between the rotation and the file: where a process is in setting up its logger
  (`SetUpInv`), that an initialized logger which has backups and no log has a pending
  line (`PendingInv`: each step that takes the log away sets one, and only the step that
  writes it takes it back), and that the file either starts so or is empty, open
  and about to get its first line (`StartInv`). It is about processes that no crash cut off and
  whose writes succeed; opens, renames and cleanups may fail at any time.

**MemoryLog** (`MemoryLog_proofs`):

* `ViewersGetEach`: the numbers of the kept lines are consecutive and end
  before the next one (`LinesInv`), so what a poll returns and what it counts
  as missed add up.
* `NothingKeptIsMissedHolds`: by the same numbers, a kept line that a poll does not
  return is one from before the viewer's last poll.
* `WithinLimitsHolds`: the byte count kept beside the lines is the sum of their
  sizes, and after each step the lines fit the limits by it; the line just written
  survives because it was cut to fit alone (`LastStays`). `Bytes` is a recursive
  function, about which the two lemmas needed (what one more line adds, and what the first
  lines take away: `BytesOfAppended`, `BytesOfParts`) are proved by the least length for which its
  recursion would have no solution (`LeastOf`, `SumExists`).

**CallSite** (`CallSite_proofs`), for any threads, limiters, clock and kinds of
errors, and any scopes and fields of the threads (`FieldsAssumption`: a field is a name
and a value):

* `TypeCorrect`.
* `LimiterAllowsAsDocumented`: a frame that goes to exchange the next allowed
  time read a clock not before the one it loaded (`FramesInv`), and the next
  allowed time is what the last allowed call's time gives (`LimiterInv`); so each call
  allowed read a time an interval after the last one's, be it the same number or
  not (`StepKeepsInterval`), one that is refused at the load read an earlier one
  (`LoadRefuses`), and an exchange that fails failed because another call was allowed
  since the load (`ExchangeRefuses`).
* `RefusedToldOnceHolds`: what refused calls are told of and what is still counted
  add up to the refused ones, for the interval and for every N (`RefusedAreToldOnce`).
  That an entry's field is the count of its own call needs two arguments. A call's scope
  is the innermost one of its thread while the call is: a thread is in two calls at most,
  as the outer one is in the handler, and a call in the handler ends its own scope before the
  outer one goes on (`OwnScopes`, with `HandlerNotReentered`). And the fields shown of a
  chain of scopes have, of each key among them, the last one (`ShowsEach`, `WinnerIsLast`;
  the joining and the loop of `ForEachLogField()` by induction, from a least
  counterexample), which for "suppressed" is the innermost scope's (`InnermostShown`).
* `ReportsAreCountedOnce`: each suppressed report is counted once, and a handler
  is not entered again, because a frame at its handler marks its thread
  (`ReportsInv`).

**CrashHandling**, locks, visits and lines (`CrashHandling_proofs`), for any threads,
loggers, handlers to come and starts (`InstanceAssumption`: the loggers
initialized at the start are listed once each):

* `TypeCorrect`, from `ControlInv`, which the others need as well: whoever changes
  or visits the list holds its lock (`ListLock`), each step holds the output lock
  that its place says (`OutputLocks`), the list has each logger once, only such as
  exist, and none that a destructor has taken off it (`RegistryOK`), and what a
  handler still has to visit is listed (`VisitOK`).
* `VisitsAreLive`: from the same invariant. A logger that a handler visits may be
  closed, but it can't leave the list, and so not be destroyed, because that needs the
  list's lock. Who holds a lock a handler waits for and waits for the list's is at
  one of the steps that `OutputLocks` gives a logger's lock, which of the calls that
  change the list only `Initialize()` has.
* `EachLoggerGetsTheCrash`: `LinesOK` says that a logger has a line for one crash at
  most, that only threads that crashed have one, and that all lines of handlers
  are by one thread. A logger that is expected to have the line is listed and stays
  initialized (`ExpectedListed`), and has it, or is still to visit, or keeps its
  lines in memory (`ExpectedWritten`); who ends the process visits no more (`EndedOK`).

**CrashHandling**, what is in the outputs and who is told (`CrashOutcome_proofs`):

* `EntriesComeFirst`: the output is the entries numbered from one on, in the file
  up to a number and in the buffer above it (`EntriesOK`), with the crash lines
  between; a logger's worker alone writes them, or, without one, whoever logs
  (`WritersOK`). Who has waited without being late finds those logged before its
  crash written (`AwaitOK`), and the flush before the line moves them to the file.
* `HandlersGetEachCrash`: while a source is in hand, its handlers are looked at as they
  will be: ours counts as installed over the one it returned before that is stored, and as
  taken out, or the other's as put back, before it is (`LinksOf`, `FirstOf`, `HasOurs`,
  with `HandOK`). So the steps of a setup change one source at a time, in one of three
  ways, and `isTorn` marks the lookups that see the difference; the invariant `ChainsOK` holds
  until then. It is not inductive for one source alone. The handlers of a
  source that were replaced lead on to each other without a loop (`Links`), and the
  one the system calls leads to all of them (`Whole`) unless the first crash has
  put back what was there before; the crash under way still leads to those that
  haven't been told (`Leads`). Who ends the process is at the system's own
  handler (`EndsInDefault`), so that nobody is left to tell.

**Routing** (`Routing_proofs`), for any loggers, threads and instances, and
categories that wrap each other to any depth (`PathAssumption`). The list at the start has
each logger once (`InstanceAssumption`):

* `FanOutOnceHolds`, from `RoutingInv`: the list has each sink once, whatever is added
  and removed; until a call copies it, it holds every sink listed during the
  whole call, and only such that were listed at some time of it (`ListInv`);
  from then on the sinks called and those still to call are that copy
  (`FanOutInv`). An entry has met one hook at most, and the sinks that run one have
  it from a config of their own (`EntryInv`, `HookInv`, `SinkInv`). What the steps of
  other threads may do to a call is one formula, `Undisturbed`, shown of every step.
* `InitializeTellsReadyHolds`: while the result is still true, each sink listed
  throughout is ready (`IsReady`), still to call, or was closed by another call or by a
  rotation (`PassInv`). A sink that refuses counts only if it is open, and what is open
  is initialized (`SinkInv`).
* `AskedIsWrittenHolds`: `AskInv` says, of every place an entry can be at, what is left of
  the question: in a category the `ShouldLog()` of that category (`CategoryAsks`,
  by the first category of a path and the rest), in the multi-log its gate and that
  of a listed sink, and in the loop that a sink was called which let the entry pass,
  or one is still to call that will. It holds while the call is undisturbed
  (`Quiet`: a step of another thread that changes a level or the list says so in
  `seen`), and decides the answer where the call returns. That no form drops the entry before
  is `AskedReach`.
* `CategoriesFollowTheRulesHolds`, from `RulesInv`: the rules of the registry are those of the
  spec applied last, one thread at most applies levels and holds the mutex, and each
  category whose level no call of its own has changed has the level of its rule or is still in that
  thread's list (`Follows`). The property asks what the spec itself says, so the rules are
  shown to say the same (`RulesSaid`: one rule for each name, with the level of the
  name's last item; by induction over the items, from a least counterexample), and the rule
  found to be the spec's last item for the longest of the names covering the category
  (`RuleSaid`; two rules that cover a name and are as long are of one name, `CoversOnce`). `GetMinimumLevel()`
  is followed along the path (`MinimumIs`). Names are any sequences of strings
  (`NameAssumption`), and categories finitely many.

Only model-checked:

* liveness (`EveryCallReturns`, `QueueDrains`, `ProcessEnds`),
  which is out of the prover's reach;
* everything of `Text`, whose functions are recursive;
* `NewestBackupsStay` of `FileLog`: cleanups of several processes with different rules
  delete from lists made at different times, and no invariant of one of them bounds
  what the others keep.

## What is left out, and why

* In `TextLog`: handlers on application threads (they run like any other
  call), spurious wake-ups (they only test the predicate again), the level gate
  (`Backtrace` has it), a file that is opened and closed for each entry,
  rotation and the reopening of a file after a failure (`FileLog` has them), the
  contents of the startup lines, an out-of-memory failure while formatting, and
  a stale relaxed read of `m_HasDeferredWork`.
* In `Backtrace`: the `OnBeforeWrite` hook (`Routing` has it), the crash path,
  which reads the ring in place (`CrashHandling`), and the logger before its
  first config (async and backtrace are off then).
* In `FileLog`: several threads of a process and the queue (`TextLog` has them),
  flush modes and syncing to disk, the retries of one open (they are one failure
  or one success), `OnBackupCreated` (deferred work like the cleanup, which
  follows it), folders that can't be created, a check of a name that fails, a
  clock that goes back, two cleanups of one process at once, and the static
  `DeleteOldLogs()`.
* In `CallSite`: the wrap of a call count at 2^64, and scopes ended out of order,
  outside their documented use.
* In `CrashHandling`: the helper thread for a stack overflow on Windows and the
  alternate signal stack, loggers that open and close their file per write, that fail to
  get ready or could not reopen their file, disabled loggers, `WriteCrashLine` off,
  the wording of what is written, what a console logger writes to a closed stderr, logging to a
  logger while it is closed, initialized or finalized, a formatter that throws while
  a memory logger's line is made, and locks outside the library (the C library's,
  the heap's, syslog's), which a crashed thread may hold too. What a thread
  does under a lock is one step.
* In `Routing`: the sinks' backtraces and the passing on of `DumpBacktrace()`,
  `ClearBacktrace()` and the queries, a hook that logs itself, and the spelling
  of a rule list (it is a sequence of items). `ShouldLog()` is one step.
* In `Text`: words of 8 bytes are words of 3, within TLC's integers, and the
  pieces the code walks 8 bytes at a time are taken one character at a time;
  zone offsets are whole minutes; letters are the lower-case ones where case does
  not matter; the settings' words come without case and spaces. The calendar and
  the writing of numbers are the standard library's. Running out of memory is
  not modelled.
* The output of the console, syslog and Event Log loggers, and host, process and
  memory queries: no state a property could be about.

Three hazards have no property that holds, because the code does what they warn
of: the config snapshot an entry is formatted from
(`ASWLog_TextLogBase.cpp:440`), the drops counted with a batch that throws
(`ASWLog_TextLogBase.cpp:1094`), and the retry of a failed rotation by an older
stamp (`ASWLog_FileLog.cpp:835`).

## Plan

What is left, in the order of what it would add:

1. `NewestBackupsStay` of `FileLog`, for one process that cleans up with one config.
2. More of `FileLog`: two cleanups of one process at once, processes with
   different configs, `DeleteOldLogs()`.
3. The crash path of loggers that open their file per write, and the helper
   thread for a stack overflow.
