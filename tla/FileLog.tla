------------------------------ MODULE FileLog ------------------------------
(***************************************************************************)
(* The file logger (TASWFileLog): opening and reopening the log file,      *)
(* rotating it to a backup by day, by size and on request, starting the    *)
(* new file, and deleting old backups, by processes that share the log and *)
(* the folder with its backups.                                            *)
(*                                                                         *)
(* A process's calls run one at a time, under its m_Mutex; a step is one   *)
(* call to the file system, which other processes' come between.  Deferred *)
(* work runs without the lock.  Every line written is flushed.             *)
(***************************************************************************)
EXTENDS Integers, FiniteSets, Sequences

CONSTANTS
    Processes,
    Cleaners,       \* the threads that run deferred work
    Environments,   \* how the file system renames, and what may fail
    Configs, DefaultConfig,
    DayLength, StartTime,
    MaxFileSizeBytes, CircuitBreakerResetDelay, RotationRetryDelay,
    MaxBackupRenameAttempts, MaxBackupNameSuffix,
    Ops,            \* the calls each process makes
    MaxTime,        \* bound: the clock
    MaxWait,        \* bound: how long an entry waits for the lock or in the queue
    MaxCalls,       \* bound: the calls of each process
    MaxCrashes      \* bound: how often a process crashes and starts again

NoFile == 0
Never == 0      \* a time_point that was never set, long ago
NoDay == -1     \* an empty m_LastLogDateStr
OldPath == -1   \* a line continued from another path
Nothing == 0    \* no continuation line

\* RetentionMaxAge, MaxBackupFiles and MaxBackupTotalBytes, 0 for none
Rules == [MaxAge : Nat, MaxFiles : Nat, MaxBytes : Nat]

\* TASWFileConfig, and the zone of TASWLineConfig as what it adds to the clock
Config == [FilePath : STRING, AutoOpenClosePerWrite : BOOLEAN, EnableDailyRolling : BOOLEAN,
           EnableRotation : BOOLEAN, WriteStartupLinesInNewFiles : BOOLEAN,
           TimestampZone : Nat, Cleanup : Rules]

ASSUME ConfigAssumption == Configs \subseteq Config /\ DefaultConfig \in Config
ASSUME TimeAssumption ==
    /\ {DayLength, MaxFileSizeBytes, MaxBackupRenameAttempts} \subseteq Nat \ {0}
    /\ {CircuitBreakerResetDelay, RotationRetryDelay, MaxBackupNameSuffix, MaxWait, MaxCrashes} \subseteq Nat
    /\ StartTime \in Nat /\ MaxTime \in Nat /\ MaxWait < StartTime
    /\ CircuitBreakerResetDelay <= StartTime - MaxWait /\ RotationRetryDelay <= StartTime - MaxWait

\* fs: whether a rename that replaces no file is one step, as on Windows, or
\* two, with or without hard links, on POSIX
Environment == [fs : {"move", "links", "nolinks"},
                failing : SUBSET {"open", "write", "rename", "unlink", "list", "delete"}]
ASSUME EnvironmentAssumption == Environments \subseteq Environment
ASSUME BoundAssumption == MaxCalls \in [Processes -> Nat]

VARIABLES
    clock, env,
    folder,     \* the files in the log folder by name
    files,      \* the contents of each file made so far, and whether it was
                \* begun by an initialized logger, or one that is being initialized
    m_Config, m_IsInitialized, m_FileStream, m_Size, m_LastLogDate,
    m_LastOpenFailure, m_LastRotationFailure, m_PendingContinuationLine,
    m_DeferredWork,         \* the cleanups queued
    pc, call,               \* where each process is in its call
    job,                    \* the cleanup each cleaner runs
    calls, crashes,
    openFailed,             \* whether the last open of each process failed
    cleaned                 \* the files cleanups deleted

diskVars == <<clock, env, folder, files, cleaned>>
streamVars == <<m_FileStream, m_Size, m_IsInitialized, openFailed>>
stateVars == <<m_Config, m_LastLogDate, m_LastOpenFailure, m_LastRotationFailure,
               m_PendingContinuationLine>>
workVars == <<m_DeferredWork, job>>
boundVars == <<calls, crashes>>
vars == <<diskVars, streamVars, stateVars, workVars, pc, call, boundVars>>

----------------------------------------------------------------------------
(* Names, files and times *)

Day(time, zone) == (time + zone) \div DayLength

LogName(path) == [path |-> path, reason |-> "log", label |-> 0, suffix |-> 0]
BackupName(path, reason, label, suffix) ==
    [path |-> path, reason |-> reason, label |-> label, suffix |-> suffix]
IsBackup(name) == name.reason # "log"

Path(p) == m_Config[p].FilePath
Log(p) == LogName(Path(p))
Exists(name) == name \in DOMAIN folder
Backups(path) == {name \in DOMAIN folder : IsBackup(name) /\ name.path = path}

Linked(names, to, file) ==
    [name \in DOMAIN names \cup {to} |-> IF name = to THEN file ELSE names[name]]
Unlinked(names, from) == [name \in DOMAIN names \ {from} |-> names[name]]

\* A line of a file; isDaily if it was written with daily rolling on
Entry(stamp, isDaily) ==
    [kind |-> "entry", stamp |-> stamp, isDaily |-> isDaily, from |-> Nothing]
Startup(from) == [kind |-> "startup", stamp |-> clock, isDaily |-> FALSE, from |-> from]

CanFail(operation) == operation \in env.failing

IsOpen(p) == m_FileStream[p] # NoFile
IsAuto(p) == m_Config[p].AutoOpenClosePerWrite
Today(p) == Day(clock, m_Config[p].TimestampZone)

\* Windows: an open file can't be opened for writing or renamed by another process
IsHeldElsewhere(p, name) ==
    env.fs = "move" /\ Exists(name) /\ \E q \in Processes \ {p} : m_FileStream[q] = folder[name]

\* Also when the clock went back
IsRetryDue(lastFailure, now, delay) == now < lastFailure \/ now - lastFailure >= delay

----------------------------------------------------------------------------
(* Calls *)

NoCall == [op |-> "none", stamp |-> 0, reason |-> "none", label |-> 0, wasOpen |-> FALSE,
           isRotated |-> FALSE, backup |-> LogName("none"), attempts |-> 0,
           linked |-> NoFile, isNewPath |-> FALSE, after |-> "idle", then |-> "idle"]

\* On to the next step of a call, or back to the caller
Goto(p, step, locals) ==
    /\ pc' = [pc EXCEPT ![p] = step]
    /\ call' = [call EXCEPT ![p] = IF step = "idle" THEN NoCall ELSE locals]
Continue(p, step) == Goto(p, step, call[p])
Return(p) == Goto(p, "idle", NoCall)

\* Opens the file, or rotates it, and goes on at a step
OpenThen(p, step) == Goto(p, "open", [call[p] EXCEPT !.then = step])
RotateThen(p, reason, label, step, locals) ==
    Goto(p, "rotate", [locals EXCEPT !.reason = reason, !.label = label, !.after = step,
                                     !.attempts = 0, !.isRotated = FALSE])

\* CloseFileUnlocked()
CloseFile(p) ==
    /\ m_FileStream' = [m_FileStream EXCEPT ![p] = NoFile]
    /\ m_Size' = [m_Size EXCEPT ![p] = 0]

\* AfterEntryUnlocked()
AfterEntry(p) == IF IsAuto(p) THEN CloseFile(p) ELSE UNCHANGED <<m_FileStream, m_Size>>

\* WriteLineUnlocked(): a failed write is only reported.  The file stays open
\* unless isLast, when AfterEntryUnlocked() follows.
WriteLine(p, line, isLast) ==
    LET f == m_FileStream[p]
    IN  \/ /\ files' = [files EXCEPT ![f].lines = Append(@, line), ![f].written = clock]
           /\ IF isLast /\ IsAuto(p) THEN CloseFile(p)
              ELSE m_Size' = [m_Size EXCEPT ![p] = @ + 1] /\ UNCHANGED m_FileStream
        \/ /\ CanFail("write")
           /\ UNCHANGED files
           /\ IF isLast THEN AfterEntry(p) ELSE UNCHANGED <<m_FileStream, m_Size>>

\* A call of p, under its lock
Begin(p, op) ==
    /\ pc[p] = "idle" /\ op \in Ops[p] /\ calls[p] < MaxCalls[p]
    /\ calls' = [calls EXCEPT ![p] = @ + 1]
    /\ UNCHANGED <<diskVars, workVars, crashes>>

\* Stays within a call of p
At(p, step) ==
    /\ pc[p] = step
    /\ UNCHANGED <<clock, env, cleaned, m_Config, job, boundVars>>

\* Mutant: a log that was closed still counts as initialized
StaysInitialized(p) == UNCHANGED m_IsInitialized
NotInitialized(p) == m_IsInitialized' = [m_IsInitialized EXCEPT ![p] = FALSE]

\* Close() and CloseUnlocked()
Close(p) ==
    /\ Begin(p, "Close")
    /\ CloseFile(p) /\ NotInitialized(p)
    /\ UNCHANGED <<stateVars, openFailed, pc, call>>

\* Open()
Open(p) ==
    /\ Begin(p, "Open")
    /\ OpenThen(p, "idle")
    /\ UNCHANGED <<stateVars, streamVars>>

\* Write(): the entry is stamped before the call gets the lock or is queued
Write(p) ==
    /\ Begin(p, "Write")
    /\ \E stamp \in (clock - MaxWait)..clock :
          Goto(p, "ready", [NoCall EXCEPT !.stamp = stamp])
    /\ UNCHANGED <<stateVars, streamVars>>

RotateLogFiles(p) ==
    /\ Begin(p, "RotateLogFiles")
    /\ RotateThen(p, "manual", clock, "manual", NoCall)
    /\ UNCHANGED <<stateVars, streamVars>>

----------------------------------------------------------------------------
(* EnsureReadyUnlocked() and OpenUnlocked() *)

CanTryOpen(p) ==
    \/ IsAuto(p)
    \/ m_IsInitialized[p] /\ IsRetryDue(m_LastOpenFailure[p], clock, CircuitBreakerResetDelay)

\* EnsureReadyUnlocked(): an entry is dropped while the file can't be opened
EnsureReady(p) ==
    /\ At(p, "ready")
    /\ IF IsOpen(p) /\ m_IsInitialized[p] THEN Continue(p, "prepare")
       ELSE IF CanTryOpen(p) THEN OpenThen(p, "prepare")
       ELSE Return(p)
    /\ UNCHANGED <<folder, files, streamVars, stateVars, m_DeferredWork>>

\* Mutant: the line is kept until it was written
LineStaysPending(p) == UNCHANGED m_PendingContinuationLine
TakesPendingLine(p) ==
    m_PendingContinuationLine' = [m_PendingContinuationLine EXCEPT ![p] = Nothing]

OpenFound(p) ==
    /\ IsOpen(p)
    /\ UNCHANGED <<folder, files, m_FileStream, m_Size, openFailed>>

NewFile(p) ==
    [lines |-> <<>>, written |-> clock, isInitialized |-> m_IsInitialized[p] \/ call[p].then = "initialized"]
OpenFile(p) ==
    /\ ~IsOpen(p) /\ ~IsHeldElsewhere(p, Log(p))
    /\ IF Exists(Log(p)) THEN UNCHANGED <<folder, files>>
       ELSE /\ files' = Append(files, NewFile(p))
            /\ folder' = Linked(folder, Log(p), Len(files) + 1)
    /\ m_FileStream' = [m_FileStream EXCEPT ![p] = folder'[Log(p)]]
    /\ m_Size' = [m_Size EXCEPT ![p] = Len(files'[folder'[Log(p)]].lines)]
    /\ openFailed' = [openFailed EXCEPT ![p] = FALSE]

\* OpenUnlocked(), as far as WriteNewFileStartupLinesUnlocked()
OpenSucceeds(p) ==
    /\ At(p, "open")
    /\ OpenFound(p) \/ OpenFile(p)
    /\ m_IsInitialized' = [m_IsInitialized EXCEPT ![p] = TRUE]
    /\ m_LastLogDate' = IF m_LastLogDate[p] = NoDay /\ ~IsOpen(p)
                        THEN [m_LastLogDate EXCEPT ![p] = Today(p)] ELSE m_LastLogDate
    /\ Continue(p, IF ~IsOpen(p) /\ m_PendingContinuationLine[p] # Nothing
                   THEN "startup" ELSE call[p].then)
    /\ UNCHANGED <<m_LastOpenFailure, m_LastRotationFailure, m_PendingContinuationLine,
                   m_DeferredWork>>

OpenFails(p) ==
    /\ At(p, "open")
    /\ ~IsOpen(p) /\ (CanFail("open") \/ IsHeldElsewhere(p, Log(p)))
    /\ m_LastOpenFailure' = [m_LastOpenFailure EXCEPT ![p] = clock]
    /\ openFailed' = [openFailed EXCEPT ![p] = TRUE]
    /\ Goto(p, CASE call[p].then \in {"prepare", "close"} -> "idle"
                 [] call[p].then = "initialized" -> "reconfigured"
                 [] OTHER -> call[p].then,
            [call[p] EXCEPT !.isRotated = FALSE])
    /\ UNCHANGED <<folder, files, m_FileStream, m_Size, m_IsInitialized, m_LastLogDate,
                   m_LastRotationFailure, m_PendingContinuationLine, m_DeferredWork>>

\* WriteNewFileStartupLinesUnlocked(), the startup lines as one
WriteNewFileStartupLines(p) ==
    /\ At(p, "startup")
    /\ WriteLine(p, Startup(m_PendingContinuationLine[p]), FALSE)
    /\ TakesPendingLine(p)
    /\ Continue(p, call[p].then)
    /\ UNCHANGED <<folder, m_IsInitialized, openFailed, m_LastLogDate, m_LastOpenFailure,
                   m_LastRotationFailure, m_DeferredWork>>

----------------------------------------------------------------------------
(* PrepareWriteUnlocked() and the entry *)

EntryDay(p) == Day(call[p].stamp, m_Config[p].TimestampZone)

\* The day of a log last written before today
DayOfEarlierLog(config) ==
    LET log == LogName(config.FilePath)
        day(time) == Day(time, config.TimestampZone)
    IN  IF /\ Exists(log) /\ files[folder[log]].lines # <<>>
           /\ day(files[folder[log]].written) < day(clock)
        THEN day(files[folder[log]].written) ELSE NoDay

\* Mutant: the day need only differ
IsAnotherDay(p) == EntryDay(p) # m_LastLogDate[p]
IsNewDay(p) == EntryDay(p) > m_LastLogDate[p]

\* RotateDailyLogFromEarlierDayUnlocked()
RotateDailyLogFromEarlierDay(p, config, step, locals) ==
    IF DayOfEarlierLog(config) # NoDay
    THEN RotateThen(p, "daily", DayOfEarlierLog(config), step, locals)
    ELSE Goto(p, step, locals)

IsFull(p) ==
    /\ m_Config[p].EnableRotation /\ IsOpen(p) /\ m_Size[p] >= MaxFileSizeBytes
    /\ IsRetryDue(m_LastRotationFailure[p], call[p].stamp, RotationRetryDelay)

\* PrepareWriteUnlocked(): the day, then the size
CheckSize(p) ==
    IF IsFull(p) THEN RotateThen(p, "size", call[p].stamp, "write", call[p])
    ELSE Continue(p, "write")

PrepareWrite(p) ==
    /\ At(p, "prepare")
    /\ IF m_Config[p].EnableDailyRolling /\ IsNewDay(p)
       THEN IF IsAuto(p) THEN RotateDailyLogFromEarlierDay(p, m_Config[p], "rolled", call[p])
            ELSE RotateThen(p, "daily", m_LastLogDate[p], "rolled", call[p])
       ELSE CheckSize(p)
    /\ UNCHANGED <<folder, files, streamVars, stateVars, m_DeferredWork>>

RolledOver(p) ==
    /\ At(p, "rolled")
    /\ m_LastLogDate' = [m_LastLogDate EXCEPT ![p] = EntryDay(p)]
    /\ CheckSize(p)
    /\ UNCHANGED <<folder, files, streamVars, m_LastOpenFailure, m_LastRotationFailure,
                   m_PendingContinuationLine, m_DeferredWork>>

\* WriteLogEntry(), once prepared, and AfterEntryUnlocked()
WriteLogEntry(p) ==
    /\ At(p, "write")
    /\ IF IsOpen(p) THEN WriteLine(p, Entry(call[p].stamp, m_Config[p].EnableDailyRolling), TRUE)
       ELSE UNCHANGED <<files, m_FileStream, m_Size>>
    /\ Return(p)
    /\ UNCHANGED <<folder, m_IsInitialized, openFailed, stateVars, m_DeferredWork>>

----------------------------------------------------------------------------
(* RotateLogFilesUnlocked() *)

\* Ends the rename: on to the new file, or back to the old one
RotationFails(p) ==
    /\ m_LastRotationFailure' = [m_LastRotationFailure EXCEPT ![p] = clock]
    /\ IF call[p].wasOpen THEN OpenThen(p, call[p].after)
       ELSE Continue(p, call[p].after)
    /\ UNCHANGED <<m_PendingContinuationLine, m_DeferredWork>>

\* Renamed, or nothing to rename: on to the new file, and the cleanup later
Rotated(p, locals) ==
    /\ m_DeferredWork' = [m_DeferredWork EXCEPT ![p] = Append(@, m_Config[p])]
    /\ Goto(p, IF locals.wasOpen THEN "open" ELSE locals.after,
            [locals EXCEPT !.isRotated = TRUE, !.then = locals.after])
    /\ UNCHANGED m_LastRotationFailure

Renamed(p, file) ==
    /\ Rotated(p, call[p])
    /\ m_PendingContinuationLine' =
          IF m_Config[p].WriteStartupLinesInNewFiles
          THEN [m_PendingContinuationLine EXCEPT ![p] = file] ELSE m_PendingContinuationLine

\* A step of the rename leaves the streams and the days alone
InRotation(p, step) ==
    /\ At(p, step)
    /\ UNCHANGED <<files, m_IsInitialized, openFailed, m_LastLogDate, m_LastOpenFailure>>

\* Closes the file and sees whether there is one to rename
BeginRotation(p) ==
    LET locals == [call[p] EXCEPT !.wasOpen = IsOpen(p)]
    IN  /\ InRotation(p, "rotate")
        /\ CloseFile(p)
        /\ IF Exists(Log(p))
           THEN Goto(p, "find", locals) /\ UNCHANGED <<m_DeferredWork, m_LastRotationFailure>>
           ELSE Rotated(p, locals)
        /\ UNCHANGED <<folder, m_PendingContinuationLine>>

Candidate(p, suffix) == BackupName(Path(p), call[p].reason, call[p].label, suffix)
FreeSuffixes(p) == {suffix \in 0..MaxBackupNameSuffix : ~Exists(Candidate(p, suffix))}

\* FindFreeBackupPath(), the first name that is not taken
FindFreeBackupPath(p) ==
    /\ InRotation(p, "find")
    /\ IF FreeSuffixes(p) = {} THEN RotationFails(p)
       ELSE /\ \E suffix \in FreeSuffixes(p) :
                  /\ \A other \in FreeSuffixes(p) : suffix <= other
                  /\ Goto(p, "rename", [call[p] EXCEPT !.backup = Candidate(p, suffix),
                                                       !.attempts = @ + 1])
            /\ UNCHANGED <<m_LastRotationFailure, m_PendingContinuationLine, m_DeferredWork>>
    /\ UNCHANGED <<folder, m_FileStream, m_Size>>

\* The name was taken meanwhile
NameIsTaken(p) ==
    IF call[p].attempts < MaxBackupRenameAttempts
    THEN /\ Continue(p, "find")
         /\ UNCHANGED <<m_LastRotationFailure, m_PendingContinuationLine, m_DeferredWork>>
    ELSE RotationFails(p)

CanRename(p) == Exists(Log(p)) /\ ~IsHeldElsewhere(p, Log(p))

\* Mutant: replaces a backup made meanwhile
MovesOver(p) == TRUE
IsNameFree(p) == ~Exists(call[p].backup)

\* RenameWithoutReplacing(): Windows' MoveFileEx(), one step
MoveFile(p) ==
    /\ env.fs = "move" /\ CanRename(p) /\ IsNameFree(p)
    /\ folder' = Linked(Unlinked(folder, Log(p)), call[p].backup, folder[Log(p)])
    /\ Renamed(p, folder[Log(p)])

\* POSIX: link(), then unlink()
LinkFile(p) ==
    /\ env.fs = "links" /\ Exists(Log(p)) /\ IsNameFree(p)
    /\ folder' = Linked(folder, call[p].backup, folder[Log(p)])
    /\ Goto(p, "unlink", [call[p] EXCEPT !.linked = folder[Log(p)]])
    /\ UNCHANGED <<m_LastRotationFailure, m_PendingContinuationLine, m_DeferredWork>>

\* Without hard links: checks, then renames
CheckName(p) ==
    /\ env.fs = "nolinks" /\ IsNameFree(p)
    /\ Continue(p, "replace")
    /\ UNCHANGED <<folder, call, m_LastRotationFailure, m_PendingContinuationLine, m_DeferredWork>>

RenameWithoutReplacing(p) ==
    /\ InRotation(p, "rename")
    /\ \/ MoveFile(p)
       \/ LinkFile(p)
       \/ CheckName(p)
       \/ ~IsNameFree(p) /\ NameIsTaken(p) /\ UNCHANGED folder
       \/ (CanFail("rename") \/ ~CanRename(p)) /\ RotationFails(p) /\ UNCHANGED folder
    /\ UNCHANGED <<m_FileStream, m_Size>>

\* Mutant: undoes the link also then
RemovesBothNames(p) == folder' = Unlinked(Unlinked(folder, Log(p)), call[p].backup)
RemovesOldName(p) == folder' = Unlinked(folder, Log(p))

\* Removes the old name, or undoes the link
UnlinkLog(p) ==
    /\ InRotation(p, "unlink") /\ env.fs = "links"
    /\ \/ /\ Exists(Log(p))
          /\ RemovesOldName(p)
          /\ Renamed(p, call[p].linked)
       \/ /\ ~Exists(Log(p)) \/ CanFail("unlink")
          /\ folder' = Unlinked(folder, call[p].backup)
          /\ RotationFails(p)
    /\ UNCHANGED <<m_FileStream, m_Size>>

ReplaceFile(p) ==
    /\ InRotation(p, "replace") /\ env.fs = "nolinks"
    /\ \/ /\ Exists(Log(p))
          /\ folder' = Linked(Unlinked(folder, Log(p)), call[p].backup, folder[Log(p)])
          /\ Renamed(p, folder[Log(p)])
       \/ /\ ~Exists(Log(p)) \/ CanFail("rename")
          /\ RotationFails(p) /\ UNCHANGED folder
    /\ UNCHANGED <<m_FileStream, m_Size>>

\* The rest of RotateLogFiles(): a file closed between entries is opened for
\* its startup lines now
FinishRotateLogFiles(p) ==
    /\ At(p, "manual")
    /\ IF /\ call[p].isRotated /\ m_PendingContinuationLine[p] # Nothing
          /\ m_IsInitialized[p] /\ CanTryOpen(p)
       THEN OpenThen(p, "close")
       ELSE Return(p)
    /\ UNCHANGED <<folder, files, streamVars, stateVars, m_DeferredWork>>

CloseAfterLines(p) ==
    /\ At(p, "close")
    /\ AfterEntry(p)
    /\ Return(p)
    /\ UNCHANGED <<folder, files, m_IsInitialized, openFailed, stateVars, m_DeferredWork>>

----------------------------------------------------------------------------
(* Initialize() and Reconfigure() *)

\* InitializeUnlocked(), as far as the rollover of a file from an earlier day
BeginInitialize(p, config, locals) ==
    /\ m_Config' = [m_Config EXCEPT ![p] = config]
    /\ IF config.EnableDailyRolling
       THEN RotateDailyLogFromEarlierDay(p, config, "initialize", locals)
       ELSE Goto(p, "initialize", locals)

Initialize(p, config) ==
    /\ Begin(p, "Initialize") /\ ~m_IsInitialized[p]
    /\ BeginInitialize(p, config, [NoCall EXCEPT !.op = "Initialize"])
    /\ UNCHANGED <<streamVars, m_LastLogDate, m_LastOpenFailure, m_LastRotationFailure,
                   m_PendingContinuationLine>>

DayInNewZone(p, config) ==
    m_LastLogDate' = IF config.TimestampZone = m_Config[p].TimestampZone THEN m_LastLogDate
                     ELSE [m_LastLogDate EXCEPT ![p] = Day(clock, config.TimestampZone)]

KeepsFile(p, config) ==
    /\ config.FilePath = Path(p)
    /\ config.AutoOpenClosePerWrite = IsAuto(p)

\* Reconfigure() and ReconfigureUnlocked() when the file stays
ReconfigureFile(p, config) ==
    /\ Begin(p, "Reconfigure") /\ m_IsInitialized[p] /\ KeepsFile(p, config)
    /\ m_Config' = [m_Config EXCEPT ![p] = config]
    /\ DayInNewZone(p, config)
    /\ UNCHANGED <<streamVars, m_LastOpenFailure, m_LastRotationFailure,
                   m_PendingContinuationLine, pc, call>>

\* and when another file is begun
ReconfigurePath(p, config) ==
    /\ Begin(p, "Reconfigure") /\ m_IsInitialized[p] /\ ~KeepsFile(p, config)
    /\ CloseFile(p)
    /\ BeginInitialize(p, config, [NoCall EXCEPT
           !.op = "Reconfigure", !.isNewPath = (config.FilePath # Path(p))])
    /\ UNCHANGED <<m_IsInitialized, openFailed, m_LastLogDate, m_LastOpenFailure,
                   m_LastRotationFailure, m_PendingContinuationLine>>

\* InitializeUnlocked(): its callers write the line themselves
InitializeOpens(p) ==
    /\ At(p, "initialize")
    /\ m_PendingContinuationLine' = [m_PendingContinuationLine EXCEPT ![p] = Nothing]
    /\ OpenThen(p, "initialized")
    /\ UNCHANGED <<folder, files, streamVars, m_LastLogDate, m_LastOpenFailure,
                   m_LastRotationFailure, m_DeferredWork>>

\* The end of InitializeUnlocked(), and Initialize()'s startup lines
FinishInitialize(p) ==
    /\ At(p, "initialized")
    /\ m_LastLogDate' = [m_LastLogDate EXCEPT ![p] = Today(p)]
    /\ IF call[p].op = "Initialize"
       THEN WriteLine(p, Startup(Nothing), TRUE) /\ Return(p)
       ELSE Continue(p, "reconfigured") /\ UNCHANGED <<files, m_FileStream, m_Size>>
    /\ UNCHANGED <<folder, m_IsInitialized, openFailed, m_LastOpenFailure, m_LastRotationFailure,
                   m_PendingContinuationLine, m_DeferredWork>>

\* The end of ReconfigureUnlocked(), with or without the file
FinishReconfigure(p) ==
    LET continues == call[p].op = "Reconfigure" /\ call[p].isNewPath
                       /\ m_Config[p].WriteStartupLinesInNewFiles
    IN  /\ At(p, "reconfigured")
        /\ IF continues /\ IsOpen(p) THEN WriteLine(p, Startup(OldPath), TRUE)
           ELSE AfterEntry(p) /\ UNCHANGED files
        /\ IF continues /\ ~IsOpen(p)
           THEN m_PendingContinuationLine' = [m_PendingContinuationLine EXCEPT ![p] = OldPath]
           ELSE UNCHANGED m_PendingContinuationLine
        /\ Return(p)
        /\ UNCHANGED <<folder, m_IsInitialized, openFailed, m_LastLogDate, m_LastOpenFailure,
                       m_LastRotationFailure, m_DeferredWork>>

----------------------------------------------------------------------------
(* DeleteOldBackups(), deferred work that runs without the lock *)

NoJob == [step |-> "idle", process |-> "none", config |-> DefaultConfig, doomed |-> {}]

HasRules(rules) == rules.MaxAge > 0 \/ rules.MaxFiles > 0 \/ rules.MaxBytes > 0

Written(name) == files[folder[name]].written

\* The order of the names' text: the reason, the time label, "_1", "_2", ...
ReasonOrder == [daily |-> 1, manual |-> 2, size |-> 3]
NameIsLater(a, b) ==
    \/ ReasonOrder[a.reason] > ReasonOrder[b.reason]
    \/ a.reason = b.reason /\ a.label > b.label
    \/ a.reason = b.reason /\ a.label = b.label /\ a.suffix > b.suffix

\* Mutant: by name alone
IsLaterName(a, b) == NameIsLater(a, b)

\* ListBackups() sorts the newest first
IsNewer(a, b) == Written(a) > Written(b) \/ (Written(a) = Written(b) /\ NameIsLater(a, b))

Bytes(names) ==
    LET sum[set \in SUBSET names] ==
          IF set = {} THEN 0
          ELSE LET name == CHOOSE n \in set : TRUE
               IN  Len(files[folder[name]].lines) + sum[set \ {name}]
    IN  sum[names]

FitsCount(count, max) == max = 0 \/ count < max

\* A backup goes if it is too old, or those newer than it fill a limit
IsDoomed(name, listed, rules) ==
    LET newer == {other \in listed : IsNewer(other, name)}
    IN  \/ rules.MaxAge > 0 /\ Written(name) < clock - rules.MaxAge
        \/ ~FitsCount(Cardinality(newer), rules.MaxFiles)
        \/ rules.MaxBytes > 0 /\ Bytes(newer \cup {name}) > rules.MaxBytes

InJob(c, step) ==
    /\ job[c].step = step
    /\ UNCHANGED <<clock, env, files, streamVars, stateVars, pc, call, boundVars>>

\* RunDeferredWork(): any thread may take it, once the lock is free
TakeDeferredWork(c, p) ==
    /\ InJob(c, "idle") /\ pc[p] = "idle" /\ m_DeferredWork[p] # <<>>
    /\ job' = [job EXCEPT ![c] = IF HasRules(Head(m_DeferredWork[p]).Cleanup)
          THEN [step |-> "list", process |-> p, config |-> Head(m_DeferredWork[p]), doomed |-> {}]
          ELSE NoJob]
    /\ m_DeferredWork' = [m_DeferredWork EXCEPT ![p] = Tail(@)]
    /\ UNCHANGED <<folder, cleaned>>

Deleting(c, doomed) ==
    job' = [job EXCEPT ![c] = IF doomed = {} THEN NoJob
                              ELSE [@ EXCEPT !.step = "delete", !.doomed = doomed]]

ListBackups(c) ==
    LET config == job[c].config
        listed == Backups(config.FilePath)
    IN  /\ InJob(c, "list")
        /\ \/ Deleting(c, {name \in listed : IsDoomed(name, listed, config.Cleanup)})
           \/ CanFail("list") /\ Deleting(c, {})
        /\ UNCHANGED <<folder, cleaned, m_DeferredWork>>

\* One another process deleted meanwhile is skipped
DeleteBackup(c) ==
    /\ InJob(c, "delete")
    /\ \E name \in job[c].doomed :
          /\ Deleting(c, job[c].doomed \ {name})
          /\ \/ /\ Exists(name)
                /\ folder' = Unlinked(folder, name)
                /\ cleaned' = cleaned \cup {folder[name]}
             \/ /\ ~Exists(name) \/ CanFail("delete")
                /\ UNCHANGED <<folder, cleaned>>
    /\ UNCHANGED m_DeferredWork

----------------------------------------------------------------------------
(* Time and crashes *)

Tick ==
    /\ clock < MaxTime
    /\ clock' = clock + 1
    /\ UNCHANGED <<env, folder, files, cleaned, streamVars, stateVars, workVars, pc, call, boundVars>>

\* The process ends anywhere and starts again: its file is closed, and a
\* logger just constructed takes its place
Crash(p) ==
    /\ crashes < MaxCrashes /\ crashes' = crashes + 1
    /\ CloseFile(p)
    /\ m_IsInitialized' = [m_IsInitialized EXCEPT ![p] = FALSE]
    /\ openFailed' = [openFailed EXCEPT ![p] = FALSE]
    /\ m_Config' = [m_Config EXCEPT ![p] = DefaultConfig]
    /\ m_LastLogDate' = [m_LastLogDate EXCEPT ![p] = NoDay]
    /\ m_LastOpenFailure' = [m_LastOpenFailure EXCEPT ![p] = Never]
    /\ m_LastRotationFailure' = [m_LastRotationFailure EXCEPT ![p] = Never]
    /\ m_PendingContinuationLine' = [m_PendingContinuationLine EXCEPT ![p] = Nothing]
    /\ m_DeferredWork' = [m_DeferredWork EXCEPT ![p] = <<>>]
    /\ job' = [c \in Cleaners |-> IF job[c].process = p THEN NoJob ELSE job[c]]
    /\ Return(p)
    /\ UNCHANGED <<diskVars, calls>>

Init ==
    /\ clock = StartTime /\ env \in Environments
    /\ folder = [name \in {} |-> NoFile] /\ files = <<>> /\ cleaned = {}
    /\ m_Config = [p \in Processes |-> DefaultConfig]
    /\ m_IsInitialized = [p \in Processes |-> FALSE]
    /\ m_FileStream = [p \in Processes |-> NoFile]
    /\ m_Size = [p \in Processes |-> 0]
    /\ m_LastLogDate = [p \in Processes |-> NoDay]
    /\ m_LastOpenFailure = [p \in Processes |-> Never]
    /\ m_LastRotationFailure = [p \in Processes |-> Never]
    /\ m_PendingContinuationLine = [p \in Processes |-> Nothing]
    /\ m_DeferredWork = [p \in Processes |-> <<>>]
    /\ job = [c \in Cleaners |-> NoJob]
    /\ pc = [p \in Processes |-> "idle"]
    /\ call = [p \in Processes |-> NoCall]
    /\ calls = [p \in Processes |-> 0] /\ crashes = 0
    /\ openFailed = [p \in Processes |-> FALSE]

CallStep(p) ==
    \/ Close(p) \/ Open(p) \/ Write(p) \/ RotateLogFiles(p)
    \/ \E config \in Configs :
          Initialize(p, config) \/ ReconfigureFile(p, config) \/ ReconfigurePath(p, config)

OpenStep(p) ==
    EnsureReady(p) \/ OpenSucceeds(p) \/ OpenFails(p) \/ WriteNewFileStartupLines(p)

WriteStep(p) ==
    PrepareWrite(p) \/ RolledOver(p) \/ WriteLogEntry(p)

RotationStep(p) ==
    \/ BeginRotation(p) \/ FindFreeBackupPath(p) \/ RenameWithoutReplacing(p)
    \/ UnlinkLog(p) \/ ReplaceFile(p) \/ FinishRotateLogFiles(p) \/ CloseAfterLines(p)

ConfigStep(p) == InitializeOpens(p) \/ FinishInitialize(p) \/ FinishReconfigure(p)

CleanupStep(c) ==
    (\E p \in Processes : TakeDeferredWork(c, p)) \/ ListBackups(c) \/ DeleteBackup(c)

Next ==
    \/ \E p \in Processes :
          CallStep(p) \/ OpenStep(p) \/ WriteStep(p) \/ RotationStep(p) \/ ConfigStep(p) \/ Crash(p)
    \/ \E c \in Cleaners : CleanupStep(c)
    \/ Tick

Spec == Init /\ [][Next]_vars

----------------------------------------------------------------------------
(* Properties *)

\* A backup stays the file it was made of until it is deleted, whatever other
\* processes that share the log do ("so an existing backup is never
\* replaced", FindFreeBackupPath() and RenameWithoutReplacing()).
BackupsAreNotReplaced ==
    [][\A name \in DOMAIN folder \cap DOMAIN folder' :
          IsBackup(name) => folder'[name] = folder[name]]_vars

\* A file with lines in it has a name until a cleanup deletes it: rotation,
\* failed or not, loses no line ("Several processes can share one log file",
\* docs/Guarantees.md:25).
LinesAreKept ==
    \A f \in 1..Len(files) :
        files[f].lines # <<>> => f \in cleaned \/ \E name \in DOMAIN folder : folder[name] = f

IsAlone == \A p, q \in Processes : calls[p] > 0 /\ calls[q] > 0 => p = q

\* Where a rename is one step, also when processes share the log
MoveKeepsLines == env.fs = "move" => LinesAreKept

\* Rotation loses no line, whatever step of it fails and wherever a crash cuts
\* it off, when one process writes the log, or processes share it where a
\* rename is one step (RotateUnlocked(), RenameWithoutReplacing()).
RotationKeepsLines == MoveKeepsLines /\ (IsAlone => LinesAreKept)

Lines(f) == {files[f].lines[i] : i \in 1..Len(files[f].lines)}
\* By the days of one zone, that of a logger not yet configured included: Open()
\* before Initialize() dates the log by it
EndInTime(lines, day) ==
    \E config \in Configs \cup {DefaultConfig} : \A line \in lines : Day(line.stamp, config.TimestampZone) <= day

\* An entry of a later day is never in a daily backup (PrepareWriteUnlocked(),
\* "Name the backup for the day its content is from"), if it was written with
\* daily rolling on.  A crash between link() and unlink() leaves the log a
\* second name, under which it grows on; so does an entry of another process
\* that had the log open as it was renamed.
DailyBackupsEndInTime ==
    IsAlone /\ ~(env.fs = "links" /\ crashes > 0) =>
        \A name \in DOMAIN folder : name.reason = "daily" =>
            EndInTime({line \in Lines(folder[name]) : line.isDaily}, name.label)

\* Every config has startup lines in new files, and none changes only
\* AutoOpenClosePerWrite: such a Reconfigure() drops a continuation line
KeepsStartupLines ==
    /\ \A config \in Configs \cup {DefaultConfig} : config.WriteStartupLinesInNewFiles
    /\ \A from \in Configs \cup {DefaultConfig}, to \in Configs :
          from.FilePath = to.FilePath => from.AutoOpenClosePerWrite = to.AutoOpenClosePerWrite

\* A file begun by an initialized logger after a rotation starts with the
\* startup lines
NewFilesStartWithStartupLines ==
    IsAlone /\ crashes = 0 /\ ~CanFail("write") /\ KeepsStartupLines =>
        \A path \in {config.FilePath : config \in Configs \cup {DefaultConfig}} :
            LET f == folder[LogName(path)]
            IN  /\ Exists(LogName(path)) /\ files[f].isInitialized /\ files[f].lines # <<>>
                /\ \E name \in Backups(path) : folder[name] < f
                => files[f].lines[1].kind = "startup"

\* No two continuation lines name the same backup
BackupsAreContinuedOnce ==
    IsAlone \/ env.fs = "move" => \A f, g \in 1..Len(files) :
        \A i \in 1..Len(files[f].lines), j \in 1..Len(files[g].lines) :
            files[f].lines[i].from = files[g].lines[j].from /\ files[f].lines[i].from > 0
                => f = g /\ i = j

\* A file begun after a rotation starts with the startup lines, also when it
\* could only be opened later, and they name each backup once
\* (WriteNewFileStartupLinesUnlocked()); lines that could not be written are
\* lost ("written once even if they fail"), and so are those of a process that
\* crashes first; another process that shares the log may write first.
NewFilesContinueBackups == NewFilesStartWithStartupLines /\ BackupsAreContinuedOnce

\* Between calls, the file of an initialized logger is closed only if it
\* could not be opened ("Initialized but closed only happens when the file
\* couldn't be reopened", EnsureReadyUnlocked()).
ClosedOnlyByFailure ==
    \A p \in Processes :
        pc[p] = "idle" /\ m_IsInitialized[p] /\ ~IsAuto(p) => IsOpen(p) \/ openFailed[p]

\* What a cleanup deletes is not one of the newest backups.  It may be where
\* unlink() fails: a link that is then undone counts as the newest.
DeletesOldOnly(c) ==
    ~CanFail("unlink") => \A name \in DOMAIN folder \ DOMAIN folder' :
        LET rules == job[c].config.Cleanup
            newer == {other \in Backups(name.path) \ {name} : Written(other) >= Written(name)}
        IN  name \in job[c].doomed /\ job'[c].doomed # job[c].doomed
            /\ rules.MaxAge = 0 /\ rules.MaxBytes = 0 =>
              Cardinality(newer) >= rules.MaxFiles

\* When the last cleanup ends, no more backups are left than it allows, unless a
\* cleanup failed or a crash cut one off
DeletesEnough(c) ==
    LET config == job[c].config
    IN  /\ job[c].step # "idle" /\ (\A d \in Cleaners : job'[d].step = "idle")
        /\ \A p \in Processes : pc[p] = "idle" /\ m_DeferredWork[p] = <<>>
        /\ crashes' = 0 /\ ~CanFail("list") /\ ~CanFail("delete")
        /\ config.Cleanup.MaxFiles > 0
        => Cardinality(Backups(config.FilePath)') <= config.Cleanup.MaxFiles

\* A cleanup never deletes one of the newest MaxBackupFiles backups, by what
\* is there when it deletes, though rotations go on meanwhile; when the last one
\* ends no more are left than the rules of its rotation allow, those made
\* since it listed them included (DeleteOldBackups()).
NewestBackupsStay == [][\A c \in Cleaners : DeletesOldOnly(c) /\ DeletesEnough(c)]_vars
=============================================================================
