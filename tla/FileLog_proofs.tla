--------------------------- MODULE FileLog_proofs ---------------------------
(***************************************************************************)
(* What holds of the file logger for any processes that share the log, any *)
(* configs, failures and bounds.                                           *)
(***************************************************************************)
EXTENDS FileLog, SequenceTheorems, WellFoundedInduction, TLAPS

\* A rename that replaces no file is one step, or a link() that fails if the
\* name is taken
RenamesSafely == \A e \in Environments : e.fs # "nolinks"

\* What a step may do to the folder: nothing, give a file a name no file has,
\* or the log's, or take names away
NotReplaced(names, newNames) ==
    \A name \in DOMAIN names \cap DOMAIN newNames :
        IsBackup(name) => newNames[name] = names[name]

----------------------------------------------------------------------------
(* Names *)

LEMMA LogIsNoBackup == \A path : ~IsBackup(LogName(path))
  BY DEF IsBackup, LogName

LEMMA LinkedNotReplaced ==
  ASSUME NEW names, NEW to, NEW file, ~IsBackup(to) \/ to \notin DOMAIN names
  PROVE  NotReplaced(names, Linked(names, to, file))
  BY DEF NotReplaced, Linked

LEMMA UnlinkedNotReplaced ==
  ASSUME NEW names, NEW from
  PROVE  NotReplaced(names, Unlinked(names, from))
  BY DEF NotReplaced, Unlinked

\* A rename to a name that is free
LEMMA MovedNotReplaced ==
  ASSUME NEW names, NEW from, NEW to, NEW file, to \notin DOMAIN names
  PROVE  NotReplaced(names, Linked(Unlinked(names, from), to, file))
  BY DEF NotReplaced, Linked, Unlinked

LEMMA SameNotReplaced == ASSUME NEW names PROVE NotReplaced(names, names)
  BY DEF NotReplaced

----------------------------------------------------------------------------
(* The steps *)

\* The environment stays what it is
LEMMA EnvironmentStays == Spec => [](env \in Environments)
  <1>1. Init => env \in Environments
    BY DEF Init
  <1>2. env \in Environments /\ [Next]_vars => (env \in Environments)'
    <2>1. UNCHANGED vars => env' = env
      BY DEF vars, diskVars
    <2>2. ASSUME NEW p \in Processes, CallStep(p) PROVE env' = env
      BY <2>2 DEF CallStep, Close, Open, Write, RotateLogFiles, Initialize, ReconfigureFile,
                  ReconfigurePath, Begin, diskVars
    <2>3. ASSUME NEW p \in Processes, OpenStep(p) PROVE env' = env
      BY <2>3 DEF OpenStep, EnsureReady, OpenSucceeds, OpenFails, WriteNewFileStartupLines, At
    <2>4. ASSUME NEW p \in Processes, WriteStep(p) PROVE env' = env
      BY <2>4 DEF WriteStep, PrepareWrite, RolledOver, WriteLogEntry, At
    <2>5. ASSUME NEW p \in Processes, RotationStep(p) PROVE env' = env
      BY <2>5 DEF RotationStep, BeginRotation, FindFreeBackupPath, RenameWithoutReplacing,
                  UnlinkLog, ReplaceFile, FinishRotateLogFiles, CloseAfterLines, InRotation, At
    <2>6. ASSUME NEW p \in Processes, ConfigStep(p) PROVE env' = env
      BY <2>6 DEF ConfigStep, InitializeOpens, FinishInitialize, FinishReconfigure, At
    <2>7. ASSUME NEW p \in Processes, Crash(p) PROVE env' = env
      BY <2>7 DEF Crash, diskVars
    <2>8. ASSUME NEW c \in Cleaners, CleanupStep(c) PROVE env' = env
      BY <2>8 DEF CleanupStep, TakeDeferredWork, ListBackups, DeleteBackup, InJob
    <2>9. Tick => env' = env
      BY DEF Tick
    <2> QED BY <2>1, <2>2, <2>3, <2>4, <2>5, <2>6, <2>7, <2>8, <2>9 DEF Next
  <1> QED BY <1>1, <1>2, PTL DEF Spec

\* The log's own name is the only one a file is opened under
LEMMA OpeningReplacesNone ==
  ASSUME NEW p \in Processes, OpenStep(p)
  PROVE  NotReplaced(folder, folder')
  <1>1. CASE folder' = folder
    BY <1>1, SameNotReplaced
  <1>2. CASE \E file : folder' = Linked(folder, Log(p), file)
    BY <1>2, LinkedNotReplaced, LogIsNoBackup DEF Log
  <1>3. folder' = folder \/ \E file : folder' = Linked(folder, Log(p), file)
    BY DEF OpenStep, EnsureReady, OpenSucceeds, OpenFound, OpenFile, OpenFails,
           WriteNewFileStartupLines, WriteLine
  <1> QED BY <1>1, <1>2, <1>3

\* A rotation takes a name only while it is free
LEMMA RotationReplacesNone ==
  ASSUME RenamesSafely, env \in Environments, NEW p \in Processes, RotationStep(p)
  PROVE  NotReplaced(folder, folder')
  <1>1. CASE BeginRotation(p) \/ FindFreeBackupPath(p) \/ FinishRotateLogFiles(p)
             \/ CloseAfterLines(p)
    <2>1. folder' = folder
      BY <1>1 DEF BeginRotation, FindFreeBackupPath, FinishRotateLogFiles, CloseAfterLines
    <2> QED BY <2>1, SameNotReplaced
  <1>2. CASE RenameWithoutReplacing(p)
    <2>1. CASE MoveFile(p)
      BY <2>1, MovedNotReplaced DEF MoveFile, IsNameFree, Exists
    <2>2. CASE LinkFile(p)
      BY <2>2, LinkedNotReplaced DEF LinkFile, IsNameFree, Exists
    <2>3. CASE folder' = folder
      BY <2>3, SameNotReplaced
    <2> QED BY <1>2, <2>1, <2>2, <2>3 DEF RenameWithoutReplacing, CheckName
  <1>3. CASE UnlinkLog(p)
    BY <1>3, UnlinkedNotReplaced DEF UnlinkLog, RemovesOldName
  <1>4. ~ReplaceFile(p)
    BY DEF RenamesSafely, ReplaceFile
  <1> QED BY <1>1, <1>2, <1>3, <1>4 DEF RotationStep

\* A cleanup only takes names away
LEMMA CleanupReplacesNone ==
  ASSUME NEW c \in Cleaners, CleanupStep(c)
  PROVE  NotReplaced(folder, folder')
  <1>1. CASE folder' = folder
    BY <1>1, SameNotReplaced
  <1>2. CASE \E name : folder' = Unlinked(folder, name)
    BY <1>2, UnlinkedNotReplaced
  <1>3. folder' = folder \/ \E name : folder' = Unlinked(folder, name)
    BY DEF CleanupStep, TakeDeferredWork, ListBackups, DeleteBackup
  <1> QED BY <1>1, <1>2, <1>3

----------------------------------------------------------------------------
(* No backup is ever replaced, however many processes share the log and      *)
(* whenever they rotate it, fail or crash, where the file system has a       *)
(* rename that fails if the name is taken (RenameWithoutReplacing()).        *)
THEOREM BackupsStay ==
  ASSUME RenamesSafely
  PROVE  Spec => BackupsAreNotReplaced
  <1>1. env \in Environments /\ [Next]_vars =>
          [\A name \in DOMAIN folder \cap DOMAIN folder' :
              IsBackup(name) => folder'[name] = folder[name]]_vars
    <2> SUFFICES ASSUME env \in Environments, Next
                 PROVE  NotReplaced(folder, folder')
      BY DEF NotReplaced
    <2>1. ASSUME NEW p \in Processes, CallStep(p) PROVE folder' = folder
      BY <2>1 DEF CallStep, Close, Open, Write, RotateLogFiles, Initialize, ReconfigureFile,
                  ReconfigurePath, Begin, diskVars
    <2>2. ASSUME NEW p \in Processes, WriteStep(p) PROVE folder' = folder
      BY <2>2 DEF WriteStep, PrepareWrite, RolledOver, WriteLogEntry
    <2>3. ASSUME NEW p \in Processes, ConfigStep(p) PROVE folder' = folder
      BY <2>3 DEF ConfigStep, InitializeOpens, FinishInitialize, FinishReconfigure
    <2>4. ASSUME NEW p \in Processes, Crash(p) PROVE folder' = folder
      BY <2>4 DEF Crash, diskVars
    <2>5. Tick => folder' = folder
      BY DEF Tick
    <2> QED
      BY <2>1, <2>2, <2>3, <2>4, <2>5, SameNotReplaced, OpeningReplacesNone,
         RotationReplacesNone, CleanupReplacesNone DEF Next
  <1> QED BY <1>1, EnvironmentStays, PTL DEF Spec, BackupsAreNotReplaced

----------------------------------------------------------------------------
(* Where a rename is one step, every file made has a name until a cleanup    *)
(* deletes it.                                                               *)

HasName(f, names, deleted) == f \in deleted \/ \E name \in DOMAIN names : names[name] = f

NamedInv ==
    /\ \E S : files \in Seq(S)
    /\ env.fs = "move" => \A f \in 1..Len(files) : HasName(f, folder, cleaned)

\* A step that makes no file and takes no name
LEMMA NamesStay ==
  ASSUME NamedInv, UNCHANGED <<env, folder, cleaned>>,
         \/ files' = files
         \/ \E f, content : files' = [files EXCEPT ![f] = content]
  PROVE  NamedInv'
  <1>1. (\E S : files' \in Seq(S)) /\ Len(files') = Len(files)
    <2>1. PICK S : files \in Seq(S)
      BY DEF NamedInv
    <2>2. CASE files' = files
      BY <2>1, <2>2
    <2>3. ASSUME NEW f, NEW content, files' = [files EXCEPT ![f] = content]
          PROVE  (\E T : files' \in Seq(T)) /\ Len(files') = Len(files)
      <3>1. files \in [1..Len(files) -> S \cup {content}] /\ Len(files) \in Nat
        BY <2>1
      <3>2. files' \in [1..Len(files) -> S \cup {content}]
        BY <2>3, <3>1
      <3>3. files' \in Seq(S \cup {content}) /\ Len(files') = Len(files)
        BY <3>1, <3>2
      <3> QED BY <3>3
    <2> QED BY <2>2, <2>3
  <1> QED BY <1>1 DEF NamedInv, HasName

LEMMA WritingKeepsNames ==
  ASSUME NEW p, NEW line, NEW isLast, WriteLine(p, line, isLast)
  PROVE  \/ files' = files
         \/ \E f, content : files' = [files EXCEPT ![f] = content]
  <1>1. PICK f : f = m_FileStream[p]
    OBVIOUS
  <1>2. CASE files' = [files EXCEPT ![f].lines = Append(@, line), ![f].written = clock]
    <2>1. PICK content : content = [files[f] EXCEPT !.lines = Append(@, line), !.written = clock]
      OBVIOUS
    <2>2. files' = [files EXCEPT ![f] = content]
      BY <1>2, <2>1
    <2> QED BY <2>2
  <1> QED BY <1>1, <1>2 DEF WriteLine

\* A file just made has the log's name, which no file had
LEMMA OpeningKeepsNames ==
  ASSUME NEW p \in Processes, NamedInv, OpenStep(p)
  PROVE  NamedInv'
  <1>1. CASE EnsureReady(p) \/ OpenFails(p)
    BY <1>1, NamesStay DEF EnsureReady, OpenFails, At
  <1>2. CASE WriteNewFileStartupLines(p)
    BY <1>2, NamesStay, WritingKeepsNames DEF WriteNewFileStartupLines, At
  <1>3. CASE OpenSucceeds(p)
    <2>1. CASE UNCHANGED <<folder, files>>
      BY <1>3, <2>1, NamesStay DEF OpenSucceeds, At
    <2>2. CASE /\ ~Exists(Log(p))
               /\ \E content : files' = Append(files, content)
               /\ folder' = Linked(folder, Log(p), Len(files) + 1)
      <3>1. PICK content : files' = Append(files, content)
        BY <2>2
      <3>2. PICK S : files \in Seq(S)
        BY DEF NamedInv
      <3>3. files' \in Seq(S \cup {content}) /\ Len(files') = Len(files) + 1
            /\ Len(files) \in Nat
        BY <3>1, <3>2
      <3>4. UNCHANGED <<env, cleaned>>
        BY <1>3 DEF OpenSucceeds, At
      <3>5. HasName(Len(files) + 1, folder', cleaned)
        BY <2>2 DEF HasName, Linked
      <3>6. ASSUME NEW f, HasName(f, folder, cleaned) PROVE HasName(f, folder', cleaned)
        BY <2>2, <3>6 DEF HasName, Linked, Exists
      <3>7. ASSUME NEW f \in 1..Len(files') PROVE f \in 1..Len(files) \/ f = Len(files) + 1
        BY <3>3
      <3> QED BY <3>3, <3>4, <3>5, <3>6, <3>7 DEF NamedInv
    <2> QED BY <1>3, <2>1, <2>2 DEF OpenSucceeds, OpenFound, OpenFile
  <1> QED BY <1>1, <1>2, <1>3 DEF OpenStep

\* The log goes to its backup's name, which no file had
LEMMA RotationKeepsNames ==
  ASSUME NEW p \in Processes, NamedInv, RotationStep(p)
  PROVE  NamedInv'
  <1>1. CASE \/ BeginRotation(p) \/ FindFreeBackupPath(p)
             \/ FinishRotateLogFiles(p) \/ CloseAfterLines(p)
    BY <1>1, NamesStay DEF BeginRotation, FindFreeBackupPath, FinishRotateLogFiles,
                           CloseAfterLines, InRotation, At
  <1>2. CASE RenameWithoutReplacing(p)
    <2>1. UNCHANGED <<env, files, cleaned>>
      BY <1>2 DEF RenameWithoutReplacing, InRotation, At
    <2>2. CASE MoveFile(p)
      <3> DEFINE backup == call[p].backup
      <3>1. /\ Log(p) \in DOMAIN folder /\ backup \notin DOMAIN folder
            /\ folder' = Linked(Unlinked(folder, Log(p)), backup, folder[Log(p)])
        BY <2>2 DEF MoveFile, CanRename, IsNameFree, Exists
      <3> HIDE DEF backup
      <3>2. ASSUME NEW f, HasName(f, folder, cleaned) PROVE HasName(f, folder', cleaned)
        BY <3>1, <3>2 DEF HasName, Linked, Unlinked
      <3> QED BY <2>1, <3>2 DEF NamedInv
    <2>3. CASE folder' = folder
      BY <2>1, <2>3, NamesStay
    <2>4. CASE LinkFile(p)
      BY <2>1, <2>4 DEF LinkFile, NamedInv
    <2> QED BY <1>2, <2>2, <2>3, <2>4 DEF RenameWithoutReplacing, CheckName
  <1>3. CASE UnlinkLog(p) \/ ReplaceFile(p)
    BY <1>3 DEF UnlinkLog, ReplaceFile, InRotation, At, NamedInv
  <1> QED BY <1>1, <1>2, <1>3 DEF RotationStep

LEMMA CleanupKeepsNames ==
  ASSUME NEW c \in Cleaners, NamedInv, CleanupStep(c)
  PROVE  NamedInv'
  <1>1. UNCHANGED <<env, files>>
    BY DEF CleanupStep, TakeDeferredWork, ListBackups, DeleteBackup, InJob
  <1>2. CASE UNCHANGED <<folder, cleaned>>
    BY <1>1, <1>2, NamesStay
  <1>3. CASE \E name : /\ folder' = Unlinked(folder, name)
                       /\ cleaned' = cleaned \cup {folder[name]}
    <2>1. ASSUME NEW f, HasName(f, folder, cleaned) PROVE HasName(f, folder', cleaned')
      BY <1>3, <2>1 DEF HasName, Unlinked
    <2> QED BY <1>1, <2>1 DEF NamedInv
  <1> QED BY <1>2, <1>3 DEF CleanupStep, TakeDeferredWork, ListBackups, DeleteBackup

(* Where a rename is one step, rotation loses no line, however many          *)
(* processes share the log, fail or crash.                                   *)
THEOREM MovesKeepLines == Spec => []MoveKeepsLines
  <1>1. Init => NamedInv
    <2> SUFFICES ASSUME Init PROVE files \in Seq({}) /\ Len(files) = 0
      BY DEF NamedInv
    <2> QED BY DEF Init
  <1>2. NamedInv /\ [Next]_vars => NamedInv'
    <2> SUFFICES ASSUME NamedInv, [Next]_vars PROVE NamedInv'
      OBVIOUS
    <2>1. CASE UNCHANGED vars
      BY <2>1, NamesStay DEF vars, diskVars
    <2>2. ASSUME NEW p \in Processes, CallStep(p) PROVE NamedInv'
      BY <2>2, NamesStay DEF CallStep, Close, Open, Write, RotateLogFiles, Initialize,
                             ReconfigureFile, ReconfigurePath, Begin, diskVars
    <2>3. ASSUME NEW p \in Processes, WriteStep(p) PROVE NamedInv'
      BY <2>3, NamesStay, WritingKeepsNames DEF WriteStep, PrepareWrite, RolledOver,
                                               WriteLogEntry, At
    <2>4. ASSUME NEW p \in Processes, ConfigStep(p) PROVE NamedInv'
      BY <2>4, NamesStay, WritingKeepsNames DEF ConfigStep, InitializeOpens, FinishInitialize,
                                               FinishReconfigure, At
    <2>5. ASSUME NEW p \in Processes, Crash(p) PROVE NamedInv'
      BY <2>5, NamesStay DEF Crash, diskVars
    <2>6. Tick => NamedInv'
      BY NamesStay DEF Tick
    <2> QED BY <2>1, <2>2, <2>3, <2>4, <2>5, <2>6, OpeningKeepsNames, RotationKeepsNames,
               CleanupKeepsNames DEF Next
  <1>3. NamedInv => MoveKeepsLines
    BY DEF NamedInv, HasName, MoveKeepsLines, LinesAreKept
  <1> QED BY <1>1, <1>2, <1>3, PTL DEF Spec

----------------------------------------------------------------------------
(* Types *)

Step == {"idle", "ready", "open", "startup", "prepare", "rolled", "write", "rotate", "find", "rename",
         "unlink", "replace", "manual", "close", "initialize", "initialized", "reconfigured"}
\* Where a rotation and an open go on
After == {"idle", "manual", "rolled", "write", "initialize"}
Then == After \cup {"prepare", "close", "initialized"}
Reasons == {"none", "daily", "manual", "size"}
Name == [path : STRING \cup {"none"}, reason : Reasons \cup {"log"}, label : Int, suffix : Nat]
Line == [kind : {"entry", "startup"}, stamp : Int, isDaily : BOOLEAN, from : Int]
File == [lines : Seq(Line), written : Int, isInitialized : BOOLEAN]
Call == [op : {"none", "Initialize", "Reconfigure"}, stamp : Int, reason : Reasons, label : Int, wasOpen : BOOLEAN, isRotated : BOOLEAN,
         backup : Name, attempts : Nat, linked : Nat, isNewPath : BOOLEAN, after : After, then : Then]
Job == [step : {"idle", "list", "delete"}, process : Processes \cup {"none"}, config : Config,
        doomed : SUBSET Name]

DiskOK ==
    /\ clock \in Nat /\ clock >= StartTime /\ env \in Environments
    /\ files \in Seq(File) /\ cleaned \subseteq Nat
    /\ folder \in [DOMAIN folder -> 1..Len(files)] /\ DOMAIN folder \subseteq Name
StreamOK ==
    /\ m_FileStream \in [Processes -> 0..Len(files)] /\ m_Size \in [Processes -> Nat]
    /\ m_IsInitialized \in [Processes -> BOOLEAN] /\ openFailed \in [Processes -> BOOLEAN]
StateOK ==
    /\ m_Config \in [Processes -> Config]
    /\ m_LastLogDate \in [Processes -> Int] /\ m_LastOpenFailure \in [Processes -> Int]
    /\ m_LastRotationFailure \in [Processes -> Int] /\ m_PendingContinuationLine \in [Processes -> Int]
WorkOK == m_DeferredWork \in [Processes -> Seq(Config)] /\ job \in [Cleaners -> Job]
CallOK ==
    /\ pc \in [Processes -> Step] /\ call \in [Processes -> Call]
    /\ calls \in [Processes -> Nat] /\ crashes \in Nat
TypeOK == DiskOK /\ StreamOK /\ StateOK /\ WorkOK /\ CallOK

----------------------------------------------------------------------------
(* Data *)

LEMMA LogNameType == ASSUME NEW path \in STRING \cup {"none"} PROVE LogName(path) \in Name
  BY DEF LogName, Name

LEMMA BackupNameType ==
  ASSUME NEW path \in STRING, NEW reason \in Reasons, NEW label \in Int, NEW suffix \in Nat
  PROVE  /\ BackupName(path, reason, label, suffix) \in Name /\ IsBackup(BackupName(path, reason, label, suffix))
         /\ BackupName(path, reason, label, suffix).path = path
         /\ BackupName(path, reason, label, suffix).reason = reason
         /\ BackupName(path, reason, label, suffix).label = label
  BY DEF BackupName, Name, IsBackup, Reasons

LEMMA NoCallType == NoCall \in Call
  <1>1. PICK step \in After, reason \in Reasons : step = "idle" /\ reason = "none"
    BY DEF After, Reasons
  <1>2. PICK name \in Name : name = LogName("none")
    BY LogNameType
  <1>3. NoCall = [op |-> "none", stamp |-> 0, reason |-> reason, label |-> 0, wasOpen |-> FALSE,
                  isRotated |-> FALSE, backup |-> name, attempts |-> 0, linked |-> 0, isNewPath |-> FALSE,
                  after |-> step, then |-> step]
    BY <1>1, <1>2 DEF NoCall, NoFile
  <1> QED BY <1>3 DEF Call, Then

LEMMA NoJobType == NoJob \in Job
  BY ConfigAssumption DEF NoJob, Job

\* A file and its names as they change
LEMMA LinkedType ==
  ASSUME NEW names, NEW n \in Nat, names \in [DOMAIN names -> 1..n], NEW to, NEW file \in 1..n
  PROVE  /\ Linked(names, to, file) \in [DOMAIN names \cup {to} -> 1..n]
         /\ DOMAIN Linked(names, to, file) = DOMAIN names \cup {to}
         /\ Linked(names, to, file)[to] = file
         /\ \A name \in DOMAIN names : name # to => Linked(names, to, file)[name] = names[name]
  BY DEF Linked

LEMMA UnlinkedType ==
  ASSUME NEW names, NEW n \in Nat, names \in [DOMAIN names -> 1..n], NEW from
  PROVE  /\ Unlinked(names, from) \in [DOMAIN names \ {from} -> 1..n]
         /\ DOMAIN Unlinked(names, from) = DOMAIN names \ {from}
         /\ \A name \in DOMAIN names : name # from => Unlinked(names, from)[name] = names[name]
  BY DEF Unlinked

LEMMA DivisionIs ==
  ASSUME NEW a \in Int, NEW d \in Nat \ {0}
  PROVE  a \div d \in Int /\ d * (a \div d) <= a /\ a < d * (a \div d) + d
  OBVIOUS

LEMMA DayType == ASSUME NEW time \in Int, NEW zone \in Nat PROVE Day(time, zone) \in Int
  <1>1. DayLength \in Nat \ {0} /\ time + zone \in Int
    BY TimeAssumption
  <1> QED BY <1>1, DivisionIs DEF Day

LEMMA Product ==
  ASSUME NEW d \in Nat \ {0}, NEW q \in Int, NEW r \in Int, q > r
  PROVE  d * q >= d * r + d
  <1>1. q >= r + 1
    OBVIOUS
  <1>2. d * (q - (r + 1)) >= 0
    BY <1>1
  <1> QED BY <1>2

\* The day of a later time, or of an earlier one in a zone behind
LEMMA DayGrows ==
  ASSUME NEW s \in Int, NEW t \in Int, NEW y \in Nat, NEW z \in Nat, s + y <= t + z
  PROVE  Day(s, y) <= Day(t, z)
  <1>1. PICK d \in Nat \ {0} : d = DayLength
    BY TimeAssumption
  <1>2. PICK a \in Int, b \in Int : a = s + y /\ b = t + z /\ a <= b
    OBVIOUS
  <1>3. PICK q \in Int, r \in Int : q = a \div d /\ r = b \div d
    BY DivisionIs
  <1>4. d * q <= a /\ b < d * r + d
    BY <1>3, DivisionIs
  <1>5. q > r => d * q >= d * r + d
    BY Product
  <1>6. d * q \in Int /\ d * r \in Int
    OBVIOUS
  <1>7. q <= r
    BY <1>2, <1>4, <1>5, <1>6
  <1> QED BY <1>1, <1>2, <1>3, <1>7 DEF Day

\* The locals of a call as they change
LEMMA RotateLocals ==
  ASSUME NEW c \in Call, NEW reason \in Reasons, NEW label \in Int, NEW step \in After, NEW d,
         d = [c EXCEPT !.reason = reason, !.label = label, !.after = step, !.attempts = 0, !.isRotated = FALSE]
  PROVE  /\ d \in Call
         /\ d.reason = reason /\ d.label = label /\ d.after = step /\ d.stamp = c.stamp /\ d.op = c.op
         /\ d.wasOpen = c.wasOpen /\ d.then = c.then /\ d.backup = c.backup
  BY DEF Call

LEMMA ThenLocals ==
  ASSUME NEW c \in Call, NEW step \in Then, NEW d, d = [c EXCEPT !.then = step]
  PROVE  /\ d \in Call
         /\ d.then = step /\ d.reason = c.reason /\ d.label = c.label /\ d.after = c.after /\ d.stamp = c.stamp
         /\ d.op = c.op /\ d.wasOpen = c.wasOpen /\ d.backup = c.backup
  BY DEF Call

LEMMA WasOpenLocals ==
  ASSUME NEW c \in Call, NEW b \in BOOLEAN, NEW d, d = [c EXCEPT !.wasOpen = b]
  PROVE  /\ d \in Call
         /\ d.wasOpen = b /\ d.reason = c.reason /\ d.label = c.label /\ d.after = c.after /\ d.stamp = c.stamp
         /\ d.op = c.op /\ d.then = c.then /\ d.backup = c.backup
  BY DEF Call

LEMMA RotatedLocals ==
  ASSUME NEW c \in Call, NEW d, d = [c EXCEPT !.isRotated = TRUE, !.then = c.after]
  PROVE  /\ d \in Call
         /\ d.then = c.after /\ d.reason = c.reason /\ d.label = c.label /\ d.after = c.after /\ d.stamp = c.stamp
         /\ d.op = c.op /\ d.wasOpen = c.wasOpen /\ d.backup = c.backup
  BY DEF Call, Then

LEMMA FailedLocals ==
  ASSUME NEW c \in Call, NEW d, d = [c EXCEPT !.isRotated = FALSE]
  PROVE  /\ d \in Call
         /\ d.then = c.then /\ d.reason = c.reason /\ d.label = c.label /\ d.after = c.after /\ d.stamp = c.stamp
         /\ d.op = c.op /\ d.wasOpen = c.wasOpen /\ d.backup = c.backup
  BY DEF Call

LEMMA BackupLocals ==
  ASSUME NEW c \in Call, NEW backup \in Name, NEW d, d = [c EXCEPT !.backup = backup, !.attempts = @ + 1]
  PROVE  /\ d \in Call
         /\ d.backup = backup /\ d.then = c.then /\ d.reason = c.reason /\ d.label = c.label /\ d.after = c.after
         /\ d.stamp = c.stamp /\ d.op = c.op /\ d.wasOpen = c.wasOpen
  <1>1. PICK n \in Nat : n = c.attempts + 1
    BY DEF Call
  <1>2. d = [c EXCEPT !.backup = backup, !.attempts = n]
    BY <1>1
  <1> QED BY <1>2 DEF Call

LEMMA LinkedLocals ==
  ASSUME NEW c \in Call, NEW file \in Nat, NEW d, d = [c EXCEPT !.linked = file]
  PROVE  /\ d \in Call
         /\ d.linked = file /\ d.then = c.then /\ d.reason = c.reason /\ d.label = c.label /\ d.after = c.after
         /\ d.stamp = c.stamp /\ d.op = c.op /\ d.wasOpen = c.wasOpen /\ d.backup = c.backup
  BY DEF Call

\* A call's first locals
LEMMA FirstLocals ==
  /\ \A stamp \in Int : [NoCall EXCEPT !.stamp = stamp] \in Call /\ [NoCall EXCEPT !.stamp = stamp].stamp = stamp
  /\ [NoCall EXCEPT !.op = "Initialize"] \in Call
  /\ \A b \in BOOLEAN : [NoCall EXCEPT !.op = "Reconfigure", !.isNewPath = b] \in Call
  <1>1. PICK c \in Call : c = NoCall
    BY NoCallType
  <1>2. /\ \A stamp \in Int : [c EXCEPT !.stamp = stamp] \in Call /\ [c EXCEPT !.stamp = stamp].stamp = stamp
        /\ [c EXCEPT !.op = "Initialize"] \in Call
        /\ \A b \in BOOLEAN : [c EXCEPT !.op = "Reconfigure", !.isNewPath = b] \in Call
    BY DEF Call
  <1> QED BY <1>1, <1>2

LEMMA GotoType ==
  ASSUME CallOK, NEW p \in Processes, NEW step \in Step, NEW locals \in Call, Goto(p, step, locals)
  PROVE  /\ pc' \in [Processes -> Step] /\ call' \in [Processes -> Call]
         /\ pc'[p] = step /\ call'[p] = IF step = "idle" THEN NoCall ELSE locals
         /\ \A q \in Processes \ {p} : pc'[q] = pc[q] /\ call'[q] = call[q]
  BY NoCallType DEF CallOK, Goto

LEMMA StepsAre ==
  /\ "idle" \in Step /\ "ready" \in Step /\ "open" \in Step /\ "startup" \in Step /\ "prepare" \in Step /\ "rolled" \in Step
  /\ "write" \in Step /\ "rotate" \in Step /\ "find" \in Step /\ "rename" \in Step /\ "unlink" \in Step /\ "replace" \in Step
  /\ "manual" \in Step /\ "close" \in Step /\ "initialize" \in Step /\ "initialized" \in Step /\ "reconfigured" \in Step
  /\ "daily" \in Reasons /\ "size" \in Reasons /\ "manual" \in Reasons
  /\ "manual" \in After /\ "rolled" \in After /\ "write" \in After /\ "initialize" \in After
  /\ "idle" \in Then /\ "prepare" \in Then /\ "close" \in Then /\ "initialized" \in Then
  /\ After \subseteq Step /\ After \subseteq Then /\ Then \subseteq Step
  BY DEF Step, Reasons, After, Then

LEMMA CallTypes ==
  ASSUME CallOK, NEW p \in Processes
  PROVE  /\ call[p] \in Call /\ pc[p] \in Step /\ call[p].after \in After /\ call[p].then \in Then /\ call[p].after \in Step /\ call[p].then \in Step
         /\ call[p].label \in Int /\ call[p].reason \in Reasons /\ call[p].stamp \in Int /\ call[p].backup \in Name
         /\ call[p].linked \in Nat
  <1>1. call[p] \in Call /\ pc[p] \in Step
    BY DEF CallOK
  <1> QED BY <1>1, StepsAre DEF Call

\* Only the locals of p, and only so, change
CallGoes == pc' \in [Processes -> Step] /\ call' \in [Processes -> Call]

LEMMA ContinueType ==
  ASSUME CallOK, NEW p \in Processes, NEW step \in Step, Continue(p, step)
  PROVE  CallGoes
  BY GotoType, CallTypes DEF Continue, CallGoes

LEMMA ReturnType ==
  ASSUME CallOK, NEW p \in Processes, Return(p)
  PROVE  CallGoes
  BY GotoType, NoCallType, StepsAre DEF Return, CallGoes

LEMMA OpenThenType ==
  ASSUME CallOK, NEW p \in Processes, NEW step \in Then, OpenThen(p, step)
  PROVE  CallGoes
  <1>1. PICK d : d = [call[p] EXCEPT !.then = step]
    OBVIOUS
  <1>2. d \in Call
    BY <1>1, CallTypes, ThenLocals
  <1>3. Goto(p, "open", d)
    BY <1>1 DEF OpenThen
  <1> QED BY <1>2, <1>3, GotoType, StepsAre DEF CallGoes

LEMMA RotateThenType ==
  ASSUME CallOK, NEW p \in Processes, NEW reason \in Reasons, NEW label \in Int, NEW step \in After,
         NEW locals \in Call, RotateThen(p, reason, label, step, locals)
  PROVE  CallGoes
  <1>1. PICK d : d = [locals EXCEPT !.reason = reason, !.label = label, !.after = step,
                                    !.attempts = 0, !.isRotated = FALSE]
    OBVIOUS
  <1>2. d \in Call
    BY <1>1 DEF Call
  <1>3. Goto(p, "rotate", d)
    BY <1>1 DEF RotateThen
  <1> QED BY <1>2, <1>3, GotoType, StepsAre DEF CallGoes

LEMMA CloseFileType ==
  ASSUME StreamOK, NEW p \in Processes, CloseFile(p)
  PROVE  m_FileStream' \in [Processes -> 0..Len(files)] /\ m_Size' \in [Processes -> Nat]
  BY DEF StreamOK, CloseFile, NoFile

LEMMA AfterEntryType ==
  ASSUME StreamOK, NEW p \in Processes, AfterEntry(p)
  PROVE  m_FileStream' \in [Processes -> 0..Len(files)] /\ m_Size' \in [Processes -> Nat]
  BY CloseFileType DEF AfterEntry, StreamOK

LEMMA WriteLineType ==
  ASSUME DiskOK, StreamOK, NEW p \in Processes, NEW line \in Line, NEW isLast, WriteLine(p, line, isLast)
  PROVE  /\ files' \in Seq(File) /\ Len(files') = Len(files)
         /\ m_FileStream' \in [Processes -> 0..Len(files)] /\ m_Size' \in [Processes -> Nat]
         /\ \/ files' = files
            \/ LET f == m_FileStream[p]
               IN  /\ f \in 1..Len(files) /\ \A g \in 1..Len(files) : g # f => files'[g] = files[g]
                   /\ files'[f].lines = Append(files[f].lines, line) /\ files'[f].written = clock
                   /\ files'[f].isInitialized = files[f].isInitialized
  <1>1. m_FileStream' \in [Processes -> 0..Len(files)] /\ m_Size' \in [Processes -> Nat]
    BY AfterEntryType, CloseFileType DEF WriteLine, StreamOK
  <1>2. PICK f \in 0..Len(files) : f = m_FileStream[p]
    BY DEF StreamOK
  <1>3. CASE files' = files
    BY <1>1, <1>3 DEF DiskOK
  <1>4. CASE files' = [files EXCEPT ![f].lines = Append(@, line), ![f].written = clock]
    <2>1. files \in Seq(File) /\ Len(files) \in Nat /\ clock \in Int
      BY DEF DiskOK
    <2>2. CASE f = 0
      <3>1. f \notin DOMAIN files
        BY <2>1, <2>2
      <3>2. files' = files
        BY <1>4, <2>1, <3>1
      <3> QED BY <1>3, <3>2
    <2>3. CASE f # 0
      <3>1. f \in 1..Len(files) /\ files[f] \in File
        BY <1>2, <2>1, <2>3
      <3>2. PICK file \in File : file = files[f]
        BY <3>1
      <3>3. PICK g : g = [file EXCEPT !.lines = Append(file.lines, line), !.written = clock]
        OBVIOUS
      <3>4. /\ g \in File /\ g.lines = Append(file.lines, line) /\ g.written = clock
            /\ g.isInitialized = file.isInitialized
        <4>1. Append(file.lines, line) \in Seq(Line)
          BY DEF File
        <4> QED BY <2>1, <3>3, <4>1 DEF File
      <3>5. files' = [files EXCEPT ![f] = g]
        BY <1>4, <2>1, <3>1, <3>2, <3>3
      <3>6. /\ files' \in Seq(File) /\ Len(files') = Len(files) /\ files'[f] = g
            /\ \A h \in 1..Len(files) : h # f => files'[h] = files[h]
        BY <2>1, <3>1, <3>4, <3>5, ExceptSeq
      <3> QED BY <1>1, <1>2, <3>1, <3>2, <3>4, <3>6
    <2> QED BY <2>2, <2>3
  <1> QED BY <1>2, <1>3, <1>4 DEF WriteLine

LEMMA StartupType == ASSUME DiskOK, NEW from \in Int PROVE Startup(from) \in Line
  BY DEF Startup, Line, DiskOK, Nothing

LEMMA EntryType ==
  ASSUME NEW stamp \in Int, NEW isDaily \in BOOLEAN
  PROVE  /\ Entry(stamp, isDaily) \in Line /\ Entry(stamp, isDaily).from = 0
         /\ Entry(stamp, isDaily).stamp = stamp /\ Entry(stamp, isDaily).isDaily = isDaily
  BY DEF Entry, Line, Nothing

LEMMA ConfigTypes ==
  ASSUME StateOK, NEW p \in Processes
  PROVE  /\ m_Config[p] \in Config /\ Path(p) \in STRING /\ m_Config[p].TimestampZone \in Nat
         /\ m_Config[p].EnableDailyRolling \in BOOLEAN /\ m_Config[p].AutoOpenClosePerWrite \in BOOLEAN
         /\ Log(p) \in Name /\ Log(p).reason = "log" /\ Log(p).path = Path(p)
  <1>1. m_Config[p] \in Config
    BY DEF StateOK
  <1>2. Path(p) \in STRING
    BY <1>1 DEF Config, Path
  <1>3. Log(p) \in Name
    BY <1>2, LogNameType DEF Log
  <1> QED BY <1>1, <1>2, <1>3 DEF Config, Log, LogName

LEMMA FileType ==
  ASSUME DiskOK, NEW f \in 1..Len(files)
  PROVE  files[f] \in File /\ files[f].written \in Int /\ files[f].lines \in Seq(Line)
  <1>1. files[f] \in File
    BY DEF DiskOK
  <1> QED BY <1>1 DEF File

LEMMA EarlierDayType ==
  ASSUME DiskOK, NEW config \in Config
  PROVE  DayOfEarlierLog(config) \in Int
  <1>1. PICK log : log = LogName(config.FilePath)
    OBVIOUS
  <1>2. config.TimestampZone \in Nat
    BY DEF Config
  <1>3. CASE Exists(log)
    <2>1. folder[log] \in 1..Len(files)
      BY <1>3 DEF DiskOK, Exists
    <2>2. files[folder[log]].written \in Int
      BY <2>1, FileType
    <2>3. PICK day \in Int : day = Day(files[folder[log]].written, config.TimestampZone)
      BY <1>2, <2>2, DayType
    <2>4. DayOfEarlierLog(config) \in {day, -1}
      BY <1>1, <2>3, Zenon DEF DayOfEarlierLog, NoDay
    <2> QED BY <2>4
  <1>4. CASE ~Exists(log)
    BY <1>1, <1>4 DEF DayOfEarlierLog, NoDay
  <1> QED BY <1>3, <1>4

LEMMA FromEarlierType ==
  ASSUME DiskOK, CallOK, NEW p \in Processes, NEW config \in Config, NEW step \in After, NEW locals \in Call,
         RotateDailyLogFromEarlierDay(p, config, step, locals)
  PROVE  CallGoes
  <1>1. CASE RotateThen(p, "daily", DayOfEarlierLog(config), step, locals)
    BY <1>1, RotateThenType, EarlierDayType, StepsAre
  <1>2. CASE Goto(p, step, locals)
    BY <1>2, GotoType, StepsAre DEF CallGoes
  <1> QED BY <1>1, <1>2 DEF RotateDailyLogFromEarlierDay

LEMMA CheckSizeType ==
  ASSUME CallOK, NEW p \in Processes, CheckSize(p)
  PROVE  CallGoes
  <1>1. CASE RotateThen(p, "size", call[p].stamp, "write", call[p])
    BY <1>1, RotateThenType, CallTypes, StepsAre
  <1>2. CASE Continue(p, "write")
    BY <1>2, ContinueType, StepsAre
  <1> QED BY <1>1, <1>2 DEF CheckSize

LEMMA RotatedType ==
  ASSUME StateOK, WorkOK, CallOK, NEW p \in Processes, NEW locals \in Call, Rotated(p, locals)
  PROVE  CallGoes /\ m_DeferredWork' \in [Processes -> Seq(Config)] /\ UNCHANGED m_LastRotationFailure
  <1>1. PICK d : d = [locals EXCEPT !.isRotated = TRUE, !.then = locals.after]
    OBVIOUS
  <1>2. d \in Call /\ locals.after \in Step
    BY <1>1, RotatedLocals, StepsAre DEF Call
  <1>3. PICK step \in Step : step = IF locals.wasOpen THEN "open" ELSE locals.after
    BY <1>2, StepsAre
  <1>4. Goto(p, step, d)
    BY <1>1, <1>3 DEF Rotated
  <1>5. CallGoes
    BY <1>2, <1>4, GotoType DEF CallGoes
  <1>6. Append(m_DeferredWork[p], m_Config[p]) \in Seq(Config)
    BY DEF StateOK, WorkOK
  <1>7. m_DeferredWork' = [m_DeferredWork EXCEPT ![p] = Append(m_DeferredWork[p], m_Config[p])]
    BY DEF Rotated
  <1> QED BY <1>5, <1>6, <1>7 DEF WorkOK, Rotated

LEMMA RenamedType ==
  ASSUME StateOK, WorkOK, CallOK, NEW p \in Processes, NEW file \in Nat, Renamed(p, file)
  PROVE  /\ CallGoes /\ m_DeferredWork' \in [Processes -> Seq(Config)] /\ UNCHANGED m_LastRotationFailure
         /\ m_PendingContinuationLine' \in [Processes -> Int]
  <1>1. call[p] \in Call
    BY CallTypes
  <1> QED BY <1>1, RotatedType DEF Renamed, StateOK

LEMMA RotationFailsType ==
  ASSUME DiskOK, StateOK, CallOK, NEW p \in Processes, RotationFails(p)
  PROVE  /\ CallGoes /\ m_LastRotationFailure' \in [Processes -> Int]
         /\ UNCHANGED <<m_PendingContinuationLine, m_DeferredWork>>
  <1>1. call[p].after \in Then /\ call[p].after \in Step
    BY CallTypes, StepsAre
  <1>2. CallGoes
    BY <1>1, OpenThenType, ContinueType DEF RotationFails
  <1> QED BY <1>2 DEF RotationFails, DiskOK, StateOK

\* What a step of a process keeps
LEMMA SameType ==
  /\ DiskOK /\ UNCHANGED diskVars => DiskOK'
  /\ StreamOK /\ UNCHANGED streamVars /\ Len(files') = Len(files) => StreamOK'
  /\ StateOK /\ UNCHANGED stateVars => StateOK'
  /\ WorkOK /\ UNCHANGED workVars => WorkOK'
  /\ CallOK /\ UNCHANGED <<pc, call, calls, crashes>> => CallOK'
  BY DEF DiskOK, StreamOK, StateOK, WorkOK, CallOK, diskVars, streamVars, stateVars, workVars

LEMMA BeginType ==
  ASSUME DiskOK, WorkOK, CallOK, NEW p \in Processes, NEW op, Begin(p, op)
  PROVE  DiskOK' /\ WorkOK' /\ UNCHANGED diskVars /\ calls' \in [Processes -> Nat] /\ crashes' \in Nat
  <1>1. PICK n \in Nat : n = calls[p] + 1
    BY DEF CallOK
  <1>2. calls' = [calls EXCEPT ![p] = n]
    BY <1>1 DEF Begin
  <1> QED BY <1>2, SameType DEF Begin, CallOK

LEMMA BeginInitializeType ==
  ASSUME DiskOK, StateOK, CallOK, NEW p \in Processes, NEW config \in Config, NEW locals \in Call,
         BeginInitialize(p, config, locals)
  PROVE  CallGoes /\ m_Config' \in [Processes -> Config]
  BY FromEarlierType, GotoType, StepsAre DEF BeginInitialize, StateOK, CallGoes

LEMMA CallStepType ==
  ASSUME TypeOK, NEW p \in Processes, CallStep(p)
  PROVE  TypeOK'
  <1> SUFFICES ASSUME DiskOK, StreamOK, StateOK, WorkOK, CallOK
               PROVE  TypeOK'
    BY DEF TypeOK
  <1>1. PICK op : Begin(p, op)
    BY DEF CallStep, Close, Open, Write, RotateLogFiles, Initialize, ReconfigureFile, ReconfigurePath
  <1>2. DiskOK' /\ WorkOK' /\ UNCHANGED diskVars /\ calls' \in [Processes -> Nat] /\ crashes' \in Nat
    BY <1>1, BeginType
  <1>3. files' = files
    BY <1>2 DEF diskVars
  <1>4. CallGoes => CallOK'
    BY <1>2 DEF CallGoes, CallOK
  <1>5. UNCHANGED <<pc, call>> => CallOK'
    BY <1>2 DEF CallOK
  <1>6. /\ m_FileStream' \in [Processes -> 0..Len(files)] /\ m_Size' \in [Processes -> Nat]
        /\ m_IsInitialized' \in [Processes -> BOOLEAN] /\ openFailed' \in [Processes -> BOOLEAN]
        => StreamOK'
    BY <1>3 DEF StreamOK
  <1>7. CASE Close(p)
    <2>1. StreamOK'
      BY <1>6, <1>7, CloseFileType DEF Close, NotInitialized, StreamOK
    <2>2. StateOK' /\ CallOK'
      BY <1>5, <1>7, SameType DEF Close
    <2> QED BY <1>2, <2>1, <2>2 DEF TypeOK
  <1>8. CASE Open(p) \/ Write(p) \/ RotateLogFiles(p)
    <2>1. StreamOK' /\ StateOK'
      BY <1>3, <1>8, SameType DEF Open, Write, RotateLogFiles
    <2>2. ASSUME Open(p) PROVE CallGoes
      BY <2>2, OpenThenType, StepsAre DEF Open
    <2>3. ASSUME Write(p) PROVE CallGoes
      <3>1. PICK stamp \in (clock - MaxWait)..clock : Goto(p, "ready", [NoCall EXCEPT !.stamp = stamp])
        BY <2>3 DEF Write
      <3>2. stamp \in Int
        BY TimeAssumption DEF DiskOK
      <3> QED BY <3>1, <3>2, FirstLocals, GotoType, StepsAre DEF CallGoes
    <2>4. ASSUME RotateLogFiles(p) PROVE CallGoes
      <3>1. clock \in Int
        BY DEF DiskOK
      <3> QED BY <2>4, <3>1, RotateThenType, NoCallType, StepsAre DEF RotateLogFiles
    <2>5. CallGoes
      BY <1>8, <2>2, <2>3, <2>4
    <2> QED BY <1>2, <1>4, <2>1, <2>5 DEF TypeOK
  <1>9. ASSUME NEW config \in Configs, Initialize(p, config) PROVE TypeOK'
    <2>1. config \in Config
      BY ConfigAssumption
    <2>2. CallGoes /\ m_Config' \in [Processes -> Config]
      BY <1>9, <2>1, BeginInitializeType, FirstLocals DEF Initialize
    <2>3. StreamOK' /\ StateOK'
      BY <1>3, <1>9, <2>2, SameType DEF Initialize, StateOK
    <2> QED BY <1>2, <1>4, <2>2, <2>3 DEF TypeOK
  <1>10. ASSUME NEW config \in Configs, ReconfigureFile(p, config) PROVE TypeOK'
    <2>1. config \in Config /\ config.TimestampZone \in Nat
      BY ConfigAssumption DEF Config
    <2>2. m_Config' \in [Processes -> Config]
      BY <1>10, <2>1 DEF ReconfigureFile, StateOK
    <2>3. PICK day \in Int : day = Day(clock, config.TimestampZone)
      BY <2>1, DayType DEF DiskOK
    <2>4. m_LastLogDate' \in {m_LastLogDate, [m_LastLogDate EXCEPT ![p] = day]}
      BY <1>10, <2>3, Zenon DEF ReconfigureFile, DayInNewZone
    <2>5. m_LastLogDate' \in [Processes -> Int]
      BY <2>4 DEF StateOK
    <2>6. StateOK'
      BY <1>10, <2>2, <2>5 DEF ReconfigureFile, StateOK
    <2>7. StreamOK' /\ CallOK'
      BY <1>3, <1>5, <1>10, SameType DEF ReconfigureFile
    <2> QED BY <1>2, <2>6, <2>7 DEF TypeOK
  <1>11. ASSUME NEW config \in Configs, ReconfigurePath(p, config) PROVE TypeOK'
    <2>1. config \in Config
      BY ConfigAssumption
    <2>2. PICK locals \in Call : BeginInitialize(p, config, locals)
      BY <1>11, FirstLocals DEF ReconfigurePath
    <2>3. CallGoes /\ m_Config' \in [Processes -> Config]
      BY <2>1, <2>2, BeginInitializeType
    <2>4. StateOK'
      BY <1>11, <2>3 DEF ReconfigurePath, StateOK
    <2>5. StreamOK'
      BY <1>6, <1>11, CloseFileType DEF ReconfigurePath, StreamOK
    <2> QED BY <1>2, <1>4, <2>3, <2>4, <2>5 DEF TypeOK
  <1> QED BY <1>7, <1>8, <1>9, <1>10, <1>11 DEF CallStep

\* A step within a call
LEMMA WithinType ==
  ASSUME CallOK, StateOK, NEW p, NEW step, At(p, step)
  PROVE  /\ CallGoes => CallOK'
         /\ UNCHANGED <<clock, env, cleaned, m_Config, job, calls, crashes>>
         /\ m_Config' \in [Processes -> Config]
  BY DEF At, boundVars, CallGoes, CallOK, StateOK

LEMMA NewFileType ==
  ASSUME DiskOK, StreamOK, NEW p \in Processes
  PROVE  NewFile(p) \in File /\ NewFile(p).lines = <<>> /\ NewFile(p).written = clock
  <1>1. m_IsInitialized[p] \in BOOLEAN /\ clock \in Int
    BY DEF StreamOK, DiskOK
  <1> QED BY <1>1 DEF NewFile, File

LEMMA OpenFileType ==
  ASSUME DiskOK, StreamOK, StateOK, NEW p \in Processes, OpenFile(p), UNCHANGED <<clock, env, cleaned>>
  PROVE  /\ DiskOK' /\ m_FileStream' \in [Processes -> 0..Len(files')] /\ m_Size' \in [Processes -> Nat]
         /\ openFailed' \in [Processes -> BOOLEAN]
         /\ m_FileStream'[p] = folder'[Log(p)] /\ m_FileStream'[p] \in 1..Len(files')
         /\ \A q \in Processes \ {p} : m_FileStream'[q] = m_FileStream[q]
  <1>1. PICK log : log = Log(p)
    OBVIOUS
  <1>2. log \in Name
    BY <1>1, ConfigTypes
  <1>3. /\ files' \in Seq(File) /\ Len(files') >= Len(files) /\ Len(files) \in Nat /\ Len(files') \in Nat
        /\ folder' \in [DOMAIN folder' -> 1..Len(files')] /\ DOMAIN folder' \subseteq Name
        /\ log \in DOMAIN folder'
    <2>1. files \in Seq(File) /\ Len(files) \in Nat /\ clock \in Int
      BY DEF DiskOK
    <2>2. CASE Exists(log) /\ UNCHANGED <<folder, files>>
      BY <2>1, <2>2 DEF DiskOK, Exists
    <2>3. CASE files' = Append(files, NewFile(p)) /\ folder' = Linked(folder, log, Len(files) + 1)
      <3>1. PICK f : f = NewFile(p)
        OBVIOUS
      <3>2. f \in File
        BY <2>1, <3>1, NewFileType
      <3>3. files' \in Seq(File) /\ Len(files') = Len(files) + 1
        BY <2>1, <2>3, <3>1, <3>2
      <3>4. PICK n \in Nat : n = Len(files) + 1
        BY <2>1
      <3>5. n \in 1..n /\ folder \in [DOMAIN folder -> 1..n] /\ folder' = Linked(folder, log, n)
        BY <2>1, <2>3, <3>4 DEF DiskOK
      <3>6. folder' \in [DOMAIN folder \cup {log} -> 1..n] /\ DOMAIN folder' = DOMAIN folder \cup {log}
        BY <3>4, <3>5, LinkedType
      <3> QED BY <1>2, <2>1, <3>3, <3>4, <3>6 DEF DiskOK
    <2> QED BY <1>1, <2>2, <2>3 DEF OpenFile
  <1>4. DiskOK'
    BY <1>3 DEF DiskOK
  <1>5. PICK file \in 1..Len(files') : file = folder'[log]
    BY <1>3
  <1>6. m_FileStream' = [m_FileStream EXCEPT ![p] = file] /\ m_Size' = [m_Size EXCEPT ![p] = Len(files'[file].lines)]
    BY <1>1, <1>5 DEF OpenFile
  <1>7. files'[file].lines \in Seq(Line)
    <2>1. files'[file] \in File
      BY <1>3, <1>5
    <2> QED BY <2>1 DEF File
  <1>8. Len(files'[file].lines) \in Nat
    BY <1>7
  <1> QED BY <1>1, <1>3, <1>4, <1>5, <1>6, <1>8 DEF OpenFile, StreamOK

LEMMA OpenStepType ==
  ASSUME TypeOK, NEW p \in Processes, OpenStep(p)
  PROVE  TypeOK'
  <1> SUFFICES ASSUME DiskOK, StreamOK, StateOK, WorkOK, CallOK
               PROVE  TypeOK'
    BY DEF TypeOK
  <1>1. PICK step : At(p, step)
    BY DEF OpenStep, EnsureReady, OpenSucceeds, OpenFails, WriteNewFileStartupLines
  <1>2. /\ CallGoes => CallOK'
        /\ UNCHANGED <<clock, env, cleaned, m_Config, job, calls, crashes>> /\ m_Config' \in [Processes -> Config]
    BY <1>1, WithinType
  <1>3. WorkOK'
    BY <1>2 DEF WorkOK, OpenStep, EnsureReady, OpenSucceeds, OpenFails, WriteNewFileStartupLines
  <1>4. call[p] \in Call /\ call[p].then \in Step
    BY CallTypes
  <1>5. clock \in Int
    BY DEF DiskOK
  <1>6. CASE EnsureReady(p)
    <2>1. CallGoes
      BY <1>6, ContinueType, OpenThenType, ReturnType, StepsAre DEF EnsureReady
    <2>2. DiskOK' /\ StreamOK' /\ StateOK'
      BY <1>2, <1>6, SameType DEF EnsureReady, diskVars, stateVars
    <2> QED BY <1>2, <1>3, <2>1, <2>2 DEF TypeOK
  <1>7. CASE OpenSucceeds(p)
    <2>1. CallGoes
      BY <1>4, <1>7, ContinueType, StepsAre DEF OpenSucceeds
    <2>2. Today(p) \in Int
      BY <1>5, ConfigTypes, DayType DEF Today
    <2>3. m_LastLogDate' \in [Processes -> Int]
      BY <1>7, <2>2 DEF OpenSucceeds, StateOK
    <2>4. StateOK'
      BY <1>2, <1>7, <2>3 DEF OpenSucceeds, StateOK
    <2>5. m_IsInitialized' \in [Processes -> BOOLEAN]
      BY <1>7 DEF OpenSucceeds, StreamOK
    <2>6. DiskOK' /\ StreamOK'
      <3>1. CASE OpenFound(p)
        BY <1>2, <2>5, <3>1 DEF OpenFound, DiskOK, StreamOK
      <3>2. CASE OpenFile(p)
        BY <1>2, <2>5, <3>2, OpenFileType DEF StreamOK
      <3> QED BY <1>7, <3>1, <3>2 DEF OpenSucceeds
    <2> QED BY <1>2, <1>3, <2>1, <2>4, <2>6 DEF TypeOK
  <1>8. CASE OpenFails(p)
    <2>1. CallGoes
      <3>1. PICK d : d = [call[p] EXCEPT !.isRotated = FALSE]
        OBVIOUS
      <3>2. d \in Call
        BY <1>4, <3>1, FailedLocals
      <3>3. PICK to \in Step : to = CASE call[p].then \in {"prepare", "close"} -> "idle"
                                      [] call[p].then = "initialized" -> "reconfigured"
                                      [] OTHER -> call[p].then
        BY <1>4, StepsAre
      <3>4. Goto(p, to, d)
        BY <1>8, <3>1, <3>3 DEF OpenFails
      <3> QED BY <3>2, <3>4, GotoType DEF CallGoes
    <2>2. DiskOK' /\ StreamOK' /\ StateOK'
      BY <1>2, <1>5, <1>8 DEF OpenFails, DiskOK, StreamOK, StateOK
    <2> QED BY <1>2, <1>3, <2>1, <2>2 DEF TypeOK
  <1>9. CASE WriteNewFileStartupLines(p)
    <2>1. CallGoes
      BY <1>4, <1>9, ContinueType DEF WriteNewFileStartupLines
    <2>2. Startup(m_PendingContinuationLine[p]) \in Line
      BY StartupType DEF StateOK
    <2>3. /\ files' \in Seq(File) /\ Len(files') = Len(files)
          /\ m_FileStream' \in [Processes -> 0..Len(files)] /\ m_Size' \in [Processes -> Nat]
      BY <1>9, <2>2, WriteLineType DEF WriteNewFileStartupLines
    <2>4. DiskOK' /\ StreamOK' /\ StateOK'
      <3>1. UNCHANGED <<folder, m_IsInitialized, openFailed, m_LastLogDate, m_LastOpenFailure, m_LastRotationFailure>>
        BY <1>9 DEF WriteNewFileStartupLines
      <3>2. DiskOK' /\ StreamOK'
        BY <1>2, <2>3, <3>1 DEF DiskOK, StreamOK
      <3>3. m_PendingContinuationLine' \in [Processes -> Int]
        BY <1>9 DEF WriteNewFileStartupLines, TakesPendingLine, StateOK, Nothing
      <3> QED BY <1>2, <3>1, <3>2, <3>3 DEF StateOK
    <2> QED BY <1>2, <1>3, <2>1, <2>4 DEF TypeOK
  <1> QED BY <1>6, <1>7, <1>8, <1>9 DEF OpenStep

LEMMA WriteStepType ==
  ASSUME TypeOK, NEW p \in Processes, WriteStep(p)
  PROVE  TypeOK'
  <1> SUFFICES ASSUME DiskOK, StreamOK, StateOK, WorkOK, CallOK
               PROVE  TypeOK'
    BY DEF TypeOK
  <1>1. PICK step : At(p, step)
    BY DEF WriteStep, PrepareWrite, RolledOver, WriteLogEntry
  <1>2. /\ CallGoes => CallOK'
        /\ UNCHANGED <<clock, env, cleaned, m_Config, job, calls, crashes>> /\ m_Config' \in [Processes -> Config]
    BY <1>1, WithinType
  <1>3. WorkOK'
    BY <1>2 DEF WorkOK, WriteStep, PrepareWrite, RolledOver, WriteLogEntry
  <1>4. call[p] \in Call /\ call[p].stamp \in Int /\ m_Config[p] \in Config /\ EntryDay(p) \in Int
        /\ m_Config[p].EnableDailyRolling \in BOOLEAN
    BY CallTypes, ConfigTypes, DayType DEF EntryDay
  <1>5. m_LastLogDate[p] \in Int
    BY DEF StateOK
  <1>6. CASE PrepareWrite(p)
    <2>1. CallGoes
      BY <1>4, <1>5, <1>6, FromEarlierType, RotateThenType, CheckSizeType, StepsAre DEF PrepareWrite
    <2>2. DiskOK' /\ StreamOK' /\ StateOK'
      BY <1>2, <1>6, SameType DEF PrepareWrite, diskVars, stateVars
    <2> QED BY <1>2, <1>3, <2>1, <2>2 DEF TypeOK
  <1>7. CASE RolledOver(p)
    <2>1. CallGoes
      BY <1>7, CheckSizeType DEF RolledOver
    <2>2. DiskOK' /\ StreamOK' /\ StateOK'
      BY <1>2, <1>4, <1>7 DEF RolledOver, DiskOK, StreamOK, StateOK, streamVars
    <2> QED BY <1>2, <1>3, <2>1, <2>2 DEF TypeOK
  <1>8. CASE WriteLogEntry(p)
    <2>1. CallGoes
      BY <1>8, ReturnType DEF WriteLogEntry
    <2>2. PICK line \in Line : line = Entry(call[p].stamp, m_Config[p].EnableDailyRolling)
      BY <1>4, EntryType
    <2>3. /\ files' \in Seq(File) /\ Len(files') = Len(files)
          /\ m_FileStream' \in [Processes -> 0..Len(files)] /\ m_Size' \in [Processes -> Nat]
      <3>1. CASE UNCHANGED <<files, m_FileStream, m_Size>>
        BY <3>1 DEF DiskOK, StreamOK
      <3>2. CASE WriteLine(p, line, TRUE)
        BY <3>2, WriteLineType
      <3> QED BY <1>8, <2>2, <3>1, <3>2 DEF WriteLogEntry
    <2>4. DiskOK' /\ StreamOK' /\ StateOK'
      BY <1>2, <1>8, <2>3 DEF WriteLogEntry, DiskOK, StreamOK, StateOK, stateVars
    <2> QED BY <1>2, <1>3, <2>1, <2>4 DEF TypeOK
  <1> QED BY <1>6, <1>7, <1>8 DEF WriteStep

\* A rename that leaves the stream
LEMMA InRotationType ==
  ASSUME TypeOK, NEW p \in Processes, NEW step, InRotation(p, step), UNCHANGED <<m_FileStream, m_Size>>,
         CallGoes, m_DeferredWork' \in [Processes -> Seq(Config)],
         m_LastRotationFailure' \in [Processes -> Int], m_PendingContinuationLine' \in [Processes -> Int],
         folder' \in [DOMAIN folder' -> 1..Len(files)], DOMAIN folder' \subseteq Name
  PROVE  TypeOK'
  <1>1. /\ CallOK' /\ UNCHANGED <<clock, env, cleaned, m_Config, job>>
        /\ UNCHANGED <<files, m_IsInitialized, openFailed, m_LastLogDate, m_LastOpenFailure>>
    BY WithinType DEF InRotation, TypeOK
  <1>2. DiskOK' /\ StreamOK' /\ StateOK' /\ WorkOK'
    BY <1>1 DEF TypeOK, DiskOK, StreamOK, StateOK, WorkOK
  <1> QED BY <1>1, <1>2 DEF TypeOK

LEMMA BeginRotationType ==
  ASSUME TypeOK, NEW p \in Processes, BeginRotation(p)
  PROVE  TypeOK'
  <1>1. PICK locals : locals = [call[p] EXCEPT !.wasOpen = IsOpen(p)]
    OBVIOUS
  <1>2. IsOpen(p) \in BOOLEAN
    BY DEF IsOpen
  <1>3. call[p] \in Call
    BY CallTypes DEF TypeOK
  <1>4. locals \in Call
    BY <1>1, <1>2, <1>3, WasOpenLocals
  <1>5. CallGoes /\ m_DeferredWork' \in [Processes -> Seq(Config)] /\ UNCHANGED m_LastRotationFailure
    <2>1. CASE Rotated(p, locals)
      BY <1>4, <2>1, RotatedType DEF TypeOK
    <2>2. CASE Goto(p, "find", locals) /\ UNCHANGED <<m_DeferredWork, m_LastRotationFailure>>
      BY <1>4, <2>2, GotoType, StepsAre DEF CallGoes, TypeOK, WorkOK
    <2> QED BY <1>1, <2>1, <2>2 DEF BeginRotation
  <1>6. m_FileStream' \in [Processes -> 0..Len(files)] /\ m_Size' \in [Processes -> Nat]
    BY CloseFileType DEF BeginRotation, TypeOK
  <1>7. /\ CallOK' /\ UNCHANGED <<clock, env, cleaned, m_Config, job>>
        /\ UNCHANGED <<files, m_IsInitialized, openFailed, m_LastLogDate, m_LastOpenFailure>>
        /\ UNCHANGED <<folder, m_PendingContinuationLine>>
    BY <1>5, WithinType DEF BeginRotation, InRotation, TypeOK
  <1>8. DiskOK' /\ StreamOK' /\ StateOK' /\ WorkOK'
    BY <1>5, <1>6, <1>7 DEF TypeOK, DiskOK, StreamOK, StateOK, WorkOK
  <1> QED BY <1>7, <1>8 DEF TypeOK

\* What the failure of a rename gives is typed
LEMMA FailureType ==
  ASSUME TypeOK, NEW p \in Processes, RotationFails(p)
  PROVE  /\ CallGoes /\ m_DeferredWork' \in [Processes -> Seq(Config)]
         /\ m_LastRotationFailure' \in [Processes -> Int] /\ m_PendingContinuationLine' \in [Processes -> Int]
  BY RotationFailsType DEF TypeOK, StateOK, WorkOK

LEMMA SuccessType ==
  ASSUME TypeOK, NEW p \in Processes, NEW file \in Nat, Renamed(p, file)
  PROVE  /\ CallGoes /\ m_DeferredWork' \in [Processes -> Seq(Config)]
         /\ m_LastRotationFailure' \in [Processes -> Int] /\ m_PendingContinuationLine' \in [Processes -> Int]
  BY RenamedType DEF TypeOK, StateOK, WorkOK

LEMMA FolderType ==
  ASSUME TypeOK
  PROVE  /\ folder \in [DOMAIN folder -> 1..Len(files)] /\ DOMAIN folder \subseteq Name /\ Len(files) \in Nat
         /\ \A name \in DOMAIN folder : folder[name] \in 1..Len(files) /\ folder[name] \in Nat
  BY DEF TypeOK, DiskOK

LEMMA FindType ==
  ASSUME TypeOK, NEW p \in Processes, FindFreeBackupPath(p)
  PROVE  TypeOK'
  <1>1. CASE RotationFails(p)
    BY <1>1, FailureType, FolderType, InRotationType DEF FindFreeBackupPath
  <1>2. ASSUME NEW suffix \in FreeSuffixes(p),
               Goto(p, "rename", [call[p] EXCEPT !.backup = Candidate(p, suffix), !.attempts = @ + 1]),
               UNCHANGED <<m_LastRotationFailure, m_PendingContinuationLine, m_DeferredWork>>
        PROVE  TypeOK'
    <2>1. call[p] \in Call /\ call[p].reason \in Reasons /\ call[p].label \in Int /\ Path(p) \in STRING
      BY CallTypes, ConfigTypes DEF TypeOK
    <2>2. suffix \in Nat
      BY TimeAssumption DEF FreeSuffixes
    <2>3. PICK backup \in Name : backup = Candidate(p, suffix)
      BY <2>1, <2>2, BackupNameType DEF Candidate
    <2>4. PICK d : d = [call[p] EXCEPT !.backup = backup, !.attempts = @ + 1]
      OBVIOUS
    <2>5. d \in Call
      BY <2>1, <2>4, BackupLocals
    <2>6. Goto(p, "rename", d)
      BY <1>2, <2>3, <2>4
    <2>7. CallGoes
      BY <2>5, <2>6, GotoType, StepsAre DEF CallGoes, TypeOK
    <2>8. /\ m_DeferredWork' \in [Processes -> Seq(Config)]
          /\ m_LastRotationFailure' \in [Processes -> Int] /\ m_PendingContinuationLine' \in [Processes -> Int]
      BY <1>2 DEF TypeOK, StateOK, WorkOK
    <2>9. UNCHANGED <<folder, m_FileStream, m_Size>> /\ InRotation(p, "find")
      BY DEF FindFreeBackupPath
    <2> QED BY <2>7, <2>8, <2>9, FolderType, InRotationType
  <1> QED BY <1>1, <1>2, Zenon DEF FindFreeBackupPath

LEMMA RenameType ==
  ASSUME TypeOK, NEW p \in Processes, RenameWithoutReplacing(p)
  PROVE  TypeOK'
  <1>1. call[p] \in Call /\ call[p].backup \in Name
    BY CallTypes DEF TypeOK
  <1>2. PICK backup \in Name : backup = call[p].backup
    BY <1>1
  <1>3. InRotation(p, "rename") /\ UNCHANGED <<m_FileStream, m_Size>>
    BY DEF RenameWithoutReplacing
  <1>4. UNCHANGED <<m_LastRotationFailure, m_PendingContinuationLine, m_DeferredWork>> =>
          /\ m_DeferredWork' \in [Processes -> Seq(Config)]
          /\ m_LastRotationFailure' \in [Processes -> Int] /\ m_PendingContinuationLine' \in [Processes -> Int]
    BY DEF TypeOK, StateOK, WorkOK
  <1>5. CASE MoveFile(p)
    <2>1. PICK file \in 1..Len(files) : file = folder[Log(p)] /\ Log(p) \in DOMAIN folder
      BY <1>5, FolderType DEF MoveFile, CanRename, Exists
    <2>2. folder' = Linked(Unlinked(folder, Log(p)), backup, file) /\ Renamed(p, file)
      BY <1>2, <1>5, <2>1 DEF MoveFile
    <2>3. PICK names : names = Unlinked(folder, Log(p))
      OBVIOUS
    <2>4. names \in [DOMAIN names -> 1..Len(files)] /\ DOMAIN names \subseteq Name
      BY <2>3, FolderType, UnlinkedType
    <2>5. folder' \in [DOMAIN names \cup {backup} -> 1..Len(files)] /\ DOMAIN folder' = DOMAIN names \cup {backup}
      <3>1. folder' = Linked(names, backup, file)
        BY <2>2, <2>3
      <3> QED BY <2>4, <3>1, FolderType, LinkedType
    <2>6. folder' \in [DOMAIN folder' -> 1..Len(files)] /\ DOMAIN folder' \subseteq Name
      BY <2>4, <2>5
    <2> QED BY <1>3, <2>2, <2>6, SuccessType, InRotationType, FolderType
  <1>6. CASE LinkFile(p)
    <2>1. PICK file \in 1..Len(files) : file = folder[Log(p)]
      BY <1>6, FolderType DEF LinkFile, Exists
    <2>2. folder' = Linked(folder, backup, file)
      BY <1>2, <1>6, <2>1 DEF LinkFile
    <2>3. folder' \in [DOMAIN folder \cup {backup} -> 1..Len(files)] /\ DOMAIN folder' = DOMAIN folder \cup {backup}
      BY <2>1, <2>2, FolderType, LinkedType
    <2>4. folder' \in [DOMAIN folder' -> 1..Len(files)] /\ DOMAIN folder' \subseteq Name
      BY <2>3, FolderType
    <2>5. PICK d : d = [call[p] EXCEPT !.linked = file]
      OBVIOUS
    <2>6. d \in Call
      BY <1>1, <2>5, LinkedLocals, FolderType
    <2>7. Goto(p, "unlink", d)
      BY <1>6, <2>1, <2>5 DEF LinkFile
    <2>8. CallGoes
      BY <2>6, <2>7, GotoType, StepsAre DEF CallGoes, TypeOK
    <2>9. UNCHANGED <<m_LastRotationFailure, m_PendingContinuationLine, m_DeferredWork>>
      BY <1>6 DEF LinkFile
    <2> QED BY <1>3, <1>4, <2>4, <2>8, <2>9, InRotationType
  <1>7. CASE CheckName(p)
    BY <1>3, <1>4, <1>7, ContinueType, StepsAre, FolderType, InRotationType DEF CheckName, TypeOK
  <1>8. CASE NameIsTaken(p) /\ UNCHANGED folder
    <2>1. CASE RotationFails(p)
      BY <1>3, <1>8, <2>1, FailureType, FolderType, InRotationType
    <2>2. CASE Continue(p, "find") /\ UNCHANGED <<m_LastRotationFailure, m_PendingContinuationLine, m_DeferredWork>>
      BY <1>3, <1>4, <1>8, <2>2, ContinueType, StepsAre, FolderType, InRotationType DEF TypeOK
    <2> QED BY <1>8, <2>1, <2>2 DEF NameIsTaken
  <1>9. CASE RotationFails(p) /\ UNCHANGED folder
    BY <1>3, <1>9, FailureType, FolderType, InRotationType
  <1> QED BY <1>5, <1>6, <1>7, <1>8, <1>9 DEF RenameWithoutReplacing

LEMMA UnlinkType ==
  ASSUME TypeOK, NEW p \in Processes, UnlinkLog(p)
  PROVE  TypeOK'
  <1>1. InRotation(p, "unlink") /\ UNCHANGED <<m_FileStream, m_Size>>
    BY DEF UnlinkLog
  <1>2. PICK from : folder' = Unlinked(folder, from)
    BY DEF UnlinkLog, RemovesOldName
  <1>3. folder' \in [DOMAIN folder' -> 1..Len(files)] /\ DOMAIN folder' \subseteq Name
    BY <1>2, FolderType, UnlinkedType
  <1>4. CASE Renamed(p, call[p].linked)
    <2>1. call[p].linked \in Nat
      BY CallTypes DEF TypeOK
    <2> QED BY <1>1, <1>3, <1>4, <2>1, SuccessType, InRotationType
  <1>5. CASE RotationFails(p)
    BY <1>1, <1>3, <1>5, FailureType, InRotationType
  <1> QED BY <1>4, <1>5 DEF UnlinkLog

LEMMA ReplaceType ==
  ASSUME TypeOK, NEW p \in Processes, ReplaceFile(p)
  PROVE  TypeOK'
  <1>1. InRotation(p, "replace") /\ UNCHANGED <<m_FileStream, m_Size>>
    BY DEF ReplaceFile
  <1>2. CASE /\ Exists(Log(p))
             /\ folder' = Linked(Unlinked(folder, Log(p)), call[p].backup, folder[Log(p)])
             /\ Renamed(p, folder[Log(p)])
    <2>0. PICK backup \in Name : backup = call[p].backup
      BY CallTypes DEF TypeOK
    <2>1. PICK file \in 1..Len(files) : file = folder[Log(p)] /\ Log(p) \in DOMAIN folder
      BY <1>2, FolderType DEF Exists
    <2>2. folder' = Linked(Unlinked(folder, Log(p)), backup, file) /\ Renamed(p, file)
      BY <1>2, <2>0, <2>1
    <2>3. PICK names : names = Unlinked(folder, Log(p))
      OBVIOUS
    <2>4. names \in [DOMAIN names -> 1..Len(files)] /\ DOMAIN names \subseteq Name
      BY <2>3, FolderType, UnlinkedType
    <2>5. folder' \in [DOMAIN names \cup {backup} -> 1..Len(files)] /\ DOMAIN folder' = DOMAIN names \cup {backup}
      <3>1. folder' = Linked(names, backup, file)
        BY <2>2, <2>3
      <3> QED BY <2>4, <3>1, FolderType, LinkedType
    <2>6. folder' \in [DOMAIN folder' -> 1..Len(files)] /\ DOMAIN folder' \subseteq Name
      BY <2>4, <2>5
    <2> QED BY <1>1, <2>2, <2>6, SuccessType, InRotationType, FolderType
  <1>3. CASE RotationFails(p) /\ UNCHANGED folder
    BY <1>1, <1>3, FailureType, FolderType, InRotationType
  <1> QED BY <1>2, <1>3 DEF ReplaceFile

\* A step that leaves the disk, the work and the stream
LEMMA ManualType ==
  ASSUME TypeOK, NEW p \in Processes, FinishRotateLogFiles(p) \/ CloseAfterLines(p)
  PROVE  TypeOK'
  <1>1. CallGoes
    BY ReturnType, OpenThenType, StepsAre DEF FinishRotateLogFiles, CloseAfterLines, TypeOK
  <1>2. CallOK' /\ UNCHANGED <<clock, env, cleaned, m_Config, job>>
    BY <1>1, WithinType DEF FinishRotateLogFiles, CloseAfterLines, TypeOK
  <1>3. m_FileStream' \in [Processes -> 0..Len(files)] /\ m_Size' \in [Processes -> Nat]
    BY AfterEntryType DEF FinishRotateLogFiles, CloseAfterLines, streamVars, StreamOK, TypeOK
  <1>4. UNCHANGED <<folder, files, m_IsInitialized, openFailed, stateVars, m_DeferredWork>>
    BY DEF FinishRotateLogFiles, CloseAfterLines, streamVars
  <1>5. StateOK' /\ WorkOK'
    BY <1>2, <1>4, SameType DEF workVars, TypeOK
  <1>6. DiskOK' /\ StreamOK'
    BY <1>2, <1>3, <1>4 DEF TypeOK, DiskOK, StreamOK
  <1> QED BY <1>2, <1>5, <1>6 DEF TypeOK

LEMMA ConfigStepType ==
  ASSUME TypeOK, NEW p \in Processes, ConfigStep(p)
  PROVE  TypeOK'
  <1> SUFFICES ASSUME DiskOK, StreamOK, StateOK, WorkOK, CallOK
               PROVE  TypeOK'
    BY DEF TypeOK
  <1>1. PICK step : At(p, step)
    BY DEF ConfigStep, InitializeOpens, FinishInitialize, FinishReconfigure
  <1>2. /\ CallGoes => CallOK'
        /\ UNCHANGED <<clock, env, cleaned, m_Config, job, calls, crashes>> /\ m_Config' \in [Processes -> Config]
    BY <1>1, WithinType
  <1>3. WorkOK'
    BY <1>2 DEF WorkOK, ConfigStep, InitializeOpens, FinishInitialize, FinishReconfigure
  <1>4. clock \in Int
    BY DEF DiskOK
  <1>5. CallGoes
    BY ReturnType, OpenThenType, ContinueType, StepsAre
       DEF ConfigStep, InitializeOpens, FinishInitialize, FinishReconfigure
  <1>6. /\ files' \in Seq(File) /\ Len(files') = Len(files)
        /\ m_FileStream' \in [Processes -> 0..Len(files)] /\ m_Size' \in [Processes -> Nat]
    <2>1. ASSUME NEW from \in Int, WriteLine(p, Startup(from), TRUE)
          PROVE  /\ files' \in Seq(File) /\ Len(files') = Len(files)
                 /\ m_FileStream' \in [Processes -> 0..Len(files)] /\ m_Size' \in [Processes -> Nat]
      <3>1. PICK line \in Line : line = Startup(from)
        BY StartupType
      <3> QED BY <2>1, <3>1, WriteLineType
    <2>2. UNCHANGED files => files' \in Seq(File) /\ Len(files') = Len(files)
      BY DEF DiskOK
    <2>3. UNCHANGED <<m_FileStream, m_Size>> \/ AfterEntry(p) =>
             m_FileStream' \in [Processes -> 0..Len(files)] /\ m_Size' \in [Processes -> Nat]
      BY AfterEntryType DEF StreamOK
    <2>4. Nothing \in Int /\ OldPath \in Int
      BY DEF Nothing, OldPath
    <2> QED BY <2>1, <2>2, <2>3, <2>4 DEF ConfigStep, InitializeOpens, FinishInitialize, FinishReconfigure, streamVars
  <1>7. /\ UNCHANGED <<folder, m_IsInitialized, openFailed, m_LastOpenFailure, m_LastRotationFailure>>
        /\ m_LastLogDate' = m_LastLogDate \/ m_LastLogDate' = [m_LastLogDate EXCEPT ![p] = Today(p)]
        /\ \/ m_PendingContinuationLine' = m_PendingContinuationLine
           \/ \E line \in {Nothing, OldPath} : m_PendingContinuationLine' = [m_PendingContinuationLine EXCEPT ![p] = line]
    BY DEF ConfigStep, InitializeOpens, FinishInitialize, FinishReconfigure, streamVars
  <1>8. DiskOK' /\ StreamOK'
    BY <1>2, <1>6, <1>7 DEF DiskOK, StreamOK
  <1>9. Today(p) \in Int
    BY <1>4, ConfigTypes, DayType DEF Today
  <1>10. m_LastLogDate' \in [Processes -> Int] /\ m_PendingContinuationLine' \in [Processes -> Int]
    BY <1>7, <1>9 DEF StateOK, Nothing, OldPath
  <1> QED BY <1>2, <1>3, <1>5, <1>7, <1>8, <1>10 DEF TypeOK, StateOK

LEMMA DeletingType ==
  ASSUME WorkOK, NEW c \in Cleaners, NEW doomed \in SUBSET Name, Deleting(c, doomed)
  PROVE  job' \in [Cleaners -> Job]
  <1>1. job[c] \in Job
    BY DEF WorkOK
  <1>2. PICK j : j = [job[c] EXCEPT !.step = "delete", !.doomed = doomed]
    OBVIOUS
  <1>3. j \in Job
    BY <1>1, <1>2 DEF Job
  <1>4. job' = [job EXCEPT ![c] = IF doomed = {} THEN NoJob ELSE j]
    BY <1>2 DEF Deleting
  <1> QED BY <1>3, <1>4, NoJobType DEF WorkOK

LEMMA CleanupStepType ==
  ASSUME TypeOK, NEW c \in Cleaners, CleanupStep(c)
  PROVE  TypeOK'
  <1> SUFFICES ASSUME DiskOK, StreamOK, StateOK, WorkOK, CallOK
               PROVE  TypeOK'
    BY DEF TypeOK
  <1>1. UNCHANGED <<clock, env, files, streamVars, stateVars, pc, call, boundVars>>
    BY DEF CleanupStep, TakeDeferredWork, ListBackups, DeleteBackup, InJob
  <1>2. StreamOK' /\ StateOK' /\ CallOK'
    BY <1>1, SameType DEF boundVars
  <1>3. UNCHANGED <<folder, cleaned>> => DiskOK'
    BY <1>1 DEF DiskOK
  <1>4. job[c] \in Job /\ job[c].doomed \subseteq Name /\ job[c].config \in Config
    <2>1. job[c] \in Job
      BY DEF WorkOK
    <2> QED BY <2>1 DEF Job
  <1>5. ASSUME NEW p \in Processes, TakeDeferredWork(c, p) PROVE TypeOK'
    <2>1. /\ m_DeferredWork[p] \in Seq(Config) /\ m_DeferredWork[p] # <<>>
          /\ Head(m_DeferredWork[p]) \in Config /\ Tail(m_DeferredWork[p]) \in Seq(Config)
      BY <1>5 DEF TakeDeferredWork, WorkOK
    <2>2. PICK config \in Config : config = Head(m_DeferredWork[p])
      BY <2>1
    <2>3. PICK j : j = [step |-> "list", process |-> p, config |-> config, doomed |-> {}]
      OBVIOUS
    <2>4. j \in Job
      BY <2>3 DEF Job
    <2>5. job' \in {[job EXCEPT ![c] = j], [job EXCEPT ![c] = NoJob]}
      BY <1>5, <2>2, <2>3, Zenon DEF TakeDeferredWork
    <2>6. WorkOK'
      BY <1>5, <2>1, <2>4, <2>5, NoJobType DEF TakeDeferredWork, WorkOK
    <2>7. DiskOK'
      BY <1>3, <1>5 DEF TakeDeferredWork
    <2> QED BY <1>2, <2>6, <2>7 DEF TypeOK
  <1>6. CASE ListBackups(c)
    <2>1. PICK doomed \in SUBSET Name : Deleting(c, doomed)
      <3>1. \A listed, rules, path : listed = Backups(path) => {name \in listed : IsDoomed(name, listed, rules)} \in SUBSET Name
        BY DEF Backups, DiskOK
      <3> QED BY <1>6, <3>1, Zenon DEF ListBackups
    <2>2. WorkOK'
      BY <1>6, <2>1, DeletingType DEF ListBackups, WorkOK
    <2> QED BY <1>2, <1>3, <1>6, <2>2 DEF TypeOK, ListBackups
  <1>7. CASE DeleteBackup(c)
    <2>1. PICK name \in job[c].doomed :
             /\ Deleting(c, job[c].doomed \ {name})
             /\ \/ folder' = Unlinked(folder, name) /\ cleaned' = cleaned \cup {folder[name]} /\ Exists(name)
                \/ UNCHANGED <<folder, cleaned>>
      BY <1>7 DEF DeleteBackup
    <2>2. WorkOK'
      BY <1>4, <1>7, <2>1, DeletingType DEF DeleteBackup, WorkOK
    <2>3. CASE folder' = Unlinked(folder, name) /\ cleaned' = cleaned \cup {folder[name]} /\ Exists(name)
      <3>1. folder' \in [DOMAIN folder' -> 1..Len(files)] /\ DOMAIN folder' \subseteq Name /\ folder[name] \in Nat
        BY <2>3, UnlinkedType, FolderType DEF TypeOK, Exists
      <3>2. DiskOK'
        BY <1>1, <2>3, <3>1 DEF DiskOK
      <3> QED BY <1>2, <2>2, <3>2 DEF TypeOK
    <2> QED BY <1>2, <1>3, <2>1, <2>2, <2>3 DEF TypeOK
  <1> QED BY <1>5, <1>6, <1>7 DEF CleanupStep

LEMMA CrashType ==
  ASSUME TypeOK, NEW p \in Processes, Crash(p)
  PROVE  TypeOK'
  <1> SUFFICES ASSUME DiskOK, StreamOK, StateOK, WorkOK, CallOK
               PROVE  TypeOK'
    BY DEF TypeOK
  <1>1. UNCHANGED diskVars /\ calls' = calls /\ crashes' = crashes + 1
    BY DEF Crash
  <1>2. DiskOK' /\ Len(files') = Len(files)
    BY <1>1, SameType DEF diskVars
  <1>3. CallOK'
    <2>1. CallGoes
      BY ReturnType DEF Crash
    <2> QED BY <1>1, <2>1 DEF CallOK, CallGoes
  <1>4. StreamOK'
    BY <1>2, CloseFileType DEF Crash, StreamOK
  <1>5. StateOK'
    BY ConfigAssumption DEF Crash, StateOK, NoDay, Never, Nothing
  <1>6. job' \in [Cleaners -> Job]
    BY NoJobType DEF Crash, WorkOK
  <1>7. m_DeferredWork' \in [Processes -> Seq(Config)]
    BY DEF Crash, WorkOK
  <1> QED BY <1>2, <1>3, <1>4, <1>5, <1>6, <1>7 DEF TypeOK, WorkOK

\* Types, for any processes, configs, failures and bounds
THEOREM TypeCorrect == Spec => []TypeOK
  <1>1. Init => TypeOK
    <2> SUFFICES ASSUME Init PROVE TypeOK
      OBVIOUS
    <2>1. DiskOK
      <3>1. files = <<>> /\ folder = [name \in {} |-> NoFile] /\ cleaned = {} /\ clock = StartTime /\ env \in Environments
        BY DEF Init
      <3>2. DOMAIN folder = {} /\ folder \in [{} -> 1..Len(files)]
        BY <3>1
      <3> QED BY <3>1, <3>2, TimeAssumption DEF DiskOK
    <2>2. StreamOK /\ StateOK
      BY ConfigAssumption DEF Init, StreamOK, StateOK, NoFile, NoDay, Never, Nothing
    <2>3. WorkOK /\ CallOK
      BY NoJobType, NoCallType, StepsAre DEF Init, WorkOK, CallOK
    <2> QED BY <2>1, <2>2, <2>3 DEF TypeOK
  <1>2. TypeOK /\ [Next]_vars => TypeOK'
    <2> SUFFICES ASSUME TypeOK, [Next]_vars PROVE TypeOK'
      OBVIOUS
    <2>1. CASE UNCHANGED vars
      <3>1. UNCHANGED <<diskVars, streamVars, stateVars, workVars, pc, call, calls, crashes>> /\ UNCHANGED files
        BY <2>1 DEF vars, boundVars, diskVars
      <3> QED BY <3>1, SameType DEF TypeOK
    <2>2. ASSUME NEW p \in Processes, RotationStep(p) PROVE TypeOK'
      BY <2>2, BeginRotationType, FindType, RenameType, UnlinkType, ReplaceType, ManualType DEF RotationStep
    <2>3. CASE Tick
      <3>1. UNCHANGED <<env, folder, files, cleaned, streamVars, stateVars, workVars, pc, call, calls, crashes>>
            /\ clock' = clock + 1
        BY <2>3 DEF Tick, boundVars
      <3>2. DiskOK'
        BY <3>1, TimeAssumption DEF TypeOK, DiskOK
      <3> QED BY <3>1, <3>2, SameType DEF TypeOK
    <2> QED BY <2>1, <2>2, <2>3, CallStepType, OpenStepType, WriteStepType, ConfigStepType, CleanupStepType, CrashType DEF Next
  <1> QED BY <1>1, <1>2, PTL DEF Spec

\* A process's step leaves the other processes where they are
CallsStay(p) == \A q \in Processes \ {p} : pc'[q] = pc[q] /\ call'[q] = call[q]
StreamsStay(p) ==
    \A q \in Processes \ {p} :
        /\ m_FileStream'[q] = m_FileStream[q] /\ m_IsInitialized'[q] = m_IsInitialized[q]
        /\ openFailed'[q] = openFailed[q] /\ m_Config'[q] = m_Config[q] /\ m_LastLogDate'[q] = m_LastLogDate[q]
        /\ calls'[q] = calls[q]

LEMMA GotoStays == ASSUME CallOK, NEW p, NEW step, NEW locals, Goto(p, step, locals) PROVE CallsStay(p)
  BY DEF Goto, CallOK, CallsStay

LEMMA GoingStays ==
  ASSUME CallOK, NEW p
  PROVE  /\ Return(p) \/ (\E step : Continue(p, step) \/ OpenThen(p, step)) => CallsStay(p)
         /\ (\E reason, label, step, locals : RotateThen(p, reason, label, step, locals)) => CallsStay(p)
         /\ (\E config, step, locals : RotateDailyLogFromEarlierDay(p, config, step, locals)) => CallsStay(p)
         /\ CheckSize(p) => CallsStay(p)
         /\ RotationFails(p) \/ (\E locals : Rotated(p, locals)) => CallsStay(p)
         /\ (\E file : Renamed(p, file)) => CallsStay(p)
         /\ (\E config, locals : BeginInitialize(p, config, locals)) => CallsStay(p)
  <1>1. Return(p) \/ (\E step : Continue(p, step) \/ OpenThen(p, step)) => CallsStay(p)
    BY GotoStays, Zenon DEF Return, Continue, OpenThen
  <1>2. (\E reason, label, step, locals : RotateThen(p, reason, label, step, locals)) => CallsStay(p)
    BY GotoStays, Zenon DEF RotateThen
  <1>3. (\E config, step, locals : RotateDailyLogFromEarlierDay(p, config, step, locals)) => CallsStay(p)
    BY <1>2, GotoStays, Zenon DEF RotateDailyLogFromEarlierDay
  <1>4. CheckSize(p) => CallsStay(p)
    BY <1>1, <1>2, Zenon DEF CheckSize
  <1>5. RotationFails(p) \/ (\E locals : Rotated(p, locals)) => CallsStay(p)
    BY <1>1, GotoStays, Zenon DEF RotationFails, Rotated
  <1>6. (\E file : Renamed(p, file)) => CallsStay(p)
    BY <1>5, Zenon DEF Renamed
  <1>7. (\E config, locals : BeginInitialize(p, config, locals)) => CallsStay(p)
    BY <1>3, GotoStays, Zenon DEF BeginInitialize
  <1> QED BY <1>1, <1>2, <1>3, <1>4, <1>5, <1>6, <1>7

LEMMA OtherCallsStay ==
  ASSUME CallOK, NEW p \in Processes,
         CallStep(p) \/ OpenStep(p) \/ WriteStep(p) \/ RotationStep(p) \/ ConfigStep(p) \/ Crash(p)
  PROVE  CallsStay(p)
  <1>0. UNCHANGED <<pc, call>> => CallsStay(p)
    BY DEF CallsStay
  <1>1. CallStep(p) => CallsStay(p)
    BY <1>0, GotoStays, GoingStays, Zenon
       DEF CallStep, Close, Open, Write, RotateLogFiles, Initialize, ReconfigureFile, ReconfigurePath
  <1>2. OpenStep(p) \/ WriteStep(p) \/ Crash(p) => CallsStay(p)
    BY GotoStays, GoingStays, Zenon
       DEF OpenStep, EnsureReady, OpenSucceeds, OpenFails, WriteNewFileStartupLines, WriteStep, PrepareWrite,
           RolledOver, WriteLogEntry, Crash
  <1>3. RotationStep(p) => CallsStay(p)
    <2>1. BeginRotation(p) \/ FindFreeBackupPath(p) \/ FinishRotateLogFiles(p) \/ CloseAfterLines(p) => CallsStay(p)
      BY GotoStays, GoingStays, Zenon
         DEF BeginRotation, FindFreeBackupPath, FinishRotateLogFiles, CloseAfterLines
    <2>2. RenameWithoutReplacing(p) \/ UnlinkLog(p) \/ ReplaceFile(p) => CallsStay(p)
      BY GotoStays, GoingStays, Zenon
         DEF RenameWithoutReplacing, MoveFile, LinkFile, CheckName, NameIsTaken, UnlinkLog, ReplaceFile
    <2> QED BY <2>1, <2>2, Zenon DEF RotationStep
  <1>4. ConfigStep(p) => CallsStay(p)
    BY GotoStays, GoingStays, Zenon DEF ConfigStep, InitializeOpens, FinishInitialize, FinishReconfigure
  <1> QED BY <1>1, <1>2, <1>3, <1>4

LEMMA ClosingStays ==
  ASSUME StreamOK, NEW p
  PROVE  /\ CloseFile(p) \/ AfterEntry(p) => \A q \in Processes \ {p} : m_FileStream'[q] = m_FileStream[q]
         /\ (\E line, isLast : WriteLine(p, line, isLast)) => \A q \in Processes \ {p} : m_FileStream'[q] = m_FileStream[q]
  <1>1. CloseFile(p) \/ AfterEntry(p) => \A q \in Processes \ {p} : m_FileStream'[q] = m_FileStream[q]
    BY DEF CloseFile, AfterEntry, StreamOK
  <1> QED BY <1>1 DEF WriteLine

LEMMA OtherStreamsStay ==
  ASSUME TypeOK, NEW p \in Processes,
         CallStep(p) \/ OpenStep(p) \/ WriteStep(p) \/ RotationStep(p) \/ ConfigStep(p) \/ Crash(p)
  PROVE  StreamsStay(p)
  <1> SUFFICES ASSUME StreamOK, StateOK, CallOK
               PROVE  StreamsStay(p)
    BY DEF TypeOK
  <1> USE DEF StreamsStay
  <1>1. CallStep(p) => StreamsStay(p)
    <2>0. \A op : Begin(p, op) => \A q \in Processes \ {p} : calls'[q] = calls[q]
      BY DEF Begin, CallOK
    <2>1. Close(p) \/ Open(p) \/ Write(p) \/ RotateLogFiles(p) => StreamsStay(p)
      BY <2>0, ClosingStays DEF Close, Open, Write, RotateLogFiles, NotInitialized, streamVars, stateVars, StreamOK
    <2>2. ASSUME NEW config, Initialize(p, config) \/ ReconfigurePath(p, config) PROVE StreamsStay(p)
      BY <2>0, <2>2, ClosingStays DEF Initialize, ReconfigurePath, BeginInitialize, streamVars, StateOK
    <2>3. ASSUME NEW config, ReconfigureFile(p, config) PROVE StreamsStay(p)
      BY <2>0, <2>3 DEF ReconfigureFile, DayInNewZone, streamVars, StateOK
    <2> QED BY <2>1, <2>2, <2>3 DEF CallStep
  <1>2. OpenStep(p) => StreamsStay(p)
    BY ClosingStays DEF OpenStep, EnsureReady, OpenSucceeds, OpenFound, OpenFile, OpenFails, WriteNewFileStartupLines,
                   At, boundVars, streamVars, stateVars, StreamOK, StateOK
  <1>3. WriteStep(p) => StreamsStay(p)
    BY ClosingStays DEF WriteStep, PrepareWrite, RolledOver, WriteLogEntry,
                   At, boundVars, streamVars, stateVars, StreamOK, StateOK
  <1>4. RotationStep(p) => StreamsStay(p)
    BY ClosingStays DEF RotationStep, BeginRotation, FindFreeBackupPath, RenameWithoutReplacing, UnlinkLog, ReplaceFile,
                   FinishRotateLogFiles, CloseAfterLines, InRotation, At, boundVars, streamVars, stateVars
  <1>5. ConfigStep(p) => StreamsStay(p)
    BY ClosingStays DEF ConfigStep, InitializeOpens, FinishInitialize, FinishReconfigure, At, boundVars, streamVars, StateOK
  <1>6. Crash(p) => StreamsStay(p)
    BY ClosingStays DEF Crash, StreamOK, StateOK
  <1> QED BY <1>1, <1>2, <1>3, <1>4, <1>5, <1>6

LEMMA GotoAt ==
  ASSUME CallOK, NEW p \in Processes, NEW step, NEW locals, Goto(p, step, locals)
  PROVE  pc'[p] = step /\ (step # "idle" => call'[p] = locals)
  BY DEF Goto, CallOK

\* Where a process goes on
LEMMA GoesOn ==
  ASSUME CallOK, NEW p \in Processes
  PROVE  /\ Return(p) => pc'[p] = "idle"
         /\ \A step : Continue(p, step) => pc'[p] = step /\ (step # "idle" => call'[p] = call[p])
         /\ \A step : OpenThen(p, step) => pc'[p] = "open"
         /\ \A reason, label, step, locals : RotateThen(p, reason, label, step, locals) => pc'[p] = "rotate"
  BY GotoAt, Zenon DEF Return, Continue, OpenThen, RotateThen

LEMMA RotateThenAt ==
  ASSUME CallOK, NEW p \in Processes, NEW reason \in Reasons, NEW label \in Int, NEW step \in After,
         NEW locals \in Call, RotateThen(p, reason, label, step, locals)
  PROVE  /\ pc'[p] = "rotate" /\ call'[p] \in Call
         /\ call'[p].after = step /\ call'[p].reason = reason /\ call'[p].label = label /\ call'[p].stamp = locals.stamp
  <1>1. PICK d : d = [locals EXCEPT !.reason = reason, !.label = label, !.after = step,
                                    !.attempts = 0, !.isRotated = FALSE]
    OBVIOUS
  <1>2. d \in Call /\ d.after = step /\ d.reason = reason /\ d.label = label /\ d.stamp = locals.stamp
    BY <1>1 DEF Call
  <1>3. Goto(p, "rotate", d)
    BY <1>1 DEF RotateThen
  <1>4. pc'[p] = "rotate" /\ call'[p] = d
    BY <1>3, GotoAt
  <1> QED BY <1>2, <1>4

LEMMA RotatedAt ==
  ASSUME CallOK, NEW p \in Processes, NEW locals \in Call, Rotated(p, locals)
  PROVE  pc'[p] = IF locals.wasOpen THEN "open" ELSE locals.after
  <1>1. PICK step : step = IF locals.wasOpen THEN "open" ELSE locals.after
    OBVIOUS
  <1>2. PICK d : Goto(p, step, d)
    BY <1>1, Zenon DEF Rotated
  <1> QED BY <1>1, <1>2, GotoAt

LEMMA FailsAt ==
  ASSUME CallOK, NEW p \in Processes, RotationFails(p)
  PROVE  pc'[p] = IF call[p].wasOpen THEN "open" ELSE call[p].after
  BY GoesOn, Zenon DEF RotationFails

----------------------------------------------------------------------------
(* Closed only by failure *)

RenameSteps == {"find", "rename", "unlink", "replace"}
RotateSteps == {"rotate"} \cup RenameSteps

\* On the way to an open
Reopens(p) ==
    \/ pc[p] \in {"open", "initialize"}
    \/ pc[p] = "rotate" /\ call[p].after = "initialize"
    \/ pc[p] \in RenameSteps /\ (call[p].wasOpen \/ call[p].after = "initialize")

ClosedOnPurpose(p) ==
    m_IsInitialized[p] /\ ~IsAuto(p) => IsOpen(p) \/ openFailed[p] \/ Reopens(p)
ClosedInv == \A p \in Processes : ClosedOnPurpose(p)

LEMMA StaysOnPurpose ==
  ASSUME NEW p, ClosedOnPurpose(p), Reopens(p) => Reopens(p)', m_IsInitialized'[p] = m_IsInitialized[p],
         openFailed'[p] = openFailed[p], m_Config'[p] = m_Config[p] \/ IsAuto(p)' = IsAuto(p),
         m_FileStream'[p] = m_FileStream[p] \/ IsAuto(p)
  PROVE  ClosedOnPurpose(p)'
  BY DEF ClosedOnPurpose, IsAuto, IsOpen

LEMMA CallClosed ==
  ASSUME TypeOK, NEW p \in Processes, ClosedOnPurpose(p), CallStep(p)
  PROVE  ClosedOnPurpose(p)'
  <1>0. CallOK /\ StreamOK /\ StateOK
    BY DEF TypeOK
  <1>1. pc[p] = "idle" /\ ~Reopens(p)
    BY DEF CallStep, Close, Open, Write, RotateLogFiles, Initialize, ReconfigureFile, ReconfigurePath, Begin, Reopens, RenameSteps
  <1>2. CASE Close(p)
    BY <1>0, <1>2 DEF Close, NotInitialized, StreamOK, ClosedOnPurpose
  <1>3. CASE Open(p)
    BY <1>0, <1>3, GoesOn DEF Open, ClosedOnPurpose, Reopens
  <1>4. CASE Write(p) \/ RotateLogFiles(p)
    BY <1>1, <1>4, StaysOnPurpose DEF Write, RotateLogFiles, streamVars, stateVars
  <1>5. ASSUME NEW config \in Configs, Initialize(p, config) PROVE ClosedOnPurpose(p)'
    BY <1>5 DEF Initialize, streamVars, ClosedOnPurpose
  <1>6. ASSUME NEW config \in Configs, ReconfigureFile(p, config) PROVE ClosedOnPurpose(p)'
    <2>1. IsAuto(p)' = IsAuto(p)
      BY <1>0, <1>6 DEF ReconfigureFile, KeepsFile, IsAuto, StateOK
    <2> QED BY <1>1, <1>6, <2>1, StaysOnPurpose DEF ReconfigureFile, streamVars
  <1>7. ASSUME NEW config \in Configs, ReconfigurePath(p, config) PROVE ClosedOnPurpose(p)'
    <2>1. PICK locals \in Call : BeginInitialize(p, config, locals)
      BY <1>7, FirstLocals DEF ReconfigurePath
    <2>2. config \in Config
      BY ConfigAssumption
    <2>3. CASE Goto(p, "initialize", locals)
      BY <1>0, <2>3, GotoAt DEF Reopens, ClosedOnPurpose
    <2>4. CASE RotateThen(p, "daily", DayOfEarlierLog(config), "initialize", locals)
      <3>1. DayOfEarlierLog(config) \in Int
        BY <2>2, EarlierDayType DEF TypeOK
      <3> QED BY <1>0, <2>4, <3>1, RotateThenAt, StepsAre DEF Reopens, ClosedOnPurpose
    <2> QED BY <2>1, <2>3, <2>4, Zenon DEF BeginInitialize, RotateDailyLogFromEarlierDay
  <1> QED BY <1>2, <1>3, <1>4, <1>5, <1>6, <1>7 DEF CallStep

LEMMA OpenClosed ==
  ASSUME TypeOK, NEW p \in Processes, ClosedOnPurpose(p), OpenStep(p)
  PROVE  ClosedOnPurpose(p)'
  <1>0. CallOK /\ StreamOK /\ StateOK
    BY DEF TypeOK
  <1>1. CASE EnsureReady(p) \/ WriteNewFileStartupLines(p)
    <2>1. ~Reopens(p)
      BY <1>1 DEF EnsureReady, WriteNewFileStartupLines, At, Reopens, RenameSteps
    <2> QED BY <1>1, <2>1, StaysOnPurpose DEF EnsureReady, WriteNewFileStartupLines, WriteLine, At, streamVars
  <1>2. CASE OpenSucceeds(p)
    <2>1. CASE OpenFound(p)
      BY <1>2, <2>1 DEF OpenFound, IsOpen, ClosedOnPurpose
    <2>2. CASE OpenFile(p)
      <3>1. m_FileStream'[p] \in 1..Len(files')
        BY <1>2, <2>2, OpenFileType DEF TypeOK, OpenSucceeds, At
      <3>2. files' \in Seq(File)
        BY <1>2, OpenStepType DEF OpenStep, TypeOK, DiskOK
      <3>3. IsOpen(p)'
        BY <3>1, <3>2 DEF IsOpen, NoFile
      <3> QED BY <3>3 DEF ClosedOnPurpose
    <2> QED BY <1>2, <2>1, <2>2 DEF OpenSucceeds
  <1>3. CASE OpenFails(p)
    BY <1>0, <1>3 DEF OpenFails, StreamOK, ClosedOnPurpose
  <1> QED BY <1>1, <1>2, <1>3 DEF OpenStep

LEMMA WriteClosed ==
  ASSUME TypeOK, NEW p \in Processes, ClosedOnPurpose(p), WriteStep(p)
  PROVE  ClosedOnPurpose(p)'
  <1>1. ~Reopens(p) /\ m_Config' = m_Config
    BY DEF WriteStep, PrepareWrite, RolledOver, WriteLogEntry, At, Reopens, RenameSteps
  <1>2. m_FileStream' = m_FileStream \/ IsAuto(p)
    BY DEF WriteStep, PrepareWrite, RolledOver, WriteLogEntry, WriteLine, AfterEntry, streamVars
  <1>3. UNCHANGED <<m_IsInitialized, openFailed>>
    BY DEF WriteStep, PrepareWrite, RolledOver, WriteLogEntry, streamVars
  <1> QED BY <1>1, <1>2, <1>3, StaysOnPurpose

LEMMA ConfigClosed ==
  ASSUME TypeOK, NEW p \in Processes, ClosedOnPurpose(p), ConfigStep(p)
  PROVE  ClosedOnPurpose(p)'
  <1>1. CASE InitializeOpens(p)
    BY <1>1, GoesOn DEF InitializeOpens, TypeOK, Reopens, ClosedOnPurpose
  <1>2. CASE FinishInitialize(p) \/ FinishReconfigure(p)
    <2>1. ~Reopens(p) /\ UNCHANGED <<m_IsInitialized, openFailed, m_Config>>
      BY <1>2 DEF FinishInitialize, FinishReconfigure, At, Reopens, RenameSteps
    <2>2. m_FileStream' = m_FileStream \/ IsAuto(p)
      BY <1>2 DEF FinishInitialize, FinishReconfigure, WriteLine, AfterEntry
    <2> QED BY <2>1, <2>2, StaysOnPurpose
  <1> QED BY <1>1, <1>2 DEF ConfigStep

LEMMA RotationClosed ==
  ASSUME TypeOK, NEW p \in Processes, ClosedOnPurpose(p), RotationStep(p)
  PROVE  ClosedOnPurpose(p)'
  <1>0. CallOK /\ call[p] \in Call
    BY CallTypes DEF TypeOK
  <1>1. UNCHANGED <<m_IsInitialized, openFailed, m_Config>>
    BY DEF RotationStep, BeginRotation, FindFreeBackupPath, RenameWithoutReplacing, UnlinkLog, ReplaceFile,
           FinishRotateLogFiles, CloseAfterLines, InRotation, At, streamVars, stateVars
  <1>2. CASE BeginRotation(p)
    <2>1. PICK locals : locals = [call[p] EXCEPT !.wasOpen = IsOpen(p)]
      OBVIOUS
    <2>2. IsOpen(p) \in BOOLEAN
      BY DEF IsOpen
    <2>3. locals \in Call /\ locals.wasOpen = IsOpen(p) /\ locals.after = call[p].after
      BY <1>0, <2>1, <2>2, WasOpenLocals
    <2>4. pc[p] = "rotate"
      BY <1>2 DEF BeginRotation, InRotation, At
    <2>5. CASE IsOpen(p) \/ call[p].after = "initialize"
      <3>1. CASE Rotated(p, locals)
        BY <1>0, <2>3, <2>5, <3>1, RotatedAt DEF Reopens, ClosedOnPurpose
      <3>2. CASE Goto(p, "find", locals)
        BY <1>0, <2>3, <2>5, <3>2, GotoAt DEF Reopens, RenameSteps, ClosedOnPurpose
      <3> QED BY <1>2, <2>1, <3>1, <3>2 DEF BeginRotation
    <2>6. CASE ~IsOpen(p) /\ call[p].after # "initialize"
      BY <1>1, <2>4, <2>6 DEF ClosedOnPurpose, Reopens, RenameSteps, IsAuto
    <2> QED BY <2>5, <2>6
  <1>3. CASE FinishRotateLogFiles(p) \/ CloseAfterLines(p)
    <2>1. ~Reopens(p)
      BY <1>3 DEF FinishRotateLogFiles, CloseAfterLines, At, Reopens, RenameSteps
    <2>2. m_FileStream' = m_FileStream \/ IsAuto(p)
      BY <1>3 DEF FinishRotateLogFiles, CloseAfterLines, AfterEntry, streamVars
    <2> QED BY <1>1, <2>1, <2>2, StaysOnPurpose
  <1>4. CASE FindFreeBackupPath(p) \/ RenameWithoutReplacing(p) \/ UnlinkLog(p) \/ ReplaceFile(p)
    <2>1. pc[p] \in RenameSteps /\ m_FileStream' = m_FileStream
      BY <1>4 DEF FindFreeBackupPath, RenameWithoutReplacing, UnlinkLog, ReplaceFile, InRotation, At, RenameSteps
    <2>2. RotationFails(p) \/ (\E file : Renamed(p, file)) => (Reopens(p) => Reopens(p)')
      <3>1. RotationFails(p) \/ (\E file : Renamed(p, file)) => pc'[p] = IF call[p].wasOpen THEN "open" ELSE call[p].after
        BY <1>0, FailsAt, RotatedAt DEF Renamed
      <3> QED BY <2>1, <3>1 DEF Reopens, RenameSteps
    <2>3. Reopens(p) => Reopens(p)'
      <3>1. CASE FindFreeBackupPath(p)
        <4>1. ASSUME NEW suffix \in FreeSuffixes(p),
                     Goto(p, "rename", [call[p] EXCEPT !.backup = Candidate(p, suffix), !.attempts = @ + 1])
              PROVE  Reopens(p) => Reopens(p)'
          <5>1. call[p].reason \in Reasons /\ call[p].label \in Int /\ Path(p) \in STRING /\ suffix \in Nat
            BY CallTypes, ConfigTypes, TimeAssumption DEF TypeOK, FreeSuffixes
          <5>2. PICK backup \in Name : backup = Candidate(p, suffix)
            BY <5>1, BackupNameType DEF Candidate
          <5>3. PICK d : d = [call[p] EXCEPT !.backup = backup, !.attempts = @ + 1]
            OBVIOUS
          <5>4. d.wasOpen = call[p].wasOpen /\ d.after = call[p].after
            <6>1. PICK n : d = [call[p] EXCEPT !.backup = backup, !.attempts = n]
              BY <5>3
            <6> QED BY <1>0, <6>1 DEF Call
          <5>5. pc'[p] = "rename" /\ call'[p] = d
            BY <1>0, <4>1, <5>2, <5>3, GotoAt
          <5> QED BY <2>1, <5>4, <5>5 DEF Reopens, RenameSteps
        <4> QED BY <2>2, <3>1, <4>1, Zenon DEF FindFreeBackupPath
      <3>2. CASE RenameWithoutReplacing(p)
        <4>1. ASSUME NEW file \in Nat, Goto(p, "unlink", [call[p] EXCEPT !.linked = file])
              PROVE  Reopens(p) => Reopens(p)'
          <5>1. PICK d : d = [call[p] EXCEPT !.linked = file]
            OBVIOUS
          <5>2. d.wasOpen = call[p].wasOpen /\ d.after = call[p].after
            BY <1>0, <5>1, LinkedLocals
          <5>3. pc'[p] = "unlink" /\ call'[p] = d
            BY <1>0, <4>1, <5>1, GotoAt
          <5> QED BY <2>1, <5>2, <5>3 DEF Reopens, RenameSteps
        <4>2. LinkFile(p) => (Reopens(p) => Reopens(p)')
          <5>1. LinkFile(p) => folder[Log(p)] \in Nat
            BY FolderType DEF LinkFile, Exists
          <5> QED BY <4>1, <5>1 DEF LinkFile
        <4>3. Continue(p, "replace") \/ Continue(p, "find") => (Reopens(p) => Reopens(p)')
          BY <1>0, <2>1, GoesOn DEF Reopens, RenameSteps
        <4> QED BY <2>2, <3>2, <4>2, <4>3, Zenon DEF RenameWithoutReplacing, MoveFile, CheckName, NameIsTaken
      <3>3. CASE UnlinkLog(p) \/ ReplaceFile(p)
        BY <2>2, <3>3 DEF UnlinkLog, ReplaceFile
      <3> QED BY <1>4, <3>1, <3>2, <3>3
    <2> QED BY <1>1, <2>1, <2>3, StaysOnPurpose
  <1> QED BY <1>2, <1>3, <1>4 DEF RotationStep

(***************************************************************************)
(* Between calls, the file of an initialized logger is closed only if the  *)
(* last open failed, whatever calls, rotations, failures and crashes came  *)
(* before (EnsureReadyUnlocked(), "Initialized but closed only happens     *)
(* when the file couldn't be reopened").                                   *)
(***************************************************************************)
THEOREM ClosedAfterFailure == Spec => []ClosedOnlyByFailure
  <1>1. Init => ClosedInv
    BY DEF Init, ClosedInv, ClosedOnPurpose
  <1>2. TypeOK /\ ClosedInv /\ [Next]_vars => ClosedInv'
    <2> SUFFICES ASSUME TypeOK, ClosedInv, [Next]_vars, NEW p \in Processes
                 PROVE  ClosedOnPurpose(p)'
      BY DEF ClosedInv
    <2>0. ClosedOnPurpose(p)
      BY DEF ClosedInv
    <2>1. CASE UNCHANGED <<streamVars, m_Config, pc, call>>
      BY <2>0, <2>1 DEF streamVars, ClosedOnPurpose, Reopens, IsAuto, IsOpen
    <2>2. CASE UNCHANGED vars \/ Tick \/ \E c \in Cleaners : CleanupStep(c)
      BY <2>1, <2>2 DEF vars, Tick, CleanupStep, TakeDeferredWork, ListBackups, DeleteBackup, InJob, stateVars
    <2>3. ASSUME NEW q \in Processes,
                 CallStep(q) \/ OpenStep(q) \/ WriteStep(q) \/ RotationStep(q) \/ ConfigStep(q) \/ Crash(q)
          PROVE  ClosedOnPurpose(p)'
      <3>1. CASE p # q
        <4>1. CallsStay(q) /\ StreamsStay(q)
          BY <2>3, OtherCallsStay, OtherStreamsStay DEF TypeOK
        <4> QED BY <2>0, <3>1, <4>1 DEF CallsStay, StreamsStay, ClosedOnPurpose, Reopens, IsAuto, IsOpen
      <3>2. CASE p = q /\ Crash(q)
        BY <3>2 DEF Crash, TypeOK, StreamOK, ClosedOnPurpose
      <3> QED BY <2>0, <2>3, <3>1, <3>2, CallClosed, OpenClosed, WriteClosed, RotationClosed, ConfigClosed
    <2> QED BY <2>2, <2>3 DEF Next
  <1>3. ClosedInv => ClosedOnlyByFailure
    BY DEF ClosedInv, ClosedOnPurpose, ClosedOnlyByFailure, Reopens, RenameSteps
  <1> QED BY <1>1, <1>2, <1>3, TypeCorrect, PTL DEF Spec

\* A step of a process other than a crash
StepOf(p) == CallStep(p) \/ OpenStep(p) \/ WriteStep(p) \/ RotationStep(p) \/ ConfigStep(p)
\* A step that leaves the disk and the processes, but for their work
StepOfAnother ==
    \/ \E c \in Cleaners : CleanupStep(c)
    \/ Tick \/ UNCHANGED vars

LEMMA NextSplits ==
  ASSUME [Next]_vars
  PROVE  (\E p \in Processes : StepOf(p)) \/ (\E p \in Processes : Crash(p)) \/ StepOfAnother
  BY DEF Next, StepOf, StepOfAnother

LEMMA OthersStay ==
  ASSUME TypeOK, NEW p \in Processes, StepOf(p) \/ Crash(p)
  PROVE  CallsStay(p) /\ StreamsStay(p)
  BY OtherCallsStay, OtherStreamsStay DEF StepOf, TypeOK

LEMMA AnotherStays ==
  ASSUME StepOfAnother
  PROVE  UNCHANGED <<env, files, streamVars, stateVars, pc, call, calls, crashes>> \/
         UNCHANGED <<env, files, streamVars, m_Config, m_LastLogDate, pc, call, calls, crashes>>
  BY DEF StepOfAnother, CleanupStep, TakeDeferredWork, ListBackups, DeleteBackup, InJob, Tick, vars, boundVars, diskVars, stateVars

\* A step within a call, or the first of one
LEMMA StepsBegin ==
  ASSUME NEW p \in Processes
  PROVE  /\ CallStep(p) => pc[p] = "idle" /\ (\E op : Begin(p, op)) /\ UNCHANGED diskVars
         /\ OpenStep(p) => \E step \in {"ready", "open", "startup"} : At(p, step)
         /\ WriteStep(p) => \E step \in {"prepare", "rolled", "write"} : At(p, step)
         /\ RotationStep(p) => \E step \in {"rotate", "find", "rename", "unlink", "replace", "manual", "close"} : At(p, step)
         /\ ConfigStep(p) => \E step \in {"initialize", "initialized", "reconfigured"} : At(p, step)
  <1>1. CallStep(p) => pc[p] = "idle" /\ (\E op : Begin(p, op)) /\ UNCHANGED diskVars
    BY DEF CallStep, Close, Open, Write, RotateLogFiles, Initialize, ReconfigureFile, ReconfigurePath, Begin
  <1>2. OpenStep(p) => \E step \in {"ready", "open", "startup"} : At(p, step)
    BY DEF OpenStep, EnsureReady, OpenSucceeds, OpenFails, WriteNewFileStartupLines
  <1>3. WriteStep(p) => \E step \in {"prepare", "rolled", "write"} : At(p, step)
    BY DEF WriteStep, PrepareWrite, RolledOver, WriteLogEntry
  <1>4. RotationStep(p) => \E step \in {"rotate", "find", "rename", "unlink", "replace", "manual", "close"} : At(p, step)
    BY DEF RotationStep, BeginRotation, FindFreeBackupPath, RenameWithoutReplacing, UnlinkLog, ReplaceFile,
           FinishRotateLogFiles, CloseAfterLines, InRotation
  <1>5. ConfigStep(p) => \E step \in {"initialize", "initialized", "reconfigured"} : At(p, step)
    BY DEF ConfigStep, InitializeOpens, FinishInitialize, FinishReconfigure
  <1> QED BY <1>1, <1>2, <1>3, <1>4, <1>5

----------------------------------------------------------------------------
(* A process alone *)

\* What was never called
UnusedInv ==
    \A p \in Processes :
        calls[p] = 0 => pc[p] = "idle" /\ ~IsOpen(p) /\ ~m_IsInitialized[p] /\ m_LastLogDate[p] = NoDay

LEMMA StepsCount ==
  ASSUME TypeOK, UnusedInv, NEW p \in Processes, StepOf(p)
  PROVE  /\ calls'[p] # 0 /\ crashes' = crashes /\ env' = env
         /\ \A q \in Processes : calls[q] # 0 => calls'[q] # 0
  <1>1. CASE CallStep(p)
    <2>1. PICK op : Begin(p, op)
      BY <1>1, StepsBegin
    <2>2. PICK n \in Nat : n = calls[p]
      BY DEF TypeOK, CallOK
    <2>3. calls' = [calls EXCEPT ![p] = n + 1] /\ crashes' = crashes /\ UNCHANGED diskVars
      BY <2>1, <2>2 DEF Begin
    <2> QED BY <2>3 DEF TypeOK, CallOK, diskVars
  <1>2. CASE ~CallStep(p)
    <2>1. PICK step : At(p, step) /\ step # "idle"
      BY <1>2, StepsBegin DEF StepOf
    <2> QED BY <2>1 DEF At, boundVars, UnusedInv
  <1> QED BY <1>1, <1>2

LEMMA AloneBefore ==
  ASSUME TypeOK, TypeOK', UnusedInv, [Next]_vars, IsAlone'
  PROVE  /\ IsAlone
         /\ \A p \in Processes : StepOf(p) => \A q \in Processes \ {p} : calls[q] = 0 /\ calls'[q] = 0
  <1>1. \A q \in Processes : calls[q] \in Nat /\ calls'[q] \in Nat
    BY DEF TypeOK, CallOK
  <1>2. \A q \in Processes : calls[q] # 0 => calls'[q] # 0
    <2>1. CASE \E p \in Processes : StepOf(p)
      BY <2>1, StepsCount
    <2>2. CASE (\E p \in Processes : Crash(p)) \/ StepOfAnother
      BY <2>2, AnotherStays DEF Crash
    <2> QED BY <2>1, <2>2, NextSplits
  <1>3. \A p, q \in Processes : calls'[p] # 0 /\ calls'[q] # 0 => p = q
    BY <1>1 DEF IsAlone
  <1>4. IsAlone
    BY <1>1, <1>2, <1>3 DEF IsAlone
  <1>5. ASSUME NEW p \in Processes, StepOf(p), NEW q \in Processes \ {p} PROVE calls[q] = 0 /\ calls'[q] = 0
    <2>1. calls'[p] # 0
      BY <1>5, StepsCount
    <2> QED BY <1>2, <1>3, <1>5, <2>1
  <1> QED BY <1>4, <1>5

LEMMA UnusedStep == TypeOK /\ UnusedInv /\ [Next]_vars => UnusedInv'
  <1> SUFFICES ASSUME TypeOK, UnusedInv, [Next]_vars, NEW q \in Processes, calls'[q] = 0
               PROVE  pc'[q] = "idle" /\ ~IsOpen(q)' /\ ~m_IsInitialized'[q] /\ m_LastLogDate'[q] = NoDay
    BY DEF UnusedInv
  <1>1. CASE StepOfAnother
    BY <1>1, AnotherStays DEF UnusedInv, IsOpen, streamVars, stateVars
  <1>2. ASSUME NEW p \in Processes, StepOf(p) PROVE pc'[q] = "idle" /\ ~IsOpen(q)' /\ ~m_IsInitialized'[q] /\ m_LastLogDate'[q] = NoDay
    <2>1. q # p /\ calls[q] = 0
      BY <1>2, StepsCount
    <2>2. CallsStay(p) /\ StreamsStay(p)
      BY <1>2, OthersStay
    <2> QED BY <2>1, <2>2 DEF CallsStay, StreamsStay, UnusedInv, IsOpen
  <1>3. ASSUME NEW p \in Processes, Crash(p) PROVE pc'[q] = "idle" /\ ~IsOpen(q)' /\ ~m_IsInitialized'[q] /\ m_LastLogDate'[q] = NoDay
    <2>1. calls[q] = 0
      BY <1>3 DEF Crash
    <2>2. CASE q # p
      <3>1. CallsStay(p) /\ StreamsStay(p)
        BY <1>3, OthersStay
      <3> QED BY <2>1, <2>2, <3>1 DEF CallsStay, StreamsStay, UnusedInv, IsOpen
    <2>3. CASE q = p
      BY <1>3, <2>3, GoesOn DEF Crash, CloseFile, IsOpen, TypeOK, StreamOK, StateOK
    <2> QED BY <2>2, <2>3
  <1> QED BY <1>1, <1>2, <1>3, NextSplits

----------------------------------------------------------------------------
(* The steps of a rename *)

\* How the steps that are none of a rename go on
LEMMA NoRename ==
  ASSUME TypeOK, NEW p \in Processes,
         CallStep(p) \/ OpenStep(p) \/ WriteStep(p) \/ ConfigStep(p) \/ FinishRotateLogFiles(p) \/ CloseAfterLines(p)
  PROVE  pc'[p] \notin RenameSteps
  <1>0. CallOK /\ call[p].then \in Then
    BY CallTypes DEF TypeOK
  <1>1. "idle" \notin RenameSteps /\ "open" \notin RenameSteps /\ "rotate" \notin RenameSteps /\ "ready" \notin RenameSteps
        /\ \A step \in Step \ {"find", "rename", "unlink", "replace"} : step \notin RenameSteps
    BY DEF RenameSteps
  <1>2. Then \cap RenameSteps = {}
    BY DEF Then, After, RenameSteps
  <1>3. ASSUME NEW step, NEW d, Goto(p, step, d) PROVE pc'[p] = step
    BY <1>0, <1>3, GotoAt
  <1>4. CheckSize(p) => pc'[p] \in {"rotate", "write"}
    BY <1>0, GoesOn, Zenon DEF CheckSize
  <1>5. ASSUME NEW config, NEW step, NEW locals, RotateDailyLogFromEarlierDay(p, config, step, locals)
        PROVE  pc'[p] \in {"rotate", step}
    BY <1>0, <1>5, GoesOn, GotoAt, Zenon DEF RotateDailyLogFromEarlierDay
  <1>6. CASE CallStep(p)
    <2>1. pc'[p] = pc[p] \/ pc'[p] \in {"open", "ready", "rotate", "initialize"}
      <3>1. CASE Close(p) \/ Open(p)
        BY <1>0, <1>3, <3>1, GoesOn, ZenonT(60) DEF Close, Open
      <3>2. CASE Write(p) \/ RotateLogFiles(p)
        BY <1>0, <1>3, <3>2, GoesOn, ZenonT(60) DEF Write, RotateLogFiles
      <3>3. ASSUME NEW config, Initialize(p, config) \/ ReconfigurePath(p, config)
            PROVE  pc'[p] = pc[p] \/ pc'[p] \in {"rotate", "initialize"}
        BY <1>0, <1>3, <1>5, <3>3, GoesOn, ZenonT(60) DEF Initialize, ReconfigurePath, BeginInitialize
      <3>4. ASSUME NEW config, ReconfigureFile(p, config) PROVE pc'[p] = pc[p]
        BY <3>4 DEF ReconfigureFile
      <3> QED BY <1>6, <3>1, <3>2, <3>3, <3>4 DEF CallStep
    <2> QED BY <1>6, <2>1, StepsBegin DEF RenameSteps
  <1>7. CASE OpenStep(p)
    <2>1. CASE EnsureReady(p)
      BY <1>0, <2>1, GoesOn DEF EnsureReady, RenameSteps
    <2>2. CASE OpenSucceeds(p) \/ WriteNewFileStartupLines(p)
      <3>1. Continue(p, "startup") \/ Continue(p, call[p].then)
        BY <2>2, Zenon DEF OpenSucceeds, WriteNewFileStartupLines
      <3>2. pc'[p] \in {"startup", call[p].then}
        BY <1>0, <3>1, GoesOn
      <3> QED BY <1>0, <1>2, <3>2 DEF RenameSteps
    <2>3. CASE OpenFails(p)
      <3>1. PICK to : /\ to = CASE call[p].then \in {"prepare", "close"} -> "idle"
                                [] call[p].then = "initialized" -> "reconfigured"
                                [] OTHER -> call[p].then
                      /\ \E d : Goto(p, to, d)
        BY <2>3, Zenon DEF OpenFails
      <3>2. to \notin RenameSteps
        BY <1>0, <1>2, <3>1 DEF RenameSteps
      <3> QED BY <1>3, <3>1, <3>2
    <2> QED BY <1>7, <2>1, <2>2, <2>3 DEF OpenStep
  <1>8. CASE WriteStep(p)
    <2>1. pc'[p] \in {"rotate", "rolled", "write", "idle"}
      BY <1>0, <1>4, <1>5, <1>8, GoesOn DEF WriteStep, PrepareWrite, RolledOver, WriteLogEntry
    <2> QED BY <2>1 DEF RenameSteps
  <1>9. CASE ConfigStep(p) \/ FinishRotateLogFiles(p) \/ CloseAfterLines(p)
    <2>1. pc'[p] \in {"open", "idle", "reconfigured"}
      BY <1>0, <1>9, GoesOn
         DEF ConfigStep, InitializeOpens, FinishInitialize, FinishReconfigure, FinishRotateLogFiles, CloseAfterLines
    <2> QED BY <2>1 DEF RenameSteps
  <1> QED BY <1>6, <1>7, <1>8, <1>9

LEMMA AfterRename ==
  ASSUME TypeOK, NEW p \in Processes, RotationFails(p) \/ (\E locals \in Call : Rotated(p, locals)) \/ (\E file : Renamed(p, file))
  PROVE  pc'[p] \notin RenameSteps
  <1>1. CallOK /\ call[p] \in Call /\ call[p].after \in After
    BY CallTypes DEF TypeOK
  <1>2. PICK c \in Call : pc'[p] = IF c.wasOpen THEN "open" ELSE c.after
    BY <1>1, FailsAt, RotatedAt DEF Renamed
  <1>3. c.after \in After
    BY DEF Call
  <1> QED BY <1>2, <1>3 DEF After, RenameSteps

----------------------------------------------------------------------------
(* The names a rotation and a cleanup are about *)

Naming == {"rename", "unlink", "replace"}
NamedAsAsked(p) ==
    pc[p] \in Naming => /\ call[p].backup.path = Path(p)
                        /\ call[p].backup.reason = call[p].reason /\ call[p].backup.label = call[p].label
NamesInv ==
    /\ \A p \in Processes : NamedAsAsked(p)
    /\ \A c \in Cleaners : \A name \in job[c].doomed : IsBackup(name)

LEMMA BackupIsBackup ==
  ASSUME TypeOK, NEW p \in Processes, NamedAsAsked(p), pc[p] \in Naming
  PROVE  /\ IsBackup(call[p].backup) /\ call[p].backup \in Name /\ call[p].backup # Log(p)
  <1>1. call[p].reason \in Reasons /\ call[p].backup \in Name
    BY CallTypes DEF TypeOK
  <1>2. IsBackup(call[p].backup)
    BY <1>1 DEF NamedAsAsked, IsBackup, Reasons
  <1> QED BY <1>1, <1>2, LogIsNoBackup DEF Log

\* How a rename begins and goes on
LEMMA FindGoes ==
  ASSUME TypeOK, NEW p \in Processes, FindFreeBackupPath(p)
  PROVE  \/ RotationFails(p)
         \/ /\ pc'[p] = "rename" /\ call'[p] \in Call /\ call'[p].stamp = call[p].stamp
            /\ call'[p].after = call[p].after /\ call'[p].reason = call[p].reason /\ call'[p].label = call[p].label
            /\ call'[p].backup.reason = call[p].reason /\ call'[p].backup.label = call[p].label
            /\ call'[p].backup.path = Path(p)
  <1>1. CallOK /\ call[p] \in Call /\ call[p].reason \in Reasons /\ call[p].label \in Int /\ Path(p) \in STRING
    BY CallTypes, ConfigTypes DEF TypeOK
  <1>2. ASSUME NEW suffix \in FreeSuffixes(p),
               Goto(p, "rename", [call[p] EXCEPT !.backup = Candidate(p, suffix), !.attempts = @ + 1])
        PROVE  /\ pc'[p] = "rename" /\ call'[p] \in Call /\ call'[p].stamp = call[p].stamp
               /\ call'[p].after = call[p].after /\ call'[p].reason = call[p].reason /\ call'[p].label = call[p].label
               /\ call'[p].backup.reason = call[p].reason /\ call'[p].backup.label = call[p].label
               /\ call'[p].backup.path = Path(p)
    <2>1. suffix \in Nat
      BY TimeAssumption DEF FreeSuffixes
    <2>2. PICK backup \in Name : /\ backup = Candidate(p, suffix)
                                 /\ backup.reason = call[p].reason /\ backup.label = call[p].label
                                 /\ backup.path = Path(p)
      <3>1. /\ Candidate(p, suffix) \in Name
            /\ Candidate(p, suffix).reason = call[p].reason /\ Candidate(p, suffix).label = call[p].label
            /\ Candidate(p, suffix).path = Path(p)
        BY <1>1, <2>1 DEF Candidate, BackupName, Name
      <3> QED BY <3>1
    <2>3. PICK d : d = [call[p] EXCEPT !.backup = backup, !.attempts = @ + 1]
      OBVIOUS
    <2>4. d \in Call
      BY <1>1, <2>3, BackupLocals
    <2>5. PICK n : d = [call[p] EXCEPT !.backup = backup, !.attempts = n]
      BY <2>3
    <2>6. /\ d.backup = backup /\ d.stamp = call[p].stamp /\ d.after = call[p].after
          /\ d.reason = call[p].reason /\ d.label = call[p].label
      BY <1>1, <2>5 DEF Call
    <2>7. pc'[p] = "rename" /\ call'[p] = d
      BY <1>1, <1>2, <2>2, <2>3, GotoAt
    <2> QED BY <2>2, <2>4, <2>6, <2>7
  <1> QED BY <1>2, Zenon DEF FindFreeBackupPath

LEMMA LinkGoes ==
  ASSUME TypeOK, NEW p \in Processes, LinkFile(p)
  PROVE  /\ pc'[p] = "unlink" /\ call'[p] \in Call /\ call'[p].stamp = call[p].stamp
         /\ call'[p].after = call[p].after /\ call'[p].reason = call[p].reason /\ call'[p].label = call[p].label
         /\ call'[p].backup = call[p].backup /\ call'[p].linked = folder[Log(p)]
  <1>1. CallOK /\ call[p] \in Call
    BY CallTypes DEF TypeOK
  <1>2. folder[Log(p)] \in Nat
    BY FolderType DEF LinkFile, Exists
  <1>3. PICK d : d = [call[p] EXCEPT !.linked = folder[Log(p)]]
    OBVIOUS
  <1>4. /\ d \in Call /\ d.stamp = call[p].stamp /\ d.after = call[p].after /\ d.reason = call[p].reason
        /\ d.label = call[p].label /\ d.backup = call[p].backup /\ d.linked = folder[Log(p)]
    BY <1>1, <1>2, <1>3 DEF Call
  <1>5. pc'[p] = "unlink" /\ call'[p] = d
    BY <1>1, <1>3, GotoAt DEF LinkFile
  <1> QED BY <1>4, <1>5

\* What a rename does to the folder and where it goes
LEMMA RenameGoes ==
  ASSUME TypeOK, NEW p \in Processes, RenameWithoutReplacing(p)
  PROVE  \/ MoveFile(p) /\ pc'[p] \notin RenameSteps
         \/ LinkFile(p) /\ pc'[p] = "unlink"
         \/ /\ CheckName(p) /\ pc'[p] = "replace" /\ call'[p] = call[p] /\ UNCHANGED folder
         \/ pc'[p] = "find" /\ call'[p] = call[p] /\ UNCHANGED folder
         \/ RotationFails(p) /\ pc'[p] \notin RenameSteps /\ UNCHANGED folder
  <1>1. CallOK
    BY DEF TypeOK
  <1>2. MoveFile(p) => pc'[p] \notin RenameSteps
    BY AfterRename DEF MoveFile
  <1>3. LinkFile(p) => pc'[p] = "unlink"
    BY LinkGoes
  <1>4. CheckName(p) => pc'[p] = "replace" /\ call'[p] = call[p] /\ UNCHANGED folder
    BY <1>1, GoesOn DEF CheckName
  <1>5. RotationFails(p) => pc'[p] \notin RenameSteps
    BY AfterRename
  <1>6. Continue(p, "find") => pc'[p] = "find" /\ call'[p] = call[p]
    BY <1>1, GoesOn
  <1> QED BY <1>2, <1>3, <1>4, <1>5, <1>6, Zenon DEF RenameWithoutReplacing, NameIsTaken

LEMMA BeginGoes ==
  ASSUME TypeOK, NEW p \in Processes, BeginRotation(p)
  PROVE  \/ pc'[p] \notin RenameSteps
         \/ /\ pc'[p] = "find" /\ call'[p] \in Call /\ call'[p].stamp = call[p].stamp /\ call'[p].after = call[p].after
            /\ call'[p].reason = call[p].reason /\ call'[p].label = call[p].label
  <1>1. PICK locals : locals = [call[p] EXCEPT !.wasOpen = IsOpen(p)]
    OBVIOUS
  <1>2. IsOpen(p) \in BOOLEAN /\ CallOK /\ call[p] \in Call
    BY CallTypes DEF IsOpen, TypeOK
  <1>3. /\ locals \in Call /\ locals.stamp = call[p].stamp /\ locals.after = call[p].after /\ locals.reason = call[p].reason
        /\ locals.label = call[p].label
    BY <1>1, <1>2 DEF Call
  <1>4. CASE Goto(p, "find", locals)
    BY <1>2, <1>3, <1>4, GotoAt
  <1>5. CASE Rotated(p, locals)
    BY <1>3, <1>5, AfterRename
  <1> QED BY <1>1, <1>4, <1>5 DEF BeginRotation

LEMMA NamesStep == TypeOK /\ NamesInv /\ [Next]_vars => NamesInv'
  <1> SUFFICES ASSUME TypeOK, NamesInv, [Next]_vars PROVE NamesInv'
    OBVIOUS
  <1>1. ASSUME NEW q \in Processes PROVE NamedAsAsked(q)'
    <2>0. NamedAsAsked(q)
      BY DEF NamesInv
    <2>1. CASE StepOfAnother
      BY <2>0, <2>1, AnotherStays DEF NamedAsAsked, Path, stateVars
    <2>2. ASSUME NEW p \in Processes, p # q, StepOf(p) \/ Crash(p) PROVE NamedAsAsked(q)'
      BY <2>0, <2>2, OthersStay DEF CallsStay, StreamsStay, NamedAsAsked, Path
    <2>3. pc'[q] \notin RenameSteps \/ pc'[q] = "find" => NamedAsAsked(q)'
      BY DEF NamedAsAsked, Naming, RenameSteps
    <2>4. CASE Crash(q)
      BY <2>3, <2>4, GoesOn DEF Crash, TypeOK, RenameSteps
    <2>5. CASE RotationStep(q)
      <3>1. CASE BeginRotation(q) \/ FinishRotateLogFiles(q) \/ CloseAfterLines(q)
        BY <2>3, <3>1, BeginGoes, NoRename
      <3>2. CASE FindFreeBackupPath(q)
        <4>1. Path(q)' = Path(q)
          BY <3>2 DEF FindFreeBackupPath, InRotation, At, Path
        <4> QED BY <2>3, <3>2, <4>1, FindGoes, AfterRename DEF NamedAsAsked
      <3>3. CASE RenameWithoutReplacing(q)
        <4>1. pc[q] = "rename"
          BY <3>3 DEF RenameWithoutReplacing, InRotation, At
        <4>2. Path(q)' = Path(q)
          BY <3>3 DEF RenameWithoutReplacing, InRotation, At, Path
        <4> QED BY <2>0, <2>3, <3>3, <4>1, <4>2, RenameGoes, LinkGoes DEF NamedAsAsked, Naming
      <3>4. CASE UnlinkLog(q) \/ ReplaceFile(q)
        BY <2>3, <3>4, AfterRename DEF UnlinkLog, ReplaceFile
      <3> QED BY <2>5, <3>1, <3>2, <3>3, <3>4 DEF RotationStep
    <2>6. CASE StepOf(q)
      BY <2>3, <2>5, <2>6, NoRename DEF StepOf
    <2> QED BY <2>1, <2>2, <2>4, <2>6, NextSplits
  <1>2. ASSUME NEW d \in Cleaners, NEW name \in job'[d].doomed PROVE IsBackup(name)
    <2>0. \A n \in job[d].doomed : IsBackup(n)
      BY DEF NamesInv
    <2>1. NoJob.doomed = {}
      BY DEF NoJob
    <2>2. CASE job' = job
      BY <1>2, <2>0, <2>2
    <2>3. ASSUME NEW p \in Processes, Crash(p) PROVE IsBackup(name)
      BY <1>2, <2>0, <2>1, <2>3 DEF Crash
    <2>4. ASSUME NEW c \in Cleaners, CleanupStep(c) PROVE IsBackup(name)
      <3>1. job \in [Cleaners -> Job] /\ job[c] \in Job
        BY DEF TypeOK, WorkOK
      <3>2. ASSUME NEW doomed, Deleting(c, doomed), \A n \in doomed : IsBackup(n) PROVE IsBackup(name)
        <4>1. [job[c] EXCEPT !.step = "delete", !.doomed = doomed].doomed = doomed
          BY <3>1 DEF Job
        <4> QED BY <1>2, <2>0, <2>1, <3>1, <3>2, <4>1 DEF Deleting
      <3>3. ASSUME NEW p \in Processes, TakeDeferredWork(c, p) PROVE IsBackup(name)
        BY <1>2, <2>0, <2>1, <3>1, <3>3 DEF TakeDeferredWork
      <3>4. CASE ListBackups(c)
        <4>1. \A listed, rules, path : listed = Backups(path) =>
                 {other \in listed : IsDoomed(other, listed, rules)} \in SUBSET {n \in DOMAIN folder : IsBackup(n)}
          BY DEF Backups
        <4>2. PICK doomed \in SUBSET {n \in DOMAIN folder : IsBackup(n)} : Deleting(c, doomed)
          BY <3>4, <4>1, Zenon DEF ListBackups
        <4> QED BY <3>2, <4>2
      <3>5. CASE DeleteBackup(c)
        <4>1. \A n \in job[c].doomed : IsBackup(n)
          BY DEF NamesInv
        <4> QED BY <3>2, <3>5, <4>1 DEF DeleteBackup
      <3> QED BY <2>4, <3>3, <3>4, <3>5 DEF CleanupStep
    <2>5. ASSUME NEW p \in Processes, StepOf(p) PROVE job' = job
      BY <2>5, StepsBegin DEF StepOf, At, Begin, workVars
    <2>6. CASE Tick \/ UNCHANGED vars
      BY <2>2, <2>6 DEF Tick, vars, workVars
    <2> QED BY <2>2, <2>3, <2>4, <2>5, <2>6, NextSplits DEF StepOfAnother
  <1> QED BY <1>1, <1>2 DEF NamesInv

----------------------------------------------------------------------------
(* The files of a process alone *)

\* Between link() and unlink(), and between the check and the rename
LinkedTwice(p) ==
    /\ Exists(Log(p)) /\ call[p].linked = folder[Log(p)]
    /\ IF Exists(call[p].backup) THEN folder[call[p].backup] = folder[Log(p)] ELSE folder[Log(p)] \in cleaned
RenameKept(p) ==
    /\ pc[p] = "unlink" => LinkedTwice(p)
    /\ pc[p] = "replace" => ~Exists(call[p].backup)
KeptInv ==
    IsAlone =>
        /\ \A f \in 1..Len(files) : HasName(f, folder, cleaned)
        /\ \A p \in Processes : RenameKept(p)

\* How the files of a process's steps stay
LEMMA FilesStay ==
  ASSUME TypeOK, NEW p \in Processes, StepOf(p) \/ Crash(p)
  PROVE  /\ cleaned' = cleaned /\ Len(files') >= Len(files)
         /\ ~OpenSucceeds(p) => Len(files') = Len(files)
         /\ ~OpenSucceeds(p) /\ ~RenameWithoutReplacing(p) /\ ~UnlinkLog(p) /\ ~ReplaceFile(p) => folder' = folder
  <1>1. CASE CallStep(p) \/ Crash(p)
    <2>1. UNCHANGED diskVars
      BY <1>1, StepsBegin DEF Crash
    <2> QED BY <2>1 DEF diskVars, TypeOK, DiskOK
  <1>2. CASE RotationStep(p)
    <2>1. UNCHANGED <<files, cleaned>>
      BY <1>2 DEF RotationStep, BeginRotation, FindFreeBackupPath, RenameWithoutReplacing, UnlinkLog, ReplaceFile,
                  FinishRotateLogFiles, CloseAfterLines, InRotation, At
    <2>2. ~RenameWithoutReplacing(p) /\ ~UnlinkLog(p) /\ ~ReplaceFile(p) => folder' = folder
      BY <1>2 DEF RotationStep, BeginRotation, FindFreeBackupPath, FinishRotateLogFiles, CloseAfterLines
    <2> QED BY <2>1, <2>2 DEF TypeOK, DiskOK
  <1>3. CASE OpenStep(p) \/ WriteStep(p) \/ ConfigStep(p)
    <2>1. cleaned' = cleaned
      BY <1>3, StepsBegin DEF At
    <2>2. OpenSucceeds(p) => Len(files') >= Len(files)
      BY DEF OpenSucceeds, OpenFound, OpenFile, TypeOK, DiskOK
    <2>3. ~OpenSucceeds(p) => folder' = folder
      BY <1>3 DEF OpenStep, EnsureReady, OpenFails, WriteNewFileStartupLines, WriteStep, PrepareWrite, RolledOver,
                  WriteLogEntry, ConfigStep, InitializeOpens, FinishInitialize, FinishReconfigure
    <2>4. (\E line, isLast : WriteLine(p, line, isLast)) => Len(files') = Len(files)
      <3>1. ASSUME NEW f, NEW g, files' = [files EXCEPT ![f] = g] PROVE Len(files') = Len(files)
        <4>1. DOMAIN files' = DOMAIN files /\ files \in Seq(File)
          BY <3>1 DEF TypeOK, DiskOK
        <4>2. files' \in Seq(File \cup {g})
          <5>1. files' \in [1..Len(files) -> File \cup {g}] /\ Len(files) \in Nat
            <6>1. files \in [1..Len(files) -> File \cup {g}] /\ Len(files) \in Nat
              BY <4>1
            <6> QED BY <3>1, <6>1
          <5> QED BY <5>1
        <4> QED BY <4>1, <4>2
      <3> QED BY <3>1, WritingKeepsNames DEF TypeOK, DiskOK
    <2>5. ~OpenSucceeds(p) => files' = files \/ \E line, isLast : WriteLine(p, line, isLast)
      BY <1>3, Zenon DEF OpenStep, EnsureReady, OpenFails, WriteNewFileStartupLines, WriteStep, PrepareWrite, RolledOver,
                  WriteLogEntry, ConfigStep, InitializeOpens, FinishInitialize, FinishReconfigure
    <2> QED BY <2>1, <2>2, <2>3, <2>4, <2>5 DEF TypeOK, DiskOK
  <1> QED BY <1>1, <1>2, <1>3 DEF StepOf

\* A step of p in no rename, alone
LEMMA RenameOfOthers ==
  ASSUME TypeOK, TypeOK', UnusedInv, NEW p \in Processes, StepOf(p), [Next]_vars, IsAlone', NEW q \in Processes \ {p}
  PROVE  RenameKept(q)' /\ pc'[q] = "idle"
  <1>1. calls[q] = 0
    BY AloneBefore
  <1>2. pc'[q] = "idle"
    BY <1>1, OthersStay DEF CallsStay, UnusedInv
  <1> QED BY <1>2 DEF RenameKept

LEMMA NamesKept ==
  ASSUME TypeOK, KeptInv, IsAlone, UNCHANGED <<folder, cleaned>>, Len(files') = Len(files)
  PROVE  \A f \in 1..Len(files') : HasName(f, folder', cleaned')
  BY DEF KeptInv, HasName

LEMMA OpenKeeps ==
  ASSUME TypeOK, KeptInv, IsAlone, NEW p \in Processes, OpenSucceeds(p)
  PROVE  \A f \in 1..Len(files') : HasName(f, folder', cleaned')
  <1>1. CASE UNCHANGED <<folder, files>>
    BY <1>1, NamesKept DEF OpenSucceeds, At
  <1>2. CASE /\ ~Exists(Log(p)) /\ files' = Append(files, NewFile(p))
             /\ folder' = Linked(folder, Log(p), Len(files) + 1)
    <2>1. Len(files') = Len(files) + 1 /\ Len(files) \in Nat
      BY <1>2 DEF TypeOK, DiskOK
    <2>2. cleaned' = cleaned
      BY DEF OpenSucceeds, At
    <2>3. HasName(Len(files) + 1, folder', cleaned)
      BY <1>2 DEF HasName, Linked
    <2>4. ASSUME NEW f, HasName(f, folder, cleaned) PROVE HasName(f, folder', cleaned)
      BY <1>2, <2>4 DEF HasName, Linked, Exists
    <2>5. \A f \in 1..Len(files') : f \in 1..Len(files) \/ f = Len(files) + 1
      BY <2>1
    <2> QED BY <2>2, <2>3, <2>4, <2>5 DEF KeptInv
  <1> QED BY <1>1, <1>2 DEF OpenSucceeds, OpenFound, OpenFile

LEMMA RenameKeeps ==
  ASSUME TypeOK, NamesInv, KeptInv, IsAlone, NEW p \in Processes, RenameWithoutReplacing(p)
  PROVE  (\A f \in 1..Len(files') : HasName(f, folder', cleaned')) /\ RenameKept(p)'
  <1>1. UNCHANGED <<files, cleaned, m_Config>> /\ pc[p] = "rename"
    BY DEF RenameWithoutReplacing, InRotation, At
  <1>2. pc'[p] \notin RenameSteps \/ pc'[p] = "find" => RenameKept(p)'
    BY DEF RenameKept, RenameSteps
  <1>3. CASE MoveFile(p) /\ pc'[p] \notin RenameSteps
    <2>1. PICK backup, file : /\ Log(p) \in DOMAIN folder /\ backup \notin DOMAIN folder /\ file = folder[Log(p)]
                              /\ folder' = Linked(Unlinked(folder, Log(p)), backup, file)
      BY <1>3 DEF MoveFile, CanRename, IsNameFree, Exists
    <2>2. ASSUME NEW f, HasName(f, folder, cleaned) PROVE HasName(f, folder', cleaned)
      BY <2>1, <2>2 DEF HasName, Linked, Unlinked
    <2> QED BY <1>1, <1>2, <1>3, <2>2 DEF KeptInv
  <1>4. CASE LinkFile(p)
    <2>1. PICK backup, file, log : /\ backup = call[p].backup /\ log = Log(p) /\ file = folder[log]
      OBVIOUS
    <2>2. log \in DOMAIN folder /\ backup \notin DOMAIN folder /\ folder' = Linked(folder, backup, file)
      BY <1>4, <2>1 DEF LinkFile, IsNameFree, Exists
    <2>3. ASSUME NEW f, HasName(f, folder, cleaned) PROVE HasName(f, folder', cleaned)
      BY <2>2, <2>3 DEF HasName, Linked
    <2>4. log \in DOMAIN folder' /\ backup \in DOMAIN folder' /\ folder'[backup] = folder'[log] /\ folder'[log] = file
      BY <2>1, <2>2 DEF Linked
    <2>5. pc'[p] = "unlink" /\ call'[p].backup = backup /\ call'[p].linked = file /\ Log(p)' = log
      BY <1>1, <1>4, <2>1, LinkGoes DEF Log, Path
    <2>6. RenameKept(p)'
      BY <2>4, <2>5 DEF RenameKept, LinkedTwice, Exists
    <2> QED BY <1>1, <2>3, <2>6 DEF KeptInv
  <1>5. CASE UNCHANGED folder /\ pc'[p] # "unlink" /\ (pc'[p] = "replace" => CheckName(p) /\ call'[p] = call[p])
    <2>1. RenameKept(p)'
      BY <1>5 DEF RenameKept, CheckName, IsNameFree, Exists
    <2> QED BY <1>1, <1>5, <2>1, NamesKept
  <1> QED BY <1>3, <1>4, <1>5, RenameGoes DEF RenameSteps

LEMMA UnlinkKeeps ==
  ASSUME TypeOK, NamesInv, KeptInv, IsAlone, NEW p \in Processes, UnlinkLog(p)
  PROVE  (\A f \in 1..Len(files') : HasName(f, folder', cleaned')) /\ RenameKept(p)'
  <1>1. UNCHANGED <<files, cleaned>> /\ pc[p] = "unlink"
    BY DEF UnlinkLog, InRotation, At
  <1>2. pc'[p] \notin RenameSteps
    BY AfterRename DEF UnlinkLog
  <1>3. PICK backup, log : backup = call[p].backup /\ log = Log(p)
    OBVIOUS
  <1>4. backup # log
    BY <1>1, <1>3, BackupIsBackup DEF NamesInv, Naming
  <1>5. /\ log \in DOMAIN folder
        /\ IF backup \in DOMAIN folder THEN folder[backup] = folder[log] ELSE folder[log] \in cleaned
    BY <1>1, <1>3 DEF KeptInv, RenameKept, LinkedTwice, Exists
  <1>6. folder' = Unlinked(folder, log) \/ folder' = Unlinked(folder, backup)
    BY <1>3 DEF UnlinkLog, RemovesOldName
  <1>7. ASSUME NEW f, HasName(f, folder, cleaned) PROVE HasName(f, folder', cleaned)
    <2>1. CASE f \in cleaned
      BY <2>1 DEF HasName
    <2>2. ASSUME NEW name \in DOMAIN folder, folder[name] = f PROVE HasName(f, folder', cleaned)
      BY <1>4, <1>5, <1>6, <2>2 DEF HasName, Unlinked
    <2> QED BY <1>7, <2>1, <2>2 DEF HasName
  <1> QED BY <1>1, <1>2, <1>7 DEF KeptInv, RenameKept, RenameSteps

LEMMA ReplaceKeeps ==
  ASSUME TypeOK, NamesInv, KeptInv, IsAlone, NEW p \in Processes, ReplaceFile(p)
  PROVE  (\A f \in 1..Len(files') : HasName(f, folder', cleaned')) /\ RenameKept(p)'
  <1>1. UNCHANGED <<files, cleaned>> /\ pc[p] = "replace"
    BY DEF ReplaceFile, InRotation, At
  <1>2. pc'[p] \notin RenameSteps
    BY AfterRename DEF ReplaceFile
  <1>3. call[p].backup \notin DOMAIN folder
    BY <1>1 DEF KeptInv, RenameKept, Exists
  <1>4. CASE folder' = folder
    BY <1>1, <1>2, <1>4, NamesKept DEF RenameKept, RenameSteps
  <1>5. CASE Exists(Log(p)) /\ folder' = Linked(Unlinked(folder, Log(p)), call[p].backup, folder[Log(p)])
    <2>1. PICK backup, file : /\ Log(p) \in DOMAIN folder /\ backup \notin DOMAIN folder /\ file = folder[Log(p)]
                              /\ folder' = Linked(Unlinked(folder, Log(p)), backup, file)
      BY <1>3, <1>5 DEF Exists
    <2>2. ASSUME NEW f, HasName(f, folder, cleaned) PROVE HasName(f, folder', cleaned)
      BY <2>1, <2>2 DEF HasName, Linked, Unlinked
    <2> QED BY <1>1, <1>2, <2>2 DEF KeptInv, RenameKept, RenameSteps
  <1> QED BY <1>4, <1>5 DEF ReplaceFile

\* A cleanup takes away the name of a backup, and counts its file as deleted
LEMMA DeleteIs ==
  ASSUME NamesInv, NEW c \in Cleaners, CleanupStep(c)
  PROVE  \/ UNCHANGED <<folder, cleaned>>
         \/ \E name \in DOMAIN folder : /\ IsBackup(name) /\ folder' = Unlinked(folder, name)
                                        /\ cleaned' = cleaned \cup {folder[name]}
  BY DEF CleanupStep, TakeDeferredWork, ListBackups, DeleteBackup, Exists, NamesInv

LEMMA CleanupKeeps ==
  ASSUME TypeOK, NamesInv, KeptInv, IsAlone, NEW c \in Cleaners, CleanupStep(c)
  PROVE  (\A f \in 1..Len(files') : HasName(f, folder', cleaned')) /\ \A p \in Processes : RenameKept(p)'
  <1>1. UNCHANGED <<files, m_Config, pc, call>>
    BY AnotherStays DEF StepOfAnother, stateVars
  <1>2. CASE UNCHANGED <<folder, cleaned>>
    BY <1>1, <1>2, NamesKept DEF KeptInv, RenameKept, LinkedTwice, Exists, Log, Path
  <1>3. ASSUME NEW name \in DOMAIN folder, IsBackup(name), folder' = Unlinked(folder, name),
               cleaned' = cleaned \cup {folder[name]}
        PROVE  (\A f \in 1..Len(files') : HasName(f, folder', cleaned')) /\ \A p \in Processes : RenameKept(p)'
    <2>1. ASSUME NEW f, HasName(f, folder, cleaned) PROVE HasName(f, folder', cleaned')
      BY <1>3, <2>1 DEF HasName, Unlinked
    <2>2. ASSUME NEW p \in Processes PROVE RenameKept(p)'
      <3>1. PICK backup, log : backup = call[p].backup /\ log = Log(p)
        OBVIOUS
      <3>2. log # name
        BY <1>3, <3>1, LogIsNoBackup DEF Log
      <3>3. Log(p)' = log /\ call'[p].backup = backup /\ call'[p].linked = call[p].linked
        BY <1>1, <3>1 DEF Log, Path
      <3>4. pc[p] = "replace" => backup \notin DOMAIN folder'
        BY <1>3, <3>1 DEF KeptInv, RenameKept, Exists, Unlinked
      <3>5. pc[p] = "unlink" =>
              /\ log \in DOMAIN folder' /\ call[p].linked = folder'[log]
              /\ IF backup \in DOMAIN folder' THEN folder'[backup] = folder'[log] ELSE folder'[log] \in cleaned'
        BY <1>3, <3>1, <3>2 DEF KeptInv, RenameKept, LinkedTwice, Exists, Unlinked
      <3> QED BY <1>1, <3>3, <3>4, <3>5 DEF RenameKept, LinkedTwice, Exists
    <2> QED BY <1>1, <2>1, <2>2 DEF KeptInv
  <1> QED BY <1>2, <1>3, DeleteIs

LEMMA KeptStep == TypeOK /\ TypeOK' /\ UnusedInv /\ NamesInv /\ KeptInv /\ [Next]_vars => KeptInv'
  <1> SUFFICES ASSUME TypeOK, TypeOK', UnusedInv, NamesInv, KeptInv, [Next]_vars, IsAlone'
               PROVE  (\A f \in 1..Len(files') : HasName(f, folder', cleaned')) /\ \A p \in Processes : RenameKept(p)'
    BY DEF KeptInv
  <1>0. IsAlone
    BY AloneBefore
  <1>1. CASE Tick \/ UNCHANGED vars
    <2>1. UNCHANGED <<folder, cleaned, files, m_Config, pc, call>>
      BY <1>1 DEF Tick, vars, diskVars, stateVars
    <2> QED BY <1>0, <2>1, NamesKept DEF KeptInv, RenameKept, LinkedTwice, Exists, Log, Path
  <1>2. CASE \E c \in Cleaners : CleanupStep(c)
    BY <1>0, <1>2, CleanupKeeps
  <1>3. ASSUME NEW p \in Processes, Crash(p)
        PROVE  (\A f \in 1..Len(files') : HasName(f, folder', cleaned')) /\ \A q \in Processes : RenameKept(q)'
    <2>1. UNCHANGED <<folder, cleaned, files>> /\ pc'[p] = "idle"
      BY <1>3, GoesOn DEF Crash, diskVars, TypeOK
    <2>2. ASSUME NEW q \in Processes, q # p PROVE RenameKept(q)'
      <3>1. pc'[q] = pc[q] /\ call'[q] = call[q] /\ m_Config'[q] = m_Config[q]
        BY <1>3, <2>2, OthersStay DEF CallsStay, StreamsStay
      <3> QED BY <1>0, <2>1, <3>1 DEF KeptInv, RenameKept, LinkedTwice, Exists, Log, Path
    <2>3. RenameKept(p)'
      BY <2>1 DEF RenameKept
    <2> QED BY <1>0, <2>1, <2>2, <2>3, NamesKept
  <1>4. ASSUME NEW p \in Processes, StepOf(p)
        PROVE  (\A f \in 1..Len(files') : HasName(f, folder', cleaned')) /\ \A q \in Processes : RenameKept(q)'
    <2>1. \A q \in Processes \ {p} : RenameKept(q)'
      BY <1>4, RenameOfOthers
    <2>2. pc'[p] \notin RenameSteps \/ pc'[p] \in {"find", "rename"} => RenameKept(p)'
      BY DEF RenameKept, RenameSteps
    <2>3. CASE OpenSucceeds(p)
      BY <1>0, <2>1, <2>2, <2>3, OpenKeeps, NoRename DEF OpenStep
    <2>4. CASE RenameWithoutReplacing(p) \/ UnlinkLog(p) \/ ReplaceFile(p)
      BY <1>0, <2>1, <2>4, RenameKeeps, UnlinkKeeps, ReplaceKeeps
    <2>5. CASE ~OpenSucceeds(p) /\ ~RenameWithoutReplacing(p) /\ ~UnlinkLog(p) /\ ~ReplaceFile(p)
      <3>1. \A f \in 1..Len(files') : HasName(f, folder', cleaned')
        BY <1>0, <1>4, <2>5, FilesStay, NamesKept
      <3>2. CASE BeginRotation(p) \/ FindFreeBackupPath(p)
        BY <2>1, <2>2, <3>1, <3>2, BeginGoes, FindGoes, AfterRename
      <3>3. CASE ~BeginRotation(p) /\ ~FindFreeBackupPath(p)
        BY <1>4, <2>1, <2>2, <2>5, <3>1, <3>3, NoRename DEF StepOf, RotationStep
      <3> QED BY <3>2, <3>3
    <2> QED BY <2>3, <2>4, <2>5
  <1> QED BY <1>1, <1>2, <1>3, <1>4, NextSplits DEF StepOfAnother

(***************************************************************************)
(* Rotation loses no line when one process writes the log, however the     *)
(* file system renames, whatever step of it fails and wherever a crash     *)
(* cuts it off; nor when any processes share it where a rename is one step *)
(* (RotateUnlocked(), RenameWithoutReplacing()).                           *)
(***************************************************************************)
THEOREM RotationLosesNoLine == Spec => []RotationKeepsLines
  <1>1. Init => UnusedInv /\ NamesInv /\ KeptInv
    <2> SUFFICES ASSUME Init PROVE UnusedInv /\ NamesInv /\ KeptInv
      OBVIOUS
    <2>1. UnusedInv /\ NamesInv
      BY DEF Init, UnusedInv, NamesInv, NamedAsAsked, Naming, IsOpen, NoJob
    <2>2. files = <<>> /\ \A p \in Processes : pc[p] = "idle"
      BY DEF Init
    <2>3. KeptInv
      BY <2>2 DEF KeptInv, RenameKept
    <2> QED BY <2>1, <2>3
  <1>2. KeptInv /\ MoveKeepsLines => RotationKeepsLines
    BY DEF KeptInv, HasName, LinesAreKept, RotationKeepsLines
  <1> QED BY <1>1, <1>2, UnusedStep, NamesStep, KeptStep, TypeCorrect, MovesKeepLines, PTL DEF Spec

----------------------------------------------------------------------------
(* The zones and the days *)

Zones == {config.TimestampZone : config \in Configs \cup {DefaultConfig}}
FirstZone == CHOOSE zone \in Zones : \A other \in Zones : zone <= other

LEMMA FirstZoneIs == FirstZone \in Zones /\ FirstZone \in Nat /\ Zones \subseteq Nat /\ \A zone \in Zones : FirstZone <= zone
  <1>1. Zones \subseteq Nat /\ DefaultConfig.TimestampZone \in Zones
    BY ConfigAssumption DEF Zones, Config
  <1>2. PICK less : IsWellFoundedOn(less, Nat) /\ less = {pair \in Nat \X Nat : pair[1] < pair[2]}
    BY NatLessThanWellFounded DEF OpToRel
  <1>3. PICK zone \in Zones : \A other \in Zones : <<other, zone>> \notin less
    BY <1>1, <1>2, WFMin
  <1>4. \A a, b \in Nat : a < b => <<a, b>> \in less
    BY <1>2
  <1>5. \A other \in Zones : ~(other < zone) /\ other \in Nat /\ zone \in Nat
    BY <1>1, <1>3, <1>4
  <1>6. \A other \in Zones : zone <= other
    BY <1>5
  <1> QED BY <1>1, <1>6 DEF FirstZone

\* The day of an earlier time in the first zone is no later
LEMMA DayInFirstZone ==
  ASSUME NEW s \in Int, NEW t \in Int, s <= t, NEW zone \in Zones
  PROVE  Day(s, FirstZone) <= Day(t, zone) /\ Day(s, FirstZone) \in Int /\ Day(t, zone) \in Int
  <1>1. zone \in Nat /\ FirstZone \in Nat /\ FirstZone <= zone
    BY FirstZoneIs
  <1>2. s + FirstZone <= t + zone
    BY <1>1
  <1> QED BY <1>1, <1>2, DayGrows, DayType

LEMMA DayIsNatural ==
  ASSUME NEW t \in Nat, NEW zone \in Nat
  PROVE  Day(t, zone) \in Nat /\ Day(t, zone) # NoDay
  <1>1. PICK d \in Nat \ {0} : d = DayLength
    BY TimeAssumption
  <1>2. PICK a \in Nat : a = t + zone
    OBVIOUS
  <1>3. PICK q \in Int : q = a \div d
    BY DivisionIs
  <1>4. d * q <= a /\ a < d * q + d
    BY <1>3, DivisionIs
  <1>5. 0 > q => d * 0 >= d * q + d
    BY Product
  <1>6. d * q \in Int /\ d * 0 = 0
    OBVIOUS
  <1>7. q >= 0
    BY <1>4, <1>5, <1>6
  <1> QED BY <1>1, <1>2, <1>3, <1>7 DEF Day, NoDay

----------------------------------------------------------------------------
(* The lines written *)

LEMMA LinesAppended ==
  ASSUME NEW s \in Seq(Line), NEW line \in Line
  PROVE  {Append(s, line)[i] : i \in 1..Len(Append(s, line))} = {s[i] : i \in 1..Len(s)} \cup {line}
  <1>1. Len(Append(s, line)) = Len(s) + 1 /\ Len(s) \in Nat
    OBVIOUS
  <1>2. \A i \in 1..Len(s) + 1 : Append(s, line)[i] = IF i = Len(s) + 1 THEN line ELSE s[i]
    OBVIOUS
  <1>3. PICK r, n : r = Append(s, line) /\ n = Len(s)
    OBVIOUS
  <1>4. \A i \in 1..n + 1 : i = n + 1 \/ i \in 1..n
    BY <1>1, <1>3
  <1>5. \A i \in 1..n : i \in 1..n + 1 /\ i # n + 1
    BY <1>1, <1>3
  <1>6. n + 1 \in 1..n + 1
    BY <1>1, <1>3
  <1>7. {r[i] : i \in 1..n + 1} = {s[i] : i \in 1..n} \cup {line}
    BY <1>2, <1>3, <1>4, <1>5, <1>6
  <1> QED BY <1>1, <1>3, <1>7

\* A line written to the file that is open
Wrote(p, line) ==
    /\ IsOpen(p) /\ Len(files') = Len(files)
    /\ \E f \in 1..Len(files) :
          /\ f = m_FileStream[p] /\ \A g \in 1..Len(files) \ {f} : files'[g] = files[g]
          /\ Lines(f)' = Lines(f) \cup {line} /\ files'[f].written = clock
          /\ files'[f].lines = Append(files[f].lines, line) /\ files'[f].isInitialized = files[f].isInitialized

LEMMA LineGoes ==
  ASSUME TypeOK, NEW p \in Processes, NEW line \in Line, NEW isLast, WriteLine(p, line, isLast)
  PROVE  files' = files \/ Wrote(p, line)
  <1>0. DiskOK /\ StreamOK
    BY DEF TypeOK
  <1>1. PICK f : f = m_FileStream[p]
    OBVIOUS
  <1>2. CASE /\ f \in 1..Len(files) /\ \A g \in 1..Len(files) : g # f => files'[g] = files[g]
             /\ files'[f].lines = Append(files[f].lines, line) /\ files'[f].written = clock
             /\ files'[f].isInitialized = files[f].isInitialized /\ Len(files') = Len(files)
    <2>1. files[f].lines \in Seq(Line)
      BY <1>0, <1>2, FileType
    <2>2. Lines(f)' = {Append(files[f].lines, line)[i] : i \in 1..Len(Append(files[f].lines, line))}
      BY <1>2 DEF Lines
    <2>3. Lines(f)' = Lines(f) \cup {line}
      BY <2>1, <2>2, LinesAppended DEF Lines
    <2>4. IsOpen(p)
      BY <1>1, <1>2 DEF IsOpen, NoFile
    <2> QED BY <1>1, <1>2, <2>3, <2>4 DEF Wrote
  <1> QED BY <1>0, <1>1, <1>2, WriteLineType

\* A file made
Made(p) == files' = Append(files, NewFile(p))

LEMMA MadeIs ==
  ASSUME TypeOK, NEW p \in Processes, Made(p)
  PROVE  /\ Len(files') = Len(files) + 1 /\ Len(files) \in Nat
         /\ \A f \in 1..Len(files) : files'[f] = files[f]
         /\ files'[Len(files) + 1].lines = <<>> /\ files'[Len(files) + 1].written = clock
  BY NewFileType DEF Made, TypeOK, DiskOK

\* What a step may do to the files: make one, write a startup line or an entry
LEMMA FilesChange ==
  ASSUME TypeOK, NEW p \in Processes, StepOf(p)
  PROVE  \/ files' = files
         \/ Made(p) /\ OpenSucceeds(p) /\ folder' = Linked(folder, Log(p), Len(files) + 1) /\ ~Exists(Log(p))
         \/ /\ folder' = folder /\ pc[p] \notin RotateSteps /\ m_Config' = m_Config
            /\ \E line \in Line :
                  /\ Wrote(p, line)
                  /\ line.isDaily => /\ WriteLogEntry(p) /\ line.stamp = call[p].stamp
                                     /\ m_Config[p].EnableDailyRolling
                  /\ line.stamp \in {clock, call[p].stamp}
                  /\ WriteLogEntry(p) \/ line.kind = "startup"
                  /\ line.from > 0 => WriteNewFileStartupLines(p) /\ line.from = m_PendingContinuationLine[p]
  <1>1. CASE CallStep(p)
    BY <1>1, StepsBegin DEF diskVars
  <1>2. CASE RotationStep(p)
    BY <1>2 DEF RotationStep, BeginRotation, FindFreeBackupPath, RenameWithoutReplacing, UnlinkLog, ReplaceFile,
                  FinishRotateLogFiles, CloseAfterLines, InRotation
  <1>3. CASE OpenSucceeds(p)
    BY <1>3 DEF OpenSucceeds, OpenFound, OpenFile, Made
  <1>4. ASSUME NEW from \in Int, NEW isLast, WriteLine(p, Startup(from), isLast)
        PROVE  files' = files \/ \E line \in Line : /\ Wrote(p, line) /\ ~line.isDaily /\ line.stamp = clock
                                                   /\ line.kind = "startup" /\ line.from = from
    <2>1. Startup(from) \in Line
      BY StartupType DEF TypeOK
    <2>2. ~Startup(from).isDaily /\ Startup(from).stamp = clock /\ Startup(from).kind = "startup" /\ Startup(from).from = from
      BY DEF Startup
    <2> QED BY <1>4, <2>1, <2>2, LineGoes
  <1>5. CASE OpenStep(p) /\ ~OpenSucceeds(p)
    <2>1. m_PendingContinuationLine[p] \in Int
      BY DEF TypeOK, StateOK
    <2>2. files' = files \/ WriteNewFileStartupLines(p)
      BY <1>5 DEF OpenStep, EnsureReady, OpenFails
    <2>3. ASSUME WriteNewFileStartupLines(p)
          PROVE  /\ folder' = folder /\ pc[p] \notin RotateSteps /\ m_Config' = m_Config
                 /\ files' = files \/ \E line \in Line : /\ Wrote(p, line) /\ ~line.isDaily /\ line.stamp = clock
                                                         /\ line.kind = "startup" /\ line.from = m_PendingContinuationLine[p]
      BY <1>4, <2>1, <2>3 DEF WriteNewFileStartupLines, At, RotateSteps, RenameSteps
    <2> QED BY <2>2, <2>3
  <1>6. CASE ConfigStep(p)
    <2>2. folder' = folder /\ pc[p] \notin RotateSteps /\ m_Config' = m_Config
      BY <1>6 DEF ConfigStep, InitializeOpens, FinishInitialize, FinishReconfigure, At, RotateSteps, RenameSteps
    <2>3. files' = files \/ \E from \in {Nothing, OldPath} : WriteLine(p, Startup(from), TRUE)
      BY <1>6 DEF ConfigStep, InitializeOpens, FinishInitialize, FinishReconfigure
    <2>4. \A from \in {Nothing, OldPath} : from \in Int /\ ~(from > 0)
      BY DEF Nothing, OldPath
    <2> QED BY <1>4, <2>2, <2>3, <2>4
  <1>7. CASE WriteStep(p)
    <2>1. CASE ~WriteLogEntry(p)
      BY <1>7, <2>1 DEF WriteStep, PrepareWrite, RolledOver
    <2>2. CASE WriteLogEntry(p)
      <3>1. call[p].stamp \in Int /\ m_Config[p].EnableDailyRolling \in BOOLEAN
        BY CallTypes, ConfigTypes DEF TypeOK
      <3>2. PICK line \in Line : /\ line = Entry(call[p].stamp, m_Config[p].EnableDailyRolling)
                                 /\ line.stamp = call[p].stamp /\ line.isDaily = m_Config[p].EnableDailyRolling
                                 /\ line.from = 0
        BY <3>1, EntryType
      <3>3. files' = files \/ Wrote(p, line)
        BY <2>2, <3>2, LineGoes DEF WriteLogEntry
      <3>4. folder' = folder /\ pc[p] \notin RotateSteps /\ m_Config' = m_Config
        BY <2>2 DEF WriteLogEntry, At, RotateSteps, RenameSteps
      <3> QED BY <2>2, <3>2, <3>3, <3>4
    <2> QED BY <2>1, <2>2
  <1> QED BY <1>1, <1>2, <1>3, <1>5, <1>6, <1>7 DEF StepOf

----------------------------------------------------------------------------
(* Where an entry is on its way to *)

\* The rollover of the day, or the entry, is what comes next
HeadsFor(p, step) ==
    \/ pc[p] = step
    \/ pc[p] \in RotateSteps /\ call[p].after = step
    \/ pc[p] \in {"open", "startup"} /\ call[p].then = step
StaysOnItsWay(p) ==
    /\ call'[p].stamp \in {call[p].stamp, 0}
    /\ \A step \in {"rolled", "write"} :
          HeadsFor(p, step)' => HeadsFor(p, step) /\ call'[p].stamp = call[p].stamp

LEMMA Returned ==
  ASSUME CallOK, NEW p \in Processes, NEW locals, Goto(p, "idle", locals)
  PROVE  pc'[p] = "idle" /\ call'[p] = NoCall /\ NoCall.stamp = 0 /\ StaysOnItsWay(p)
  <1>1. pc'[p] = "idle" /\ call'[p] = NoCall
    BY DEF Goto, CallOK
  <1>2. NoCall.stamp = 0
    BY DEF NoCall
  <1>3. \A step \in {"rolled", "write"} : ~HeadsFor(p, step)'
    BY <1>1 DEF HeadsFor, RotateSteps, RenameSteps
  <1> QED BY <1>1, <1>2, <1>3 DEF StaysOnItsWay

LEMMA OpenThenAt ==
  ASSUME CallOK, NEW p \in Processes, NEW step \in Then, OpenThen(p, step)
  PROVE  pc'[p] = "open" /\ call'[p].then = step /\ call'[p].stamp = call[p].stamp
  <1>1. PICK d : d = [call[p] EXCEPT !.then = step]
    OBVIOUS
  <1>2. call[p] \in Call
    BY CallTypes
  <1>3. d.then = step /\ d.stamp = call[p].stamp
    BY <1>1, <1>2 DEF Call
  <1>4. Goto(p, "open", d)
    BY <1>1 DEF OpenThen
  <1> QED BY <1>3, <1>4, GotoAt

\* Out of a rotation
LEMMA RotatedGoes ==
  ASSUME CallOK, NEW p \in Processes, NEW locals \in Call, Rotated(p, locals), pc[p] \in RotateSteps,
         locals.after = call[p].after, locals.stamp = call[p].stamp
  PROVE  StaysOnItsWay(p)
  <1>1. PICK d : d = [locals EXCEPT !.isRotated = TRUE, !.then = locals.after]
    OBVIOUS
  <1>2. PICK to : to = IF locals.wasOpen THEN "open" ELSE locals.after
    OBVIOUS
  <1>3. d.then = locals.after /\ d.stamp = locals.stamp /\ d.after = locals.after /\ locals.after \in After
    BY <1>1 DEF Call
  <1>4. Goto(p, to, d)
    BY <1>1, <1>2, Zenon DEF Rotated
  <1>5. CASE to = "idle"
    BY <1>4, <1>5, Returned
  <1>6. CASE to # "idle"
    <2>1. pc'[p] = to /\ call'[p] = d
      BY <1>4, <1>6, GotoAt
    <2>2. to \notin RotateSteps /\ to # "startup"
      BY <1>2, <1>3 DEF After, RotateSteps, RenameSteps
    <2>3. ASSUME NEW step \in {"rolled", "write"}, HeadsFor(p, step)' PROVE HeadsFor(p, step)
      <3>1. call[p].after = step
        BY <1>2, <1>3, <2>1, <2>2, <2>3 DEF HeadsFor
      <3> QED BY <3>1 DEF HeadsFor
    <2> QED BY <1>3, <2>1, <2>3 DEF StaysOnItsWay
  <1> QED BY <1>5, <1>6

LEMMA FailsGoes ==
  ASSUME CallOK, NEW p \in Processes, RotationFails(p), pc[p] \in RotateSteps
  PROVE  StaysOnItsWay(p)
  <1>1. call[p].after \in After /\ After \subseteq Then
    BY CallTypes, StepsAre
  <1>2. CASE OpenThen(p, call[p].after)
    <2>1. pc'[p] = "open" /\ call'[p].then = call[p].after /\ call'[p].stamp = call[p].stamp
      BY <1>1, <1>2, OpenThenAt
    <2> QED BY <2>1 DEF StaysOnItsWay, HeadsFor, RotateSteps, RenameSteps
  <1>3. CASE Continue(p, call[p].after)
    <2>1. CASE call[p].after = "idle"
      BY <1>3, <2>1, Returned DEF Continue
    <2>2. CASE call[p].after # "idle"
      <3>1. pc'[p] = call[p].after /\ call'[p] = call[p]
        BY <1>3, <2>2, GoesOn
      <3> QED BY <1>1, <3>1 DEF StaysOnItsWay, HeadsFor, RotateSteps, RenameSteps, After
    <2> QED BY <2>1, <2>2
  <1> QED BY <1>2, <1>3 DEF RotationFails

LEMMA RenamedGoes ==
  ASSUME CallOK, NEW p \in Processes, NEW file, Renamed(p, file), pc[p] \in RotateSteps
  PROVE  StaysOnItsWay(p)
  BY CallTypes, RotatedGoes DEF Renamed

\* A step to a step of its own
LEMMA ElsewhereGoes ==
  ASSUME NEW p, pc'[p] \notin {"rolled", "write", "open", "startup"}, pc'[p] \notin RotateSteps,
         call'[p].stamp \in {call[p].stamp, 0}
  PROVE  StaysOnItsWay(p)
  BY DEF StaysOnItsWay, HeadsFor

\* The first locals of calls other than Write()
LEMMA FirstStamps ==
  ASSUME NEW locals, \/ locals = NoCall \/ locals = [NoCall EXCEPT !.op = "Initialize"]
                     \/ \E b \in BOOLEAN : locals = [NoCall EXCEPT !.op = "Reconfigure", !.isNewPath = b]
  PROVE  locals \in Call /\ locals.stamp = 0
  <1>1. PICK c \in Call : c = NoCall
    BY NoCallType
  <1>2. NoCall.stamp = 0
    BY DEF NoCall
  <1>3. c.stamp = 0
    BY <1>1, <1>2
  <1>4. \/ locals = c \/ locals = [c EXCEPT !.op = "Initialize"]
        \/ \E b \in BOOLEAN : locals = [c EXCEPT !.op = "Reconfigure", !.isNewPath = b]
    BY <1>1
  <1> QED BY <1>3, <1>4 DEF Call

LEMMA BeginInitializeGoes ==
  ASSUME TypeOK, NEW p \in Processes, NEW config \in Configs, NEW locals \in Call, BeginInitialize(p, config, locals),
         locals.stamp = 0
  PROVE  /\ StaysOnItsWay(p)
         /\ \/ pc'[p] = "initialize"
            \/ /\ pc'[p] = "rotate" /\ call'[p].reason = "daily" /\ call'[p].label = DayOfEarlierLog(config)
               /\ DayOfEarlierLog(config) # NoDay
  <1>0. CallOK /\ config \in Config
    BY ConfigAssumption DEF TypeOK
  <1>1. CASE Goto(p, "initialize", locals)
    <2>1. pc'[p] = "initialize" /\ call'[p] = locals
      BY <1>0, <1>1, GotoAt
    <2> QED BY <2>1, ElsewhereGoes DEF RotateSteps, RenameSteps
  <1>2. CASE RotateThen(p, "daily", DayOfEarlierLog(config), "initialize", locals) /\ DayOfEarlierLog(config) # NoDay
    <2>1. DayOfEarlierLog(config) \in Int
      BY <1>0, EarlierDayType DEF TypeOK
    <2>2. pc'[p] = "rotate" /\ call'[p].after = "initialize" /\ call'[p].reason = "daily"
          /\ call'[p].label = DayOfEarlierLog(config) /\ call'[p].stamp = 0
      BY <1>0, <1>2, <2>1, RotateThenAt, StepsAre
    <2> QED BY <1>2, <2>2 DEF StaysOnItsWay, HeadsFor
  <1> QED BY <1>1, <1>2, Zenon DEF BeginInitialize, RotateDailyLogFromEarlierDay

LEMMA CallStaysOnItsWay ==
  ASSUME TypeOK, NEW p \in Processes, CallStep(p), ~Write(p)
  PROVE  StaysOnItsWay(p)
  <1>0. CallOK
    BY DEF TypeOK
  <1>1. CASE UNCHANGED <<pc, call>>
    BY <1>1 DEF StaysOnItsWay, HeadsFor
  <1>2. CASE OpenThen(p, "idle")
    <2>1. pc'[p] = "open" /\ call'[p].then = "idle" /\ call'[p].stamp = call[p].stamp
      BY <1>0, <1>2, OpenThenAt, StepsAre
    <2> QED BY <2>1 DEF StaysOnItsWay, HeadsFor, RotateSteps, RenameSteps
  <1>3. CASE RotateThen(p, "manual", clock, "manual", NoCall)
    <2>1. clock \in Int
      BY DEF TypeOK, DiskOK
    <2>3. NoCall \in Call /\ NoCall.stamp = 0
      BY NoCallType DEF NoCall
    <2>2. pc'[p] = "rotate" /\ call'[p].after = "manual" /\ call'[p].stamp = 0
      BY <1>0, <1>3, <2>1, <2>3, RotateThenAt, StepsAre
    <2> QED BY <2>2 DEF StaysOnItsWay, HeadsFor
  <1>4. ASSUME NEW config \in Configs, Initialize(p, config) PROVE StaysOnItsWay(p)
    <2>1. PICK locals : locals = [NoCall EXCEPT !.op = "Initialize"]
      OBVIOUS
    <2>2. locals \in Call /\ locals.stamp = 0
      BY <2>1, FirstStamps
    <2>3. BeginInitialize(p, config, locals)
      BY <1>4, <2>1 DEF Initialize
    <2> QED BY <2>2, <2>3, BeginInitializeGoes
  <1>5. ASSUME NEW config \in Configs, ReconfigurePath(p, config) PROVE StaysOnItsWay(p)
    <2>1. PICK b \in BOOLEAN : b = (config.FilePath # Path(p))
      OBVIOUS
    <2>2. PICK locals : locals = [NoCall EXCEPT !.op = "Reconfigure", !.isNewPath = b]
      OBVIOUS
    <2>3. locals \in Call /\ locals.stamp = 0
      BY <2>2, FirstStamps
    <2>4. BeginInitialize(p, config, locals)
      BY <1>5, <2>1, <2>2 DEF ReconfigurePath
    <2> QED BY <2>3, <2>4, BeginInitializeGoes
  <1> QED BY <1>1, <1>2, <1>3, <1>4, <1>5 DEF CallStep, Close, Open, RotateLogFiles, ReconfigureFile

LEMMA OpenStaysOnItsWay ==
  ASSUME TypeOK, NEW p \in Processes, OpenStep(p)
  PROVE  StaysOnItsWay(p)
  <1>0. CallOK /\ call[p] \in Call /\ call[p].then \in Then
    BY CallTypes DEF TypeOK
  <1>1. CASE EnsureReady(p)
    <2>1. CASE Continue(p, "prepare")
      BY <1>0, <2>1, GoesOn, ElsewhereGoes DEF RotateSteps, RenameSteps
    <2>2. CASE OpenThen(p, "prepare")
      <3>1. pc'[p] = "open" /\ call'[p].then = "prepare" /\ call'[p].stamp = call[p].stamp
        BY <1>0, <2>2, OpenThenAt, StepsAre
      <3> QED BY <3>1 DEF StaysOnItsWay, HeadsFor, RotateSteps, RenameSteps
    <2>3. CASE Return(p)
      BY <1>0, <2>3, Returned DEF Return
    <2> QED BY <1>1, <2>1, <2>2, <2>3 DEF EnsureReady
  <1>2. CASE OpenSucceeds(p) \/ WriteNewFileStartupLines(p)
    <2>1. pc[p] \in {"open", "startup"}
      BY <1>2 DEF OpenSucceeds, WriteNewFileStartupLines, At
    <2>2. CASE Continue(p, "startup")
      BY <1>0, <2>1, <2>2, GoesOn DEF StaysOnItsWay, HeadsFor, RotateSteps, RenameSteps
    <2>3. CASE Continue(p, call[p].then) /\ call[p].then # "idle"
      <3>1. pc'[p] = call[p].then /\ call'[p] = call[p]
        BY <1>0, <2>3, GoesOn
      <3>2. call[p].then \notin RotateSteps \cup {"open", "startup"}
        BY <1>0 DEF Then, After, RotateSteps, RenameSteps
      <3> QED BY <2>1, <3>1, <3>2 DEF StaysOnItsWay, HeadsFor
    <2>4. CASE Continue(p, call[p].then) /\ call[p].then = "idle"
      BY <1>0, <2>4, Returned DEF Continue
    <2> QED BY <1>2, <2>2, <2>3, <2>4, Zenon DEF OpenSucceeds, WriteNewFileStartupLines
  <1>3. CASE OpenFails(p)
    <2>1. PICK to : to = CASE call[p].then \in {"prepare", "close"} -> "idle"
                           [] call[p].then = "initialized" -> "reconfigured"
                           [] OTHER -> call[p].then
      OBVIOUS
    <2>2. PICK d : d = [call[p] EXCEPT !.isRotated = FALSE]
      OBVIOUS
    <2>3. d.stamp = call[p].stamp
      BY <1>0, <2>2 DEF Call
    <2>4. Goto(p, to, d)
      BY <1>3, <2>1, <2>2, Zenon DEF OpenFails
    <2>5. CASE to = "idle"
      BY <1>0, <2>4, <2>5, Returned
    <2>6. CASE to # "idle"
      <3>1. pc'[p] = to /\ call'[p] = d /\ pc[p] = "open"
        BY <1>0, <1>3, <2>4, <2>6, GotoAt DEF OpenFails, At
      <3>2. to = "reconfigured" \/ to = call[p].then
        BY <2>1, <2>6
      <3>3. to \notin RotateSteps \cup {"open", "startup"}
        BY <1>0, <3>2 DEF Then, After, RotateSteps, RenameSteps
      <3> QED BY <2>3, <3>1, <3>2, <3>3 DEF StaysOnItsWay, HeadsFor
    <2> QED BY <2>5, <2>6
  <1> QED BY <1>1, <1>2, <1>3 DEF OpenStep

LEMMA RotationStaysOnItsWay ==
  ASSUME TypeOK, NEW p \in Processes, RotationStep(p)
  PROVE  StaysOnItsWay(p)
  <1>0. CallOK /\ call[p] \in Call
    BY CallTypes DEF TypeOK
  <1>1. CASE BeginRotation(p)
    <2>1. PICK locals : locals = [call[p] EXCEPT !.wasOpen = IsOpen(p)]
      OBVIOUS
    <2>2. IsOpen(p) \in BOOLEAN
      BY DEF IsOpen
    <2>3. locals \in Call /\ locals.stamp = call[p].stamp /\ locals.after = call[p].after
      BY <1>0, <2>1, <2>2, WasOpenLocals
    <2>4. pc[p] \in RotateSteps
      BY <1>1 DEF BeginRotation, InRotation, At, RotateSteps
    <2>5. CASE Rotated(p, locals)
      BY <1>0, <2>3, <2>4, <2>5, RotatedGoes
    <2>6. CASE Goto(p, "find", locals)
      <3>1. pc'[p] = "find" /\ call'[p] = locals
        BY <1>0, <2>6, GotoAt
      <3> QED BY <2>3, <2>4, <3>1 DEF StaysOnItsWay, HeadsFor
    <2> QED BY <1>1, <2>1, <2>5, <2>6 DEF BeginRotation
  <1>2. CASE FindFreeBackupPath(p) \/ RenameWithoutReplacing(p) \/ UnlinkLog(p) \/ ReplaceFile(p)
    <2>1. pc[p] \in RotateSteps
      BY <1>2 DEF FindFreeBackupPath, RenameWithoutReplacing, UnlinkLog, ReplaceFile, InRotation, At, RotateSteps, RenameSteps
    <2>2. CASE RotationFails(p) \/ \E file : Renamed(p, file)
      BY <1>0, <2>1, <2>2, FailsGoes, RenamedGoes
    <2>3. CASE /\ pc'[p] \in RenameSteps /\ call'[p].stamp = call[p].stamp /\ call'[p].after = call[p].after
      BY <2>1, <2>3 DEF StaysOnItsWay, HeadsFor, RenameSteps, RotateSteps
    <2>4. FindFreeBackupPath(p) => \/ RotationFails(p)
                                   \/ pc'[p] \in RenameSteps /\ call'[p].stamp = call[p].stamp /\ call'[p].after = call[p].after
      BY FindGoes DEF RenameSteps
    <2>5. RenameWithoutReplacing(p) =>
             \/ RotationFails(p) \/ \E file : Renamed(p, file)
             \/ pc'[p] \in RenameSteps /\ call'[p].stamp = call[p].stamp /\ call'[p].after = call[p].after
      BY RenameGoes, LinkGoes DEF RenameSteps, MoveFile
    <2>6. UnlinkLog(p) \/ ReplaceFile(p) => RotationFails(p) \/ \E file : Renamed(p, file)
      BY DEF UnlinkLog, ReplaceFile
    <2> QED BY <1>2, <2>2, <2>3, <2>4, <2>5, <2>6
  <1>3. CASE FinishRotateLogFiles(p)
    <2>1. CASE OpenThen(p, "close")
      <3>1. pc'[p] = "open" /\ call'[p].then = "close" /\ call'[p].stamp = call[p].stamp
        BY <1>0, <2>1, OpenThenAt, StepsAre
      <3> QED BY <3>1 DEF StaysOnItsWay, HeadsFor, RotateSteps, RenameSteps
    <2>2. CASE Return(p)
      BY <1>0, <2>2, Returned DEF Return
    <2> QED BY <1>3, <2>1, <2>2 DEF FinishRotateLogFiles
  <1>4. CASE CloseAfterLines(p)
    BY <1>0, <1>4, Returned DEF CloseAfterLines, Return
  <1> QED BY <1>1, <1>2, <1>3, <1>4 DEF RotationStep

LEMMA ConfigStaysOnItsWay ==
  ASSUME TypeOK, NEW p \in Processes, ConfigStep(p)
  PROVE  StaysOnItsWay(p)
  <1>0. CallOK /\ call[p] \in Call
    BY CallTypes DEF TypeOK
  <1>1. CASE OpenThen(p, "initialized")
    <2>1. pc'[p] = "open" /\ call'[p].then = "initialized" /\ call'[p].stamp = call[p].stamp
      BY <1>0, <1>1, OpenThenAt, StepsAre
    <2> QED BY <2>1 DEF StaysOnItsWay, HeadsFor, RotateSteps, RenameSteps
  <1>2. CASE Return(p)
    BY <1>0, <1>2, Returned DEF Return
  <1>3. CASE Continue(p, "reconfigured")
    BY <1>0, <1>3, GoesOn, ElsewhereGoes DEF RotateSteps, RenameSteps
  <1> QED BY <1>1, <1>2, <1>3 DEF ConfigStep, InitializeOpens, FinishInitialize, FinishReconfigure

\* How an entry is prepared
LEMMA CheckSizeGoes ==
  ASSUME TypeOK, NEW p \in Processes, CheckSize(p)
  PROVE  /\ call'[p].stamp = call[p].stamp /\ ~HeadsFor(p, "rolled")'
         /\ pc'[p] = "write" \/ (pc'[p] = "rotate" /\ call'[p].reason = "size")
  <1>0. CallOK /\ call[p] \in Call /\ call[p].stamp \in Int
    BY CallTypes DEF TypeOK
  <1>1. CASE RotateThen(p, "size", call[p].stamp, "write", call[p])
    <2>1. pc'[p] = "rotate" /\ call'[p].after = "write" /\ call'[p].reason = "size" /\ call'[p].stamp = call[p].stamp
      BY <1>0, <1>1, RotateThenAt, StepsAre
    <2> QED BY <2>1 DEF HeadsFor
  <1>2. CASE Continue(p, "write")
    <2>1. pc'[p] = "write" /\ call'[p] = call[p]
      BY <1>0, <1>2, GoesOn
    <2>2. ~HeadsFor(p, "rolled")'
      BY <2>1 DEF HeadsFor, RotateSteps, RenameSteps
    <2> QED BY <2>1, <2>2
  <1> QED BY <1>1, <1>2 DEF CheckSize

LEMMA PrepareGoes ==
  ASSUME TypeOK, NEW p \in Processes, PrepareWrite(p)
  PROVE  /\ call'[p].stamp = call[p].stamp
         /\ HeadsFor(p, "rolled")' => IsNewDay(p)
         /\ HeadsFor(p, "write")' => ~(m_Config[p].EnableDailyRolling /\ IsNewDay(p))
         /\ pc'[p] \in RotateSteps /\ call'[p].reason = "daily" =>
              \/ call'[p].label = DayOfEarlierLog(m_Config[p]) /\ DayOfEarlierLog(m_Config[p]) # NoDay
              \/ call'[p].label = m_LastLogDate[p]
         /\ pc'[p] \in {"rotate", "rolled", "write"}
  <1>0. CallOK /\ call[p] \in Call /\ m_LastLogDate[p] \in Int /\ DayOfEarlierLog(m_Config[p]) \in Int
    BY CallTypes, ConfigTypes, EarlierDayType DEF TypeOK, StateOK
  <1>1. CASE CheckSize(p) /\ ~(m_Config[p].EnableDailyRolling /\ IsNewDay(p))
    BY <1>1, CheckSizeGoes DEF RotateSteps, RenameSteps
  <1>2. CASE /\ IsNewDay(p)
             /\ \/ Goto(p, "rolled", call[p])
                \/ \E label \in Int : /\ RotateThen(p, "daily", label, "rolled", call[p])
                                      /\ \/ label = DayOfEarlierLog(m_Config[p]) /\ DayOfEarlierLog(m_Config[p]) # NoDay
                                         \/ label = m_LastLogDate[p]
    <2>1. CASE Goto(p, "rolled", call[p])
      <3>1. pc'[p] = "rolled" /\ call'[p] = call[p]
        BY <1>0, <2>1, GotoAt
      <3> QED BY <1>2, <3>1 DEF HeadsFor, RotateSteps, RenameSteps
    <2>2. ASSUME NEW label \in Int, RotateThen(p, "daily", label, "rolled", call[p])
          PROVE  /\ pc'[p] = "rotate" /\ call'[p].after = "rolled" /\ call'[p].reason = "daily"
                 /\ call'[p].label = label /\ call'[p].stamp = call[p].stamp
      BY <1>0, <2>2, RotateThenAt, StepsAre
    <2>3. CASE pc'[p] = "rotate" /\ call'[p].after = "rolled"
      <3>1. ~HeadsFor(p, "write")'
        BY <2>3 DEF HeadsFor
      <3> QED BY <1>2, <2>1, <2>2, <2>3, <3>1
    <2> QED BY <1>2, <2>1, <2>2, <2>3
  <1> QED BY <1>0, <1>1, <1>2, Zenon DEF PrepareWrite, RotateDailyLogFromEarlierDay

\* What an entry is on its way to only PrepareWriteUnlocked() decides
LEMMA StepStaysOnItsWay ==
  ASSUME TypeOK, NEW p \in Processes, StepOf(p), ~Write(p), ~PrepareWrite(p), ~RolledOver(p)
  PROVE  StaysOnItsWay(p)
  <1>1. CASE WriteLogEntry(p)
    BY <1>1, Returned DEF WriteLogEntry, Return, TypeOK
  <1> QED BY <1>1, CallStaysOnItsWay, OpenStaysOnItsWay, RotationStaysOnItsWay, ConfigStaysOnItsWay DEF StepOf, WriteStep

----------------------------------------------------------------------------
(* The times of entries and lines *)

Timely(p) == 0 <= call[p].stamp /\ call[p].stamp <= clock /\ m_Config[p].TimestampZone \in Zones
LinesTimely(f) == files[f].written <= clock /\ \A line \in Lines(f) : line.stamp <= files[f].written
TimeInv == (\A p \in Processes : Timely(p)) /\ \A f \in 1..Len(files) : LinesTimely(f)

\* An entry is stamped no later than now
LEMMA WriteGoes ==
  ASSUME TypeOK, NEW p \in Processes, Write(p)
  PROVE  /\ pc'[p] = "ready" /\ 0 <= call'[p].stamp /\ call'[p].stamp <= clock
         /\ UNCHANGED <<clock, m_Config, m_LastLogDate>>
  <1>0. CallOK /\ clock \in Nat /\ clock >= StartTime
    BY DEF TypeOK, DiskOK
  <1>1. PICK stamp \in (clock - MaxWait)..clock : Goto(p, "ready", [NoCall EXCEPT !.stamp = stamp])
    BY Zenon DEF Write
  <1>2. MaxWait \in Nat /\ StartTime \in Nat /\ MaxWait < StartTime
    BY TimeAssumption
  <1>3. stamp \in Int /\ 0 <= stamp /\ stamp <= clock
    BY <1>0, <1>1, <1>2
  <1>4. PICK d : d = [NoCall EXCEPT !.stamp = stamp]
    OBVIOUS
  <1>5. d.stamp = stamp
    BY <1>3, <1>4, FirstLocals
  <1>6. pc'[p] = "ready" /\ call'[p] = d
    BY <1>0, <1>1, <1>4, GotoAt
  <1>7. UNCHANGED <<clock, m_Config, m_LastLogDate>>
    BY DEF Write, Begin, diskVars, stateVars
  <1> QED BY <1>3, <1>5, <1>6, <1>7

LEMMA ConfigGoes ==
  ASSUME TypeOK, NEW p \in Processes, StepOf(p)
  PROVE  /\ clock' = clock
         /\ m_Config'[p] = m_Config[p] \/ (CallStep(p) /\ \E config \in Configs : m_Config'[p] = config)
  <1>1. CASE CallStep(p)
    <2>1. clock' = clock
      BY <1>1, StepsBegin DEF diskVars
    <2>2. m_Config' = m_Config \/ \E config \in Configs : m_Config' = [m_Config EXCEPT ![p] = config]
      BY <1>1 DEF CallStep, Close, Open, Write, RotateLogFiles, Initialize, ReconfigureFile, ReconfigurePath,
                  BeginInitialize, stateVars
    <2>3. \A config : m_Config' = [m_Config EXCEPT ![p] = config] => m_Config'[p] = config
      BY DEF TypeOK, StateOK
    <2> QED BY <1>1, <2>1, <2>2, <2>3
  <1>2. CASE ~CallStep(p)
    BY <1>2, StepsBegin DEF StepOf, At
  <1> QED BY <1>1, <1>2

\* The lines of a file
LEMMA LinesType ==
  ASSUME DiskOK, NEW f \in 1..Len(files)
  PROVE  \A line \in Lines(f) : line \in Line /\ line.stamp \in Int /\ line.isDaily \in BOOLEAN
  <1>1. PICK lines \in Seq(Line) : lines = files[f].lines
    BY FileType
  <1>2. \A i \in 1..Len(lines) : lines[i] \in Line
    OBVIOUS
  <1>3. \A line \in Lines(f) : line \in Line
    BY <1>1, <1>2 DEF Lines
  <1> QED BY <1>3 DEF Line

LEMMA TimelyStep ==
  ASSUME TypeOK, NEW p \in Processes, StepOf(p), Timely(p)
  PROVE  Timely(p)'
  <1>1. 0 <= call'[p].stamp /\ call'[p].stamp <= clock
    <2>1. CASE Write(p)
      BY <2>1, WriteGoes
    <2>2. CASE PrepareWrite(p) \/ RolledOver(p)
      BY <2>2, PrepareGoes, CheckSizeGoes DEF RolledOver, Timely
    <2>3. CASE ~Write(p) /\ ~PrepareWrite(p) /\ ~RolledOver(p)
      <3>1. call'[p].stamp \in {call[p].stamp, 0}
        BY <2>3, StepStaysOnItsWay DEF StaysOnItsWay
      <3> QED BY <3>1 DEF Timely, TypeOK, DiskOK
    <2> QED BY <2>1, <2>2, <2>3
  <1>2. \A config \in Configs : config.TimestampZone \in Zones
    BY DEF Zones
  <1> QED BY <1>1, <1>2, ConfigGoes DEF Timely

LEMMA TimeStep == TypeOK /\ TypeOK' /\ TimeInv /\ [Next]_vars => TimeInv'
  <1> SUFFICES ASSUME TypeOK, TypeOK', TimeInv, [Next]_vars PROVE TimeInv'
    OBVIOUS
  <1>0. clock \in Nat /\ clock' \in Nat /\ \A p \in Processes : Timely(p)
    BY DEF TypeOK, DiskOK, TimeInv
  <1>00. \A f \in 1..Len(files) : /\ files[f].written \in Int /\ \A line \in Lines(f) : line.stamp \in Int
    BY FileType, LinesType DEF TypeOK
  <1>1. CASE StepOfAnother
    <2>1. UNCHANGED <<files, m_Config, call>>
      BY <1>1, AnotherStays DEF stateVars
    <2>2. clock' >= clock
      <3>1. (\E c \in Cleaners : CleanupStep(c)) \/ UNCHANGED vars => clock' = clock
        BY DEF CleanupStep, TakeDeferredWork, ListBackups, DeleteBackup, InJob, vars, diskVars
      <3>2. Tick => clock' = clock + 1
        BY DEF Tick
      <3> QED BY <1>0, <1>1, <3>1, <3>2 DEF StepOfAnother
    <2>3. ASSUME NEW p \in Processes PROVE Timely(p)'
      <3>1. call[p].stamp \in Int
        BY CallTypes DEF TypeOK
      <3> QED BY <1>0, <2>1, <2>2, <3>1 DEF Timely
    <2>4. ASSUME NEW f \in 1..Len(files) PROVE LinesTimely(f)'
      BY <1>0, <1>00, <2>1, <2>2 DEF TimeInv, LinesTimely, Lines
    <2> QED BY <2>1, <2>3, <2>4 DEF TimeInv
  <1>2. ASSUME NEW p \in Processes, Crash(p) PROVE TimeInv'
    <2>1. UNCHANGED <<files, clock>>
      BY <1>2 DEF Crash, diskVars
    <2>2. call'[p].stamp = 0 /\ m_Config'[p] = DefaultConfig /\ DefaultConfig.TimestampZone \in Zones
      BY <1>2, Returned DEF Crash, Return, TypeOK, StateOK, Zones
    <2>3. Timely(p)'
      BY <1>0, <2>1, <2>2 DEF Timely
    <2>4. \A q \in Processes \ {p} : Timely(q)'
      BY <1>0, <1>2, <2>1, OthersStay DEF CallsStay, StreamsStay, Timely
    <2> QED BY <2>1, <2>3, <2>4 DEF TimeInv, LinesTimely, Lines
  <1>3. ASSUME NEW p \in Processes, StepOf(p) PROVE TimeInv'
    <2>1. clock' = clock /\ Timely(p)' /\ Timely(p)
      BY <1>0, <1>3, ConfigGoes, TimelyStep
    <2>2. \A q \in Processes \ {p} : Timely(q)'
      BY <1>0, <1>3, <2>1, OthersStay DEF CallsStay, StreamsStay, Timely
    <2>3. CASE files' = files
      BY <2>1, <2>2, <2>3 DEF TimeInv, LinesTimely, Lines
    <2>4. CASE Made(p)
      <3>1. PICK n \in Nat : n = Len(files) /\ Len(files') = n + 1
        BY <2>4, MadeIs
      <3>2. \A f \in 1..n : LinesTimely(f)'
        BY <2>1, <2>4, <3>1, MadeIs DEF TimeInv, LinesTimely, Lines
      <3>3. LinesTimely(n + 1)'
        <4>1. files'[n + 1].lines = <<>> /\ files'[n + 1].written = clock
          BY <2>4, <3>1, MadeIs
        <4> QED BY <1>0, <2>1, <4>1 DEF LinesTimely, Lines
      <3>4. \A f \in 1..Len(files') : f \in 1..n \/ f = n + 1
        BY <3>1
      <3> QED BY <2>1, <2>2, <3>2, <3>3, <3>4 DEF TimeInv
    <2>5. ASSUME NEW line \in Line, Wrote(p, line), line.stamp \in {clock, call[p].stamp} PROVE TimeInv'
      <3>1. PICK f \in 1..Len(files) : /\ \A g \in 1..Len(files) \ {f} : files'[g] = files[g]
                                       /\ Lines(f)' = Lines(f) \cup {line} /\ files'[f].written = clock
        BY <2>5 DEF Wrote
      <3>2. \A g \in 1..Len(files) \ {f} : LinesTimely(g)'
        BY <2>1, <3>1 DEF TimeInv, LinesTimely, Lines
      <3>3. \A l \in Lines(f)' : l.stamp <= clock
        <4>1. \A l \in Lines(f) : l.stamp <= clock
          BY <1>0, <1>00 DEF TimeInv, LinesTimely
        <4>2. line.stamp <= clock
          BY <1>0, <2>1, <2>5 DEF Timely
        <4> QED BY <3>1, <4>1, <4>2
      <3>4. LinesTimely(f)'
        BY <1>0, <2>1, <3>1, <3>3 DEF LinesTimely
      <3>5. Len(files') = Len(files)
        BY <2>5 DEF Wrote
      <3> QED BY <2>1, <2>2, <3>2, <3>4, <3>5 DEF TimeInv
    <2> QED BY <1>3, <2>3, <2>4, <2>5, FilesChange
  <1> QED BY <1>1, <1>2, <1>3, NextSplits

----------------------------------------------------------------------------
(* The open file and the day of the log *)

\* The day of a log is never the one that is none
LEMMA DayIsSet ==
  ASSUME TypeOK, NEW zone \in Zones
  PROVE  Day(clock, zone) # NoDay
  BY FirstZoneIs, DayIsNatural DEF TypeOK, DiskOK

LEMMA EntryDayIsSet ==
  ASSUME TypeOK, NEW p \in Processes, Timely(p)
  PROVE  EntryDay(p) # NoDay /\ EntryDay(p) \in Int
  <1>1. call[p].stamp \in Nat /\ m_Config[p].TimestampZone \in Nat
    BY CallTypes, ConfigTypes DEF TypeOK, Timely
  <1>2. Day(call[p].stamp, m_Config[p].TimestampZone) \in Nat /\ Day(call[p].stamp, m_Config[p].TimestampZone) # NoDay
    BY <1>1, DayIsNatural
  <1> QED BY <1>2 DEF EntryDay

\* How the day of the log goes on
LEMMA DateGoes ==
  ASSUME TypeOK, NEW p \in Processes, StepOf(p), Timely(p)
  PROVE  \/ m_LastLogDate'[p] = m_LastLogDate[p]
         \/ /\ CallStep(p) \/ ConfigStep(p) \/ m_LastLogDate[p] = NoDay
            /\ \E zone \in Zones : m_LastLogDate'[p] = Day(clock, zone)
         \/ RolledOver(p) /\ m_LastLogDate'[p] = EntryDay(p)
  <1>0. m_LastLogDate \in [Processes -> Int] /\ m_Config[p].TimestampZone \in Zones
    BY DEF TypeOK, StateOK, Timely
  <1>1. CASE CallStep(p)
    <2>1. \A config \in Configs : config.TimestampZone \in Zones
      BY DEF Zones
    <2>2. ASSUME NEW config \in Configs, ReconfigureFile(p, config)
          PROVE  m_LastLogDate' = m_LastLogDate \/ m_LastLogDate' = [m_LastLogDate EXCEPT ![p] = Day(clock, config.TimestampZone)]
      BY <2>2 DEF ReconfigureFile, DayInNewZone
    <2>3. \/ m_LastLogDate' = m_LastLogDate
          \/ \E config \in Configs : m_LastLogDate' = [m_LastLogDate EXCEPT ![p] = Day(clock, config.TimestampZone)]
      BY <1>1, <2>2 DEF CallStep, Close, Open, Write, RotateLogFiles, Initialize, ReconfigurePath, stateVars
    <2>4. \A day : m_LastLogDate' = [m_LastLogDate EXCEPT ![p] = day] => m_LastLogDate'[p] = day
      BY <1>0
    <2> QED BY <1>1, <2>1, <2>3, <2>4
  <1>2. CASE OpenStep(p)
    <2>1. \/ m_LastLogDate' = m_LastLogDate
          \/ m_LastLogDate[p] = NoDay /\ m_LastLogDate' = [m_LastLogDate EXCEPT ![p] = Today(p)]
      BY <1>2 DEF OpenStep, EnsureReady, OpenSucceeds, OpenFails, WriteNewFileStartupLines, stateVars
    <2> QED BY <1>0, <2>1 DEF Today
  <1>3. CASE WriteStep(p)
    <2>1. \/ m_LastLogDate' = m_LastLogDate
          \/ RolledOver(p) /\ m_LastLogDate' = [m_LastLogDate EXCEPT ![p] = EntryDay(p)]
      BY <1>3 DEF WriteStep, PrepareWrite, RolledOver, WriteLogEntry, stateVars
    <2> QED BY <1>0, <2>1
  <1>4. CASE RotationStep(p)
    BY <1>4 DEF RotationStep, BeginRotation, FindFreeBackupPath, RenameWithoutReplacing, UnlinkLog, ReplaceFile,
                FinishRotateLogFiles, CloseAfterLines, InRotation, stateVars
  <1>5. CASE ConfigStep(p)
    <2>1. m_LastLogDate' = m_LastLogDate \/ m_LastLogDate' = [m_LastLogDate EXCEPT ![p] = Today(p)]
      BY <1>5 DEF ConfigStep, InitializeOpens, FinishInitialize, FinishReconfigure, stateVars
    <2> QED BY <1>0, <1>5, <2>1 DEF Today
  <1> QED BY <1>1, <1>2, <1>3, <1>4, <1>5 DEF StepOf

\* The day stays set
LEMMA DateStays ==
  ASSUME TypeOK, NEW p \in Processes, StepOf(p), Timely(p), m_LastLogDate[p] # NoDay
  PROVE  m_LastLogDate'[p] # NoDay
  BY DateGoes, DayIsSet, EntryDayIsSet

\* A file is opened by one step only, and what else happens to it is that it is closed
LEMMA StreamGoes ==
  ASSUME TypeOK, NEW p \in Processes, StepOf(p), ~OpenSucceeds(p)
  PROVE  \/ m_FileStream'[p] = NoFile
         \/ m_FileStream'[p] = m_FileStream[p] /\ m_IsInitialized'[p] = m_IsInitialized[p] /\ ~BeginRotation(p)
  <1>0. m_FileStream \in [Processes -> 0..Len(files)]
    BY DEF TypeOK, StreamOK
  <1>1. CloseFile(p) => m_FileStream'[p] = NoFile
    BY <1>0 DEF CloseFile
  <1>2. \A line, isLast : WriteLine(p, line, isLast) => m_FileStream' = m_FileStream \/ CloseFile(p)
    BY DEF WriteLine, AfterEntry
  <1>3. AfterEntry(p) => m_FileStream' = m_FileStream \/ CloseFile(p)
    BY DEF AfterEntry
  <1>4. CASE CallStep(p)
    <2>1. CloseFile(p) \/ UNCHANGED streamVars
      BY <1>4 DEF CallStep, Close, Open, Write, RotateLogFiles, Initialize, ReconfigureFile, ReconfigurePath
    <2>2. ~BeginRotation(p)
      BY <1>4, StepsBegin DEF BeginRotation, InRotation, At
    <2> QED BY <1>1, <2>1, <2>2 DEF streamVars
  <1>5. CASE OpenStep(p) \/ WriteStep(p) \/ ConfigStep(p)
    <2>1. m_FileStream' = m_FileStream \/ CloseFile(p)
      BY <1>2, <1>3, <1>5 DEF OpenStep, EnsureReady, OpenFails, WriteNewFileStartupLines, WriteStep, PrepareWrite, RolledOver,
                         WriteLogEntry, ConfigStep, InitializeOpens, FinishInitialize, FinishReconfigure, streamVars
    <2>2. m_IsInitialized' = m_IsInitialized
      BY <1>5 DEF OpenStep, EnsureReady, OpenFails, WriteNewFileStartupLines, WriteStep, PrepareWrite, RolledOver,
                         WriteLogEntry, ConfigStep, InitializeOpens, FinishInitialize, FinishReconfigure, streamVars
    <2>3. ~BeginRotation(p)
      BY <1>5, StepsBegin DEF BeginRotation, InRotation, At
    <2> QED BY <1>1, <2>1, <2>2, <2>3
  <1>6. CASE RotationStep(p)
    <2>1. (m_FileStream' = m_FileStream /\ m_IsInitialized' = m_IsInitialized /\ ~BeginRotation(p)) \/ CloseFile(p)
      BY <1>3, <1>6 DEF RotationStep, BeginRotation, FindFreeBackupPath, RenameWithoutReplacing, UnlinkLog, ReplaceFile,
                FinishRotateLogFiles, CloseAfterLines, InRotation, At, streamVars
    <2> QED BY <1>1, <2>1
  <1> QED BY <1>4, <1>5, <1>6 DEF StepOf

\* To the preparation of an entry, and to the startup lines, lead few steps
LEMMA PrepareFrom ==
  ASSUME TypeOK, NEW p \in Processes, StepOf(p), pc'[p] \in {"prepare", "startup"}
  PROVE  OpenSucceeds(p) \/ WriteNewFileStartupLines(p) \/ (EnsureReady(p) /\ IsOpen(p))
  <1>0. CallOK /\ call[p] \in Call
    BY CallTypes DEF TypeOK
  <1>1. ASSUME NEW step, NEW d, Goto(p, step, d) PROVE pc'[p] = step
    BY <1>0, <1>1, GotoAt
  <1>2. CASE CallStep(p)
    <2>1. ASSUME NEW config, NEW locals, RotateDailyLogFromEarlierDay(p, config, "initialize", locals)
          PROVE  pc'[p] \in {"rotate", "initialize"}
      BY <1>0, <2>1, GoesOn, GotoAt, Zenon DEF RotateDailyLogFromEarlierDay
    <2>2. pc'[p] = pc[p] \/ pc'[p] \in {"open", "ready", "rotate", "initialize"}
      BY <1>0, <1>1, <1>2, <2>1, GoesOn, Zenon
         DEF CallStep, Close, Open, Write, RotateLogFiles, Initialize, ReconfigureFile, ReconfigurePath, BeginInitialize
    <2> QED BY <1>2, <2>2, StepsBegin
  <1>3. CASE OpenStep(p)
    <2>1. CASE EnsureReady(p)
      <3>1. (EnsureReady(p) /\ IsOpen(p)) \/ OpenThen(p, "prepare") \/ Return(p)
        BY <2>1 DEF EnsureReady
      <3> QED BY <1>0, <3>1, GoesOn
    <2>2. CASE OpenFails(p)
      <3>1. PICK to : /\ to = CASE call[p].then \in {"prepare", "close"} -> "idle"
                                [] call[p].then = "initialized" -> "reconfigured"
                                [] OTHER -> call[p].then
                      /\ \E d : Goto(p, to, d)
        BY <2>2, Zenon DEF OpenFails
      <3>2. to # "prepare" /\ to # "startup"
        BY <1>0, <3>1, CallTypes DEF Then, After
      <3> QED BY <1>1, <3>1, <3>2
    <2> QED BY <1>3, <2>1, <2>2 DEF OpenStep
  <1>4. CASE WriteStep(p)
    <2>1. pc'[p] \in {"rotate", "rolled", "write", "idle"}
      BY <1>0, <1>4, GoesOn, PrepareGoes, CheckSizeGoes DEF WriteStep, RolledOver, WriteLogEntry
    <2> QED BY <2>1
  <1>5. CASE RotationStep(p)
    <2>1. ASSUME NEW locals \in Call, Rotated(p, locals) PROVE pc'[p] \notin {"prepare", "startup"}
      BY <1>0, <2>1, RotatedAt DEF Call, After
    <2>2. RotationFails(p) => pc'[p] \notin {"prepare", "startup"}
      BY <1>0, FailsAt DEF Call, After
    <2>3. \A file : Renamed(p, file) => pc'[p] \notin {"prepare", "startup"}
      BY <1>0, <2>1 DEF Renamed
    <2>4. CASE BeginRotation(p)
      <3>1. PICK locals : locals = [call[p] EXCEPT !.wasOpen = IsOpen(p)]
        OBVIOUS
      <3>2. locals \in Call
        <4>1. IsOpen(p) \in BOOLEAN
          BY DEF IsOpen
        <4> QED BY <1>0, <3>1, <4>1, WasOpenLocals
      <3> QED BY <1>1, <2>1, <2>4, <3>1, <3>2 DEF BeginRotation
    <2>5. CASE FindFreeBackupPath(p)
      BY <2>2, <2>5, FindGoes
    <2>6. CASE RenameWithoutReplacing(p)
      BY <2>2, <2>3, <2>6, RenameGoes DEF MoveFile
    <2>7. CASE UnlinkLog(p) \/ ReplaceFile(p)
      BY <2>2, <2>3, <2>7 DEF UnlinkLog, ReplaceFile
    <2>8. CASE FinishRotateLogFiles(p) \/ CloseAfterLines(p)
      BY <1>0, <2>8, GoesOn DEF FinishRotateLogFiles, CloseAfterLines
    <2> QED BY <1>5, <2>4, <2>5, <2>6, <2>7, <2>8 DEF RotationStep
  <1>6. CASE ConfigStep(p)
    <2>1. pc'[p] \in {"open", "idle", "reconfigured"}
      BY <1>0, <1>6, GoesOn DEF ConfigStep, InitializeOpens, FinishInitialize, FinishReconfigure
    <2> QED BY <2>1
  <1> QED BY <1>2, <1>3, <1>4, <1>5, <1>6 DEF StepOf

\* A file that is open has a day, and is not being renamed
HasDay(p) ==
    /\ IsOpen(p) => m_IsInitialized[p] /\ m_LastLogDate[p] # NoDay /\ pc[p] \notin RenameSteps
    /\ pc[p] \in {"prepare", "startup"} => m_LastLogDate[p] # NoDay

LEMMA RenameClosed ==
  ASSUME TypeOK, NEW p \in Processes, StepOf(p), ~BeginRotation(p), pc'[p] \in RenameSteps
  PROVE  pc[p] \in RenameSteps
  BY NoRename DEF StepOf, RotationStep, FindFreeBackupPath, RenameWithoutReplacing, UnlinkLog, ReplaceFile, InRotation, At, RenameSteps

LEMMA HasDayStep ==
  ASSUME TypeOK, TypeOK', NEW p \in Processes, StepOf(p), Timely(p), HasDay(p)
  PROVE  HasDay(p)'
  <1>1. m_LastLogDate[p] # NoDay => m_LastLogDate'[p] # NoDay
    BY DateStays
  <1>2. CASE OpenSucceeds(p)
    <2>1. m_IsInitialized'[p] = TRUE
      BY <1>2 DEF OpenSucceeds, TypeOK, StreamOK
    <2>2. m_LastLogDate'[p] # NoDay
      <3>1. m_Config[p].TimestampZone \in Zones
        BY DEF Timely
      <3>2. m_LastLogDate[p] = NoDay => m_LastLogDate' = [m_LastLogDate EXCEPT ![p] = Today(p)]
        BY <1>2 DEF OpenSucceeds, HasDay
      <3>3. m_LastLogDate[p] = NoDay => m_LastLogDate'[p] = Today(p)
        BY <3>2 DEF TypeOK, StateOK
      <3> QED BY <1>1, <3>1, <3>3, DayIsSet DEF Today
    <2>3. pc'[p] \notin RenameSteps
      BY <1>2, NoRename DEF OpenStep
    <2> QED BY <2>1, <2>2, <2>3 DEF HasDay
  <1>3. CASE ~OpenSucceeds(p)
    <2>1. IsOpen(p)' => IsOpen(p) /\ m_IsInitialized'[p] = m_IsInitialized[p] /\ ~BeginRotation(p)
      BY <1>3, StreamGoes DEF IsOpen
    <2>2. pc'[p] \in {"prepare", "startup"} => m_LastLogDate'[p] # NoDay
      <3>1. WriteNewFileStartupLines(p) => pc[p] = "startup"
        BY DEF WriteNewFileStartupLines, At
      <3> QED BY <1>1, <1>3, <3>1, PrepareFrom DEF HasDay
    <2> QED BY <1>1, <2>1, <2>2, RenameClosed DEF HasDay
  <1> QED BY <1>2, <1>3

----------------------------------------------------------------------------
(* An entry and the day of the log *)

\* The day rolls over only to a later one, and an entry is of no later day
EntryDated(p) ==
    /\ HeadsFor(p, "rolled") => m_LastLogDate[p] # NoDay /\ EntryDay(p) > m_LastLogDate[p]
    /\ HeadsFor(p, "write") /\ m_Config[p].EnableDailyRolling =>
          m_LastLogDate[p] # NoDay /\ EntryDay(p) <= m_LastLogDate[p]

LEMMA EntryDatedStep ==
  ASSUME TypeOK, NEW p \in Processes, StepOf(p), Timely(p), HasDay(p), EntryDated(p)
  PROVE  EntryDated(p)'
  <1>0. EntryDay(p) \in Int /\ EntryDay(p) # NoDay /\ m_LastLogDate[p] \in Int
    BY EntryDayIsSet DEF TypeOK, StateOK
  <1>1. CASE Write(p)
    <2>1. ~HeadsFor(p, "rolled")' /\ ~HeadsFor(p, "write")'
      BY <1>1, WriteGoes DEF HeadsFor, RotateSteps, RenameSteps
    <2> QED BY <2>1 DEF EntryDated
  <1>2. CASE PrepareWrite(p)
    <2>1. pc[p] = "prepare" /\ UNCHANGED <<m_Config, m_LastLogDate>>
      BY <1>2 DEF PrepareWrite, At, stateVars
    <2>2. EntryDay(p)' = EntryDay(p)
      BY <1>2, <2>1, PrepareGoes DEF EntryDay, Day
    <2>3. m_LastLogDate[p] # NoDay
      BY <2>1 DEF HasDay
    <2> QED BY <1>0, <1>2, <2>1, <2>2, <2>3, PrepareGoes DEF EntryDated, IsNewDay
  <1>3. CASE RolledOver(p)
    <2>1. m_Config' = m_Config /\ m_LastLogDate'[p] = EntryDay(p)
      BY <1>3 DEF RolledOver, At, TypeOK, StateOK
    <2>2. EntryDay(p)' = EntryDay(p) /\ ~HeadsFor(p, "rolled")'
      BY <1>3, <2>1, CheckSizeGoes DEF RolledOver, EntryDay, Day
    <2> QED BY <1>0, <2>1, <2>2 DEF EntryDated
  <1>4. CASE ~Write(p) /\ ~PrepareWrite(p) /\ ~RolledOver(p)
    <2>1. ASSUME NEW step \in {"rolled", "write"}, HeadsFor(p, step)'
          PROVE  /\ HeadsFor(p, step) /\ EntryDay(p)' = EntryDay(p) /\ m_Config'[p] = m_Config[p]
                 /\ m_LastLogDate[p] # NoDay => m_LastLogDate'[p] = m_LastLogDate[p]
      <3>1. HeadsFor(p, step) /\ call'[p].stamp = call[p].stamp
        BY <1>4, <2>1, StepStaysOnItsWay DEF StaysOnItsWay
      <3>2. ~CallStep(p) /\ ~ConfigStep(p)
        BY <3>1, StepsBegin DEF HeadsFor, At, RotateSteps, RenameSteps
      <3>3. m_Config'[p] = m_Config[p]
        BY <3>2, ConfigGoes
      <3>4. EntryDay(p)' = EntryDay(p)
        BY <3>1, <3>3 DEF EntryDay, Day
      <3> QED BY <1>4, <3>1, <3>2, <3>3, <3>4, DateGoes
    <2> QED BY <2>1 DEF EntryDated
  <1> QED BY <1>1, <1>2, <1>3, <1>4

----------------------------------------------------------------------------
(* The names of the files of a process alone *)

\* The log with another name
LinksInv == \A p \in Processes : pc[p] = "unlink" => env.fs = "links"

LEMMA UnlinkFrom ==
  ASSUME TypeOK, NEW p \in Processes, StepOf(p), pc'[p] = "unlink"
  PROVE  LinkFile(p)
  <1>1. CASE RotationStep(p) /\ ~FinishRotateLogFiles(p) /\ ~CloseAfterLines(p)
    <2>1. CASE BeginRotation(p) \/ FindFreeBackupPath(p)
      BY <2>1, BeginGoes, FindGoes, AfterRename DEF RenameSteps
    <2>2. CASE RenameWithoutReplacing(p)
      BY <2>2, RenameGoes DEF RenameSteps
    <2>3. CASE UnlinkLog(p) \/ ReplaceFile(p)
      BY <2>3, AfterRename DEF UnlinkLog, ReplaceFile, RenameSteps
    <2> QED BY <1>1, <2>1, <2>2, <2>3 DEF RotationStep
  <1> QED BY <1>1, NoRename DEF StepOf, RenameSteps

LEMMA LinksStep == TypeOK /\ UnusedInv /\ LinksInv /\ [Next]_vars => LinksInv'
  <1> SUFFICES ASSUME TypeOK, UnusedInv, LinksInv, [Next]_vars, NEW q \in Processes, pc'[q] = "unlink"
               PROVE  env'.fs = "links"
    BY DEF LinksInv
  <1>1. CASE StepOfAnother
    BY <1>1, AnotherStays DEF LinksInv
  <1>2. ASSUME NEW p \in Processes, StepOf(p) PROVE env'.fs = "links"
    <2>1. env' = env /\ (p # q => pc'[q] = pc[q])
      BY <1>2, StepsCount, OthersStay DEF CallsStay
    <2>2. CASE p = q
      BY <1>2, <2>1, <2>2, UnlinkFrom DEF LinkFile
    <2> QED BY <2>1, <2>2 DEF LinksInv
  <1>3. ASSUME NEW p \in Processes, Crash(p) PROVE env'.fs = "links"
    <2>1. env' = env /\ pc'[p] = "idle" /\ (p # q => pc'[q] = pc[q])
      BY <1>3, GoesOn, OthersStay DEF Crash, diskVars, CallsStay, TypeOK
    <2> QED BY <2>1 DEF LinksInv
  <1> QED BY <1>1, <1>2, <1>3, NextSplits

\* A rename of the log to a backup's name that is free, a second name for it,
\* and one of its two names taken away
Moved(p) ==
    /\ Exists(Log(p)) /\ ~Exists(call[p].backup) /\ pc[p] \in Naming /\ pc'[p] \notin RenameSteps
    /\ folder' = Linked(Unlinked(folder, Log(p)), call[p].backup, folder[Log(p)])
LinkMade(p) ==
    /\ Exists(Log(p)) /\ ~Exists(call[p].backup) /\ pc[p] \in Naming
    /\ pc'[p] = "unlink" /\ call'[p].backup = call[p].backup
    /\ folder' = Linked(folder, call[p].backup, folder[Log(p)])
LinkGone(p) ==
    /\ pc[p] = "unlink" /\ pc'[p] \notin RenameSteps
    /\ folder' = Unlinked(folder, Log(p)) \/ folder' = Unlinked(folder, call[p].backup)

LEMMA FolderGoes ==
  ASSUME TypeOK, KeptInv, IsAlone \/ env.fs = "move", NEW p \in Processes, StepOf(p)
  PROVE  \/ folder' = folder
         \/ OpenSucceeds(p) /\ Made(p) /\ folder' = Linked(folder, Log(p), Len(files) + 1) /\ ~Exists(Log(p))
         \/ (Moved(p) \/ LinkMade(p) \/ LinkGone(p)) /\ UNCHANGED <<files, m_Config, m_FileStream>>
  <1>1. CASE OpenSucceeds(p)
    BY <1>1 DEF OpenSucceeds, OpenFound, OpenFile, Made
  <1>2. CASE RenameWithoutReplacing(p)
    <2>1. pc[p] = "rename" /\ UNCHANGED <<files, m_Config, m_FileStream>>
      BY <1>2 DEF RenameWithoutReplacing, InRotation, At
    <2>2. MoveFile(p) /\ pc'[p] \notin RenameSteps => Moved(p)
      BY <2>1 DEF MoveFile, CanRename, IsNameFree, Moved, Naming
    <2>3. LinkFile(p) => LinkMade(p)
      BY <2>1, LinkGoes DEF LinkFile, IsNameFree, LinkMade, Naming
    <2> QED BY <1>2, <2>1, <2>2, <2>3, RenameGoes
  <1>3. CASE UnlinkLog(p)
    BY <1>3, AfterRename DEF UnlinkLog, RemovesOldName, InRotation, At, LinkGone
  <1>4. CASE ReplaceFile(p)
    <2>1. pc[p] = "replace" /\ UNCHANGED <<files, m_Config, m_FileStream>>
      BY <1>4 DEF ReplaceFile, InRotation, At
    <2>2. pc'[p] \notin RenameSteps
      BY <1>4, AfterRename DEF ReplaceFile
    <2>3. ~Exists(call[p].backup)
      BY <1>4, <2>1 DEF KeptInv, RenameKept, ReplaceFile
    <2> QED BY <1>4, <2>1, <2>2, <2>3 DEF ReplaceFile, Moved, Naming
  <1> QED BY <1>1, <1>2, <1>3, <1>4, FilesStay

\* The file that is open is the log
OpensLog(p) == IsOpen(p) => Exists(Log(p)) /\ m_FileStream[p] = folder[Log(p)]
StreamInv == IsAlone => \A p \in Processes : OpensLog(p)

LEMMA PathStays ==
  ASSUME TypeOK, NEW p \in Processes, StepOf(p), HasDay(p), IsOpen(p)'
  PROVE  Log(p)' = Log(p)
  <1>1. CASE m_Config'[p] = m_Config[p]
    BY <1>1 DEF Log, Path
  <1>2. CASE CallStep(p)
    <2>1. ~CloseFile(p)
      BY DEF IsOpen, CloseFile, TypeOK, StreamOK
    <2>2. UNCHANGED m_FileStream
      BY <1>2, <2>1 DEF CallStep, Close, Open, Write, RotateLogFiles, Initialize, ReconfigureFile, ReconfigurePath, streamVars
    <2>3. m_IsInitialized[p]
      BY <2>2 DEF IsOpen, HasDay
    <2>4. m_Config' = m_Config \/ \E config \in Configs : ReconfigureFile(p, config)
      BY <1>2, <2>1, <2>3 DEF CallStep, Close, Open, Write, RotateLogFiles, Initialize, ReconfigurePath, stateVars
    <2>5. ASSUME NEW config \in Configs, ReconfigureFile(p, config) PROVE Path(p)' = Path(p)
      BY <2>5 DEF ReconfigureFile, KeepsFile, Path, TypeOK, StateOK
    <2> QED BY <1>1, <2>4, <2>5 DEF Log
  <1> QED BY <1>1, <1>2, ConfigGoes

LEMMA OpensLogStep ==
  ASSUME TypeOK, TypeOK', KeptInv, IsAlone, NEW p \in Processes, StepOf(p), HasDay(p), OpensLog(p)
  PROVE  OpensLog(p)'
  <1>1. CASE OpenSucceeds(p)
    <2>1. Log(p)' = Log(p)
      BY <1>1 DEF OpenSucceeds, At, Log, Path
    <2>2. CASE OpenFound(p)
      BY <2>1, <2>2 DEF OpenFound, OpensLog, IsOpen, Exists
    <2>3. CASE OpenFile(p)
      <3>1. m_FileStream'[p] = folder'[Log(p)]
        BY <2>3 DEF OpenFile, TypeOK, StreamOK
      <3>2. Log(p) \in DOMAIN folder'
        BY <2>3 DEF OpenFile, Linked, Exists
      <3> QED BY <2>1, <3>1, <3>2 DEF OpensLog, Exists
    <2> QED BY <1>1, <2>2, <2>3 DEF OpenSucceeds
  <1>2. CASE ~OpenSucceeds(p)
    <2> SUFFICES ASSUME IsOpen(p)' PROVE Exists(Log(p))' /\ m_FileStream'[p] = folder'[Log(p)']
      BY DEF OpensLog
    <2>1. m_FileStream'[p] = m_FileStream[p] /\ IsOpen(p)
      BY <1>2, StreamGoes DEF IsOpen
    <2>2. Log(p)' = Log(p)
      BY PathStays
    <2>3. folder' = folder
      <3>1. pc[p] \notin RenameSteps
        BY <2>1 DEF HasDay
      <3> QED BY <1>2, <3>1, FolderGoes DEF Moved, LinkMade, LinkGone, Naming, RenameSteps
    <2> QED BY <2>1, <2>2, <2>3 DEF OpensLog, Exists
  <1> QED BY <1>1, <1>2

\* What a step of another takes from the folder is a backup's name
LEMMA AnotherTakes ==
  ASSUME NamesInv, StepOfAnother
  PROVE  folder' = folder \/ \E name \in DOMAIN folder : IsBackup(name) /\ folder' = Unlinked(folder, name)
  BY DeleteIs DEF StepOfAnother, Tick, vars, diskVars

LEMMA StreamStep ==
  ASSUME TypeOK, TypeOK', UnusedInv, UnusedInv', NamesInv, KeptInv, StreamInv, \A p \in Processes : HasDay(p), [Next]_vars
  PROVE  StreamInv'
  <1> SUFFICES ASSUME IsAlone', NEW q \in Processes PROVE OpensLog(q)'
    BY DEF StreamInv
  <1>0. IsAlone /\ OpensLog(q)
    BY AloneBefore DEF StreamInv
  <1>1. CASE StepOfAnother
    <2>1. UNCHANGED <<m_FileStream, m_Config>>
      BY <1>1, AnotherStays DEF streamVars, stateVars
    <2>2. PICK log : log = Log(q)
      OBVIOUS
    <2>3. Log(q)' = log
      BY <2>1, <2>2 DEF Log, Path
    <2>4. log \in DOMAIN folder => log \in DOMAIN folder' /\ folder'[log] = folder[log]
      <3>1. \A name : IsBackup(name) => name # log
        BY <2>2, LogIsNoBackup DEF Log
      <3> QED BY <1>1, <3>1, AnotherTakes DEF Unlinked
    <2> QED BY <1>0, <2>1, <2>2, <2>3, <2>4 DEF OpensLog, IsOpen, Exists
  <1>2. ASSUME NEW p \in Processes, StepOf(p) PROVE OpensLog(q)'
    <2>1. CASE p = q
      BY <1>0, <1>2, <2>1, OpensLogStep
    <2>2. CASE p # q
      <3>1. calls'[q] = 0
        BY <1>2, <2>2, AloneBefore
      <3> QED BY <3>1 DEF UnusedInv, OpensLog
    <2> QED BY <2>1, <2>2
  <1>3. ASSUME NEW p \in Processes, Crash(p) PROVE OpensLog(q)'
    <2>1. folder' = folder /\ m_FileStream'[p] = NoFile
      BY <1>3 DEF Crash, diskVars, CloseFile, TypeOK, StreamOK
    <2>2. p # q => m_FileStream'[q] = m_FileStream[q] /\ m_Config'[q] = m_Config[q]
      BY <1>3, OthersStay DEF StreamsStay
    <2> QED BY <1>0, <2>1, <2>2 DEF OpensLog, IsOpen, Exists, Log, Path
  <1> QED BY <1>1, <1>2, <1>3, NextSplits

----------------------------------------------------------------------------
(* One name a file *)

OneName(names) == \A a, b \in DOMAIN names : names[a] = names[b] => a = b

LEMMA OneMoved ==
  ASSUME NEW names, OneName(names), NEW from \in DOMAIN names, NEW to, to \notin DOMAIN names, NEW newNames,
         newNames = Linked(Unlinked(names, from), to, names[from])
  PROVE  OneName(newNames)
  <1>1. DOMAIN newNames = (DOMAIN names \ {from}) \cup {to}
    BY DEF Linked, Unlinked
  <1>2. newNames[to] = names[from] /\ \A name \in DOMAIN names \ {from} : newNames[name] = names[name]
    BY DEF Linked, Unlinked
  <1> QED BY <1>1, <1>2 DEF OneName

LEMMA OneMade ==
  ASSUME NEW names, OneName(names), NEW to, to \notin DOMAIN names, NEW newNames, NEW file,
         \A name \in DOMAIN names : names[name] # file, newNames = Linked(names, to, file)
  PROVE  OneName(newNames)
  <1>1. DOMAIN newNames = DOMAIN names \cup {to}
    BY DEF Linked
  <1>2. newNames[to] = file /\ \A name \in DOMAIN names : newNames[name] = names[name]
    BY DEF Linked
  <1> QED BY <1>1, <1>2 DEF OneName

LEMMA TwoMade ==
  ASSUME NEW names, OneName(names), NEW from \in DOMAIN names, NEW to, to \notin DOMAIN names, NEW newNames,
         newNames = Linked(names, to, names[from])
  PROVE  \A a, b \in DOMAIN newNames : newNames[a] = newNames[b] => a = b \/ {a, b} \subseteq {from, to}
  <1>1. DOMAIN newNames = DOMAIN names \cup {to}
    BY DEF Linked
  <1>2. newNames[to] = names[from] /\ \A name \in DOMAIN names : newNames[name] = names[name]
    BY DEF Linked
  <1> QED BY <1>1, <1>2 DEF OneName

LEMMA OneGone ==
  ASSUME NEW names, NEW from, NEW other, NEW gone, gone = from \/ gone = other, NEW newNames, newNames = Unlinked(names, gone),
         \A a, b \in DOMAIN names : names[a] = names[b] => a = b \/ {a, b} \subseteq {from, other}
  PROVE  OneName(newNames)
  <1>1. DOMAIN newNames = DOMAIN names \ {gone} /\ \A name \in DOMAIN newNames : newNames[name] = names[name]
    BY DEF Unlinked
  <1> QED BY <1>1 DEF OneName

\* What is told of the names: not of a link that a crash left
IsWhole == IsAlone /\ ~(env.fs = "links" /\ crashes > 0)
InUnlink(p, a, b) == pc[p] = "unlink" /\ {a, b} \subseteq {Log(p), call[p].backup}
OneNameInv ==
    IsWhole => \A a, b \in DOMAIN folder :
        folder[a] = folder[b] => a = b \/ \E p \in Processes : InUnlink(p, a, b)

LEMMA WholeBefore ==
  ASSUME TypeOK, TypeOK', UnusedInv, [Next]_vars, IsWhole'
  PROVE  IsWhole
  <1>1. CASE StepOfAnother
    BY <1>1, AnotherStays, AloneBefore DEF IsWhole
  <1>2. ASSUME NEW p \in Processes, StepOf(p) PROVE IsWhole
    BY <1>2, StepsCount, AloneBefore DEF IsWhole
  <1>3. ASSUME NEW p \in Processes, Crash(p) PROVE IsWhole
    <2>1. env' = env /\ crashes' = crashes + 1 /\ crashes \in Nat
      BY <1>3 DEF Crash, diskVars, TypeOK, CallOK
    <2>2. crashes > 0 => crashes' > 0
      BY <2>1
    <2> QED BY <2>1, <2>2, AloneBefore DEF IsWhole
  <1> QED BY <1>1, <1>2, <1>3, NextSplits

\* But in an unlink no file has two names
LEMMA OneNameHere ==
  ASSUME OneNameInv, IsWhole, \A q \in Processes : pc[q] # "unlink"
  PROVE  OneName(folder)
  BY DEF OneNameInv, InUnlink, OneName

\* An unlink takes away one of the two
LEMMA UnlinkGoes ==
  ASSUME TypeOK, NEW p \in Processes, StepOf(p), pc[p] = "unlink"
  PROVE  LinkGone(p)
  <1>1. UnlinkLog(p)
    BY StepsBegin DEF StepOf, RotationStep, BeginRotation, FindFreeBackupPath, RenameWithoutReplacing, ReplaceFile,
                       FinishRotateLogFiles, CloseAfterLines, InRotation, At
  <1> QED BY <1>1, AfterRename DEF UnlinkLog, RemovesOldName, LinkGone

LEMMA OneNameStepOf ==
  ASSUME TypeOK, KeptInv, OneNameInv, IsWhole, NEW p \in Processes, StepOf(p), \A q \in Processes \ {p} : pc[q] = "idle"
  PROVE  \A a, b \in DOMAIN folder' : folder'[a] = folder'[b] => a = b \/ InUnlink(p, a, b)'
  <1>0. IsAlone
    BY DEF IsWhole
  <1>1. PICK names, newNames, log, backup : names = folder /\ newNames = folder' /\ log = Log(p) /\ backup = call[p].backup
    OBVIOUS
  <1>2. CASE pc[p] = "unlink"
    <2>1. \A a, b \in DOMAIN names : names[a] = names[b] => a = b \/ {a, b} \subseteq {log, backup}
      BY <1>1, <1>2 DEF OneNameInv, InUnlink
    <2>2. newNames = Unlinked(names, log) \/ newNames = Unlinked(names, backup)
      BY <1>1, <1>2, UnlinkGoes DEF LinkGone
    <2>3. OneName(newNames)
      BY <2>1, <2>2, OneGone
    <2> QED BY <1>1, <2>3 DEF OneName
  <1>3. CASE pc[p] # "unlink"
    <2>0. OneName(names)
      BY <1>1, <1>3, OneNameHere
    <2>1. CASE folder' = folder
      BY <1>1, <2>0, <2>1 DEF OneName
    <2>2. CASE folder' = Linked(folder, Log(p), Len(files) + 1) /\ ~Exists(Log(p))
      <3>1. \A name \in DOMAIN names : names[name] # Len(files) + 1
        BY <1>1 DEF TypeOK, DiskOK
      <3>2. PICK file : file = Len(files) + 1
        OBVIOUS
      <3>3. newNames = Linked(names, log, file) /\ log \notin DOMAIN names
        BY <1>1, <2>2, <3>2 DEF Exists
      <3>4. OneName(newNames)
        BY <2>0, <3>1, <3>2, <3>3, OneMade
      <3> QED BY <1>1, <3>4 DEF OneName
    <2>3. CASE Moved(p)
      <3>1. log \in DOMAIN names /\ backup \notin DOMAIN names /\ newNames = Linked(Unlinked(names, log), backup, names[log])
        BY <1>1, <2>3 DEF Moved, Exists
      <3>2. OneName(newNames)
        BY <2>0, <3>1, OneMoved
      <3> QED BY <1>1, <3>2 DEF OneName
    <2>4. CASE LinkMade(p) /\ m_Config' = m_Config
      <3>1. log \in DOMAIN names /\ backup \notin DOMAIN names /\ newNames = Linked(names, backup, names[log])
        BY <1>1, <2>4 DEF LinkMade, Exists
      <3>2. \A a, b \in DOMAIN newNames : newNames[a] = newNames[b] => a = b \/ {a, b} \subseteq {log, backup}
        BY <2>0, <3>1, TwoMade
      <3>3. pc'[p] = "unlink" /\ call'[p].backup = backup /\ Log(p)' = log
        BY <1>1, <2>4 DEF LinkMade, Log, Path
      <3> QED BY <1>1, <3>2, <3>3 DEF InUnlink
    <2> QED BY <1>0, <1>3, <2>1, <2>2, <2>3, <2>4, FolderGoes DEF LinkGone
  <1> QED BY <1>2, <1>3

LEMMA OneNameStep ==
  ASSUME TypeOK, TypeOK', UnusedInv, NamesInv, KeptInv, LinksInv, OneNameInv, [Next]_vars
  PROVE  OneNameInv'
  <1> SUFFICES ASSUME IsWhole'
               PROVE  \A a, b \in DOMAIN folder' : folder'[a] = folder'[b] => a = b \/ \E p \in Processes : InUnlink(p, a, b)'
    BY DEF OneNameInv
  <1>0. IsWhole /\ IsAlone'
    BY WholeBefore DEF IsWhole
  <1>1. CASE StepOfAnother
    <2>1. UNCHANGED <<pc, call, m_Config>>
      BY <1>1, AnotherStays DEF stateVars
    <2>2. DOMAIN folder' \subseteq DOMAIN folder /\ \A name \in DOMAIN folder' : folder'[name] = folder[name]
      BY <1>1, AnotherTakes DEF Unlinked
    <2> QED BY <1>0, <2>1, <2>2 DEF OneNameInv, InUnlink, Log, Path
  <1>2. ASSUME NEW p \in Processes, StepOf(p)
        PROVE  \A a, b \in DOMAIN folder' : folder'[a] = folder'[b] => a = b \/ \E q \in Processes : InUnlink(q, a, b)'
    <2>1. \A q \in Processes \ {p} : pc[q] = "idle"
      BY <1>0, <1>2, AloneBefore DEF UnusedInv
    <2> QED BY <1>0, <1>2, <2>1, OneNameStepOf
  <1>3. ASSUME NEW p \in Processes, Crash(p)
        PROVE  \A a, b \in DOMAIN folder' : folder'[a] = folder'[b] => a = b
    <2>1. folder' = folder /\ env' = env /\ crashes' = crashes + 1 /\ crashes \in Nat
      BY <1>3 DEF Crash, diskVars, TypeOK, CallOK
    <2>2. crashes' > 0
      BY <2>1
    <2>3. \A q \in Processes : pc[q] # "unlink"
      BY <2>1, <2>2 DEF IsWhole, LinksInv
    <2> QED BY <1>0, <2>1, <2>3, OneNameHere DEF OneName
  <1> QED BY <1>1, <1>2, <1>3, NextSplits

----------------------------------------------------------------------------
(* The days of the lines of a process alone *)

EndsBy(f, day) == \A line \in Lines(f) : line.isDaily => Day(line.stamp, FirstZone) <= day

LEMMA EndsByMore ==
  ASSUME TypeOK, NEW f \in 1..Len(files), NEW day \in Int, NEW later \in Int, day <= later, EndsBy(f, day)
  PROVE  EndsBy(f, later)
  <1>1. ASSUME NEW line \in Lines(f), line.isDaily PROVE Day(line.stamp, FirstZone) <= later
    <2>1. line.stamp \in Int
      BY LinesType DEF TypeOK
    <2>2. Day(line.stamp, FirstZone) \in Int
      BY <2>1, DayType, FirstZoneIs
    <2> QED BY <1>1, <2>2 DEF EndsBy
  <1> QED BY <1>1 DEF EndsBy

\* No line is of a later day than the last write, or than now
LEMMA EndsByWritten ==
  ASSUME TypeOK, TimeInv, NEW f \in 1..Len(files), NEW zone \in Zones
  PROVE  EndsBy(f, Day(files[f].written, zone)) /\ EndsBy(f, Day(clock, zone))
  <1>0. files[f].written \in Int /\ clock \in Int /\ files[f].written <= clock
    BY FileType DEF TypeOK, DiskOK, TimeInv, LinesTimely
  <1>1. ASSUME NEW line \in Lines(f)
        PROVE  Day(line.stamp, FirstZone) <= Day(files[f].written, zone) /\ Day(line.stamp, FirstZone) <= Day(clock, zone)
    <2>1. line.stamp \in Int /\ line.stamp <= files[f].written
      BY LinesType DEF TypeOK, TimeInv, LinesTimely
    <2>2. line.stamp <= clock
      BY <1>0, <2>1
    <2> QED BY <1>0, <2>1, <2>2, DayInFirstZone
  <1> QED BY <1>1 DEF EndsBy

LEMMA EarlierEnds ==
  ASSUME TypeOK, TimeInv, NEW config, config.TimestampZone \in Zones, DayOfEarlierLog(config) # NoDay
  PROVE  /\ LogName(config.FilePath) \in DOMAIN folder
         /\ EndsBy(folder[LogName(config.FilePath)], DayOfEarlierLog(config))
  <1>1. PICK log : log = LogName(config.FilePath)
    OBVIOUS
  <1>2. log \in DOMAIN folder /\ DayOfEarlierLog(config) = Day(files[folder[log]].written, config.TimestampZone)
    BY <1>1 DEF DayOfEarlierLog, Exists
  <1>3. folder[log] \in 1..Len(files)
    BY <1>2 DEF TypeOK, DiskOK
  <1> QED BY <1>1, <1>2, <1>3, EndsByWritten

\* A step writes no line of a later day than its entry's
LEMMA WritesEnd ==
  ASSUME TypeOK, NEW p \in Processes, StepOf(p), Timely(p), NEW day \in Int, \A f \in 1..Len(files) : EndsBy(f, day),
         WriteLogEntry(p) /\ m_Config[p].EnableDailyRolling => EntryDay(p) <= day
  PROVE  \A f \in 1..Len(files') : EndsBy(f, day)'
  <1>1. CASE files' = files
    BY <1>1 DEF EndsBy, Lines
  <1>2. CASE Made(p)
    <2>1. PICK n \in Nat : n = Len(files) /\ Len(files') = n + 1
      BY <1>2, MadeIs
    <2>2. \A f \in 1..n : EndsBy(f, day)'
      BY <1>2, <2>1, MadeIs DEF EndsBy, Lines
    <2>3. EndsBy(n + 1, day)'
      <3>1. files'[n + 1].lines = <<>>
        BY <1>2, <2>1, MadeIs
      <3> QED BY <3>1 DEF EndsBy, Lines
    <2>4. \A f \in 1..n + 1 : f \in 1..n \/ f = n + 1
      BY <2>1
    <2> QED BY <2>1, <2>2, <2>3, <2>4
  <1>3. ASSUME NEW line \in Line, Wrote(p, line),
               line.isDaily => WriteLogEntry(p) /\ line.stamp = call[p].stamp /\ m_Config[p].EnableDailyRolling
        PROVE  \A f \in 1..Len(files') : EndsBy(f, day)'
    <2>1. PICK f \in 1..Len(files) : /\ \A g \in 1..Len(files) \ {f} : files'[g] = files[g]
                                     /\ Lines(f)' = Lines(f) \cup {line}
      BY <1>3 DEF Wrote
    <2>2. \A g \in 1..Len(files) \ {f} : EndsBy(g, day)'
      BY <2>1 DEF EndsBy, Lines
    <2>3. line.isDaily => Day(line.stamp, FirstZone) <= day
      <3>1. call[p].stamp \in Int
        BY CallTypes DEF TypeOK
      <3>2. Day(call[p].stamp, FirstZone) <= EntryDay(p) /\ Day(call[p].stamp, FirstZone) \in Int /\ EntryDay(p) \in Int
        <4>1. PICK stamp \in Int, zone \in Zones : stamp = call[p].stamp /\ zone = m_Config[p].TimestampZone
          BY <3>1 DEF Timely
        <4>2. stamp <= stamp
          OBVIOUS
        <4>3. Day(stamp, FirstZone) <= Day(stamp, zone) /\ Day(stamp, FirstZone) \in Int /\ Day(stamp, zone) \in Int
          BY <4>2, DayInFirstZone
        <4> QED BY <4>1, <4>3 DEF EntryDay
      <3> QED BY <1>3, <3>2
    <2>4. EndsBy(f, day)'
      BY <2>1, <2>3 DEF EndsBy
    <2>5. Len(files') = Len(files)
      BY <1>3 DEF Wrote
    <2> QED BY <2>2, <2>4, <2>5
  <1> QED BY <1>1, <1>2, <1>3, FilesChange

\* All files end by the day of the log, and the log by the label of its
\* daily backup
DayEnds(p) == m_LastLogDate[p] # NoDay => \A f \in 1..Len(files) : EndsBy(f, m_LastLogDate[p])
LabelEnds(p) ==
    pc[p] \in RotateSteps /\ call[p].reason = "daily" /\ Exists(Log(p)) => EndsBy(folder[Log(p)], call[p].label)
DayInv == IsAlone => \A p \in Processes : DayEnds(p) /\ LabelEnds(p)

LEMMA DayEndsStep ==
  ASSUME TypeOK, TimeInv, NEW p \in Processes, StepOf(p), EntryDated(p), DayEnds(p)
  PROVE  DayEnds(p)'
  <1>0. Timely(p) /\ m_LastLogDate[p] \in Int
    BY DEF TimeInv, TypeOK, StateOK
  <1>1. ASSUME NEW day \in Int, m_LastLogDate'[p] = day, \A f \in 1..Len(files) : EndsBy(f, day),
               WriteLogEntry(p) /\ m_Config[p].EnableDailyRolling => EntryDay(p) <= day
        PROVE  DayEnds(p)'
    BY <1>0, <1>1, WritesEnd DEF DayEnds, EndsBy
  <1>2. CASE m_LastLogDate'[p] = m_LastLogDate[p]
    <2>1. CASE m_LastLogDate[p] = NoDay
      BY <1>2, <2>1 DEF DayEnds
    <2>2. CASE m_LastLogDate[p] # NoDay
      <3>1. WriteLogEntry(p) => HeadsFor(p, "write")
        BY DEF WriteLogEntry, At, HeadsFor
      <3> QED BY <1>0, <1>1, <1>2, <2>2, <3>1 DEF DayEnds, EntryDated
    <2> QED BY <2>1, <2>2
  <1>3. ASSUME m_LastLogDate'[p] # m_LastLogDate[p], NEW zone \in Zones, m_LastLogDate'[p] = Day(clock, zone)
        PROVE  DayEnds(p)'
    <2>1. Day(clock, zone) \in Int
      BY FirstZoneIs, DayType DEF TypeOK, DiskOK
    <2>2. ~WriteLogEntry(p)
      BY <1>3 DEF WriteLogEntry, stateVars
    <2> QED BY <1>1, <1>3, <2>1, <2>2, EndsByWritten
  <1>4. CASE RolledOver(p) /\ m_LastLogDate'[p] = EntryDay(p)
    <2>1. HeadsFor(p, "rolled") /\ ~WriteLogEntry(p)
      BY <1>4 DEF RolledOver, WriteLogEntry, At, HeadsFor
    <2>2. EntryDay(p) \in Int /\ EntryDay(p) > m_LastLogDate[p] /\ m_LastLogDate[p] # NoDay
      BY <1>0, <2>1, EntryDayIsSet DEF EntryDated
    <2>3. \A f \in 1..Len(files) : EndsBy(f, EntryDay(p))
      BY <1>0, <2>2, EndsByMore DEF DayEnds
    <2> QED BY <1>1, <1>4, <2>1, <2>2, <2>3
  <1> QED BY <1>0, <1>2, <1>3, <1>4, DateGoes

\* A rotation ends elsewhere
LEMMA OutOfRotation ==
  ASSUME TypeOK, NEW p \in Processes, RotationFails(p) \/ (\E locals \in Call : Rotated(p, locals)) \/ (\E file : Renamed(p, file))
  PROVE  pc'[p] \notin RotateSteps
  <1>1. CallOK /\ call[p] \in Call /\ call[p].after \in After
    BY CallTypes DEF TypeOK
  <1>2. PICK c \in Call : pc'[p] = IF c.wasOpen THEN "open" ELSE c.after
    BY <1>1, FailsAt, RotatedAt DEF Renamed
  <1>3. c.after \in After
    BY DEF Call
  <1> QED BY <1>2, <1>3 DEF After, RotateSteps, RenameSteps

\* While it goes on it is about the same backup
LEMMA RotationGoesOn ==
  ASSUME TypeOK, NEW p \in Processes, StepOf(p), pc[p] \in RotateSteps, pc'[p] \in RotateSteps
  PROVE  /\ call'[p].reason = call[p].reason /\ call'[p].label = call[p].label
         /\ UNCHANGED <<files, m_Config>>
  <1>1. /\ BeginRotation(p) \/ FindFreeBackupPath(p) \/ RenameWithoutReplacing(p) \/ UnlinkLog(p) \/ ReplaceFile(p)
    BY StepsBegin DEF StepOf, RotationStep, FinishRotateLogFiles, CloseAfterLines, At, RotateSteps, RenameSteps
  <1>2. UNCHANGED <<files, m_Config>>
    BY <1>1 DEF BeginRotation, FindFreeBackupPath, RenameWithoutReplacing, UnlinkLog, ReplaceFile, InRotation, At
  <1>3. CASE BeginRotation(p)
    <2>1. PICK locals : locals = [call[p] EXCEPT !.wasOpen = IsOpen(p)]
      OBVIOUS
    <2>2. IsOpen(p) \in BOOLEAN /\ call[p] \in Call /\ CallOK
      BY CallTypes DEF IsOpen, TypeOK
    <2>3. locals \in Call /\ locals.reason = call[p].reason /\ locals.label = call[p].label
      BY <2>1, <2>2, WasOpenLocals
    <2>4. ~Rotated(p, locals)
      BY <2>3, OutOfRotation
    <2>5. Goto(p, "find", locals)
      BY <1>3, <2>1, <2>4 DEF BeginRotation
    <2>6. call'[p] = locals
      BY <2>2, <2>5, GotoAt
    <2> QED BY <1>2, <2>3, <2>6
  <1>4. CASE FindFreeBackupPath(p)
    BY <1>2, <1>4, FindGoes, OutOfRotation
  <1>5. CASE RenameWithoutReplacing(p)
    <2>1. ~MoveFile(p) /\ ~RotationFails(p)
      BY OutOfRotation DEF MoveFile
    <2> QED BY <1>2, <1>5, <2>1, RenameGoes, LinkGoes
  <1>6. ~UnlinkLog(p) /\ ~ReplaceFile(p)
    BY OutOfRotation DEF UnlinkLog, ReplaceFile
  <1> QED BY <1>1, <1>3, <1>4, <1>5, <1>6

\* Few steps begin a rotation
LEMMA RotateFrom ==
  ASSUME TypeOK, NEW p \in Processes, StepOf(p), pc[p] \notin RotateSteps, pc'[p] \in RotateSteps
  PROVE  PrepareWrite(p) \/ RolledOver(p) \/ CallStep(p)
  <1>0. CallOK /\ call[p] \in Call
    BY CallTypes DEF TypeOK
  <1>1. CASE OpenStep(p)
    <2>1. CASE EnsureReady(p)
      <3>1. pc'[p] \in {"prepare", "open", "idle"}
        BY <1>0, <2>1, GoesOn DEF EnsureReady
      <3> QED BY <3>1 DEF RotateSteps, RenameSteps
    <2>2. CASE OpenSucceeds(p) \/ WriteNewFileStartupLines(p)
      <3>1. Continue(p, "startup") \/ Continue(p, call[p].then)
        BY <2>2, Zenon DEF OpenSucceeds, WriteNewFileStartupLines
      <3>2. pc'[p] = "startup" \/ pc'[p] \in Then
        BY <1>0, <3>1, GoesOn, CallTypes
      <3> QED BY <3>2 DEF RotateSteps, RenameSteps, Then, After
    <2>3. CASE OpenFails(p)
      <3>1. PICK to : /\ to = CASE call[p].then \in {"prepare", "close"} -> "idle"
                                [] call[p].then = "initialized" -> "reconfigured"
                                [] OTHER -> call[p].then
                      /\ \E d : Goto(p, to, d)
        BY <2>3, Zenon DEF OpenFails
      <3>2. to \in Then \cup {"reconfigured"}
        BY <1>0, <3>1, CallTypes DEF Then, After
      <3>3. pc'[p] = to
        BY <1>0, <3>1, GotoAt
      <3> QED BY <3>2, <3>3 DEF RotateSteps, RenameSteps, Then, After
    <2> QED BY <1>1, <2>1, <2>2, <2>3 DEF OpenStep
  <1>2. CASE RotationStep(p)
    <2>1. FinishRotateLogFiles(p) \/ CloseAfterLines(p)
      BY <1>2 DEF RotationStep, BeginRotation, FindFreeBackupPath, RenameWithoutReplacing, UnlinkLog, ReplaceFile, InRotation,
                  At, RotateSteps, RenameSteps
    <2>2. pc'[p] \in {"open", "idle"}
      BY <1>0, <2>1, GoesOn DEF FinishRotateLogFiles, CloseAfterLines
    <2> QED BY <2>2 DEF RotateSteps, RenameSteps
  <1>3. CASE ConfigStep(p)
    <2>1. pc'[p] \in {"open", "idle", "reconfigured"}
      BY <1>0, <1>3, GoesOn DEF ConfigStep, InitializeOpens, FinishInitialize, FinishReconfigure
    <2> QED BY <2>1 DEF RotateSteps, RenameSteps
  <1>4. CASE WriteLogEntry(p)
    BY <1>0, <1>4, GoesOn DEF WriteLogEntry, RotateSteps, RenameSteps
  <1> QED BY <1>1, <1>2, <1>3, <1>4 DEF StepOf, WriteStep

\* A rotation that begins by a call: by hand, or of a log from an earlier day
LEMMA CallRotates ==
  ASSUME TypeOK, TimeInv, NEW p \in Processes, CallStep(p), pc'[p] \in RotateSteps, call'[p].reason = "daily"
  PROVE  LabelEnds(p)'
  <1>0. CallOK /\ pc[p] = "idle" /\ UNCHANGED diskVars
    BY StepsBegin DEF TypeOK
  <1>1. ASSUME NEW config \in Configs, NEW locals \in Call, locals.stamp = 0, BeginInitialize(p, config, locals)
        PROVE  LabelEnds(p)'
    <2>1. call'[p].label = DayOfEarlierLog(config) /\ DayOfEarlierLog(config) # NoDay
      BY <1>1, BeginInitializeGoes DEF RotateSteps, RenameSteps
    <2>2. config.TimestampZone \in Zones
      BY DEF Zones
    <2>3. EndsBy(folder[LogName(config.FilePath)], DayOfEarlierLog(config))
      BY <2>1, <2>2, EarlierEnds
    <2>4. Log(p)' = LogName(config.FilePath)
      BY <1>1 DEF BeginInitialize, Log, Path, TypeOK, StateOK
    <2>5. PICK log, day : log = LogName(config.FilePath) /\ day = DayOfEarlierLog(config)
      OBVIOUS
    <2>6. EndsBy(folder[log], day)'
      BY <1>0, <2>3, <2>5 DEF EndsBy, Lines, diskVars
    <2> QED BY <2>1, <2>4, <2>5, <2>6 DEF LabelEnds
  <1>2. ASSUME NEW config \in Configs, Initialize(p, config) PROVE LabelEnds(p)'
    <2>1. PICK locals : locals = [NoCall EXCEPT !.op = "Initialize"]
      OBVIOUS
    <2>2. locals \in Call /\ locals.stamp = 0
      BY <2>1, FirstStamps
    <2> QED BY <1>1, <1>2, <2>1, <2>2 DEF Initialize
  <1>3. ASSUME NEW config \in Configs, ReconfigurePath(p, config) PROVE LabelEnds(p)'
    <2>1. PICK b \in BOOLEAN : b = (config.FilePath # Path(p))
      OBVIOUS
    <2>2. PICK locals : locals = [NoCall EXCEPT !.op = "Reconfigure", !.isNewPath = b]
      OBVIOUS
    <2>3. locals \in Call /\ locals.stamp = 0
      BY <2>2, FirstStamps
    <2>4. BeginInitialize(p, config, locals)
      BY <1>3, <2>1, <2>2 DEF ReconfigurePath
    <2> QED BY <1>1, <2>3, <2>4
  <1>4. ~RotateLogFiles(p)
    <2>1. NoCall \in Call /\ clock \in Int
      BY NoCallType DEF TypeOK, DiskOK
    <2> QED BY <1>0, <2>1, RotateThenAt, StepsAre DEF RotateLogFiles
  <1>5. ~Close(p) /\ ~Open(p) /\ ~Write(p) /\ \A config \in Configs : ~ReconfigureFile(p, config)
    BY <1>0, GoesOn, WriteGoes DEF Close, Open, ReconfigureFile, RotateSteps, RenameSteps
  <1> QED BY <1>2, <1>3, <1>4, <1>5 DEF CallStep

LEMMA LabelEndsStep ==
  ASSUME TypeOK, TimeInv, NamesInv, KeptInv, IsAlone, NEW p \in Processes, StepOf(p), HasDay(p), DayEnds(p), LabelEnds(p)
  PROVE  LabelEnds(p)'
  <1> SUFFICES ASSUME pc'[p] \in RotateSteps, call'[p].reason = "daily", Exists(Log(p))'
               PROVE  LabelEnds(p)'
    BY DEF LabelEnds
  <1>1. CASE pc[p] \in RotateSteps
    <2>1. /\ call'[p].reason = call[p].reason /\ call'[p].label = call[p].label
          /\ UNCHANGED <<files, m_Config>>
      BY <1>1, RotationGoesOn
    <2>2. PICK log, day : log = Log(p) /\ day = call[p].label
      OBVIOUS
    <2>3. Log(p)' = log /\ log \in DOMAIN folder'
      BY <2>1, <2>2 DEF Log, Path, Exists
    <2>4. log \in DOMAIN folder /\ folder'[log] = folder[log]
      <3>1. CASE LinkMade(p)
        <4>1. call[p].backup # log
          BY <2>2, <3>1 DEF LinkMade, Exists
        <4> QED BY <2>2, <3>1, <4>1 DEF LinkMade, Linked, Exists
      <3>2. CASE Moved(p) \/ LinkGone(p)
        <4>1. pc'[p] \notin RenameSteps /\ ~BeginRotation(p)
          BY <3>2 DEF Moved, LinkGone, BeginRotation, InRotation, At, Naming
        <4>2. RenameWithoutReplacing(p) \/ UnlinkLog(p) \/ ReplaceFile(p)
          BY <3>2, StepsBegin DEF StepOf, RotationStep, FindFreeBackupPath, FinishRotateLogFiles, CloseAfterLines, BeginRotation, InRotation, At,
                              Moved, LinkGone, Naming
        <4>3. pc'[p] \notin RotateSteps
          BY <4>1, <4>2, OutOfRotation, RenameGoes DEF MoveFile, UnlinkLog, ReplaceFile, RenameSteps
        <4> QED BY <4>3
      <3>3. CASE folder' = folder
        BY <2>3, <3>3
      <3>4. ~OpenSucceeds(p)
        BY <1>1 DEF OpenSucceeds, At, RotateSteps, RenameSteps
      <3> QED BY <3>1, <3>2, <3>3, <3>4, FolderGoes
    <2>5. EndsBy(folder[log], day)
      BY <1>1, <2>1, <2>2, <2>4 DEF LabelEnds, Exists
    <2>6. EndsBy(folder[log], day)'
      BY <2>1, <2>4, <2>5 DEF EndsBy, Lines
    <2> QED BY <2>1, <2>2, <2>3, <2>6 DEF LabelEnds
  <1>2. CASE PrepareWrite(p)
    <2>1. pc[p] = "prepare" /\ UNCHANGED <<files, folder, m_Config>> /\ m_LastLogDate[p] # NoDay
      BY <1>2 DEF PrepareWrite, At, HasDay
    <2>2. PICK log, day : log = Log(p) /\ day = call'[p].label
      OBVIOUS
    <2>3. Log(p)' = log /\ log \in DOMAIN folder /\ folder[log] \in 1..Len(files)
      BY <2>1, <2>2 DEF Log, Path, Exists, TypeOK, DiskOK
    <2>4. CASE day = m_LastLogDate[p]
      <3>1. EndsBy(folder[log], day)
        BY <2>1, <2>3, <2>4 DEF DayEnds
      <3> QED BY <2>1, <2>2, <2>3, <3>1 DEF LabelEnds, EndsBy, Lines
    <2>5. CASE day = DayOfEarlierLog(m_Config[p]) /\ DayOfEarlierLog(m_Config[p]) # NoDay
      <3>1. EndsBy(folder[log], day)
        BY <2>2, <2>5, EarlierEnds DEF TimeInv, Timely, Log, Path
      <3> QED BY <2>1, <2>2, <2>3, <3>1 DEF LabelEnds, EndsBy, Lines
    <2> QED BY <1>2, <2>2, <2>4, <2>5, PrepareGoes
  <1>3. ~RolledOver(p)
    BY CheckSizeGoes DEF RolledOver, RotateSteps, RenameSteps
  <1>4. CASE CallStep(p)
    BY <1>4, CallRotates
  <1> QED BY <1>1, <1>2, <1>3, <1>4, RotateFrom

LEMMA DayStep ==
  ASSUME TypeOK, TypeOK', UnusedInv, UnusedInv', TimeInv, NamesInv, KeptInv, DayInv, [Next]_vars,
         \A p \in Processes : HasDay(p) /\ EntryDated(p)
  PROVE  DayInv'
  <1> SUFFICES ASSUME IsAlone', NEW q \in Processes PROVE DayEnds(q)' /\ LabelEnds(q)'
    BY DEF DayInv
  <1>0. IsAlone /\ DayEnds(q) /\ LabelEnds(q)
    BY AloneBefore DEF DayInv
  <1>1. CASE StepOfAnother
    <2>1. UNCHANGED <<files, m_Config, m_LastLogDate, pc, call>>
      BY <1>1, AnotherStays DEF stateVars
    <2>2. DayEnds(q)'
      BY <1>0, <2>1 DEF DayEnds, EndsBy, Lines
    <2>3. PICK log, day : log = Log(q) /\ day = call[q].label
      OBVIOUS
    <2>4. log \in DOMAIN folder' => log \in DOMAIN folder /\ folder'[log] = folder[log]
      BY <1>1, AnotherTakes DEF Unlinked
    <2>5. Log(q)' = log
      BY <2>1, <2>3 DEF Log, Path
    <2>6. LabelEnds(q)'
      BY <1>0, <2>1, <2>3, <2>4, <2>5 DEF LabelEnds, EndsBy, Lines, Exists
    <2> QED BY <2>2, <2>6
  <1>2. ASSUME NEW p \in Processes, StepOf(p) PROVE DayEnds(q)' /\ LabelEnds(q)'
    <2>1. CASE p = q
      BY <1>0, <1>2, <2>1, DayEndsStep, LabelEndsStep
    <2>2. CASE p # q
      <3>1. calls'[q] = 0
        BY <1>2, <2>2, AloneBefore
      <3>2. m_LastLogDate'[q] = NoDay /\ pc'[q] = "idle"
        BY <3>1 DEF UnusedInv
      <3> QED BY <3>2 DEF DayEnds, LabelEnds, RotateSteps, RenameSteps
    <2> QED BY <2>1, <2>2
  <1>3. ASSUME NEW p \in Processes, Crash(p) PROVE DayEnds(q)' /\ LabelEnds(q)'
    <2>1. UNCHANGED <<files, folder>>
      BY <1>3 DEF Crash, diskVars
    <2>2. CASE p = q
      <3>1. m_LastLogDate'[q] = NoDay /\ pc'[q] = "idle"
        BY <1>3, <2>2, GoesOn DEF Crash, TypeOK, StateOK
      <3> QED BY <3>1 DEF DayEnds, LabelEnds, RotateSteps, RenameSteps
    <2>3. CASE p # q
      <3>1. /\ pc'[q] = pc[q] /\ call'[q] = call[q] /\ m_Config'[q] = m_Config[q] /\ m_LastLogDate'[q] = m_LastLogDate[q]
        BY <1>3, <2>3, OthersStay DEF CallsStay, StreamsStay
      <3>2. Log(q)' = Log(q)
        BY <3>1 DEF Log, Path
      <3> QED BY <1>0, <2>1, <3>1, <3>2 DEF DayEnds, LabelEnds, EndsBy, Lines, Exists
    <2> QED BY <2>2, <2>3
  <1> QED BY <1>1, <1>2, <1>3, NextSplits

----------------------------------------------------------------------------
(* Daily backups *)

NameEnds(name) == name.reason = "daily" => EndsBy(folder[name], name.label)
DailyInv == IsWhole => \A name \in DOMAIN folder : NameEnds(name)

\* A write is to the log only, which is no backup
LEMMA WriteDaily ==
  ASSUME TypeOK, OneNameInv, IsWhole, DailyInv, NEW p \in Processes, OpensLog(p), \A q \in Processes : pc[q] # "unlink",
         NEW line \in Line, Wrote(p, line), folder' = folder, NEW name \in DOMAIN folder
  PROVE  NameEnds(name)'
  <1>1. PICK f \in 1..Len(files) : /\ f = m_FileStream[p] /\ \A g \in 1..Len(files) \ {f} : files'[g] = files[g]
    BY DEF Wrote
  <1>2. PICK log : log = Log(p) /\ log \in DOMAIN folder /\ folder[log] = f
    BY <1>1 DEF OpensLog, Wrote, Exists
  <1>3. folder[name] \in 1..Len(files)
    BY DEF TypeOK, DiskOK
  <1>4. name.reason = "daily" => name # log
    BY <1>2 DEF Log, LogName
  <1>5. OneName(folder)
    BY OneNameHere
  <1>6. name.reason = "daily" => files'[folder[name]] = files[folder[name]]
    BY <1>1, <1>2, <1>3, <1>4, <1>5 DEF OneName
  <1>7. NameEnds(name)
    BY DEF DailyInv
  <1> QED BY <1>6, <1>7 DEF NameEnds, EndsBy, Lines

\* A backup ends by its label
LEMMA BackupDaily ==
  ASSUME TypeOK, NamesInv, NEW p \in Processes, LabelEnds(p), Moved(p) \/ LinkMade(p), IsWhole, DailyInv, files' = files,
         NEW name \in DOMAIN folder'
  PROVE  NameEnds(name)'
  <1>1. PICK log, backup : log = Log(p) /\ backup = call[p].backup
    OBVIOUS
  <1>2. /\ log \in DOMAIN folder /\ backup \notin DOMAIN folder /\ pc[p] \in Naming
        /\ folder' = Linked(Unlinked(folder, log), backup, folder[log]) \/ folder' = Linked(folder, backup, folder[log])
    BY <1>1 DEF Moved, LinkMade, Exists
  <1>3. backup.reason = "daily" => EndsBy(folder[log], backup.label)
    <2>1. backup.reason = call[p].reason /\ backup.label = call[p].label
      BY <1>1, <1>2 DEF NamesInv, NamedAsAsked
    <2> QED BY <1>1, <1>2, <2>1 DEF LabelEnds, Exists, Naming, RotateSteps, RenameSteps
  <1>4. CASE name = backup
    <2>1. folder'[name] = folder[log]
      BY <1>2, <1>4 DEF Linked
    <2> QED BY <1>3, <1>4, <2>1 DEF NameEnds, EndsBy, Lines
  <1>5. CASE name # backup
    <2>1. name \in DOMAIN folder /\ folder'[name] = folder[name]
      BY <1>2, <1>5 DEF Linked, Unlinked
    <2>2. NameEnds(name)
      BY <2>1 DEF DailyInv
    <2> QED BY <2>1, <2>2 DEF NameEnds, EndsBy, Lines
  <1> QED BY <1>4, <1>5

LEMMA DailyStepOf ==
  ASSUME TypeOK, NamesInv, KeptInv, OneNameInv, IsWhole, DailyInv, NEW p \in Processes, StepOf(p), OpensLog(p), LabelEnds(p),
         \A q \in Processes \ {p} : pc[q] = "idle", NEW name \in DOMAIN folder'
  PROVE  NameEnds(name)'
  <1>0. IsAlone
    BY DEF IsWhole
  <1>1. CASE folder' = folder /\ files' = files
    BY <1>1 DEF DailyInv, NameEnds, EndsBy, Lines
  <1>2. CASE Made(p) /\ folder' = Linked(folder, Log(p), Len(files) + 1)
    <2>1. CASE name = Log(p)
      BY <2>1 DEF NameEnds, Log, LogName
    <2>2. CASE name # Log(p)
      <3>1. name \in DOMAIN folder /\ folder'[name] = folder[name]
        BY <1>2, <2>2 DEF Linked
      <3>2. files'[folder[name]] = files[folder[name]]
        BY <1>2, <3>1, MadeIs DEF TypeOK, DiskOK
      <3>3. NameEnds(name)
        BY <3>1 DEF DailyInv
      <3> QED BY <3>1, <3>2, <3>3 DEF NameEnds, EndsBy, Lines
    <2> QED BY <2>1, <2>2
  <1>3. ASSUME NEW line \in Line, Wrote(p, line), folder' = folder, pc[p] \notin RotateSteps PROVE NameEnds(name)'
    <2>1. \A q \in Processes : pc[q] # "unlink"
      BY <1>3 DEF RotateSteps, RenameSteps
    <2> QED BY <1>3, <2>1, WriteDaily
  <1>4. CASE (Moved(p) \/ LinkMade(p)) /\ files' = files
    BY <1>4, BackupDaily
  <1>5. CASE LinkGone(p) /\ files' = files
    <2>1. name \in DOMAIN folder /\ folder'[name] = folder[name]
      BY <1>5 DEF LinkGone, Unlinked
    <2>2. NameEnds(name)
      BY <2>1 DEF DailyInv
    <2> QED BY <1>5, <2>1, <2>2 DEF NameEnds, EndsBy, Lines
  <1>6. CASE OpenSucceeds(p)
    BY <1>1, <1>2, <1>6 DEF OpenSucceeds, OpenFound, OpenFile, Made
  <1> QED BY <1>0, <1>1, <1>3, <1>4, <1>5, <1>6, FilesChange, FolderGoes

LEMMA DailyStep ==
  ASSUME TypeOK, TypeOK', UnusedInv, NamesInv, KeptInv, OneNameInv, StreamInv, DayInv, DailyInv, [Next]_vars
  PROVE  DailyInv'
  <1> SUFFICES ASSUME IsWhole', NEW name \in DOMAIN folder' PROVE NameEnds(name)'
    BY DEF DailyInv
  <1>0. IsWhole /\ IsAlone' /\ IsAlone
    BY WholeBefore DEF IsWhole
  <1>1. CASE StepOfAnother
    <2>1. files' = files
      BY <1>1, AnotherStays
    <2>2. name \in DOMAIN folder /\ folder'[name] = folder[name]
      BY <1>1, AnotherTakes DEF Unlinked
    <2>3. NameEnds(name)
      BY <1>0, <2>2 DEF DailyInv
    <2> QED BY <2>1, <2>2, <2>3 DEF NameEnds, EndsBy, Lines
  <1>2. ASSUME NEW p \in Processes, StepOf(p) PROVE NameEnds(name)'
    <2>1. \A q \in Processes \ {p} : pc[q] = "idle"
      BY <1>0, <1>2, AloneBefore DEF UnusedInv
    <2> QED BY <1>0, <1>2, <2>1, DailyStepOf DEF StreamInv, DayInv
  <1>3. ASSUME NEW p \in Processes, Crash(p) PROVE NameEnds(name)'
    BY <1>0, <1>3 DEF Crash, diskVars, DailyInv, NameEnds, EndsBy, Lines
  <1> QED BY <1>1, <1>2, <1>3, NextSplits

HasDayInv == \A p \in Processes : HasDay(p)
EntryInv == \A p \in Processes : EntryDated(p)

LEMMA HasDayInvStep ==
  ASSUME TypeOK, TypeOK', TimeInv, HasDayInv, [Next]_vars
  PROVE  HasDayInv'
  <1> SUFFICES ASSUME NEW q \in Processes PROVE HasDay(q)'
    BY DEF HasDayInv
  <1>1. CASE StepOfAnother
    BY <1>1, AnotherStays DEF streamVars, stateVars, HasDayInv, HasDay, IsOpen
  <1>2. ASSUME NEW p \in Processes, StepOf(p) \/ Crash(p), p # q PROVE HasDay(q)'
    BY <1>2, OthersStay DEF CallsStay, StreamsStay, HasDayInv, HasDay, IsOpen
  <1>3. CASE StepOf(q)
    BY <1>3, HasDayStep DEF HasDayInv, TimeInv
  <1>4. CASE Crash(q)
    <2>1. pc'[q] = "idle" /\ ~IsOpen(q)'
      BY <1>4, GoesOn DEF Crash, CloseFile, IsOpen, TypeOK, StreamOK
    <2> QED BY <2>1 DEF HasDay
  <1> QED BY <1>1, <1>2, <1>3, <1>4, NextSplits

LEMMA EntryInvStep ==
  ASSUME TypeOK, TimeInv, HasDayInv, EntryInv, [Next]_vars
  PROVE  EntryInv'
  <1> SUFFICES ASSUME NEW q \in Processes PROVE EntryDated(q)'
    BY DEF EntryInv
  <1>1. CASE StepOfAnother
    BY <1>1, AnotherStays DEF stateVars, EntryInv, EntryDated, HeadsFor, EntryDay, Day
  <1>2. ASSUME NEW p \in Processes, StepOf(p) \/ Crash(p), p # q PROVE EntryDated(q)'
    BY <1>2, OthersStay DEF CallsStay, StreamsStay, EntryInv, EntryDated, HeadsFor, EntryDay, Day
  <1>3. CASE StepOf(q)
    BY <1>3, EntryDatedStep DEF HasDayInv, TimeInv, EntryInv
  <1>4. CASE Crash(q)
    <2>1. pc'[q] = "idle"
      BY <1>4, GoesOn DEF Crash, TypeOK
    <2> QED BY <2>1 DEF EntryDated, HeadsFor, RotateSteps, RenameSteps
  <1> QED BY <1>1, <1>2, <1>3, <1>4, NextSplits

(***************************************************************************)
(* An entry of a later day is never in a daily backup, when one process    *)
(* writes the log, whatever the zones, reconfigurations, delays, failures  *)
(* and crashes, but for a crash that leaves the log a second name          *)
(* (PrepareWriteUnlocked(), "Name the backup for the day its content is    *)
(* from").                                                                 *)
(***************************************************************************)
THEOREM DailyBackupsEnd == Spec => []DailyBackupsEndInTime
  <1>1. Init => UnusedInv /\ NamesInv /\ KeptInv /\ TimeInv /\ HasDayInv /\ EntryInv /\ LinksInv /\ StreamInv /\ OneNameInv
                /\ DayInv /\ DailyInv
    <2> SUFFICES ASSUME Init PROVE UnusedInv /\ NamesInv /\ KeptInv /\ TimeInv /\ HasDayInv /\ EntryInv /\ LinksInv
                                   /\ StreamInv /\ OneNameInv /\ DayInv /\ DailyInv
      OBVIOUS
    <2>0. /\ files = <<>> /\ DOMAIN folder = {} /\ clock = StartTime
          /\ \A p \in Processes : /\ pc[p] = "idle" /\ ~IsOpen(p) /\ call[p] = NoCall /\ m_Config[p] = DefaultConfig
                                  /\ m_LastLogDate[p] = NoDay
      BY DEF Init, IsOpen
    <2>1. UnusedInv /\ NamesInv
      BY DEF Init, UnusedInv, NamesInv, NamedAsAsked, Naming, IsOpen, NoJob
    <2>2. KeptInv
      BY <2>0 DEF KeptInv, RenameKept
    <2>3. TimeInv
      <3>1. NoCall.stamp = 0 /\ DefaultConfig.TimestampZone \in Zones /\ StartTime \in Nat
        BY TimeAssumption DEF NoCall, Zones
      <3> QED BY <2>0, <3>1 DEF TimeInv, Timely
    <2>4. HasDayInv /\ EntryInv /\ LinksInv
      BY <2>0 DEF HasDayInv, HasDay, EntryInv, EntryDated, HeadsFor, LinksInv, RotateSteps, RenameSteps
    <2>5. StreamInv /\ OneNameInv /\ DayInv /\ DailyInv
      BY <2>0 DEF StreamInv, OpensLog, OneNameInv, DayInv, DayEnds, LabelEnds, DailyInv, RotateSteps, RenameSteps
    <2> QED BY <2>1, <2>2, <2>3, <2>4, <2>5
  <1>2. TypeOK /\ TypeOK' /\ UnusedInv /\ UnusedInv' /\ NamesInv /\ KeptInv /\ TimeInv /\ HasDayInv /\ EntryInv /\ LinksInv
          /\ StreamInv /\ OneNameInv /\ DayInv /\ DailyInv /\ [Next]_vars
          => LinksInv' /\ StreamInv' /\ OneNameInv' /\ DayInv' /\ DailyInv' /\ HasDayInv' /\ EntryInv'
    BY LinksStep, StreamStep, OneNameStep, DayStep, DailyStep, HasDayInvStep, EntryInvStep DEF HasDayInv, EntryInv
  <1>3. DailyInv => DailyBackupsEndInTime
    <2> SUFFICES ASSUME DailyInv, IsWhole, NEW name \in DOMAIN folder, name.reason = "daily"
                 PROVE  EndInTime({line \in Lines(folder[name]) : line.isDaily}, name.label)
      BY DEF DailyBackupsEndInTime, IsWhole
    <2>1. PICK config \in Configs \cup {DefaultConfig} : config.TimestampZone = FirstZone
      BY FirstZoneIs DEF Zones
    <2>2. \A line \in Lines(folder[name]) : line.isDaily => Day(line.stamp, config.TimestampZone) <= name.label
      BY <2>1 DEF DailyInv, NameEnds, EndsBy
    <2> QED BY <2>1, <2>2 DEF EndInTime
  <1> QED BY <1>1, <1>2, <1>3, TypeCorrect, UnusedStep, NamesStep, KeptStep, TimeStep, PTL DEF Spec

----------------------------------------------------------------------------
(* The continuation lines: each backup is named once *)

\* The step that puts a rename's file in the continuation line of the next
Leaves(p, file) == Exists(Log(p)) /\ file = folder[Log(p)] /\ Log(p) \notin DOMAIN folder' /\ (Moved(p) \/ LinkGone(p))

\* A process has a continuation line of its own
LEMMA PendingOfOthers ==
  ASSUME TypeOK, NEW p \in Processes, StepOf(p)
  PROVE  \A q \in Processes \ {p} : m_PendingContinuationLine'[q] = m_PendingContinuationLine[q]
  <1>0. m_PendingContinuationLine \in [Processes -> Int]
    BY DEF TypeOK, StateOK
  <1>1. CASE CallStep(p) \/ OpenStep(p) \/ WriteStep(p) \/ ConfigStep(p)
    BY <1>0, <1>1
       DEF CallStep, Close, Open, Write, RotateLogFiles, Initialize, ReconfigureFile, ReconfigurePath, OpenStep, EnsureReady,
           OpenSucceeds, OpenFails, WriteNewFileStartupLines, TakesPendingLine, WriteStep, PrepareWrite, RolledOver,
           WriteLogEntry, ConfigStep, InitializeOpens, FinishInitialize, FinishReconfigure, stateVars
  <1>2. CASE RotationStep(p)
    BY <1>0, <1>2
       DEF RotationStep, BeginRotation, FindFreeBackupPath, RenameWithoutReplacing, MoveFile, LinkFile, CheckName, NameIsTaken,
           UnlinkLog, ReplaceFile, FinishRotateLogFiles, CloseAfterLines, Renamed, RotationFails, stateVars
  <1> QED BY <1>1, <1>2 DEF StepOf

\* It is the file that a rename leaves, until it is written or replaced
LEMMA PendingGoes ==
  ASSUME TypeOK, KeptInv, IsAlone \/ env.fs = "move", NEW p \in Processes, StepOf(p)
  PROVE  \/ m_PendingContinuationLine'[p] \in {m_PendingContinuationLine[p], Nothing, OldPath}
         \/ \E file \in Nat : m_PendingContinuationLine'[p] = file /\ Leaves(p, file)
  <1>0. m_PendingContinuationLine \in [Processes -> Int]
    BY DEF TypeOK, StateOK
  <1>1. ASSUME NEW file, Renamed(p, file)
        PROVE  m_PendingContinuationLine'[p] \in {m_PendingContinuationLine[p], file}
    BY <1>0, <1>1 DEF Renamed
  <1>2. CASE CallStep(p) \/ OpenStep(p) \/ WriteStep(p) \/ ConfigStep(p)
    BY <1>0, <1>2
       DEF CallStep, Close, Open, Write, RotateLogFiles, Initialize, ReconfigureFile, ReconfigurePath, OpenStep, EnsureReady,
           OpenSucceeds, OpenFails, WriteNewFileStartupLines, TakesPendingLine, WriteStep, PrepareWrite, RolledOver,
           WriteLogEntry, ConfigStep, InitializeOpens, FinishInitialize, FinishReconfigure, stateVars
  <1>3. CASE RenameWithoutReplacing(p)
    <2>1. CASE MoveFile(p)
      <3>1. pc'[p] \notin RenameSteps
        BY <2>1, AfterRename DEF MoveFile
      <3>2. Moved(p) /\ folder[Log(p)] \in Nat
        BY <1>3, <2>1, <3>1, FolderType
           DEF MoveFile, CanRename, IsNameFree, Moved, Naming, RenameWithoutReplacing, InRotation, At, Exists
      <3>3. Log(p) \notin DOMAIN folder'
        BY <3>2 DEF Moved, Exists, Linked, Unlinked
      <3> QED BY <1>1, <2>1, <3>2, <3>3 DEF MoveFile, CanRename, Leaves
    <2> QED BY <1>3, <2>1 DEF RenameWithoutReplacing, LinkFile, CheckName, NameIsTaken, RotationFails
  <1>4. CASE UnlinkLog(p)
    <2>1. pc[p] = "unlink" /\ IsAlone
      BY <1>4 DEF UnlinkLog, InRotation, At
    <2>2. CASE Renamed(p, call[p].linked) /\ Exists(Log(p)) /\ RemovesOldName(p)
      <3>1. LinkGone(p) /\ Log(p) \notin DOMAIN folder'
        BY <2>1, <2>2, AfterRename DEF LinkGone, RemovesOldName, Unlinked
      <3>2. call[p].linked = folder[Log(p)] /\ folder[Log(p)] \in Nat
        BY <2>1, <2>2, FolderType DEF KeptInv, RenameKept, LinkedTwice, Exists
      <3> QED BY <1>1, <2>2, <3>1, <3>2 DEF Leaves
    <2> QED BY <1>4, <2>2 DEF UnlinkLog, RotationFails
  <1>5. CASE ReplaceFile(p)
    <2>1. ~Exists(call[p].backup) /\ pc[p] = "replace" /\ IsAlone
      BY <1>5 DEF ReplaceFile, InRotation, At, KeptInv, RenameKept
    <2>2. CASE Renamed(p, folder[Log(p)]) /\ Exists(Log(p))
               /\ folder' = Linked(Unlinked(folder, Log(p)), call[p].backup, folder[Log(p)])
      <3>1. pc'[p] \notin RenameSteps
        BY <2>2, AfterRename
      <3>2. Moved(p) /\ folder[Log(p)] \in Nat
        BY <2>1, <2>2, <3>1, FolderType DEF Moved, Naming, Exists
      <3>3. Log(p) \notin DOMAIN folder'
        BY <3>2 DEF Moved, Exists, Linked, Unlinked
      <3> QED BY <1>1, <2>2, <3>2, <3>3 DEF Leaves
    <2> QED BY <1>5, <2>2 DEF ReplaceFile, RotationFails
  <1>6. CASE BeginRotation(p) \/ FindFreeBackupPath(p) \/ FinishRotateLogFiles(p) \/ CloseAfterLines(p)
    BY <1>6 DEF BeginRotation, FindFreeBackupPath, FinishRotateLogFiles, CloseAfterLines, RotationFails, stateVars
  <1> QED BY <1>2, <1>3, <1>4, <1>5, <1>6 DEF StepOf, RotationStep

\* The file is the log of some path
IsLogs(f) == \E name \in DOMAIN folder : ~IsBackup(name) /\ folder[name] = f
\* A continuation line names the file
Told(f) == \E g \in 1..Len(files) : \E i \in 1..Len(files[g].lines) : files[g].lines[i].from = f

OneLogName == \A a, b \in DOMAIN folder : ~IsBackup(a) /\ ~IsBackup(b) /\ folder[a] = folder[b] => a = b
\* A file that was renamed is no log again
IsRenamed(f) == f <= Len(files) /\ ~IsLogs(f)
ToldRenamed == \A f \in Nat \ {0} : Told(f) => IsRenamed(f)
PendingApart(p) ==
    LET f == m_PendingContinuationLine[p]
    IN  f > 0 => IsRenamed(f) /\ ~Told(f) /\ \A q \in Processes \ {p} : m_PendingContinuationLine[q] # f
ToldOnce == \A f, g \in 1..Len(files) : \A i \in 1..Len(files[f].lines), j \in 1..Len(files[g].lines) :
    files[f].lines[i].from = files[g].lines[j].from /\ files[f].lines[i].from > 0 => f = g /\ i = j
ContinuedInv ==
    IsAlone \/ env.fs = "move" => OneLogName /\ ToldRenamed /\ (\A p \in Processes : PendingApart(p)) /\ ToldOnce

\* A file that is renamed is no log again, and what a rename leaves was one
LEMMA LogsGo ==
  ASSUME TypeOK, NamesInv, KeptInv, IsAlone \/ env.fs = "move", OneLogName, NEW p \in Processes, StepOf(p)
  PROVE  /\ OneLogName' /\ \A f \in 1..Len(files) : IsLogs(f)' => IsLogs(f)
         /\ \A file : Leaves(p, file) => file \in 1..Len(files) /\ IsLogs(file) /\ ~IsLogs(file)'
  <1>0. /\ ~IsBackup(Log(p)) /\ (pc[p] \in Naming => IsBackup(call[p].backup)) /\ "unlink" \in Naming
        /\ \A name \in DOMAIN folder : folder[name] \in 1..Len(files)
    BY LogIsNoBackup, BackupIsBackup, FolderType DEF Log, NamesInv, Naming
  <1>1. CASE folder' = folder
    BY <1>0, <1>1 DEF OneLogName, IsLogs, Leaves, Exists
  <1>2. CASE folder' = Linked(folder, Log(p), Len(files) + 1) /\ ~Exists(Log(p))
    <2>1. Len(files) \in Nat /\ Len(files) + 1 \notin 1..Len(files)
      BY FolderType
    <2>2. PICK log, n : log = Log(p) /\ n = Len(files) + 1
      OBVIOUS
    <2>3. /\ log \notin DOMAIN folder /\ DOMAIN folder' = DOMAIN folder \cup {log} /\ folder'[log] = n
          /\ \A name \in DOMAIN folder : folder'[name] = folder[name] /\ folder[name] # n
      BY <1>0, <1>2, <2>1, <2>2 DEF Linked, Exists
    <2>4. OneLogName'
      BY <2>3 DEF OneLogName
    <2>5. \A f \in 1..Len(files) : IsLogs(f)' => IsLogs(f)
      BY <2>1, <2>2, <2>3 DEF IsLogs
    <2> QED BY <1>2, <2>4, <2>5 DEF Leaves
  <1>3. CASE (Moved(p) \/ LinkMade(p) \/ LinkGone(p)) /\ files' = files
    <2>1. PICK log, backup : log = Log(p) /\ backup = call[p].backup
      OBVIOUS
    <2>2. /\ ~IsBackup(log) /\ IsBackup(backup)
          /\ \/ log \in DOMAIN folder /\ folder' = Linked(Unlinked(folder, log), backup, folder[log])
             \/ log \in DOMAIN folder /\ folder' = Linked(folder, backup, folder[log])
             \/ folder' = Unlinked(folder, log) \/ folder' = Unlinked(folder, backup)
      BY <1>0, <1>3, <2>1 DEF Moved, LinkMade, LinkGone, Exists
    <2>3. \A name \in DOMAIN folder' : ~IsBackup(name) => name \in DOMAIN folder /\ folder'[name] = folder[name]
      BY <2>2 DEF Linked, Unlinked
    <2>4. OneLogName' /\ \A f : IsLogs(f)' => IsLogs(f)
      BY <2>3 DEF OneLogName, IsLogs
    <2>5. ASSUME NEW file, Leaves(p, file) PROVE file \in 1..Len(files) /\ IsLogs(file) /\ ~IsLogs(file)'
      <3>1. log \in DOMAIN folder /\ file = folder[log] /\ log \notin DOMAIN folder'
        BY <2>1, <2>5 DEF Leaves, Exists
      <3> QED BY <1>0, <2>2, <2>3, <3>1 DEF OneLogName, IsLogs
    <2> QED BY <2>4, <2>5
  <1> QED BY <1>1, <1>2, <1>3, FolderGoes

\* What a step tells is the continuation line that waited
LEMMA LinesGo ==
  ASSUME TypeOK, NEW p \in Processes, StepOf(p)
  PROVE  /\ \A f : Told(f) => Told(f)'
         /\ \A f \in Nat \ {0} : Told(f)' => Told(f) \/ (f = m_PendingContinuationLine[p] /\ m_PendingContinuationLine'[p] = Nothing)
         /\ ToldOnce /\ (m_PendingContinuationLine[p] > 0 => ~Told(m_PendingContinuationLine[p])) => ToldOnce'
  <1>0. files \in Seq(File) /\ Len(files) \in Nat /\ \A f \in 1..Len(files) : files[f].lines \in Seq(Line)
    BY FileType DEF TypeOK, DiskOK
  <1>1. CASE files' = files
    BY <1>1 DEF Told, ToldOnce
  <1>2. CASE Made(p)
    <2>1. PICK n \in Nat : n = Len(files) /\ Len(files') = n + 1
      BY <1>2, MadeIs
    <2>2. (\A f \in 1..n : files'[f] = files[f]) /\ files'[n + 1].lines = <<>>
      BY <1>2, <2>1, MadeIs
    <2>3. \A f \in 1..Len(files') : \A i \in 1..Len(files'[f].lines) : f \in 1..n
      BY <2>1, <2>2
    <2>4. \A f \in 1..n : f \in 1..n + 1
      BY <2>1
    <2>5. ASSUME NEW f PROVE Told(f)' <=> Told(f)
      BY <2>1, <2>2, <2>3, <2>4 DEF Told
    <2>6. ASSUME ToldOnce PROVE ToldOnce'
      BY <2>1, <2>2, <2>3, <2>6 DEF ToldOnce
    <2> QED BY <2>5, <2>6
  <1>3. ASSUME NEW line \in Line, Wrote(p, line),
               line.from > 0 => WriteNewFileStartupLines(p) /\ line.from = m_PendingContinuationLine[p]
        PROVE  /\ \A f : Told(f) => Told(f)'
               /\ \A f \in Nat \ {0} : Told(f)' => Told(f) \/ (f = m_PendingContinuationLine[p] /\ m_PendingContinuationLine'[p] = Nothing)
               /\ ToldOnce /\ (m_PendingContinuationLine[p] > 0 => ~Told(m_PendingContinuationLine[p])) => ToldOnce'
    <2>1. PICK n \in Nat : n = Len(files) /\ Len(files') = n
      BY <1>0, <1>3 DEF Wrote
    <2>2. PICK f \in 1..n : /\ \A g \in 1..n \ {f} : files'[g] = files[g]
                            /\ files'[f].lines = Append(files[f].lines, line)
      BY <1>3, <2>1 DEF Wrote
    <2>3. PICK lines \in Seq(Line) : lines = files[f].lines
      BY <1>0, <2>1
    <2>4. PICK k \in Nat : k = Len(lines)
      BY <2>3
    <2>5. /\ Len(files'[f].lines) = k + 1 /\ files'[f].lines[k + 1] = line
          /\ \A i \in 1..k : files'[f].lines[i] = files[f].lines[i]
      BY <2>2, <2>3, <2>4
    <2>6. \A i \in 1..k + 1 : i \in 1..k \/ i = k + 1
      BY <2>4
    <2>7. \A i \in 1..k : i \in 1..k + 1
      BY <2>4
    <2>8. k + 1 \in 1..k + 1 /\ k + 1 \notin 1..k
      BY <2>4
    <2>9. \A g \in 1..n : \A i \in 1..Len(files'[g].lines) :
             \/ i \in 1..Len(files[g].lines) /\ files'[g].lines[i] = files[g].lines[i]
             \/ g = f /\ i = k + 1 /\ files'[g].lines[i] = line
      BY <2>2, <2>3, <2>4, <2>5, <2>6
    <2>10. \A g \in 1..n : \A i \in 1..Len(files[g].lines) :
              i \in 1..Len(files'[g].lines) /\ files'[g].lines[i] = files[g].lines[i]
      BY <2>2, <2>3, <2>4, <2>5, <2>7
    <2>11. \A b : Told(b) => Told(b)'
      BY <2>1, <2>10 DEF Told
    <2>12. \A b \in Nat \ {0} : Told(b)' => Told(b) \/ b = line.from
      BY <2>1, <2>9 DEF Told
    <2>13. line.from > 0 => m_PendingContinuationLine'[p] = Nothing
      BY <1>3 DEF WriteNewFileStartupLines, TakesPendingLine, TypeOK, StateOK
    <2>14. \A b \in Nat \ {0} : b > 0
      OBVIOUS
    <2>15. ASSUME ToldOnce, m_PendingContinuationLine[p] > 0 => ~Told(m_PendingContinuationLine[p]) PROVE ToldOnce'
      <3>1. line.from > 0 => \A g \in 1..n : \A i \in 1..Len(files[g].lines) : files[g].lines[i].from # line.from
        BY <1>3, <2>1, <2>15 DEF Told
      <3>2. SUFFICES ASSUME NEW g \in 1..n, NEW h \in 1..n, NEW i \in 1..Len(files'[g].lines), NEW j \in 1..Len(files'[h].lines),
                            files'[g].lines[i].from = files'[h].lines[j].from, files'[g].lines[i].from > 0
                     PROVE  g = h /\ i = j
        BY <2>1 DEF ToldOnce
      <3>3. CASE i \in 1..Len(files[g].lines) /\ files'[g].lines[i] = files[g].lines[i]
        <4>1. CASE j \in 1..Len(files[h].lines) /\ files'[h].lines[j] = files[h].lines[j]
          <5>1. files[g].lines[i].from = files[h].lines[j].from /\ files[g].lines[i].from > 0
            BY <3>2, <3>3, <4>1
          <5>2. g \in 1..Len(files) /\ h \in 1..Len(files)
            BY <2>1, <3>2
          <5> QED BY <2>15, <3>3, <4>1, <5>1, <5>2 DEF ToldOnce
        <4>2. CASE files'[h].lines[j] = line
          BY <3>1, <3>2, <3>3, <4>2
        <4> QED BY <2>9, <4>1, <4>2
      <3>4. CASE g = f /\ i = k + 1 /\ files'[g].lines[i] = line
        <4>1. CASE j \in 1..Len(files[h].lines) /\ files'[h].lines[j] = files[h].lines[j]
          BY <3>1, <3>2, <3>4, <4>1
        <4>2. CASE h = f /\ j = k + 1
          BY <3>4, <4>2
        <4> QED BY <2>9, <4>1, <4>2
      <3> QED BY <2>9, <3>3, <3>4
    <2> QED BY <1>3, <2>11, <2>12, <2>13, <2>14, <2>15
  <1> QED BY <1>1, <1>2, <1>3, FilesChange

\* What a step tells was told nowhere, and what a rename leaves is told nowhere yet
LEMMA ContinuedStepOf ==
  ASSUME TypeOK, TypeOK', NamesInv, KeptInv, IsAlone \/ env.fs = "move", NEW p \in Processes, StepOf(p),
         OneLogName, ToldRenamed, \A q \in Processes : PendingApart(q), ToldOnce
  PROVE  OneLogName' /\ ToldRenamed' /\ (\A q \in Processes : PendingApart(q)') /\ ToldOnce'
  <1>1. /\ OneLogName' /\ \A f \in 1..Len(files) : IsLogs(f)' => IsLogs(f)
        /\ \A file : Leaves(p, file) => file \in 1..Len(files) /\ IsLogs(file) /\ ~IsLogs(file)'
    BY LogsGo
  <1>2. ToldOnce'
    BY LinesGo DEF PendingApart
  <1>3. Len(files) \in Nat /\ Len(files') \in Nat /\ Len(files') >= Len(files)
    BY FilesStay DEF TypeOK, DiskOK
  <1>4. \A q \in Processes : m_PendingContinuationLine[q] \in Int /\ m_PendingContinuationLine'[q] \in Int
    BY DEF TypeOK, StateOK
  <1>5. \A q \in Processes \ {p} : m_PendingContinuationLine'[q] = m_PendingContinuationLine[q]
    BY PendingOfOthers
  <1>6. ASSUME NEW f \in Nat \ {0}, IsRenamed(f) PROVE IsRenamed(f)'
    BY <1>1, <1>3, <1>6 DEF IsRenamed
  <1>7. ToldRenamed'
    <2> SUFFICES ASSUME NEW f \in Nat \ {0}, Told(f)' PROVE IsRenamed(f)'
      BY DEF ToldRenamed
    <2>1. Told(f) \/ f = m_PendingContinuationLine[p]
      BY LinesGo
    <2>2. IsRenamed(f)
      BY <2>1 DEF ToldRenamed, PendingApart
    <2> QED BY <1>6, <2>2
  \* What a rename leaves is named nowhere yet
  <1>8. ASSUME NEW file, Leaves(p, file)
        PROVE  /\ file \in 1..Len(files) /\ IsRenamed(file)' /\ ~Told(file)
               /\ \A q \in Processes : m_PendingContinuationLine[q] # file
    <2>1. file \in 1..Len(files) /\ ~IsRenamed(file) /\ IsRenamed(file)' /\ file \in Nat \ {0} /\ file > 0
      BY <1>1, <1>3, <1>8 DEF IsRenamed
    <2> QED BY <2>1 DEF ToldRenamed, PendingApart
  <1>9. ASSUME NEW q \in Processes PROVE PendingApart(q)'
    <2> SUFFICES ASSUME NEW f, f = m_PendingContinuationLine'[q], f > 0
                 PROVE  IsRenamed(f)' /\ ~Told(f)' /\ \A r \in Processes \ {q} : m_PendingContinuationLine'[r] # f
      BY DEF PendingApart
    <2>0. f \in Nat \ {0} /\ f # Nothing /\ f # OldPath
      BY <1>4 DEF Nothing, OldPath
    <2>1. CASE m_PendingContinuationLine[q] = f
      <3>1. IsRenamed(f) /\ ~Told(f) /\ \A r \in Processes \ {q} : m_PendingContinuationLine[r] # f
        BY <2>1 DEF PendingApart
      <3>2. ~Told(f)'
        BY <2>0, <2>1, <3>1, LinesGo
      <3>3. ASSUME NEW r \in Processes \ {q} PROVE m_PendingContinuationLine'[r] # f
        <4>1. CASE r # p
          BY <1>5, <3>1, <4>1
        <4>2. CASE r = p
          BY <1>8, <2>0, <2>1, <3>1, <4>2, PendingGoes
        <4> QED BY <4>1, <4>2
      <3> QED BY <1>6, <2>0, <3>1, <3>2, <3>3
    <2>2. CASE m_PendingContinuationLine[q] # f
      <3>1. q = p
        BY <1>5, <2>2
      <3>2. Leaves(p, f)
        BY <2>0, <2>2, <3>1, PendingGoes
      <3>3. ~Told(f)'
        BY <1>8, <2>0, <3>2, LinesGo
      <3> QED BY <1>5, <1>8, <3>1, <3>2, <3>3
    <2> QED BY <2>1, <2>2
  <1> QED BY <1>1, <1>2, <1>7, <1>9

\* Each backup is named once, whatever other processes, cleaners and crashes do
LEMMA ContinuedStep ==
  ASSUME TypeOK, TypeOK', UnusedInv, NamesInv, KeptInv, ContinuedInv, [Next]_vars
  PROVE  ContinuedInv'
  <1> SUFFICES ASSUME (IsAlone \/ env.fs = "move")'
               PROVE  OneLogName' /\ ToldRenamed' /\ (\A p \in Processes : PendingApart(p)') /\ ToldOnce'
    BY DEF ContinuedInv
  <1>0. env' = env
    <2>1. CASE \E p \in Processes : StepOf(p)
      BY <2>1, StepsCount
    <2>2. CASE (\E p \in Processes : Crash(p)) \/ StepOfAnother
      BY <2>2, AnotherStays DEF Crash, diskVars
    <2> QED BY <2>1, <2>2, NextSplits
  <1>1. IsAlone \/ env.fs = "move"
    BY <1>0, AloneBefore
  <1>2. OneLogName /\ ToldRenamed /\ (\A p \in Processes : PendingApart(p)) /\ ToldOnce
    BY <1>1 DEF ContinuedInv
  <1>3. CASE StepOfAnother
    <2>1. files' = files
      BY <1>3, AnotherStays
    <2>2. m_PendingContinuationLine' = m_PendingContinuationLine
      BY <1>3 DEF StepOfAnother, CleanupStep, TakeDeferredWork, ListBackups, DeleteBackup, InJob, Tick, vars, stateVars
    <2>3. \A name \in DOMAIN folder' : name \in DOMAIN folder /\ folder'[name] = folder[name]
      BY <1>3, AnotherTakes DEF Unlinked
    <2>4. OneLogName' /\ (\A f : IsLogs(f)' => IsLogs(f)) /\ (\A f : IsRenamed(f) => IsRenamed(f)')
      BY <1>2, <2>1, <2>3 DEF OneLogName, IsLogs, IsRenamed
    <2>5. (\A f : Told(f)' <=> Told(f)) /\ ToldOnce'
      BY <1>2, <2>1 DEF Told, ToldOnce
    <2> QED BY <1>2, <2>2, <2>4, <2>5 DEF ToldRenamed, PendingApart
  <1>4. ASSUME NEW p \in Processes, StepOf(p)
        PROVE  OneLogName' /\ ToldRenamed' /\ (\A q \in Processes : PendingApart(q)') /\ ToldOnce'
    BY <1>1, <1>2, <1>4, ContinuedStepOf
  <1>5. ASSUME NEW p \in Processes, Crash(p)
        PROVE  OneLogName' /\ ToldRenamed' /\ (\A q \in Processes : PendingApart(q)') /\ ToldOnce'
    <2>1. UNCHANGED <<folder, files>> /\ m_PendingContinuationLine' = [m_PendingContinuationLine EXCEPT ![p] = Nothing]
      BY <1>5 DEF Crash, diskVars
    <2>2. \A q \in Processes : m_PendingContinuationLine'[q] \in {m_PendingContinuationLine[q], Nothing} /\ ~(Nothing > 0)
      BY <2>1 DEF TypeOK, StateOK, Nothing
    <2>3. OneLogName' /\ ToldOnce' /\ (\A f : Told(f)' <=> Told(f)) /\ \A f : IsRenamed(f)' <=> IsRenamed(f)
      BY <1>2, <2>1 DEF OneLogName, ToldOnce, Told, IsRenamed, IsLogs
    <2> QED BY <1>2, <2>2, <2>3 DEF ToldRenamed, PendingApart
  <1> QED BY <1>3, <1>4, <1>5, NextSplits

----------------------------------------------------------------------------
(* The steps of Initialize() and Reconfigure() *)

SetUpSteps == {"initialize", "initialized", "reconfigured"}
\* What the locals of a call keep
Keeps(old, new) == new.op = old.op /\ new.isNewPath = old.isNewPath /\ new.after = old.after
\* Whether the log is opened once a rotation ended
OpensAgain(p) == IF pc[p] = "rotate" THEN IsOpen(p) ELSE call[p].wasOpen
\* The next step of a rotation, its end with or without the open
RotationEnds(p) ==
    \/ pc'[p] = "open" /\ OpensAgain(p) /\ Keeps(call[p], call'[p]) /\ call'[p].then = call[p].after
    \/ ~OpensAgain(p) /\ pc'[p] = call[p].after /\ (IF pc'[p] = "idle" THEN call'[p] = NoCall ELSE Keeps(call[p], call'[p]))

\* What the ways from step to step keep of a call
LEMMA OpenThenKeeps ==
  ASSUME CallOK, NEW p \in Processes, NEW step \in Then, OpenThen(p, step)
  PROVE  pc'[p] = "open" /\ call'[p].then = step /\ Keeps(call[p], call'[p])
  <1>1. PICK d : d = [call[p] EXCEPT !.then = step]
    OBVIOUS
  <1>2. d.then = step /\ Keeps(call[p], d)
    BY <1>1, CallTypes DEF Call, Keeps
  <1>3. Goto(p, "open", d)
    BY <1>1 DEF OpenThen
  <1> QED BY <1>2, <1>3, GotoAt

LEMMA RotateThenKeeps ==
  ASSUME CallOK, NEW p \in Processes, NEW reason, NEW label, NEW step, NEW locals \in Call, RotateThen(p, reason, label, step, locals)
  PROVE  pc'[p] = "rotate" /\ call'[p].op = locals.op /\ call'[p].isNewPath = locals.isNewPath /\ call'[p].after = step
  <1>1. PICK d : d = [locals EXCEPT !.reason = reason, !.label = label, !.after = step, !.attempts = 0, !.isRotated = FALSE]
    OBVIOUS
  <1>2. d.op = locals.op /\ d.isNewPath = locals.isNewPath /\ d.after = step
    BY <1>1 DEF Call
  <1>3. Goto(p, "rotate", d)
    BY <1>1 DEF RotateThen
  <1> QED BY <1>2, <1>3, GotoAt

LEMMA RotatedKeeps ==
  ASSUME CallOK, NEW p \in Processes, NEW locals \in Call, Keeps(call[p], locals), Rotated(p, locals), locals.wasOpen = OpensAgain(p)
  PROVE  RotationEnds(p)
  <1>1. PICK d : d = [locals EXCEPT !.isRotated = TRUE, !.then = locals.after]
    OBVIOUS
  <1>2. PICK to : to = IF locals.wasOpen THEN "open" ELSE locals.after
    OBVIOUS
  <1>3. d.then = locals.after /\ Keeps(locals, d)
    BY <1>1 DEF Call, Keeps
  <1>4. Goto(p, to, d)
    BY <1>1, <1>2, Zenon DEF Rotated
  <1>5. pc'[p] = to /\ call'[p] = IF to = "idle" THEN NoCall ELSE d
    BY <1>4 DEF Goto, CallOK
  <1> QED BY <1>2, <1>3, <1>5 DEF RotationEnds, Keeps

LEMMA FailsKeeps ==
  ASSUME CallOK, NEW p \in Processes, RotationFails(p), pc[p] # "rotate"
  PROVE  RotationEnds(p)
  <1>1. call[p].after \in Then
    BY CallTypes DEF Then
  <1>2. CASE call[p].wasOpen /\ OpenThen(p, call[p].after)
    BY <1>1, <1>2, OpenThenKeeps DEF RotationEnds, OpensAgain
  <1>3. CASE ~call[p].wasOpen /\ Continue(p, call[p].after)
    <2>1. pc'[p] = call[p].after /\ call'[p] = IF call[p].after = "idle" THEN NoCall ELSE call[p]
      BY <1>3 DEF Continue, Goto, CallOK
    <2> QED BY <1>3, <2>1 DEF RotationEnds, OpensAgain, Keeps
  <1> QED BY <1>2, <1>3, Zenon DEF RotationFails

\* A rotation keeps what its call is about, and goes on where it was asked to
LEMMA RotationKeepsCall ==
  ASSUME TypeOK, NEW p \in Processes, StepOf(p), pc[p] \in RotateSteps
  PROVE  /\ m_IsInitialized' = m_IsInitialized /\ m_Config' = m_Config
         /\ m_FileStream'[p] = m_FileStream[p] \/ m_FileStream'[p] = NoFile
         /\ \/ pc'[p] \in RenameSteps /\ Keeps(call[p], call'[p]) /\ call'[p].wasOpen = OpensAgain(p)
            \/ RotationEnds(p)
  <1>0. CallOK /\ call[p] \in Call /\ m_FileStream \in [Processes -> 0..Len(files)]
    BY CallTypes DEF TypeOK, StreamOK
  <1>1. /\ BeginRotation(p) \/ FindFreeBackupPath(p) \/ RenameWithoutReplacing(p) \/ UnlinkLog(p) \/ ReplaceFile(p)
    BY StepsBegin DEF StepOf, RotationStep, FinishRotateLogFiles, CloseAfterLines, At, RotateSteps, RenameSteps
  <1>2. /\ m_IsInitialized' = m_IsInitialized /\ m_Config' = m_Config
        /\ m_FileStream'[p] = m_FileStream[p] \/ m_FileStream'[p] = NoFile
    BY <1>0, <1>1 DEF BeginRotation, FindFreeBackupPath, RenameWithoutReplacing, UnlinkLog, ReplaceFile, InRotation, At, CloseFile
  <1>3. CASE BeginRotation(p)
    <2>1. PICK locals : locals = [call[p] EXCEPT !.wasOpen = IsOpen(p)]
      OBVIOUS
    <2>2. IsOpen(p) \in BOOLEAN /\ pc[p] = "rotate"
      BY <1>3 DEF IsOpen, BeginRotation, InRotation, At
    <2>3. locals \in Call /\ Keeps(call[p], locals) /\ locals.wasOpen = OpensAgain(p)
      BY <1>0, <2>1, <2>2, WasOpenLocals DEF Keeps, OpensAgain, Call
    <2>4. CASE Goto(p, "find", locals)
      BY <1>0, <1>2, <2>3, <2>4, GotoAt DEF RenameSteps
    <2>5. CASE Rotated(p, locals)
      BY <1>0, <1>2, <2>3, <2>5, RotatedKeeps
    <2> QED BY <1>3, <2>1, <2>4, <2>5 DEF BeginRotation
  <1>4. pc[p] # "rotate" => \A file : Renamed(p, file) => RotationEnds(p)
    <2>1. Keeps(call[p], call[p]) /\ (pc[p] # "rotate" => call[p].wasOpen = OpensAgain(p))
      BY DEF Keeps, OpensAgain
    <2> QED BY <1>0, <2>1, RotatedKeeps DEF Renamed
  <1>5. CASE FindFreeBackupPath(p)
    <2>0. pc[p] = "find"
      BY <1>5 DEF FindFreeBackupPath, InRotation, At
    <2>1. ASSUME NEW suffix \in FreeSuffixes(p),
                 Goto(p, "rename", [call[p] EXCEPT !.backup = Candidate(p, suffix), !.attempts = @ + 1])
          PROVE  pc'[p] \in RenameSteps /\ Keeps(call[p], call'[p]) /\ call'[p].wasOpen = OpensAgain(p)
      <3>1. PICK d, b, n : d = [call[p] EXCEPT !.backup = b, !.attempts = n] /\ Goto(p, "rename", d)
        BY <2>1
      <3>2. Keeps(call[p], d) /\ d.wasOpen = call[p].wasOpen
        BY <1>0, <3>1 DEF Call, Keeps
      <3>3. pc'[p] = "rename" /\ call'[p] = d
        BY <1>0, <3>1, GotoAt
      <3> QED BY <2>0, <3>2, <3>3 DEF OpensAgain, RenameSteps
    <2>2. RotationFails(p) => RotationEnds(p)
      BY <1>0, <2>0, FailsKeeps
    <2> QED BY <1>2, <1>5, <2>1, <2>2, Zenon DEF FindFreeBackupPath
  <1>6. CASE RenameWithoutReplacing(p)
    <2>0. pc[p] = "rename"
      BY <1>6 DEF RenameWithoutReplacing, InRotation, At
    <2>1. CASE LinkFile(p)
      <3>1. PICK d, f : d = [call[p] EXCEPT !.linked = f] /\ Goto(p, "unlink", d)
        BY <2>1 DEF LinkFile
      <3>2. Keeps(call[p], d) /\ d.wasOpen = call[p].wasOpen
        BY <1>0, <3>1 DEF Call, Keeps
      <3>3. pc'[p] = "unlink" /\ call'[p] = d
        BY <1>0, <3>1, GotoAt
      <3> QED BY <1>2, <2>0, <3>2, <3>3 DEF OpensAgain, RenameSteps
    <2>2. MoveFile(p) => RotationEnds(p)
      BY <1>4, <2>0 DEF MoveFile
    <2>3. RotationFails(p) => RotationEnds(p)
      BY <1>0, <2>0, FailsKeeps
    <2>4. CASE pc'[p] \in {"find", "replace"} /\ call'[p] = call[p]
      BY <1>2, <2>0, <2>4 DEF Keeps, OpensAgain, RenameSteps
    <2> QED BY <1>2, <1>6, <2>1, <2>2, <2>3, <2>4, RenameGoes
  <1>7. CASE UnlinkLog(p) \/ ReplaceFile(p)
    <2>0. pc[p] # "rotate"
      BY <1>7 DEF UnlinkLog, ReplaceFile, InRotation, At
    <2>1. RotationFails(p) => RotationEnds(p)
      BY <1>0, <2>0, FailsKeeps
    <2> QED BY <1>2, <1>4, <1>7, <2>0, <2>1 DEF UnlinkLog, ReplaceFile
  <1> QED BY <1>1, <1>3, <1>5, <1>6, <1>7

IsConfig(config) == config \in Configs \cup {DefaultConfig}
\* On the way through InitializeUnlocked(), up to its open and after it
IsBeginning(p) ==
    \/ pc[p] \in RotateSteps /\ call[p].after = "initialize" /\ (pc[p] \in RenameSteps => ~call[p].wasOpen)
    \/ pc[p] = "initialize"
    \/ pc[p] = "open" /\ call[p].then = "initialized" /\ m_PendingContinuationLine[p] = Nothing
SetsUp(p) ==
    /\ (IsBeginning(p) /\ ~IsOpen(p)) \/ pc[p] \in {"initialized", "reconfigured"}
    /\ call[p].op = "Initialize" /\ pc[p] # "initialized" => ~m_IsInitialized[p]
    /\ call[p].op = "Reconfigure" => m_IsInitialized[p] /\ (KeepsStartupLines => call[p].isNewPath)
SetsNothingUp(p) ==
    /\ pc[p] \notin SetUpSteps
    /\ pc[p] \in RotateSteps => call[p].after # "initialize"
    /\ pc[p] \in {"open", "startup"} => call[p].then \notin {"initialize", "initialized"}
SetUp(p) ==
    /\ IsConfig(m_Config[p])
    /\ IF call[p].op = "none" THEN SetsNothingUp(p) ELSE SetsUp(p)
    /\ pc[p] \in {"startup", "initialized"} => IsOpen(p)

\* The first step of Initialize() and Reconfigure()
LEMMA BeginInitializeKeeps ==
  ASSUME CallOK, NEW p \in Processes, NEW config, NEW locals \in Call, BeginInitialize(p, config, locals)
  PROVE  /\ call'[p].op = locals.op /\ call'[p].isNewPath = locals.isNewPath
         /\ pc'[p] = "initialize" \/ (pc'[p] = "rotate" /\ call'[p].after = "initialize")
  <1>1. CASE Goto(p, "initialize", locals)
    BY <1>1, GotoAt
  <1>2. CASE \E label : RotateThen(p, "daily", label, "initialize", locals)
    BY <1>2, RotateThenKeeps
  <1> QED BY <1>1, <1>2, Zenon DEF BeginInitialize, RotateDailyLogFromEarlierDay

LEMMA CallSetsUp ==
  ASSUME TypeOK, TypeOK', NEW p \in Processes, HasDay(p), SetUp(p), CallStep(p)
  PROVE  SetUp(p)'
  <1>0. /\ CallOK /\ pc[p] = "idle" /\ call[p].op = "none" /\ IsConfig(m_Config[p]) /\ call[p] \in Call
        /\ m_FileStream \in [Processes -> 0..Len(files)] /\ m_Config \in [Processes -> Config]
    BY StepsBegin, CallTypes DEF SetUp, SetsUp, IsBeginning, RotateSteps, RenameSteps, TypeOK, StreamOK, StateOK
  <1>1. IsConfig(m_Config'[p])
    <2>1. StepOf(p)
      BY DEF StepOf
    <2> QED BY <1>0, <2>1, ConfigGoes DEF IsConfig
  <1>2. CASE UNCHANGED <<pc, call>>
    BY <1>0, <1>1, <1>2 DEF SetUp, SetsNothingUp, SetUpSteps, RotateSteps, RenameSteps
  <1>3. ASSUME pc'[p] \in {"open", "ready", "rotate"}, call'[p].op = "none", pc'[p] = "open" => call'[p].then = "idle",
               pc'[p] = "rotate" => call'[p].after = "manual"
        PROVE  SetUp(p)'
    BY <1>1, <1>3 DEF SetUp, SetsNothingUp, SetUpSteps, RotateSteps, RenameSteps
  <1>4. NoCall \in Call /\ NoCall.op = "none"
    BY NoCallType DEF NoCall
  <1>5. CASE Open(p)
    BY <1>0, <1>3, <1>5, OpenThenKeeps DEF Open, Keeps, Then, After
  <1>6. CASE Write(p)
    <2>1. PICK stamp : Goto(p, "ready", [NoCall EXCEPT !.stamp = stamp])
      BY <1>6 DEF Write
    <2>2. [NoCall EXCEPT !.stamp = stamp].op = "none"
      BY <1>4 DEF Call
    <2>3. pc'[p] = "ready" /\ call'[p] = [NoCall EXCEPT !.stamp = stamp]
      BY <1>0, <2>1, GotoAt
    <2> QED BY <1>3, <2>2, <2>3
  <1>7. CASE RotateLogFiles(p)
    BY <1>0, <1>3, <1>4, <1>7, RotateThenKeeps DEF RotateLogFiles
  \* Initialize() and Reconfigure() up to the rollover
  <1>8. ASSUME NEW config \in Configs, NEW locals \in Call, BeginInitialize(p, config, locals), ~IsOpen(p)',
               locals.op \in {"Initialize", "Reconfigure"}, locals.op = "Initialize" => ~m_IsInitialized'[p],
               locals.op = "Reconfigure" => m_IsInitialized'[p] /\ (KeepsStartupLines => locals.isNewPath)
        PROVE  SetUp(p)'
    <2>1. /\ call'[p].op = locals.op /\ call'[p].isNewPath = locals.isNewPath
          /\ pc'[p] = "initialize" \/ (pc'[p] = "rotate" /\ call'[p].after = "initialize")
      BY <1>0, <1>8, BeginInitializeKeeps
    <2>2. IsBeginning(p)'
      BY <2>1 DEF IsBeginning, RotateSteps, RenameSteps
    <2> QED BY <1>1, <1>8, <2>1, <2>2 DEF SetUp, SetsUp
  <1>9. ASSUME NEW config \in Configs, Initialize(p, config) PROVE SetUp(p)'
    <2>1. PICK d : d = [NoCall EXCEPT !.op = "Initialize"]
      OBVIOUS
    <2>2. d \in Call /\ d.op = "Initialize"
      BY <1>4, <2>1 DEF Call
    <2>3. ~m_IsInitialized'[p] /\ ~IsOpen(p)' /\ BeginInitialize(p, config, d)
      BY <1>9, <2>1 DEF Initialize, streamVars, IsOpen, HasDay
    <2> QED BY <1>8, <2>2, <2>3
  <1>10. ASSUME NEW config \in Configs, ReconfigurePath(p, config) PROVE SetUp(p)'
    <2>1. PICK d, isNew : isNew = (config.FilePath # Path(p)) /\ d = [NoCall EXCEPT !.op = "Reconfigure", !.isNewPath = isNew]
      OBVIOUS
    <2>2. isNew \in BOOLEAN
      BY <2>1
    <2>3. d \in Call /\ d.op = "Reconfigure" /\ d.isNewPath = isNew
      BY <1>4, <2>1, <2>2 DEF Call
    <2>4. m_IsInitialized'[p] /\ ~IsOpen(p)' /\ BeginInitialize(p, config, d)
      BY <1>0, <1>10, <2>1 DEF ReconfigurePath, CloseFile, IsOpen
    <2>5. KeepsStartupLines => isNew
      BY <1>0, <1>10, <2>1 DEF ReconfigurePath, KeepsFile, KeepsStartupLines, IsConfig, IsAuto, Path
    <2> QED BY <1>8, <2>3, <2>4, <2>5
  <1>11. CASE Close(p) \/ \E config \in Configs : ReconfigureFile(p, config)
    BY <1>2, <1>11 DEF Close, ReconfigureFile
  <1> QED BY <1>5, <1>6, <1>7, <1>9, <1>10, <1>11 DEF CallStep

\* A call that returns sets up nothing
LEMMA ReturnSetsUp ==
  ASSUME TypeOK, NEW p \in Processes, SetUp(p), m_Config'[p] = m_Config[p], pc'[p] = "idle", call'[p] = NoCall
  PROVE  SetUp(p)'
  <1>1. call'[p].op = "none"
    BY DEF NoCall
  <1> QED BY <1>1 DEF SetUp, SetsNothingUp, SetUpSteps, RotateSteps, RenameSteps

\* nor one that is about an entry, or a rotation by hand
LEMMA EntrySetsUp ==
  ASSUME TypeOK, NEW p \in Processes, SetUp(p), m_Config'[p] = m_Config[p], call'[p].op = "none",
         pc'[p] \in {"idle", "prepare", "open", "rotate", "rolled", "write", "manual", "close"},
         pc'[p] = "open" => call'[p].then \in {"idle", "manual", "rolled", "write", "prepare", "close"},
         pc'[p] = "rotate" => call'[p].after # "initialize"
  PROVE  SetUp(p)'
  BY DEF SetUp, SetsNothingUp, SetUpSteps, RotateSteps, RenameSteps

LEMMA OpenSetsUp ==
  ASSUME TypeOK, TypeOK', NEW p \in Processes, SetUp(p), OpenStep(p)
  PROVE  SetUp(p)'
  <1>0. /\ CallOK /\ m_Config'[p] = m_Config[p] /\ call[p] \in Call /\ call[p].then \in Then
        /\ m_FileStream \in [Processes -> 0..Len(files)] /\ m_IsInitialized \in [Processes -> BOOLEAN]
        /\ StreamOK /\ StreamOK'
    BY StepsBegin, CallTypes DEF TypeOK, StreamOK, At
  <1>1. Return(p) => SetUp(p)'
    <2>1. Return(p) => pc'[p] = "idle" /\ call'[p] = NoCall
      BY <1>0 DEF Return, Goto, CallOK
    <2> QED BY <1>0, <2>1, ReturnSetsUp
  <1>2. CASE EnsureReady(p)
    <2>1. call[p].op = "none"
      BY <1>2 DEF EnsureReady, At, SetUp, SetsUp, IsBeginning, RotateSteps, RenameSteps
    <2>2. Continue(p, "prepare") => SetUp(p)'
      BY <1>0, <2>1, EntrySetsUp, GoesOn
    <2>3. OpenThen(p, "prepare") => SetUp(p)'
      BY <1>0, <2>1, EntrySetsUp, OpenThenKeeps DEF Keeps, Then
    <2> QED BY <1>1, <1>2, <2>2, <2>3 DEF EnsureReady
  \* On to where the open was for
  <1>3. ASSUME pc[p] \in {"open", "startup"}, call[p].op = "none", Continue(p, call[p].then) PROVE SetUp(p)'
    <2>1. call[p].then \in {"idle", "manual", "rolled", "write", "prepare", "close"}
      BY <1>0, <1>3 DEF SetUp, SetsNothingUp, Then, After
    <2>2. CASE call[p].then = "idle"
      BY <1>1, <1>3, <2>2 DEF Continue, Return, Goto
    <2>3. CASE call[p].then # "idle"
      <3>1. pc'[p] = call[p].then /\ call'[p] = call[p]
        BY <1>0, <1>3, <2>3, GoesOn
      <3> QED BY <1>0, <1>3, <2>1, <3>1, EntrySetsUp
    <2> QED BY <2>2, <2>3
  <1>4. CASE OpenSucceeds(p)
    <2>0. pc[p] = "open"
      BY <1>4 DEF OpenSucceeds, At
    <2>1. IsOpen(p)'
      <3>1. OpenFile(p) => IsOpen(p)'
        <4>1. OpenFile(p) => m_FileStream'[p] \in 1..Len(files')
          BY <1>0, <1>4, OpenFileType DEF OpenSucceeds, At, TypeOK
        <4> QED BY <4>1 DEF IsOpen, NoFile
      <3> QED BY <1>4, <3>1 DEF OpenSucceeds, OpenFound, IsOpen
    <2>2. CASE call[p].op = "none"
      <3>1. CASE Continue(p, "startup")
        <4>1. pc'[p] = "startup" /\ call'[p] = call[p]
          BY <1>0, <3>1, GoesOn
        <4> QED BY <1>0, <2>0, <2>1, <2>2, <4>1 DEF SetUp, SetsNothingUp, SetUpSteps, RotateSteps, RenameSteps
      <3> QED BY <1>3, <1>4, <2>0, <2>2, <3>1, Zenon DEF OpenSucceeds
    <2>3. CASE call[p].op # "none"
      <3>1. call[p].then = "initialized" /\ m_PendingContinuationLine[p] = Nothing
        BY <2>0, <2>3 DEF SetUp, SetsUp, IsBeginning, RotateSteps, RenameSteps
      <3>2. Continue(p, "initialized")
        BY <1>4, <3>1 DEF OpenSucceeds
      <3>3. pc'[p] = "initialized" /\ call'[p] = call[p]
        BY <1>0, <3>2, GoesOn
      <3>4. m_IsInitialized'[p]
        BY <1>0, <1>4 DEF OpenSucceeds
      <3> QED BY <1>0, <2>0, <2>1, <2>3, <3>3, <3>4 DEF SetUp, SetsUp
    <2> QED BY <2>2, <2>3
  <1>5. CASE OpenFails(p)
    <2>0. pc[p] = "open" /\ m_IsInitialized' = m_IsInitialized
      BY <1>5 DEF OpenFails, At
    <2>1. PICK to : to = CASE call[p].then \in {"prepare", "close"} -> "idle"
                           [] call[p].then = "initialized" -> "reconfigured"
                           [] OTHER -> call[p].then
      OBVIOUS
    <2>2. PICK d : d = [call[p] EXCEPT !.isRotated = FALSE]
      OBVIOUS
    <2>3. Keeps(call[p], d)
      BY <1>0, <2>2 DEF Call, Keeps
    <2>4. pc'[p] = to /\ call'[p] = IF to = "idle" THEN NoCall ELSE d
      BY <1>0, <1>5, <2>1, <2>2 DEF OpenFails, Goto, CallOK
    <2>5. CASE to = "idle"
      BY <1>0, <2>4, <2>5, ReturnSetsUp
    <2>6. CASE to # "idle" /\ call[p].op = "none"
      <3>1. call[p].then \in {"idle", "manual", "rolled", "write", "prepare", "close"}
        BY <1>0, <2>0, <2>6 DEF SetUp, SetsNothingUp, Then, After
      <3>2. to \in {"manual", "rolled", "write"}
        BY <2>1, <2>6, <3>1
      <3> QED BY <1>0, <2>3, <2>4, <2>6, <3>2, EntrySetsUp DEF Keeps
    <2>7. CASE call[p].op # "none"
      <3>1. call[p].then = "initialized"
        BY <2>0, <2>7 DEF SetUp, SetsUp, IsBeginning, RotateSteps, RenameSteps
      <3>2. to = "reconfigured"
        BY <2>1, <3>1
      <3> QED BY <1>0, <2>0, <2>3, <2>4, <2>7, <3>2 DEF SetUp, SetsUp, Keeps
    <2> QED BY <2>5, <2>6, <2>7
  <1>6. CASE WriteNewFileStartupLines(p)
    <2>1. pc[p] = "startup"
      BY <1>6 DEF WriteNewFileStartupLines, At
    <2>2. call[p].op = "none"
      BY <2>1 DEF SetUp, SetsUp, IsBeginning, RotateSteps, RenameSteps
    <2> QED BY <1>3, <1>6, <2>1, <2>2 DEF WriteNewFileStartupLines
  <1> QED BY <1>2, <1>4, <1>5, <1>6 DEF OpenStep

LEMMA WriteSetsUp ==
  ASSUME TypeOK, TypeOK', NEW p \in Processes, SetUp(p), WriteStep(p)
  PROVE  SetUp(p)'
  <1>0. /\ CallOK /\ m_Config'[p] = m_Config[p] /\ call[p] \in Call
        /\ pc[p] \in {"prepare", "rolled", "write"}
    BY StepsBegin, CallTypes DEF TypeOK, At
  <1>1. call[p].op = "none"
    BY <1>0 DEF SetUp, SetsUp, IsBeginning, RotateSteps, RenameSteps
  <1>2. Return(p) => SetUp(p)'
    <2>1. Return(p) => pc'[p] = "idle" /\ call'[p] = NoCall
      BY <1>0 DEF Return, Goto, CallOK
    <2> QED BY <1>0, <2>1, ReturnSetsUp
  <1>3. ASSUME NEW reason, NEW label, NEW step \in {"rolled", "write"}, RotateThen(p, reason, label, step, call[p]) PROVE SetUp(p)'
    BY <1>0, <1>1, <1>3, RotateThenKeeps, EntrySetsUp
  <1>4. ASSUME NEW step \in {"rolled", "write"}, Goto(p, step, call[p]) PROVE SetUp(p)'
    BY <1>0, <1>1, <1>4, GotoAt, EntrySetsUp
  <1>5. CheckSize(p) => SetUp(p)'
    BY <1>3, <1>4, Zenon DEF CheckSize, Continue
  <1>6. \A config : RotateDailyLogFromEarlierDay(p, config, "rolled", call[p]) => SetUp(p)'
    BY <1>3, <1>4, Zenon DEF RotateDailyLogFromEarlierDay
  <1> QED BY <1>2, <1>3, <1>5, <1>6, Zenon DEF WriteStep, PrepareWrite, RolledOver, WriteLogEntry

LEMMA RotationSetsUp ==
  ASSUME TypeOK, TypeOK', NEW p \in Processes, SetUp(p), RotationStep(p)
  PROVE  SetUp(p)'
  <1>0. /\ CallOK /\ m_Config'[p] = m_Config[p] /\ call[p] \in Call /\ StepOf(p) /\ call[p].after \in After
    BY StepsBegin, CallTypes DEF TypeOK, At, StepOf
  <1>1. CASE FinishRotateLogFiles(p) \/ CloseAfterLines(p)
    <2>1. pc[p] \in {"manual", "close"}
      BY <1>1 DEF FinishRotateLogFiles, CloseAfterLines, At
    <2>2. call[p].op = "none"
      BY <2>1 DEF SetUp, SetsUp, IsBeginning, RotateSteps, RenameSteps
    <2>3. CASE Return(p)
      <3>1. pc'[p] = "idle" /\ call'[p] = NoCall
        BY <1>0, <2>3 DEF Return, Goto, CallOK
      <3> QED BY <1>0, <3>1, ReturnSetsUp
    <2>4. CASE OpenThen(p, "close")
      BY <1>0, <2>2, <2>4, OpenThenKeeps, EntrySetsUp DEF Keeps, Then
    <2> QED BY <1>1, <2>3, <2>4 DEF FinishRotateLogFiles, CloseAfterLines
  <1>2. CASE pc[p] \in RotateSteps
    <2>0. /\ m_IsInitialized' = m_IsInitialized
          /\ IsOpen(p)' => IsOpen(p)
          /\ \/ pc'[p] \in RenameSteps /\ Keeps(call[p], call'[p]) /\ call'[p].wasOpen = OpensAgain(p)
             \/ RotationEnds(p)
      BY <1>0, <1>2, RotationKeepsCall DEF IsOpen
    <2>1. CASE call[p].op = "none"
      <3>1. call[p].after \in {"idle", "manual", "rolled", "write"}
        BY <1>0, <1>2, <2>1 DEF SetUp, SetsNothingUp, After
      <3>2. CASE pc'[p] \in RenameSteps /\ Keeps(call[p], call'[p])
        BY <1>0, <2>1, <3>1, <3>2 DEF SetUp, SetsNothingUp, SetUpSteps, RenameSteps, Keeps
      <3>3. CASE RotationEnds(p)
        BY <1>0, <2>1, <3>1, <3>3, EntrySetsUp, ReturnSetsUp DEF RotationEnds, Keeps
      <3> QED BY <2>0, <3>2, <3>3
    <2>2. CASE call[p].op # "none"
      <3>1. call[p].after = "initialize" /\ ~IsOpen(p) /\ ~OpensAgain(p)
        BY <1>2, <2>2 DEF SetUp, SetsUp, IsBeginning, OpensAgain, RotateSteps, RenameSteps
      <3>2. /\ call[p].op = "Initialize" => ~m_IsInitialized[p]
            /\ call[p].op = "Reconfigure" => m_IsInitialized[p] /\ (KeepsStartupLines => call[p].isNewPath)
        BY <1>2, <2>2 DEF SetUp, SetsUp, RotateSteps, RenameSteps
      <3>3. IsBeginning(p)' /\ Keeps(call[p], call'[p]) /\ pc'[p] \in RenameSteps \cup {"initialize"}
        BY <2>0, <3>1 DEF IsBeginning, RotationEnds, Keeps, RotateSteps
      <3>4. pc'[p] \notin {"startup", "initialized"}
        BY <3>3 DEF RenameSteps
      <3> QED BY <1>0, <2>0, <2>2, <3>1, <3>2, <3>3, <3>4 DEF SetUp, SetsUp, Keeps
    <2> QED BY <2>1, <2>2
  <1>3. pc[p] \in RotateSteps \/ FinishRotateLogFiles(p) \/ CloseAfterLines(p)
    BY DEF RotationStep, BeginRotation, FindFreeBackupPath, RenameWithoutReplacing, UnlinkLog, ReplaceFile, InRotation, At,
           RotateSteps, RenameSteps
  <1> QED BY <1>1, <1>2, <1>3

LEMMA ConfigSetsUp ==
  ASSUME TypeOK, TypeOK', NEW p \in Processes, SetUp(p), ConfigStep(p)
  PROVE  SetUp(p)'
  <1>0. /\ CallOK /\ m_Config'[p] = m_Config[p] /\ call[p] \in Call
        /\ pc[p] \in SetUpSteps
        /\ m_PendingContinuationLine \in [Processes -> Int]
    BY StepsBegin, CallTypes DEF TypeOK, At, SetUpSteps, StateOK
  <1>1. call[p].op # "none"
    BY <1>0 DEF SetUp, SetsNothingUp
  <1>2. CASE Return(p)
    <2>1. pc'[p] = "idle" /\ call'[p] = NoCall
      BY <1>0, <1>2 DEF Return, Goto, CallOK
    <2> QED BY <1>0, <2>1, ReturnSetsUp
  <1>3. CASE InitializeOpens(p)
    <2>1. /\ pc[p] = "initialize" /\ UNCHANGED <<m_IsInitialized, m_FileStream>>
          /\ m_PendingContinuationLine'[p] = Nothing /\ OpenThen(p, "initialized")
      BY <1>0, <1>3 DEF InitializeOpens, At, streamVars
    <2>2. pc'[p] = "open" /\ call'[p].then = "initialized" /\ Keeps(call[p], call'[p])
      BY <1>0, <2>1, OpenThenKeeps DEF Then
    <2> QED BY <1>0, <1>1, <2>1, <2>2 DEF SetUp, SetsUp, IsBeginning, IsOpen, Keeps
  <1>4. CASE FinishInitialize(p) /\ ~Return(p)
    <2>1. /\ pc[p] = "initialized" /\ UNCHANGED <<m_IsInitialized, m_FileStream>>
          /\ Continue(p, "reconfigured") /\ call[p].op # "Initialize"
      BY <1>4 DEF FinishInitialize, At
    <2>2. pc'[p] = "reconfigured" /\ call'[p] = call[p]
      BY <1>0, <2>1, GoesOn
    <2> QED BY <1>0, <1>1, <2>1, <2>2 DEF SetUp, SetsUp
  <1> QED BY <1>2, <1>3, <1>4 DEF ConfigStep, FinishReconfigure

\* Where each process is in setting up its logger
SetUpInv == \A p \in Processes : SetUp(p)

LEMMA SetUpStep == TypeOK /\ TypeOK' /\ HasDayInv /\ SetUpInv /\ [Next]_vars => SetUpInv'
  <1> SUFFICES ASSUME TypeOK, TypeOK', HasDayInv, SetUpInv, [Next]_vars, NEW q \in Processes PROVE SetUp(q)'
    BY DEF SetUpInv
  <1>0. SetUp(q) /\ HasDay(q)
    BY DEF SetUpInv, HasDayInv
  <1>1. ASSUME pc'[q] = pc[q], call'[q] = call[q], m_IsInitialized'[q] = m_IsInitialized[q], m_FileStream'[q] = m_FileStream[q],
               m_Config'[q] = m_Config[q], m_PendingContinuationLine'[q] = m_PendingContinuationLine[q]
        PROVE  SetUp(q)'
    BY <1>0, <1>1 DEF SetUp, SetsUp, SetsNothingUp, IsBeginning, IsOpen
  <1>2. CASE StepOfAnother
    <2>1. UNCHANGED <<streamVars, stateVars, pc, call>>
      BY <1>2 DEF StepOfAnother, CleanupStep, TakeDeferredWork, ListBackups, DeleteBackup, InJob, Tick, vars
    <2> QED BY <1>1, <2>1 DEF streamVars, stateVars
  <1>3. ASSUME NEW p \in Processes, StepOf(p) PROVE SetUp(q)'
    <2>1. CASE p = q
      BY <1>0, <1>3, <2>1, CallSetsUp, OpenSetsUp, WriteSetsUp, RotationSetsUp, ConfigSetsUp DEF StepOf
    <2>2. CASE p # q
      BY <1>1, <1>3, <2>2, OthersStay, PendingOfOthers DEF CallsStay, StreamsStay
    <2> QED BY <2>1, <2>2
  <1>4. ASSUME NEW p \in Processes, Crash(p) PROVE SetUp(q)'
    <2>1. CASE p = q
      <3>1. pc'[q] = "idle" /\ call'[q] = NoCall /\ NoCall.op = "none" /\ m_Config'[q] = DefaultConfig
        BY <1>4, <2>1 DEF Crash, Return, Goto, NoCall, TypeOK, CallOK, StateOK
      <3> QED BY <3>1 DEF SetUp, IsConfig, SetsNothingUp, SetUpSteps, RotateSteps, RenameSteps
    <2>2. CASE p # q
      <3>1. m_PendingContinuationLine'[q] = m_PendingContinuationLine[q]
        BY <1>4, <2>2 DEF Crash, TypeOK, StateOK
      <3> QED BY <1>1, <1>4, <2>2, <3>1, OthersStay DEF CallsStay, StreamsStay
    <2> QED BY <2>1, <2>2
  <1> QED BY <1>2, <1>3, <1>4, NextSplits

----------------------------------------------------------------------------
(* The startup lines of a file begun after a rotation *)

IsUndisturbed == IsAlone /\ crashes = 0 /\ ~CanFail("write") /\ KeepsStartupLines

\* No crash, and nothing else, ends in a state that one process left undisturbed
LEMMA UndisturbedBefore ==
  ASSUME TypeOK, TypeOK', UnusedInv, [Next]_vars, IsUndisturbed'
  PROVE  IsUndisturbed /\ \A p \in Processes : ~Crash(p)
  <1>1. IsAlone /\ IsAlone' /\ crashes' = 0 /\ ~CanFail("write")' /\ KeepsStartupLines
    BY AloneBefore DEF IsUndisturbed
  <1>2. ASSUME NEW p \in Processes, Crash(p) PROVE FALSE
    BY <1>1, <1>2 DEF Crash, TypeOK, CallOK
  <1>3. env' = env /\ crashes' = crashes
    <2>1. CASE \E p \in Processes : StepOf(p)
      BY <2>1, StepsCount
    <2>2. CASE StepOfAnother
      BY <2>2, AnotherStays
    <2> QED BY <1>2, <2>1, <2>2, NextSplits
  <1> QED BY <1>1, <1>2, <1>3 DEF IsUndisturbed, CanFail

\* A logger without a log, that has backups
WaitsFor(p) ==
    m_IsInitialized[p] /\ call[p].op # "Reconfigure" /\ ~Exists(Log(p)) /\ Backups(Path(p)) # {}
PendingInv == IsUndisturbed => \A p \in Processes : WaitsFor(p) => m_PendingContinuationLine[p] # Nothing

\* A rotation that takes the log away leaves a continuation line, and none takes one back
LEMMA RotationLeaves ==
  ASSUME TypeOK, NamesInv, KeptInv, IsAlone \/ env.fs = "move", NEW p \in Processes, RotationStep(p),
         m_Config[p].WriteStartupLinesInNewFiles
  PROVE  /\ m_PendingContinuationLine[p] # Nothing => m_PendingContinuationLine'[p] # Nothing
         /\ Exists(Log(p)) /\ Log(p) \notin DOMAIN folder' => m_PendingContinuationLine'[p] # Nothing
  <1>0. m_PendingContinuationLine \in [Processes -> Int]
    BY DEF TypeOK, StateOK
  <1>1. ASSUME NEW file, Renamed(p, file), file = folder[Log(p)], Exists(Log(p)) PROVE m_PendingContinuationLine'[p] # Nothing
    <2>1. file \in 1..Len(files) /\ Len(files) \in Nat
      BY <1>1, FolderType DEF Exists
    <2>2. m_PendingContinuationLine'[p] = file
      BY <1>0, <1>1 DEF Renamed
    <2> QED BY <2>1, <2>2 DEF Nothing
  <1>2. RotationFails(p) => m_PendingContinuationLine' = m_PendingContinuationLine
    BY DEF RotationFails
  <1>3. CASE BeginRotation(p) \/ FindFreeBackupPath(p) \/ FinishRotateLogFiles(p) \/ CloseAfterLines(p)
    BY <1>2, <1>3 DEF BeginRotation, FindFreeBackupPath, FinishRotateLogFiles, CloseAfterLines, stateVars, Exists
  <1>4. CASE RenameWithoutReplacing(p)
    <2>1. MoveFile(p) => m_PendingContinuationLine'[p] # Nothing
      BY <1>1 DEF MoveFile, CanRename
    <2>2. LinkFile(p) => m_PendingContinuationLine' = m_PendingContinuationLine /\ DOMAIN folder \subseteq DOMAIN folder'
      BY DEF LinkFile, Linked
    <2> QED BY <1>2, <1>4, <2>1, <2>2 DEF RenameWithoutReplacing, CheckName, NameIsTaken, Exists
  <1>5. CASE UnlinkLog(p)
    <2>1. pc[p] = "unlink" /\ env.fs = "links"
      BY <1>5 DEF UnlinkLog, InRotation, At
    <2>2. call[p].backup # Log(p)
      BY <2>1, BackupIsBackup DEF NamesInv, Naming
    <2>3. Exists(Log(p)) => call[p].linked = folder[Log(p)]
      BY <2>1 DEF KeptInv, RenameKept, LinkedTwice
    <2>4. folder' = Unlinked(folder, call[p].backup) => (Exists(Log(p)) => Log(p) \in DOMAIN folder')
      BY <2>2 DEF Unlinked, Exists
    <2> QED BY <1>1, <1>2, <1>5, <2>3, <2>4 DEF UnlinkLog
  <1>6. CASE ReplaceFile(p)
    BY <1>1, <1>2, <1>6 DEF ReplaceFile, Exists
  <1> QED BY <1>3, <1>4, <1>5, <1>6 DEF RotationStep

\* Where the log, the logger and the line stay
LEMMA PendingStaysFor ==
  ASSUME NEW p, folder' = folder, Path(p)' = Path(p), m_IsInitialized'[p] = m_IsInitialized[p], call[p].op # "Reconfigure",
         m_PendingContinuationLine'[p] = m_PendingContinuationLine[p], WaitsFor(p)',
         WaitsFor(p) => m_PendingContinuationLine[p] # Nothing
  PROVE  m_PendingContinuationLine'[p] # Nothing
  BY DEF WaitsFor, Log, Exists, Backups

\* A logger without a log waits to continue the backup it was made to
LEMMA PendingStepOf ==
  ASSUME TypeOK, TypeOK', NamesInv, KeptInv, IsUndisturbed, NEW p \in Processes, StepOf(p), OpensLog(p), OpensLog(p)',
         SetUp(p), SetUp(p)', WaitsFor(p) => m_PendingContinuationLine[p] # Nothing
  PROVE  WaitsFor(p)' => m_PendingContinuationLine'[p] # Nothing
  <1> SUFFICES ASSUME WaitsFor(p)' PROVE m_PendingContinuationLine'[p] # Nothing
    OBVIOUS
  <1>0. /\ CallOK /\ call[p] \in Call /\ call[p].then \in Then /\ m_IsInitialized \in [Processes -> BOOLEAN]
        /\ m_FileStream \in [Processes -> 0..Len(files)]
        /\ m_Config \in [Processes -> Config] /\ m_PendingContinuationLine \in [Processes -> Int]
    BY CallTypes DEF TypeOK, StreamOK, StateOK
  <1>1. ~IsOpen(p)' /\ m_IsInitialized'[p] /\ call'[p].op # "Reconfigure"
    BY DEF OpensLog, WaitsFor
  <1>2. folder' = folder /\ Path(p)' = Path(p) => ~IsOpen(p)
    BY DEF OpensLog, WaitsFor, Log, Exists
  <1>3. m_Config[p].WriteStartupLinesInNewFiles /\ (m_Config' = m_Config => Path(p)' = Path(p))
    BY DEF SetUp, IsConfig, IsUndisturbed, KeepsStartupLines, Path
  <1>4. CASE RotationStep(p)
    <2>0. pc[p] \in RotateSteps \/ ((FinishRotateLogFiles(p) \/ CloseAfterLines(p)) /\ pc[p] \in {"manual", "close"})
      BY <1>4 DEF RotationStep, BeginRotation, FindFreeBackupPath, RenameWithoutReplacing, UnlinkLog, ReplaceFile,
                  FinishRotateLogFiles, CloseAfterLines, InRotation, At, RotateSteps, RenameSteps
    <2>1. UNCHANGED <<m_IsInitialized, m_Config>>
      BY <1>4, <2>0, RotationKeepsCall DEF FinishRotateLogFiles, CloseAfterLines, streamVars, stateVars, At
    <2>2. call[p].op # "Reconfigure"
      <3>1. CASE pc[p] \in {"manual", "close"}
        BY <3>1 DEF SetUp, SetsUp, IsBeginning, RotateSteps, RenameSteps
      <3>2. CASE pc[p] \in RotateSteps /\ call[p].op = "Reconfigure"
        <4>1. call[p].after = "initialize"
          BY <3>2 DEF SetUp, SetsUp, IsBeginning, RotateSteps, RenameSteps
        <4>2. Keeps(call[p], call'[p])
          BY <3>2, <4>1, RotationKeepsCall DEF RotationEnds
        <4> QED BY <1>1, <3>2, <4>2 DEF Keeps
      <3> QED BY <2>0, <3>1, <3>2
    <2>3. CASE WaitsFor(p) \/ Exists(Log(p))
      <3>1. Log(p) \notin DOMAIN folder'
        BY <1>3, <2>1 DEF WaitsFor, Log, Path, Exists
      <3> QED BY <1>3, <1>4, <2>3, <3>1, RotationLeaves DEF IsUndisturbed
    <2>4. CASE ~Exists(Log(p)) /\ Backups(Path(p)) = {}
      <3>1. folder' = folder \/ LinkGone(p)
        BY <1>4, <2>0, <2>4, FolderGoes DEF IsUndisturbed, Moved, LinkMade, OpenSucceeds, At, RotateSteps, RenameSteps
      <3>2. DOMAIN folder' \subseteq DOMAIN folder
        BY <3>1 DEF LinkGone, Unlinked
      <3> QED BY <2>1, <2>4, <3>2 DEF WaitsFor, Backups, Path
    <2> QED BY <1>1, <2>1, <2>2, <2>3, <2>4 DEF WaitsFor
  <1>5. CASE CallStep(p)
    <2>0. call[p].op = "none" /\ folder' = folder
      BY <1>5, StepsBegin DEF SetUp, SetsUp, IsBeginning, RotateSteps, RenameSteps, diskVars
    <2>1. CASE Close(p)
      BY <1>0, <1>1, <2>1 DEF Close, NotInitialized
    <2>2. CASE Open(p) \/ Write(p) \/ RotateLogFiles(p)
      BY <1>3, <2>0, <2>2, PendingStaysFor DEF Open, Write, RotateLogFiles, streamVars, stateVars
    <2>3. ASSUME NEW config \in Configs, Initialize(p, config) PROVE FALSE
      BY <1>1, <2>3 DEF Initialize, streamVars
    <2>4. ASSUME NEW config \in Configs, ReconfigureFile(p, config) PROVE m_PendingContinuationLine'[p] # Nothing
      <3>1. Path(p)' = Path(p)
        BY <1>0, <2>4 DEF ReconfigureFile, KeepsFile, Path
      <3> QED BY <2>0, <2>4, <3>1, PendingStaysFor DEF ReconfigureFile, streamVars
    <2>5. ASSUME NEW config \in Configs, ReconfigurePath(p, config) PROVE FALSE
      <3>1. PICK d, isNew : isNew = (config.FilePath # Path(p)) /\ d = [NoCall EXCEPT !.op = "Reconfigure", !.isNewPath = isNew]
        OBVIOUS
      <3>2. isNew \in BOOLEAN
        BY <3>1
      <3>3. d \in Call /\ d.op = "Reconfigure"
        BY <3>1, <3>2, NoCallType DEF Call
      <3>4. BeginInitialize(p, config, d)
        BY <2>5, <3>1 DEF ReconfigurePath
      <3> QED BY <1>0, <1>1, <3>3, <3>4, BeginInitializeKeeps
    <2> QED BY <1>5, <2>1, <2>2, <2>3, <2>4, <2>5 DEF CallStep
  <1>6. CASE OpenSucceeds(p)
    <2>1. OpenFile(p) => IsOpen(p)'
      <3>1. OpenFile(p) => m_FileStream'[p] \in 1..Len(files')
        BY <1>6, OpenFileType DEF OpenSucceeds, At, TypeOK
      <3> QED BY <3>1 DEF IsOpen, NoFile
    <2> QED BY <1>1, <1>6, <2>1 DEF OpenSucceeds, OpenFound, IsOpen
  <1>7. CASE OpenFails(p)
    <2>0. /\ pc[p] = "open" /\ UNCHANGED <<folder, m_IsInitialized, m_Config, m_PendingContinuationLine>>
      BY <1>7 DEF OpenFails, At
    <2>1. call[p].op # "Reconfigure"
      <3>1. PICK d : d = [call[p] EXCEPT !.isRotated = FALSE]
        OBVIOUS
      <3>2. d.op = call[p].op
        BY <1>0, <3>1 DEF Call
      <3>3. call[p].op = "Reconfigure" => call[p].then = "initialized"
        BY <2>0 DEF SetUp, SetsUp, IsBeginning, RotateSteps, RenameSteps
      <3>4. call[p].then = "initialized" => Goto(p, "reconfigured", d)
        BY <1>7, <3>1 DEF OpenFails
      <3>5. Goto(p, "reconfigured", d) => call'[p] = d
        BY <1>0 DEF Goto, CallOK
      <3> QED BY <1>1, <3>2, <3>3, <3>4, <3>5
    <2> QED BY <1>3, <2>0, <2>1, PendingStaysFor
  <1>8. CASE EnsureReady(p) \/ WriteStep(p)
    <2>0. pc[p] \in {"ready", "prepare", "rolled", "write"} /\ m_Config' = m_Config
      BY <1>8, StepsBegin DEF EnsureReady, At
    <2>1. call[p].op = "none"
      BY <2>0 DEF SetUp, SetsUp, IsBeginning, RotateSteps, RenameSteps
    <2>2. UNCHANGED <<folder, m_IsInitialized, m_PendingContinuationLine>>
      BY <1>8 DEF EnsureReady, WriteStep, PrepareWrite, RolledOver, WriteLogEntry, streamVars, stateVars
    <2> QED BY <1>3, <2>0, <2>1, <2>2, PendingStaysFor
  <1>9. CASE WriteNewFileStartupLines(p) \/ FinishInitialize(p)
    <2>1. pc[p] \in {"startup", "initialized"} /\ UNCHANGED <<folder, m_Config>>
      BY <1>9 DEF WriteNewFileStartupLines, FinishInitialize, At
    <2> QED BY <1>2, <1>3, <2>1 DEF SetUp
  <1>10. CASE InitializeOpens(p)
    <2>1. pc[p] = "initialize" /\ m_IsInitialized' = m_IsInitialized /\ OpenThen(p, "initialized")
      BY <1>10 DEF InitializeOpens, At, streamVars
    <2>2. call'[p].op = call[p].op
      BY <1>0, <2>1, OpenThenKeeps DEF Keeps, Then
    <2>3. call[p].op = "Initialize"
      BY <1>0, <1>1, <2>1, <2>2 DEF SetUp, SetsNothingUp, SetUpSteps, Call
    <2> QED BY <1>1, <2>1, <2>3 DEF SetUp, SetsUp
  <1>11. CASE FinishReconfigure(p)
    <2>1. pc[p] = "reconfigured" /\ UNCHANGED <<folder, m_Config, m_IsInitialized>>
      BY <1>11 DEF FinishReconfigure, At
    <2>2. ~IsOpen(p)
      BY <1>2, <1>3, <2>1
    <2>3. call[p].op = "Reconfigure" /\ call[p].isNewPath
      BY <1>0, <1>1, <2>1 DEF SetUp, SetsUp, SetsNothingUp, SetUpSteps, Call, IsUndisturbed
    <2>4. m_PendingContinuationLine'[p] = OldPath
      BY <1>0, <1>3, <1>11, <2>2, <2>3 DEF FinishReconfigure
    <2> QED BY <2>4 DEF OldPath, Nothing
  <1> QED BY <1>4, <1>5, <1>6, <1>7, <1>8, <1>9, <1>10, <1>11 DEF StepOf, OpenStep, ConfigStep

LEMMA PendingStep ==
  ASSUME TypeOK, TypeOK', UnusedInv, UnusedInv', NamesInv, KeptInv, StreamInv, StreamInv', SetUpInv, SetUpInv', PendingInv, [Next]_vars
  PROVE  PendingInv'
  <1> SUFFICES ASSUME IsUndisturbed', NEW q \in Processes, WaitsFor(q)' PROVE m_PendingContinuationLine'[q] # Nothing
    BY DEF PendingInv
  <1>0. IsUndisturbed /\ \A p \in Processes : ~Crash(p)
    BY UndisturbedBefore
  <1>1. CASE StepOfAnother
    <2>1. UNCHANGED <<streamVars, stateVars, pc, call>>
      BY <1>1 DEF StepOfAnother, CleanupStep, TakeDeferredWork, ListBackups, DeleteBackup, InJob, Tick, vars
    <2>2. PICK log : log = Log(q)
      OBVIOUS
    <2>3. Log(q)' = log /\ Path(q)' = Path(q)
      BY <2>1, <2>2 DEF Log, Path, stateVars
    <2>4. DOMAIN folder' \subseteq DOMAIN folder /\ (log \in DOMAIN folder => log \in DOMAIN folder')
      <3>1. \A name : IsBackup(name) => name # log
        BY <2>2, LogIsNoBackup DEF Log
      <3> QED BY <1>1, <3>1, AnotherTakes DEF Unlinked
    <2>5. WaitsFor(q)
      BY <2>1, <2>2, <2>3, <2>4 DEF WaitsFor, Exists, Backups, streamVars
    <2> QED BY <1>0, <2>1, <2>5 DEF PendingInv, stateVars
  <1>2. ASSUME NEW p \in Processes, StepOf(p) PROVE m_PendingContinuationLine'[q] # Nothing
    <2>1. CASE p = q
      <3>1. OpensLog(q) /\ OpensLog(q)' /\ SetUp(q) /\ SetUp(q)'
        BY <1>0 DEF IsUndisturbed, StreamInv, SetUpInv
      <3> QED BY <1>0, <1>2, <2>1, <3>1, PendingStepOf DEF PendingInv
    <2>2. CASE p # q
      <3>1. calls'[q] = 0
        BY <1>2, <2>2, AloneBefore DEF IsUndisturbed
      <3> QED BY <3>1 DEF UnusedInv, WaitsFor
    <2> QED BY <2>1, <2>2
  <1> QED BY <1>0, <1>1, <1>2, NextSplits

\* A file that starts with the startup lines, and one they are about to be
\* written to
Starts(f) == files[f].lines # <<>> /\ files[f].lines[1].kind = "startup"
IsStarting(p) ==
    pc[p] \in {"startup", "initialized"} \/ (pc[p] = "reconfigured" /\ call[p].op = "Reconfigure")
ToStart(f) == files[f].lines = <<>> /\ \E p \in Processes : m_FileStream[p] = f /\ IsStarting(p)
\* An initialized logger began the log when there were backups
IsBegunAfter(path) ==
    LET f == folder[LogName(path)]
    IN  Exists(LogName(path)) /\ files[f].isInitialized /\ \E name \in Backups(path) : folder[name] < f
HasBegun(path) == Starts(folder[LogName(path)]) \/ ToStart(folder[LogName(path)])
StartInv ==
    IsUndisturbed => \A config \in Configs \cup {DefaultConfig} :
        IsBegunAfter(config.FilePath) => HasBegun(config.FilePath)

\* A write that can't fail
LEMMA WriteStarts ==
  ASSUME TypeOK, NEW p \in Processes, NEW f \in 1..Len(files), m_FileStream[p] = f, files[f].lines = <<>>, ~CanFail("write"),
         NEW line \in Line, line.kind = "startup", NEW isLast, WriteLine(p, line, isLast)
  PROVE  Starts(f)'
  <1>1. files' = [files EXCEPT ![f].lines = Append(@, line), ![f].written = clock]
    BY DEF WriteLine
  <1>2. files \in Seq(File) /\ files[f].lines \in Seq(Line)
    BY FileType DEF TypeOK, DiskOK
  <1>3. PICK lines : lines = files[f].lines
    OBVIOUS
  <1>4. files'[f].lines = Append(lines, line)
    <2>1. PICK g : g = [files[f] EXCEPT !.lines = Append(@, line), !.written = clock]
      OBVIOUS
    <2>2. g.lines = Append(lines, line)
      BY <1>2, <1>3, <2>1, FileType DEF TypeOK, DiskOK, File
    <2>3. files' = [files EXCEPT ![f] = g]
      BY <1>1, <2>1
    <2> QED BY <1>2, <2>2, <2>3
  <1>5. lines = <<>> /\ Append(<<>>, line) = <<line>>
    BY <1>3
  <1>6. files'[f].lines = <<line>> /\ <<line>> # <<>> /\ <<line>>[1] = line
    BY <1>4, <1>5
  <1> QED BY <1>6 DEF Starts

\* What starts stays so
LEMMA StartsStays ==
  ASSUME TypeOK, NEW p \in Processes, StepOf(p), NEW f \in 1..Len(files)
  PROVE  /\ Starts(f) => Starts(f)'
         /\ files'[f].isInitialized = files[f].isInitialized
  <1>0. files[f].lines \in Seq(Line)
    BY FileType DEF TypeOK
  <1>1. CASE files'[f] = files[f]
    BY <1>1 DEF Starts
  <1>2. ASSUME NEW line \in Line, files'[f].lines = Append(files[f].lines, line), files'[f].isInitialized = files[f].isInitialized
        PROVE  (Starts(f) => Starts(f)') /\ files'[f].isInitialized = files[f].isInitialized
    <2>1. PICK s \in Seq(Line) : s = files[f].lines
      BY <1>0
    <2>2. s # <<>> => Append(s, line) # <<>> /\ Append(s, line)[1] = s[1]
      OBVIOUS
    <2> QED BY <1>2, <2>1, <2>2 DEF Starts
  <1>3. files'[f] = files[f] \/ \E line \in Line : /\ files'[f].lines = Append(files[f].lines, line)
                                                  /\ files'[f].isInitialized = files[f].isInitialized
    <2>1. CASE Made(p)
      BY <2>1, MadeIs
    <2>2. CASE \E line \in Line : Wrote(p, line)
      BY <2>2 DEF Wrote
    <2> QED BY <2>1, <2>2, FilesChange
  <1> QED BY <1>1, <1>2, <1>3

\* The next step of what is starting
LEMMA StartingGoes ==
  ASSUME TypeOK, IsUndisturbed, NEW p \in Processes, StepOf(p), SetUp(p), IsStarting(p),
         NEW f \in 1..Len(files), m_FileStream[p] = f, files[f].lines = <<>>
  PROVE  Starts(f)' \/ ToStart(f)'
  <1>0. /\ CallOK /\ call[p] \in Call /\ ~CanFail("write") /\ IsOpen(p) /\ m_PendingContinuationLine[p] \in Int
    BY CallTypes DEF TypeOK, IsUndisturbed, IsOpen, NoFile, StateOK
  <1>1. ASSUME NEW from \in Int PROVE Startup(from) \in Line /\ Startup(from).kind = "startup"
    BY StartupType DEF TypeOK, DiskOK, Startup
  <1>2. ASSUME NEW from \in Int, NEW isLast, WriteLine(p, Startup(from), isLast) PROVE Starts(f)'
    BY <1>0, <1>1, <1>2, WriteStarts
  <1>3. CASE pc[p] = "startup"
    <2>1. WriteNewFileStartupLines(p)
      BY <1>3, StepsBegin DEF StepOf, OpenStep, EnsureReady, OpenSucceeds, OpenFails, At
    <2> QED BY <1>0, <1>2, <2>1 DEF WriteNewFileStartupLines
  <1>4. CASE pc[p] \in {"initialized", "reconfigured"}
    <2>0. ConfigStep(p)
      BY <1>4, StepsBegin DEF StepOf, At
    <2>1. CASE FinishInitialize(p)
      <3>1. WriteLine(p, Startup(Nothing), TRUE) => Starts(f)'
        <4>1. Nothing \in Int
          BY DEF Nothing
        <4> QED BY <1>2, <4>1
      <3>2. CASE call[p].op # "Initialize" /\ Continue(p, "reconfigured") /\ UNCHANGED <<files, m_FileStream>>
        <4>1. pc[p] = "initialized"
          BY <2>1 DEF FinishInitialize, At
        <4>2. call[p].op = "Reconfigure"
          BY <1>0, <3>2, <4>1 DEF SetUp, SetsNothingUp, SetUpSteps, Call
        <4>3. pc'[p] = "reconfigured" /\ call'[p] = call[p]
          BY <1>0, <3>2, GoesOn
        <4> QED BY <3>2, <4>2, <4>3 DEF ToStart, IsStarting
      <3> QED BY <2>1, <3>1, <3>2 DEF FinishInitialize
    <2>2. CASE FinishReconfigure(p)
      <3>1. pc[p] = "reconfigured"
        BY <2>2 DEF FinishReconfigure, At
      <3>2. call[p].op = "Reconfigure" /\ call[p].isNewPath /\ m_Config[p].WriteStartupLinesInNewFiles
        BY <3>1 DEF IsStarting, SetUp, SetsUp, IsUndisturbed, KeepsStartupLines, IsConfig
      <3>3. WriteLine(p, Startup(OldPath), TRUE)
        BY <1>0, <2>2, <3>2 DEF FinishReconfigure
      <3>4. OldPath \in Int
        BY DEF OldPath
      <3> QED BY <1>2, <3>3, <3>4
    <2>3. CASE InitializeOpens(p)
      BY <1>4, <2>3 DEF InitializeOpens, At
    <2> QED BY <2>0, <2>1, <2>2, <2>3 DEF ConfigStep
  <1> QED BY <1>3, <1>4 DEF IsStarting

\* What a new file starts with
LEMMA MadeStarts ==
  ASSUME TypeOK, NEW p \in Processes, StepOf(p), OpenSucceeds(p), Made(p), SetUp(p), IsUndisturbed,
         folder' = Linked(folder, Log(p), Len(files) + 1), ~Exists(Log(p)),
         WaitsFor(p) => m_PendingContinuationLine[p] # Nothing, Backups(Path(p)) # {}, files'[Len(files) + 1].isInitialized, NEW n, n = Len(files) + 1
  PROVE  ToStart(n)'
  <1>0. CallOK /\ pc[p] = "open" /\ Len(files) \in Nat
    BY DEF OpenSucceeds, At, TypeOK, DiskOK
  <1>1. OpenFile(p)
    <2>1. files' # files
      BY MadeIs
    <2> QED BY <2>1 DEF OpenSucceeds, OpenFound
  <1>2. m_FileStream'[p] = Len(files) + 1
    <2>1. m_FileStream'[p] = folder'[Log(p)]
      BY <1>1, OpenFileType DEF OpenSucceeds, At, TypeOK
    <2> QED BY <2>1 DEF Linked
  <1>3. files'[Len(files) + 1].lines = <<>> /\ (m_IsInitialized[p] \/ call[p].then = "initialized")
    <2>1. PICK new : new = NewFile(p)
      OBVIOUS
    <2>2. new.isInitialized = (m_IsInitialized[p] \/ call[p].then = "initialized")
      BY <2>1 DEF NewFile
    <2>3. files'[Len(files) + 1] = new
      BY <2>1, NewFileType DEF Made, TypeOK, DiskOK
    <2> QED BY <2>2, <2>3, MadeIs
  <1>4. pc'[p] = IF m_PendingContinuationLine[p] # Nothing THEN "startup" ELSE call[p].then
    <2>1. PICK to : to = IF ~IsOpen(p) /\ m_PendingContinuationLine[p] # Nothing THEN "startup" ELSE call[p].then
      OBVIOUS
    <2>2. Continue(p, to)
      BY <2>1 DEF OpenSucceeds
    <2> QED BY <1>0, <1>1, <2>1, <2>2, GoesOn DEF OpenFile
  <1>5. pc'[p] \in {"startup", "initialized"}
    <2>1. CASE call[p].op = "none"
      <3>1. WaitsFor(p)
        BY <1>0, <1>3, <2>1 DEF SetUp, SetsNothingUp, WaitsFor
      <3> QED BY <1>4, <3>1
    <2>2. CASE call[p].op # "none"
      BY <1>0, <1>4, <2>2 DEF SetUp, SetsUp, IsBeginning, RotateSteps, RenameSteps
    <2> QED BY <2>1, <2>2
  <1> QED BY <1>2, <1>3, <1>5 DEF ToStart, IsStarting

\* The log begun after a rotation starts with the startup lines, or is about to
LEMMA StartStepOf ==
  ASSUME TypeOK, NamesInv, KeptInv, IsUndisturbed, NEW p \in Processes, StepOf(p), SetUp(p),
         WaitsFor(p) => m_PendingContinuationLine[p] # Nothing, \A q \in Processes \ {p} : ~IsOpen(q),
         NEW path, IsBegunAfter(path) => HasBegun(path), IsBegunAfter(path)'
  PROVE  HasBegun(path)'
  <1>1. PICK log : log = LogName(path)
    OBVIOUS
  <1>2. log \in DOMAIN folder' /\ files'[folder'[log]].isInitialized /\ ~IsBackup(log) /\ ~IsBackup(Log(p))
        /\ \E name \in DOMAIN folder' : IsBackup(name) /\ name.path = path /\ folder'[name] < folder'[log]
    BY <1>1, LogIsNoBackup DEF IsBegunAfter, Exists, Backups, Log
  \* The log stays, as do the backups that are older
  <1>3. ASSUME log \in DOMAIN folder, folder'[log] = folder[log],
               \E name \in DOMAIN folder : IsBackup(name) /\ name.path = path /\ folder[name] < folder[log]
        PROVE  HasBegun(path)'
    <2>1. PICK f : f = folder[log]
      OBVIOUS
    <2>2. f \in 1..Len(files) /\ f # NoFile
      BY <1>3, <2>1, FolderType DEF NoFile
    <2>3. Starts(f) \/ ToStart(f)
      <3>1. files'[f].isInitialized = files[f].isInitialized
        BY <2>2, StartsStays
      <3>2. files[folder[log]].isInitialized
        BY <1>2, <1>3, <2>1, <3>1
      <3>3. IsBegunAfter(path)
        BY <1>1, <1>3, <3>2 DEF IsBegunAfter, Exists, Backups
      <3> QED BY <1>1, <2>1, <3>3 DEF HasBegun
    <2>4. Starts(f)' \/ ToStart(f)'
      <3>1. CASE Starts(f)
        BY <2>2, <3>1, StartsStays
      <3>2. CASE ToStart(f)
        <4>1. files[f].lines = <<>> /\ m_FileStream[p] = f /\ IsStarting(p)
          BY <2>2, <3>2 DEF ToStart, IsOpen
        <4> QED BY <2>2, <4>1, StartingGoes
      <3> QED BY <2>3, <3>1, <3>2
    <2>5. folder'[LogName(path)] = f
      BY <1>1, <1>3, <2>1
    <2> QED BY <2>4, <2>5 DEF HasBegun, Starts, ToStart
  <1>4. CASE folder' = folder
    BY <1>2, <1>3, <1>4
  <1>5. CASE OpenSucceeds(p) /\ Made(p) /\ folder' = Linked(folder, Log(p), Len(files) + 1) /\ ~Exists(Log(p))
    <2>1. \A name \in DOMAIN folder' : name # Log(p) => name \in DOMAIN folder /\ folder'[name] = folder[name]
      BY <1>5 DEF Linked
    <2>2. CASE log # Log(p)
      BY <1>2, <1>3, <2>1, <2>2
    <2>3. CASE log = Log(p)
      <3>1. folder'[log] = Len(files) + 1
        BY <1>5, <2>3 DEF Linked
      <3>2. path = Path(p)
        BY <1>1, <2>3 DEF Log, LogName
      <3>3. Backups(Path(p)) # {}
        BY <1>2, <2>1, <3>2 DEF Backups
      <3>4. PICK n : n = Len(files) + 1
        OBVIOUS
      <3>5. ToStart(n)'
        BY <1>2, <1>5, <3>1, <3>3, <3>4, MadeStarts DEF ToStart
      <3>6. folder'[LogName(path)] = n
        BY <1>1, <3>1, <3>4
      <3> QED BY <3>5, <3>6 DEF HasBegun, ToStart
    <2> QED BY <2>2, <2>3
  <1>6. CASE Moved(p) \/ LinkMade(p) \/ LinkGone(p)
    <2>1. pc[p] \in Naming
      BY <1>6 DEF Moved, LinkMade, LinkGone, Naming
    <2>2. PICK backup : backup = call[p].backup
      OBVIOUS
    <2>3. IsBackup(backup) /\ backup.path = Path(p)
      BY <2>1, <2>2, BackupIsBackup DEF NamesInv, NamedAsAsked
    <2>4. \A name \in DOMAIN folder' : name # backup => name \in DOMAIN folder /\ folder'[name] = folder[name]
      <3>1. CASE Moved(p)
        BY <2>2, <3>1 DEF Moved, Linked, Unlinked
      <3>2. CASE LinkMade(p)
        BY <2>2, <3>2 DEF LinkMade, Linked
      <3>3. CASE LinkGone(p)
        BY <3>3 DEF LinkGone, Unlinked
      <3> QED BY <1>6, <3>1, <3>2, <3>3
    <2>5. log \in DOMAIN folder /\ folder'[log] = folder[log]
      BY <1>2, <2>3, <2>4
    <2>6. PICK name \in DOMAIN folder' : IsBackup(name) /\ name.path = path /\ folder'[name] < folder'[log]
      BY <1>2
    <2>7. CASE name \in DOMAIN folder /\ folder'[name] = folder[name]
      BY <1>3, <2>5, <2>6, <2>7
    <2>8. CASE name = backup /\ ~(name \in DOMAIN folder /\ folder'[name] = folder[name])
      <3>1. log = Log(p)
        BY <1>1, <2>3, <2>6, <2>8 DEF Log
      <3>2. folder'[backup] = folder[Log(p)] /\ ~LinkGone(p)
        <4>1. ~LinkGone(p)
          BY <2>6, <2>8 DEF LinkGone, Unlinked
        <4>2. Moved(p) => folder'[backup] = folder[Log(p)]
          BY <2>2 DEF Moved, Linked
        <4>3. LinkMade(p) => folder'[backup] = folder[Log(p)]
          BY <2>2 DEF LinkMade, Linked
        <4> QED BY <1>6, <4>1, <4>2, <4>3
      <3>3. ~Moved(p)
        <4>1. Moved(p) => Log(p) \notin DOMAIN folder'
          BY <1>2, <2>2, <2>3 DEF Moved, Linked, Unlinked
        <4> QED BY <1>2, <3>1, <4>1
      <3>4. folder[log] \in Nat
        BY <2>5, FolderType
      <3> QED BY <2>5, <2>6, <2>8, <3>1, <3>2, <3>4
    <2> QED BY <2>4, <2>7, <2>8
  <1> QED BY <1>1, <1>4, <1>5, <1>6, FolderGoes DEF IsUndisturbed

LEMMA StartStep ==
  ASSUME TypeOK, TypeOK', UnusedInv, NamesInv, KeptInv, SetUpInv, PendingInv, StartInv, [Next]_vars
  PROVE  StartInv'
  <1> SUFFICES ASSUME IsUndisturbed', NEW config \in Configs \cup {DefaultConfig}, IsBegunAfter(config.FilePath)'
               PROVE  HasBegun(config.FilePath)'
    BY DEF StartInv
  <1>1. PICK path : path = config.FilePath
    OBVIOUS
  <1>2. IsUndisturbed /\ (\A p \in Processes : ~Crash(p)) /\ IsBegunAfter(path)' /\ (IsBegunAfter(path) => HasBegun(path))
    BY <1>1, UndisturbedBefore DEF StartInv
  <1>3. CASE StepOfAnother
    <2>1. UNCHANGED <<files, streamVars, pc, call>>
      BY <1>3, AnotherStays
    <2>2. PICK log : log = LogName(path)
      OBVIOUS
    <2>3. \A name \in DOMAIN folder' : name \in DOMAIN folder /\ folder'[name] = folder[name]
      BY <1>3, AnotherTakes DEF Unlinked
    <2>4. IsBegunAfter(path) /\ folder'[log] = folder[log]
      BY <1>2, <2>1, <2>2, <2>3 DEF IsBegunAfter, Exists, Backups
    <2> QED BY <1>1, <1>2, <2>1, <2>2, <2>4 DEF HasBegun, Starts, ToStart, IsStarting, streamVars
  <1>4. ASSUME NEW p \in Processes, StepOf(p) PROVE HasBegun(path)'
    <2>1. \A q \in Processes \ {p} : ~IsOpen(q)
      BY <1>4, AloneBefore DEF IsUndisturbed, UnusedInv
    <2>2. SetUp(p) /\ (WaitsFor(p) => m_PendingContinuationLine[p] # Nothing)
      BY <1>2 DEF SetUpInv, PendingInv
    <2> QED BY <1>2, <1>4, <2>1, <2>2, StartStepOf
  <1> QED BY <1>1, <1>2, <1>3, <1>4, NextSplits

(***************************************************************************)
(* A file begun after a rotation starts with the startup lines, also when  *)
(* it could only be opened later, and they name each backup once           *)
(* (WriteNewFileStartupLinesUnlocked()): in one process that writes the    *)
(* log, that no crash cut off and whose writes succeed, with startup lines *)
(* in new files; each backup once also where a rename is one step and      *)
(* processes share the log, whatever fails.                                *)
(***************************************************************************)
THEOREM NewFilesContinue == Spec => []NewFilesContinueBackups
  <1>1. Init => UnusedInv /\ NamesInv /\ KeptInv /\ TimeInv /\ HasDayInv /\ StreamInv /\ ContinuedInv /\ SetUpInv
                /\ PendingInv /\ StartInv
    <2> SUFFICES ASSUME Init PROVE UnusedInv /\ NamesInv /\ KeptInv /\ TimeInv /\ HasDayInv /\ StreamInv /\ ContinuedInv
                                   /\ SetUpInv /\ PendingInv /\ StartInv
      OBVIOUS
    <2>0. /\ files = <<>> /\ DOMAIN folder = {} /\ clock = StartTime
          /\ \A p \in Processes : /\ pc[p] = "idle" /\ ~IsOpen(p) /\ call[p] = NoCall /\ m_Config[p] = DefaultConfig
                                  /\ ~m_IsInitialized[p] /\ m_PendingContinuationLine[p] = Nothing
      BY DEF Init, IsOpen
    <2>1. UnusedInv /\ NamesInv
      BY DEF Init, UnusedInv, NamesInv, NamedAsAsked, Naming, IsOpen, NoJob
    <2>2. KeptInv
      BY <2>0 DEF KeptInv, RenameKept
    <2>3. TimeInv
      <3>1. NoCall.stamp = 0 /\ DefaultConfig.TimestampZone \in Zones /\ StartTime \in Nat
        BY TimeAssumption DEF NoCall, Zones
      <3> QED BY <2>0, <3>1 DEF TimeInv, Timely
    <2>4. HasDayInv /\ StreamInv
      BY <2>0 DEF HasDayInv, HasDay, StreamInv, OpensLog
    <2>5. ContinuedInv
      BY <2>0 DEF ContinuedInv, OneLogName, ToldRenamed, Told, PendingApart, ToldOnce, Nothing
    <2>6. SetUpInv
      <3>1. NoCall.op = "none"
        BY DEF NoCall
      <3> QED BY <2>0, <3>1 DEF SetUpInv, SetUp, IsConfig, SetsNothingUp, SetUpSteps, RotateSteps, RenameSteps
    <2>7. PendingInv /\ StartInv
      BY <2>0 DEF PendingInv, WaitsFor, StartInv, IsBegunAfter, Exists
    <2> QED BY <2>1, <2>2, <2>3, <2>4, <2>5, <2>6, <2>7
  <1>2. TypeOK /\ TypeOK' /\ UnusedInv /\ UnusedInv' /\ NamesInv /\ KeptInv /\ TimeInv /\ HasDayInv /\ StreamInv /\ ContinuedInv
          /\ SetUpInv /\ PendingInv /\ StartInv /\ [Next]_vars
          => HasDayInv' /\ StreamInv' /\ ContinuedInv' /\ SetUpInv' /\ PendingInv' /\ StartInv'
    BY HasDayInvStep, StreamStep, ContinuedStep, SetUpStep, PendingStep, StartStep DEF HasDayInv
  <1>3. StartInv /\ ContinuedInv => NewFilesContinueBackups
    <2> SUFFICES ASSUME StartInv, ContinuedInv PROVE NewFilesContinueBackups
      OBVIOUS
    <2>1. BackupsAreContinuedOnce
      BY DEF ContinuedInv, ToldOnce, BackupsAreContinuedOnce
    <2>2. ASSUME IsUndisturbed, NEW config \in Configs \cup {DefaultConfig},
                 IsBegunAfter(config.FilePath), files[folder[LogName(config.FilePath)]].lines # <<>>
          PROVE  files[folder[LogName(config.FilePath)]].lines[1].kind = "startup"
      BY <2>2 DEF StartInv, HasBegun, Starts, ToStart
    <2> QED BY <2>1, <2>2 DEF NewFilesContinueBackups, NewFilesStartWithStartupLines, IsUndisturbed, IsBegunAfter
  <1> QED BY <1>1, <1>2, <1>3, TypeCorrect, UnusedStep, NamesStep, KeptStep, TimeStep, PTL DEF Spec
=============================================================================
