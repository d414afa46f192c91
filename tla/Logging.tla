------------------------------ MODULE Logging -------------------------------
(***************************************************************************)
(* Logging by the loop and the worker threads (plog, vendored): a record   *)
(* goes through the appenders of the logger one after the other.  The      *)
(* console appender writes a colour, the text and the reset of the colour  *)
(* under its mutex; the file appender writes under another one and rolls   *)
(* its files when the current one has grown too large.  The process may    *)
(* crash and be started again; open, write, unlink and rename may fail.    *)
(*                                                                         *)
(* A record is its number; a file is a sequence of records and headers,    *)
(* all of size 1.                                                          *)
(***************************************************************************)
EXTENDS Integers, Sequences

CONSTANTS
    Threads, NoThread,
    Appenders,      \* of the logger, in order: "console", "file"
    MaxFileSize, MaxFiles,
    HasHeader,      \* the formatter starts a file with a header
    MaxRecords, MaxRestarts,    \* bounds
    MaxFailures     \* bound: failing calls on the name of one file

ASSUME LoggingAssumption ==
    /\ NoThread \notin Threads
    /\ Appenders \in Seq({"console", "file"})
    /\ MaxFileSize \in Nat \ {0} /\ MaxFiles \in Nat /\ HasHeader \in BOOLEAN
    /\ MaxRecords \in Nat /\ MaxRestarts \in Nat /\ MaxFailures \in Nat

VARIABLES
    pc, at, rec,    \* of a thread: where it is, the appender and the record
    clock,          \* records created
    consoleLock, fileLock,
    console,        \* what the console shows
    files,          \* by number, 0 is the current one
    opened, fileSize, firstWrite,
    fileNumber,     \* of the loop in rollLogFiles
    written,        \* history: records the file appender wrote
    failed,         \* history: by number, failed calls of unlink and rename
    restarts

threadVars == <<pc, at, rec, clock>>
consoleVars == <<consoleLock, console>>
appenderVars == <<opened, fileSize, firstWrite, fileNumber>>
fileVars == <<fileLock, files, opened, fileSize, firstWrite, fileNumber, written, failed>>
logVars == <<pc, at, rec, clock, consoleLock, fileLock, console, files, opened, fileSize, firstWrite, fileNumber,
          written, failed, restarts>>

Absent == <<-1>>
HeaderLine == 0
Numbers == 0 .. IF MaxFiles > 0 THEN MaxFiles - 1 ELSE 0

LogInit ==
    /\ pc = [t \in Threads |-> "idle"] /\ at = [t \in Threads |-> 1] /\ rec = [t \in Threads |-> 0]
    /\ clock = 0 /\ consoleLock = NoThread /\ fileLock = NoThread /\ console = <<>>
    /\ files = [n \in Numbers |-> Absent]
    /\ opened = FALSE /\ fileSize = 0 /\ firstWrite = TRUE /\ fileNumber = 0
    /\ written = <<>> /\ failed = [n \in Numbers |-> 0] /\ restarts = 0

Go(t, l) == pc' = [pc EXCEPT ![t] = l]
\* On to the next appender.
NextAppender(t) == Go(t, "dispatch") /\ at' = [at EXCEPT ![t] = @ + 1] /\ UNCHANGED <<rec, clock>>
Stay(t, l) == Go(t, l) /\ UNCHANGED <<at, rec, clock>>

-----------------------------------------------------------------------------
(* Logger::operator+= *)

Log(t) ==
    /\ pc[t] = "idle" /\ clock < MaxRecords
    /\ clock' = clock + 1 /\ rec' = [rec EXCEPT ![t] = clock + 1]
    /\ at' = [at EXCEPT ![t] = 1] /\ Go(t, "dispatch")
    /\ UNCHANGED <<consoleVars, fileVars, restarts>>

ReturnLog(t) ==
    /\ pc[t] = "dispatch" /\ at[t] > Len(Appenders)
    /\ Stay(t, "idle") /\ UNCHANGED <<consoleVars, fileVars, restarts>>

Turn(t, appender) == pc[t] = "dispatch" /\ at[t] <= Len(Appenders) /\ Appenders[at[t]] = appender

-----------------------------------------------------------------------------
(* ColorConsoleAppender::write *)

LockConsole(t) ==
    /\ Turn(t, "console") /\ consoleLock = NoThread
    /\ consoleLock' = t /\ Stay(t, "color") /\ UNCHANGED <<console, fileVars, restarts>>

Show(t, kind) == console' = Append(console, [kind |-> kind, record |-> rec[t]])
SetColor(t) ==
    /\ pc[t] = "color" /\ Show(t, "color") /\ Stay(t, "text")
    /\ UNCHANGED <<consoleLock, fileVars, restarts>>
WriteStr(t) ==
    /\ pc[t] = "text" /\ Show(t, "text") /\ Stay(t, "reset")
    /\ UNCHANGED <<consoleLock, fileVars, restarts>>
ResetColor(t) ==
    /\ pc[t] = "reset" /\ Show(t, "reset") /\ NextAppender(t)
    /\ consoleLock' = NoThread /\ UNCHANGED <<fileVars, restarts>>

-----------------------------------------------------------------------------
(* RollingFileAppender::write *)

TooLarge == MaxFiles > 0 /\ fileSize > MaxFileSize /\ fileSize # -1

LockFile(t) ==
    /\ Turn(t, "file") /\ fileLock = NoThread
    /\ fileLock' = t
    /\ Stay(t, IF firstWrite THEN "open" ELSE IF TooLarge THEN "unlink" ELSE "write")
    /\ UNCHANGED <<consoleVars, files, appenderVars, written, failed, restarts>>

\* The call on a file that is there has no effect, and nobody looks at its result.
Fails(n) ==
    /\ files[n] # Absent /\ failed[n] < MaxFailures
    /\ failed' = [failed EXCEPT ![n] = @ + 1] /\ UNCHANGED files

\* rollLogFiles: the last file goes, the others move up, from the last but one.
UnlinkLast(t) ==
    /\ pc[t] = "unlink"
    /\ opened' = FALSE
    /\ \/ files' = [files EXCEPT ![MaxFiles - 1] = Absent] /\ UNCHANGED failed
       \/ Fails(MaxFiles - 1)
    /\ fileNumber' = MaxFiles - 2
    /\ Stay(t, IF MaxFiles - 2 >= 0 THEN "rename" ELSE "open")
    /\ UNCHANGED <<consoleVars, fileLock, fileSize, firstWrite, written, restarts>>

\* rename replaces the file of the new name.
Renamed(n) ==
    IF files[n] = Absent THEN files
    ELSE [files EXCEPT ![n] = Absent, ![n + 1] = files[n]]

RenameOne(t) ==
    /\ pc[t] = "rename"
    /\ \/ files' = Renamed(fileNumber) /\ UNCHANGED failed
       \/ Fails(fileNumber)
    /\ fileNumber' = fileNumber - 1
    /\ Stay(t, IF fileNumber > 0 THEN "rename" ELSE "open")
    /\ UNCHANGED <<consoleVars, fileLock, opened, fileSize, firstWrite, written, restarts>>

\* Mutant: the file is emptied.
OpenLogFile_Truncates(t) ==
    /\ pc[t] = "open"
    /\ firstWrite' = FALSE
    /\ opened' = TRUE /\ files' = [files EXCEPT ![0] = <<>>] /\ fileSize' = 0
    /\ Stay(t, IF HasHeader THEN "header" ELSE "write")
    /\ UNCHANGED <<consoleVars, fileLock, fileNumber, written, failed, restarts>>
\* openLogFile; what is in the file already counts.
OpenLogFile(t) ==
    /\ pc[t] = "open"
    /\ firstWrite' = FALSE
    /\ \/ LET there == IF files[0] = Absent THEN <<>> ELSE files[0] IN
          /\ opened' = TRUE /\ files' = [files EXCEPT ![0] = there] /\ fileSize' = Len(there)
          /\ Stay(t, IF there = <<>> /\ HasHeader THEN "header" ELSE "write")
       \/ opened' = FALSE /\ fileSize' = -1 /\ Stay(t, "write") /\ UNCHANGED files
    /\ UNCHANGED <<consoleVars, fileLock, fileNumber, written, failed, restarts>>

WriteHeader(t) ==
    /\ pc[t] = "header"
    /\ \/ files' = [files EXCEPT ![0] = Append(@, HeaderLine)] /\ fileSize' = fileSize + 1
       \/ UNCHANGED <<files, fileSize>>
    /\ Stay(t, "write")
    /\ UNCHANGED <<consoleVars, fileLock, opened, firstWrite, fileNumber, written, failed, restarts>>

\* The record is written, or the call fails and nobody is told.
WriteRecord(t) ==
    /\ pc[t] = "write"
    /\ \/ /\ opened
          /\ files' = [files EXCEPT ![0] = Append(@, rec[t])] /\ fileSize' = fileSize + 1
          /\ written' = Append(written, rec[t])
       \/ UNCHANGED <<files, fileSize, written>>
    /\ fileLock' = NoThread /\ NextAppender(t)
    /\ UNCHANGED <<consoleVars, opened, firstWrite, fileNumber, failed, restarts>>

-----------------------------------------------------------------------------
\* The process ends at any point and is started again.
Crash ==
    /\ restarts < MaxRestarts /\ restarts' = restarts + 1
    /\ pc' = [t \in Threads |-> "idle"] /\ at' = [t \in Threads |-> 1] /\ rec' = [t \in Threads |-> 0]
    /\ consoleLock' = NoThread /\ fileLock' = NoThread /\ console' = <<>>
    /\ opened' = FALSE /\ fileSize' = 0 /\ firstWrite' = TRUE /\ fileNumber' = 0
    /\ UNCHANGED <<clock, files, written, failed>>

Step(t) ==
    \/ Log(t) \/ ReturnLog(t)
    \/ LockConsole(t) \/ SetColor(t) \/ WriteStr(t) \/ ResetColor(t)
    \/ LockFile(t) \/ UnlinkLast(t) \/ RenameOne(t) \/ OpenLogFile(t) \/ WriteHeader(t) \/ WriteRecord(t)

LogNext == Crash \/ \E t \in Threads : Step(t)

LogSpec == LogInit /\ [][LogNext]_logVars
\* Every thread runs, and contends for a mutex against finitely many others.
LogFairSpec == LogSpec /\ \A t \in Threads : WF_logVars(Step(t))

-----------------------------------------------------------------------------
(* Properties *)

\* On the console colour, text and reset of a record are never mixed with those
\* of another (ColorConsoleAppender::write holds its mutex).
ConsoleWhole ==
    \A i \in DOMAIN console :
       /\ console[i].kind = "color" => i = 1 \/ console[i - 1].kind = "reset"
       /\ console[i].kind = "text" => /\ i > 1 /\ console[i - 1].kind = "color"
                                      /\ console[i - 1].record = console[i].record
       /\ console[i].kind = "reset" => /\ i > 1 /\ console[i - 1].kind = "text"
                                       /\ console[i - 1].record = console[i].record

\* The records of a file, without the header.
Records(f) ==
    IF f \in {<<>>, Absent} THEN <<>> ELSE IF f[1] = HeaderLine THEN Tail(f) ELSE f

\* No rename of a file between the first and the last has failed.
Undisturbed == \A n \in 1 .. MaxFiles - 2 : failed[n] = 0

\* What is on disk, from the oldest file to the newest, is in the order in which
\* it was written and ends with the last record, whichever calls fail and
\* wherever the process ends in a roll (rollLogFiles, openLogFile).  Rolling
\* drops the oldest records only, without a gap, unless a file between the
\* first and the last could not be renamed: the next rename replaces it.
\* Before the records of file n, before[n] records were written.
NewestKept ==
    \E before \in [Numbers -> 0 .. Len(written)] :
       LET upto(n) == before[n] + Len(Records(files[n]))
       IN  /\ upto(0) = Len(written)
           /\ \A n \in Numbers \ {0} : upto(n) <= before[n - 1]
           /\ \A n \in Numbers : Records(files[n]) = SubSeq(written, before[n] + 1, upto(n))
           /\ Undisturbed => \A n \in Numbers \ {0} : upto(n) = before[n - 1]

\* A file exceeds its limit by one record, and by one more for every restart,
\* since the first write after one does not roll, and for every roll in which
\* the current file could not be moved away: it is opened again and grows.
FilesBounded ==
    MaxFiles > 0 =>
        \A n \in Numbers : Len(files[n]) <= MaxFileSize + 1 + restarts + failed[0]

\* A header is only ever the first line of a file, however often the process
\* was started (openLogFile looks at the size first).
HeadersFirst == \A n \in Numbers : \A i \in DOMAIN files[n] : files[n][i] = HeaderLine => i = 1

\* A call to log returns: the mutexes are released on every path.
LogReturns == \A t \in Threads : pc[t] # "idle" ~> pc[t] = "idle"

\* What was logged is whole on the console, and the newest of it in the files,
\* which are in order, bounded and have one header each.
LogIsWhole == ConsoleWhole /\ NewestKept /\ FilesBounded /\ HeadersFirst

=============================================================================
