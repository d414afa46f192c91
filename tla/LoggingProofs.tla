--------------------------- MODULE LoggingProofs ----------------------------
(***************************************************************************)
(* For any number of threads, appenders, records, files, restarts and      *)
(* failing calls: the console is whole, and the files hold what was        *)
(* written in order and up to the last record, with a gap only behind a    *)
(* failed rename, are bounded and have one header each.                    *)
(***************************************************************************)
EXTENDS Logging, TLAPS

-----------------------------------------------------------------------------
(* The console *)

Inside == {"color", "text", "reset"}
Lines == [kind : Inside, record : Nat]
Outside == {"idle", "dispatch", "open", "unlink", "rename", "header", "write"}
Places == Inside \cup Outside
LastLine(kind, r) == Len(console) > 0 /\ console[Len(console)].kind = kind /\ console[Len(console)].record = r

Quiet == console = <<>> \/ (Len(console) > 0 /\ console[Len(console)].kind = "reset")

ConsoleTypes ==
    /\ pc \in [Threads -> Places] /\ rec \in [Threads -> Nat] /\ clock \in Nat
    /\ console \in Seq(Lines)

\* Who is inside holds the mutex, and what it wrote last is the end of the
\* console.
ConsoleInv ==
    /\ ConsoleTypes
    /\ \A t \in Threads : pc[t] \in Inside <=> consoleLock = t
    /\ \A t \in Threads : pc[t] = "text" => LastLine("color", rec[t])
    /\ \A t \in Threads : pc[t] = "reset" => LastLine("text", rec[t])
    /\ (\A t \in Threads : pc[t] \notin {"text", "reset"}) => Quiet
    /\ ConsoleWhole

\* A thread moves outside and leaves the console alone.
MovesOutside(t) ==
    /\ pc' \in [Threads -> Places] /\ rec' \in [Threads -> Nat] /\ clock' \in Nat
    /\ pc[t] \notin Inside /\ pc'[t] \notin Inside
    /\ \A u \in Threads : u # t => pc'[u] = pc[u] /\ rec'[u] = rec[u]
    /\ console' = console /\ consoleLock' = consoleLock

LEMMA OutsideStep ==
    ASSUME ConsoleInv, NEW t \in Threads, MovesOutside(t)
    PROVE  ConsoleInv'
<1>1. ConsoleTypes'
  BY DEF ConsoleInv, ConsoleTypes, MovesOutside
<1>2. \A u \in Threads : u # t => pc'[u] = pc[u] /\ rec'[u] = rec[u]
  BY DEF MovesOutside
<1>3. pc[t] \notin Inside /\ pc'[t] \notin Inside /\ console' = console /\ consoleLock' = consoleLock
  BY DEF MovesOutside
<1>4. (\A u \in Threads : pc[u] \in Inside <=> consoleLock = u)'
  BY <1>2, <1>3 DEF ConsoleInv
<1>5. (\A u \in Threads : pc[u] = "text" => LastLine("color", rec[u]))'
  BY <1>2, <1>3 DEF ConsoleInv, LastLine, Inside
<1>6. (\A u \in Threads : pc[u] = "reset" => LastLine("text", rec[u]))'
  BY <1>2, <1>3 DEF ConsoleInv, LastLine, Inside
<1>7. ((\A u \in Threads : pc[u] \notin {"text", "reset"}) => Quiet)'
  BY <1>2, <1>3 DEF ConsoleInv, Inside, Quiet
<1>8. ConsoleWhole'
  BY <1>3 DEF ConsoleInv, ConsoleWhole
<1>9. QED
  BY <1>1, <1>4, <1>5, <1>6, <1>7, <1>8 DEF ConsoleInv

\* A line is shown after the one that has to come before it.
Continues(k, r) ==
    /\ console' = Append(console, [kind |-> k, record |-> r])
    /\ k = "color" => Quiet
    /\ k = "text" => LastLine("color", r)
    /\ k = "reset" => LastLine("text", r)

LEMMA AppendLine ==
    ASSUME console \in Seq(Lines), ConsoleWhole, NEW k \in Inside, NEW r \in Nat, Continues(k, r)
    PROVE  /\ console' \in Seq(Lines) /\ ConsoleWhole'
           /\ Len(console') > 0 /\ console'[Len(console')].kind = k /\ console'[Len(console')].record = r
<1> DEFINE line == [kind |-> k, record |-> r]
<1>1. line \in Lines /\ line.kind = k /\ line.record = r
  BY DEF Lines
<1>a. console' = Append(console, line)
  BY DEF Continues
<1> HIDE DEF line
<1>2. /\ console' \in Seq(Lines) /\ Len(console') = Len(console) + 1
      /\ console'[Len(console) + 1] = line
      /\ \A i \in 1 .. Len(console) : console'[i] = console[i]
  BY <1>1, <1>a
<1>3. DOMAIN console = 1 .. Len(console) /\ DOMAIN console' = 1 .. Len(console) + 1 /\ Len(console) \in Nat
  BY <1>2
<1>4. Len(console') > 0 /\ console'[Len(console')].kind = k /\ console'[Len(console')].record = r
  BY <1>1, <1>2, <1>3
<1>5. ASSUME NEW i \in DOMAIN console'
      PROVE  /\ console'[i].kind = "color" => i = 1 \/ console'[i - 1].kind = "reset"
             /\ console'[i].kind = "text" => /\ i > 1 /\ console'[i - 1].kind = "color"
                                             /\ console'[i - 1].record = console'[i].record
             /\ console'[i].kind = "reset" => /\ i > 1 /\ console'[i - 1].kind = "text"
                                              /\ console'[i - 1].record = console'[i].record
  <2>1. CASE i \in 1 .. Len(console)
    <3>1. console'[i] = console[i] /\ (i > 1 => console'[i - 1] = console[i - 1]) /\ i \in DOMAIN console
      BY <2>1, <1>2, <1>3
    <3>2. QED
      BY <3>1, <2>1 DEF ConsoleWhole
  <2>2. CASE i = Len(console) + 1
    <3>1. console'[i] = line /\ (Len(console) > 0 => i > 1 /\ console'[i - 1] = console[Len(console)])
      BY <2>2, <1>2, <1>3
    <3>2. console = <<>> => i = 1
      BY <2>2
    <3>3. CASE k = "color"
      BY <3>1, <3>2, <3>3, <1>1 DEF Continues, Quiet
    <3>4. CASE k = "text"
      BY <3>1, <3>4, <1>1 DEF Continues, LastLine
    <3>5. CASE k = "reset"
      BY <3>1, <3>5, <1>1 DEF Continues, LastLine
    <3>6. QED
      BY <3>3, <3>4, <3>5 DEF Inside
  <2>3. QED
    BY <2>1, <2>2, <1>3
<1>6. ConsoleWhole'
  BY <1>5 DEF ConsoleWhole
<1>7. QED
  BY <1>2, <1>4, <1>6

\* A process that has just started.
Fresh ==
    /\ pc = [t \in Threads |-> "idle"] /\ rec = [t \in Threads |-> 0] /\ clock \in Nat
    /\ console = <<>> /\ consoleLock = NoThread

LEMMA FreshConsole == Fresh => ConsoleInv
<1> SUFFICES ASSUME Fresh PROVE ConsoleInv
  OBVIOUS
<1>1. ConsoleTypes
  BY DEF Fresh, ConsoleTypes, Places, Outside
<1>2. \A t \in Threads : pc[t] = "idle" /\ consoleLock # t
  BY LoggingAssumption DEF Fresh
<1>3. ConsoleWhole
  BY DEF Fresh, ConsoleWhole
<1>4. Quiet
  BY DEF Fresh, Quiet
<1>5. \A t \in Threads : pc[t] \notin Inside /\ pc[t] # "text" /\ pc[t] # "reset"
  BY <1>2 DEF Inside
<1>6. QED
  BY <1>1, <1>2, <1>3, <1>4, <1>5 DEF ConsoleInv

LEMMA ConsoleStep == ConsoleInv /\ [LogNext]_logVars => ConsoleInv'
<1> SUFFICES ASSUME ConsoleInv, [LogNext]_logVars PROVE ConsoleInv'
  OBVIOUS
<1> USE DEF consoleVars, threadVars, fileVars, appenderVars
<1>1. ASSUME UNCHANGED logVars PROVE ConsoleInv'
  BY <1>1 DEF ConsoleInv, ConsoleTypes, LastLine, Quiet, ConsoleWhole, logVars
<1>2. ASSUME Crash PROVE ConsoleInv'
  <2>1. Fresh'
    BY <1>2 DEF Crash, Fresh, ConsoleInv, ConsoleTypes
  <2>2. Fresh' => ConsoleInv'
    BY FreshConsole, PTL
  <2>3. QED
    BY <2>1, <2>2
<1>3. ASSUME NEW t \in Threads, Step(t) PROVE ConsoleInv'
  <2> pc \in [Threads -> Places] /\ rec \in [Threads -> Nat] /\ clock \in Nat
    BY DEF ConsoleInv, ConsoleTypes
  <2>1. CASE Log(t)
    <3>1. MovesOutside(t)
      BY <2>1 DEF Log, Go, MovesOutside, Inside, Outside, Places
    <3>2. QED
      BY <3>1, OutsideStep
  <2>2. ASSUME \/ ReturnLog(t) \/ LockFile(t) \/ UnlinkLast(t) \/ RenameOne(t)
               \/ OpenLogFile(t) \/ WriteHeader(t) \/ WriteRecord(t)
        PROVE  ConsoleInv'
    <3>1. console' = console /\ consoleLock' = consoleLock /\ rec' = rec /\ clock' = clock
      BY <2>2 DEF ReturnLog, LockFile, UnlinkLast, RenameOne, OpenLogFile, WriteHeader, WriteRecord, Stay, NextAppender
    <3>2. \E l \in Outside : pc' = [pc EXCEPT ![t] = l]
      <4>1. CASE ReturnLog(t)
        BY <4>1 DEF ReturnLog, Stay, Go, Outside
      <4>2. CASE LockFile(t)
        BY <4>2 DEF LockFile, Stay, Go, Outside
      <4>3. CASE UnlinkLast(t) \/ RenameOne(t)
        BY <4>3 DEF UnlinkLast, RenameOne, Stay, Go, Outside
      <4>4. CASE OpenLogFile(t)
        BY <4>4 DEF OpenLogFile, Stay, Go, Outside
      <4>5. CASE WriteHeader(t) \/ WriteRecord(t)
        BY <4>5 DEF WriteHeader, WriteRecord, Stay, NextAppender, Go, Outside
      <4>6. QED
        BY <2>2, <4>1, <4>2, <4>3, <4>4, <4>5
    <3>3. pc[t] \notin Inside
      BY <2>2 DEF ReturnLog, LockFile, UnlinkLast, RenameOne, OpenLogFile, WriteHeader, WriteRecord, Turn, Inside
    <3>4. MovesOutside(t)
      BY <3>1, <3>2, <3>3 DEF MovesOutside, Inside, Outside, Places
    <3>5. QED
      BY <3>4, OutsideStep
  <2>3. CASE LockConsole(t)
    <3>1. /\ consoleLock = NoThread /\ consoleLock' = t /\ pc[t] = "dispatch"
          /\ pc' = [pc EXCEPT ![t] = "color"] /\ UNCHANGED <<console, rec, clock>>
      BY <2>3 DEF LockConsole, Turn, Stay, Go
    <3>2. \A u \in Threads : pc[u] \notin Inside
      BY <3>1, LoggingAssumption DEF ConsoleInv
    <3>3. pc'[t] = "color" /\ \A u \in Threads : u # t => pc'[u] = pc[u]
      BY <3>1
    <3>4. ConsoleTypes'
      BY <3>1 DEF ConsoleInv, ConsoleTypes, Places, Inside
    <3>5. (\A u \in Threads : pc[u] \in Inside <=> consoleLock = u)'
      BY <3>1, <3>2, <3>3 DEF Inside
    <3>6. \A u \in Threads : pc'[u] \notin {"text", "reset"}
      BY <3>2, <3>3 DEF Inside
    <3>7. Quiet'
      BY <3>1, <3>2 DEF ConsoleInv, Inside, Quiet
    <3>8. ConsoleWhole'
      BY <3>1 DEF ConsoleInv, ConsoleWhole
    <3>9. QED
      BY <3>1, <3>4, <3>5, <3>6, <3>7, <3>8 DEF ConsoleInv
  <2>4. ASSUME SetColor(t) \/ WriteStr(t) \/ ResetColor(t) PROVE ConsoleInv'
    <3> DEFINE k == pc[t]
               after == IF k = "color" THEN "text" ELSE IF k = "text" THEN "reset" ELSE "dispatch"
    <3>1. /\ k \in Inside /\ console' = Append(console, [kind |-> k, record |-> rec[t]])
          /\ pc' = [pc EXCEPT ![t] = after] /\ UNCHANGED <<rec, clock>>
      BY <2>4 DEF SetColor, WriteStr, ResetColor, Show, Stay, NextAppender, Go, Inside
    <3>2. consoleLock' = IF k = "reset" THEN NoThread ELSE consoleLock
      BY <2>4 DEF SetColor, WriteStr, ResetColor
    <3>3. consoleLock = t /\ \A u \in Threads : u # t => pc[u] \notin Inside
      BY <3>1 DEF ConsoleInv
    <3>4. k = "color" => Quiet
      BY <3>3 DEF ConsoleInv, Inside
    <3>5. (k = "text" => LastLine("color", rec[t])) /\ (k = "reset" => LastLine("text", rec[t]))
      BY DEF ConsoleInv
    <3>6. /\ console' \in Seq(Lines) /\ ConsoleWhole'
          /\ Len(console') > 0 /\ console'[Len(console')].kind = k /\ console'[Len(console')].record = rec[t]
      <4>1. rec[t] \in Nat /\ console \in Seq(Lines) /\ ConsoleWhole
        BY DEF ConsoleInv, ConsoleTypes
      <4>2. Continues(k, rec[t])
        BY <3>1, <3>4, <3>5 DEF Continues
      <4>3. QED
        BY <4>1, <4>2, <3>1, AppendLine
    <3>7. pc'[t] = after /\ \A u \in Threads : u # t => pc'[u] = pc[u]
      BY <3>1
    <3>8. ConsoleTypes'
      BY <3>1, <3>6 DEF ConsoleTypes, Places, Inside, Outside
    <3>9. (\A u \in Threads : pc[u] \in Inside <=> consoleLock = u)'
      BY <3>1, <3>2, <3>3, <3>7, LoggingAssumption DEF Inside
    <3>10. (\A u \in Threads : pc[u] = "text" => LastLine("color", rec[u]))'
      BY <3>1, <3>3, <3>6, <3>7 DEF Inside, LastLine
    <3>11. (\A u \in Threads : pc[u] = "reset" => LastLine("text", rec[u]))'
      BY <3>1, <3>3, <3>6, <3>7 DEF Inside, LastLine
    <3>12. ((\A u \in Threads : pc[u] \notin {"text", "reset"}) => Quiet)'
      BY <3>1, <3>6, <3>7 DEF Inside, Quiet
    <3>13. QED
      BY <3>6, <3>8, <3>9, <3>10, <3>11, <3>12 DEF ConsoleInv
  <2>5. QED
    BY <1>3, <2>1, <2>2, <2>3, <2>4 DEF Step
<1>4. QED
  BY <1>1, <1>2, <1>3 DEF LogNext

\* Lines of different records are never mixed on the console, for any number of
\* threads (the mutex of ColorConsoleAppender).
THEOREM ConsoleWholeAlways == LogSpec => []ConsoleWhole
<1>0. LogInit => ConsoleInv
  BY FreshConsole DEF LogInit, Fresh
<1>1. ConsoleInv => ConsoleWhole
  BY DEF ConsoleInv
<1>2. QED
  BY <1>1, <1>0, ConsoleStep, PTL DEF LogSpec

-----------------------------------------------------------------------------
(* The files *)

InFile == {"open", "unlink", "rename", "header", "write"}
Limit == MaxFileSize + restarts + failed[0]
Titled(f) == \A i \in DOMAIN f : f[i] = HeaderLine => i = 1

FileTypes ==
    /\ pc \in [Threads -> Places] /\ rec \in [Threads -> Nat] /\ clock \in Nat
    /\ files \in [Numbers -> Seq(Int)]
    /\ fileSize \in Int /\ fileNumber \in Int /\ restarts \in Nat /\ failed \in [Numbers -> Nat]

\* What a thread relies on where it is.
Relies(t) ==
    /\ pc[t] # "idle" => rec[t] > 0
    /\ pc[t] = "unlink" => MaxFiles > 0
    /\ pc[t] = "rename" => ~opened /\ fileNumber >= 0 /\ fileNumber <= MaxFiles - 2
    /\ pc[t] = "header" => opened /\ files[0] = <<>>
    /\ pc[t] = "open" /\ MaxFiles > 0 => Len(files[0]) <= Limit
    /\ pc[t] = "write" /\ opened /\ MaxFiles > 0 => Len(files[0]) <= Limit

Shared ==
    /\ opened => ~firstWrite /\ fileSize = Len(files[0])
    /\ \A n \in Numbers : Titled(files[n])
    /\ MaxFiles > 0 => \A n \in Numbers : /\ Len(files[n]) <= Limit + 1
                                          /\ firstWrite => Len(files[n]) <= Limit

FileInv ==
    /\ FileTypes /\ Shared
    /\ \A t \in Threads : pc[t] \in InFile <=> fileLock = t
    /\ \A t \in Threads : Relies(t)

\* A thread that logs to the console, or not at all, leaves the files alone.
LeavesFiles(t) ==
    /\ pc' \in [Threads -> Places] /\ rec' \in [Threads -> Nat] /\ clock' \in Nat
    /\ pc[t] \notin InFile /\ pc'[t] \notin InFile
    /\ pc'[t] # "idle" => rec'[t] > 0
    /\ \A u \in Threads : u # t => pc'[u] = pc[u] /\ rec'[u] = rec[u]
    /\ files' = files /\ fileLock' = fileLock /\ opened' = opened /\ fileSize' = fileSize
    /\ firstWrite' = firstWrite /\ fileNumber' = fileNumber /\ restarts' = restarts /\ failed' = failed

LEMMA LeaveFiles ==
    ASSUME FileInv, NEW t \in Threads, LeavesFiles(t)
    PROVE  FileInv'
<1>1. FileTypes'
  BY DEF FileInv, FileTypes, LeavesFiles
<1>2. Shared'
  BY DEF FileInv, Shared, LeavesFiles, Limit, Titled
<1>3. (\A u \in Threads : pc[u] \in InFile <=> fileLock = u)'
  BY DEF FileInv, LeavesFiles
<1>4. Relies(t)'
  BY DEF LeavesFiles, Relies, InFile
<1>5. ASSUME NEW u \in Threads, u # t PROVE Relies(u)'
  BY <1>5 DEF FileInv, LeavesFiles, Relies, Limit
<1>6. QED
  BY <1>1, <1>2, <1>3, <1>4, <1>5 DEF FileInv

\* A step of the thread that has the mutex or takes it.
MovesInFile(t) ==
    /\ \A u \in Threads : u # t => pc[u] \notin InFile /\ pc'[u] = pc[u] /\ rec'[u] = rec[u]
    /\ \/ pc'[t] \in InFile /\ fileLock' = t
       \/ pc'[t] \notin InFile /\ fileLock' = NoThread

LEMMA MoveInFile ==
    ASSUME FileInv, NEW t \in Threads, MovesInFile(t), FileTypes', Shared', Relies(t)'
    PROVE  FileInv'
<1>1. (\A u \in Threads : pc[u] \in InFile <=> fileLock = u)'
  BY LoggingAssumption DEF MovesInFile
<1>2. ASSUME NEW u \in Threads, u # t PROVE Relies(u)'
  BY <1>2 DEF FileInv, MovesInFile, Relies, InFile
<1>3. QED
  BY <1>1, <1>2 DEF FileInv

\* What the actions on files have in common: the mutex is held and the rest of
\* the thread's state stays.
LEMMA FileMoves ==
    ASSUME FileInv, NEW t \in Threads, NEW l \in InFile, pc[t] \in InFile, Stay(t, l), fileLock' = fileLock
    PROVE  /\ MovesInFile(t) /\ pc'[t] = l /\ rec'[t] = rec[t] /\ rec[t] > 0
           /\ pc' \in [Threads -> Places] /\ rec' \in [Threads -> Nat] /\ clock' \in Nat
<1> pc \in [Threads -> Places] /\ rec \in [Threads -> Nat] /\ clock \in Nat
  BY DEF FileInv, FileTypes
<1>1. l \in Places
  BY DEF InFile, Places, Outside
<1>2. pc' = [pc EXCEPT ![t] = l] /\ rec' = rec /\ clock' = clock
  BY DEF Stay, Go
<1>3. fileLock = t /\ \A u \in Threads : u # t => pc[u] \notin InFile
  BY DEF FileInv
<1>4. rec[t] > 0
  BY DEF FileInv, Relies, InFile
<1>5. QED
  BY <1>1, <1>2, <1>3, <1>4 DEF MovesInFile

LEMMA NumbersZero == 0 \in Numbers /\ (MaxFiles > 0 => Numbers = 0 .. MaxFiles - 1)
BY LoggingAssumption DEF Numbers

LEMMA LimitType == FileTypes => Limit \in Nat /\ Limit >= 1 /\ failed[0] \in Nat
BY LoggingAssumption, NumbersZero DEF Limit, FileTypes

LEMMA LockFileKeeps ==
    ASSUME FileInv, NEW t \in Threads, LockFile(t)
    PROVE  FileInv'
<1> DEFINE l == IF firstWrite THEN "open" ELSE IF TooLarge THEN "unlink" ELSE "write"
<1>1. /\ pc[t] = "dispatch" /\ fileLock = NoThread /\ fileLock' = t /\ pc' = [pc EXCEPT ![t] = l]
      /\ rec' = rec /\ clock' = clock /\ files' = files /\ opened' = opened /\ fileSize' = fileSize
      /\ firstWrite' = firstWrite /\ fileNumber' = fileNumber /\ restarts' = restarts /\ failed' = failed
  BY DEF LockFile, Turn, Stay, Go, appenderVars
<1>2. l \in InFile /\ l \in Places /\ l # "rename" /\ l # "header" /\ l # "idle"
  BY DEF InFile, Places, Outside
<1>3. FileTypes'
  BY <1>1, <1>2 DEF FileInv, FileTypes
<1>4. pc'[t] = l /\ \A u \in Threads : u # t => pc'[u] = pc[u]
  BY <1>1 DEF FileInv, FileTypes
<1>5. MovesInFile(t)
  BY <1>1, <1>2, <1>4, LoggingAssumption DEF FileInv, MovesInFile
<1>6. Shared'
  BY <1>1 DEF FileInv, Shared, Limit, Titled
<1>7. rec[t] > 0
  BY <1>1 DEF FileInv, Relies
<1>8. l = "unlink" => MaxFiles > 0
  BY DEF TooLarge
<1>9. l = "open" /\ MaxFiles > 0 => Len(files[0]) <= Limit
  BY NumbersZero DEF FileInv, Shared
<1>10. l = "write" /\ opened /\ MaxFiles > 0 => Len(files[0]) <= Limit
  <2> SUFFICES ASSUME l = "write", opened, MaxFiles > 0 PROVE Len(files[0]) <= Limit
    OBVIOUS
  <2>1. ~TooLarge /\ fileSize = Len(files[0]) /\ files[0] \in Seq(Int)
    BY NumbersZero DEF FileInv, Shared, FileTypes
  <2>2. Len(files[0]) \in Nat /\ MaxFileSize \in Nat /\ restarts \in Nat /\ failed[0] \in Nat
    BY <2>1, LoggingAssumption, LimitType DEF FileInv, FileTypes
  <2>3. QED
    BY <2>1, <2>2 DEF TooLarge, Limit
<1>11. Relies(t)'
  <2> HIDE DEF l
  <2> QED
    BY <1>1, <1>2, <1>4, <1>7, <1>8, <1>9, <1>10 DEF Relies, Limit
<1>12. QED
  BY <1>3, <1>5, <1>6, <1>11, MoveInFile

\* Rolling moves files and removes them.
LEMMA RollShared ==
    ASSUME FileInv, ~opened', firstWrite' = firstWrite, Limit' \in Nat, Limit' >= Limit,
           \A n \in Numbers : files'[n] = Absent \/ \E k \in Numbers : files'[n] = files[k]
    PROVE  Shared'
<1>1. Len(Absent) = 1 /\ \A i \in DOMAIN Absent : Absent[i] = -1
  BY DEF Absent
<1>2. Limit >= 1 /\ Limit \in Nat
  BY LimitType DEF FileInv
<1>3. ASSUME NEW n \in Numbers PROVE Titled(files[n])'
  <2>1. CASE files'[n] = Absent
    BY <2>1, <1>1 DEF Titled, HeaderLine
  <2>2. ASSUME NEW k \in Numbers, files'[n] = files[k] PROVE Titled(files[n])'
    BY <2>2 DEF Titled, HeaderLine, FileInv, Shared
  <2>3. QED
    BY <2>1, <2>2
<1>4. ASSUME MaxFiles > 0, NEW n \in Numbers
      PROVE  Len(files'[n]) <= Limit' + 1 /\ (firstWrite => Len(files'[n]) <= Limit')
  <2>1. CASE files'[n] = Absent
    BY <2>1, <1>1, <1>2
  <2>2. ASSUME NEW k \in Numbers, files'[n] = files[k]
        PROVE  Len(files'[n]) <= Limit' + 1 /\ (firstWrite => Len(files'[n]) <= Limit')
    <3>1. /\ Len(files[k]) <= Limit + 1 /\ (firstWrite => Len(files[k]) <= Limit)
          /\ Len(files[k]) \in Nat
      BY <1>4 DEF FileInv, Shared, FileTypes
    <3> HIDE DEF Limit
    <3> QED
      BY <1>2, <2>2, <3>1
  <2>3. QED
    BY <2>1, <2>2
<1>5. QED
  BY <1>3, <1>4 DEF Shared

\* A step of rollLogFiles, whether its call succeeds or fails: the current file is
\* gone in the end, or its move has failed and it may be one longer.
Rolls(t, l) ==
    /\ MaxFiles > 0 /\ pc[t] \in {"unlink", "rename"} /\ l \in {"rename", "open"} /\ Stay(t, l)
    /\ fileLock' = fileLock /\ ~opened' /\ fileSize' = fileSize
    /\ firstWrite' = firstWrite /\ restarts' = restarts
    /\ fileNumber' \in Int /\ (l = "rename" => fileNumber' >= 0 /\ fileNumber' <= MaxFiles - 2)
    /\ files' \in [Numbers -> Seq(Int)]
    /\ \A n \in Numbers : files'[n] = Absent \/ \E k \in Numbers : files'[n] = files[k]
    /\ failed' \in [Numbers -> Nat] /\ failed'[0] >= failed[0]
    /\ l = "open" => files'[0] = Absent \/ (files'[0] = files[0] /\ failed'[0] = failed[0] + 1)

LEMMA RollKeeps ==
    ASSUME FileInv, NEW t \in Threads, NEW l, Rolls(t, l)
    PROVE  FileInv'
<1>1. l \in InFile /\ pc[t] \in InFile
  BY DEF Rolls, InFile
<1>2. /\ MovesInFile(t) /\ pc'[t] = l /\ rec'[t] > 0
      /\ pc' \in [Threads -> Places] /\ rec' \in [Threads -> Nat] /\ clock' \in Nat
  BY <1>1, FileMoves DEF Rolls
<1>3. FileTypes'
  BY <1>2 DEF FileTypes, FileInv, Rolls
<1>4. /\ Limit \in Nat /\ Limit >= 1 /\ Limit' \in Nat /\ Limit' >= Limit
      /\ failed'[0] = failed[0] + 1 => Limit' = Limit + 1
  <2>1. restarts \in Nat /\ MaxFileSize \in Nat \ {0} /\ failed[0] \in Nat /\ failed'[0] \in Nat /\ restarts' = restarts
    BY LoggingAssumption, NumbersZero, LimitType DEF FileInv, FileTypes, Rolls
  <2>2. failed'[0] >= failed[0]
    BY DEF Rolls
  <2> QED
    BY <2>1, <2>2 DEF Limit
<1>5. Shared'
  BY <1>4, RollShared DEF Rolls
<1>6. l = "open" => Len(files'[0]) <= Limit'
  <2>1. SUFFICES ASSUME l = "open" PROVE Len(files'[0]) <= Limit'
    OBVIOUS
  <2>2. CASE files'[0] = Absent
    <3>1. Len(files'[0]) = 1
      BY <2>2 DEF Absent
    <3> HIDE DEF Limit
    <3> QED
      BY <1>4, <3>1
  <2>3. CASE files'[0] = files[0] /\ failed'[0] = failed[0] + 1
    <3>1. Len(files[0]) <= Limit + 1
      BY NumbersZero DEF FileInv, Shared, Rolls
    <3> HIDE DEF Limit
    <3> QED
      BY <1>4, <2>3, <3>1
  <2> QED
    BY <2>1, <2>2, <2>3 DEF Rolls
<1>7. l \in {"rename", "open"} /\ ~opened' /\ (l = "rename" => fileNumber' >= 0 /\ fileNumber' <= MaxFiles - 2)
  BY DEF Rolls
<1>8. Relies(t)'
  BY <1>2, <1>6, <1>7 DEF Relies
<1> QED
  BY <1>2, <1>3, <1>5, <1>8, MoveInFile

LEMMA FailsFacts ==
    ASSUME FileInv, NEW n \in Numbers, Fails(n)
    PROVE  /\ files' = files /\ failed' \in [Numbers -> Nat] /\ failed'[n] = failed[n] + 1
           /\ \A k \in Numbers : k # n => failed'[k] = failed[k]
           /\ \A k \in Numbers : failed[k] \in Nat /\ failed'[k] >= failed[k]
BY DEF Fails, FileInv, FileTypes

LEMMA UnlinkLastKeeps ==
    ASSUME FileInv, NEW t \in Threads, UnlinkLast(t)
    PROVE  FileInv'
<1>1. PICK l : l = IF MaxFiles - 2 >= 0 THEN "rename" ELSE "open"
  OBVIOUS
<1>2. /\ pc[t] = "unlink" /\ fileLock' = fileLock /\ Stay(t, l) /\ ~opened' /\ fileSize' = fileSize
      /\ firstWrite' = firstWrite /\ fileNumber' = MaxFiles - 2 /\ restarts' = restarts
      /\ \/ files' = [files EXCEPT ![MaxFiles - 1] = Absent] /\ failed' = failed
         \/ Fails(MaxFiles - 1)
  BY <1>1 DEF UnlinkLast
<1>3. MaxFiles > 0 /\ MaxFiles \in Nat /\ (l = "open" => MaxFiles - 1 = 0) /\ l \in {"rename", "open"}
  BY <1>1, <1>2, LoggingAssumption DEF FileInv, Relies
<1>4. /\ files \in [Numbers -> Seq(Int)] /\ MaxFiles - 1 \in Numbers /\ 0 \in Numbers
      /\ failed \in [Numbers -> Nat] /\ failed[0] \in Nat
  BY <1>3, NumbersZero DEF FileInv, FileTypes
<1>5. Absent \in Seq(Int)
  BY DEF Absent
<1>6. CASE files' = [files EXCEPT ![MaxFiles - 1] = Absent] /\ failed' = failed
  <2>1. /\ files' \in [Numbers -> Seq(Int)] /\ files'[MaxFiles - 1] = Absent
        /\ \A n \in Numbers : files'[n] = Absent \/ \E k \in Numbers : files'[n] = files[k]
    BY <1>4, <1>5, <1>6
  <2>2. l = "open" => files'[0] = Absent
    BY <1>3, <2>1
  <2>3. Rolls(t, l)
    BY <1>1, <1>2, <1>3, <1>4, <1>6, <2>1, <2>2 DEF Rolls
  <2> QED
    BY <2>3, RollKeeps
<1>7. CASE Fails(MaxFiles - 1)
  <2>1. /\ files' = files /\ failed' \in [Numbers -> Nat] /\ failed'[MaxFiles - 1] = failed[MaxFiles - 1] + 1
        /\ failed'[0] >= failed[0]
    BY <1>4, <1>7, FailsFacts
  <2>2. Rolls(t, l)
    BY <1>1, <1>2, <1>3, <1>4, <2>1 DEF Rolls
  <2> QED
    BY <2>2, RollKeeps
<1> QED
  BY <1>2, <1>6, <1>7

LEMMA RenamedFacts ==
    ASSUME files \in [Numbers -> Seq(Int)], NEW k \in Numbers, k + 1 \in Numbers, files' = Renamed(k)
    PROVE  /\ files' \in [Numbers -> Seq(Int)] /\ files'[k] = Absent
           /\ \A n \in Numbers : files'[n] = Absent \/ \E i \in Numbers : files'[n] = files[i]
           /\ files[k] # Absent =>
                 \A n \in Numbers : files'[n] = IF n = k THEN Absent ELSE IF n = k + 1 THEN files[k] ELSE files[n]
           /\ files[k] = Absent => files' = files
<1>1. k # k + 1
  BY DEF Numbers
<1>2. Absent \in Seq(Int)
  BY DEF Absent
<1>3. CASE files[k] = Absent
  BY <1>3 DEF Renamed
<1>4. CASE files[k] # Absent
  <2>1. files' = [[files EXCEPT ![k] = Absent] EXCEPT ![k + 1] = files[k]]
    BY <1>4 DEF Renamed
  <2> QED
    BY <1>1, <1>2, <1>4, <2>1
<1> QED
  BY <1>3, <1>4

LEMMA RenameOneKeeps ==
    ASSUME FileInv, NEW t \in Threads, RenameOne(t)
    PROVE  FileInv'
<1>1. PICK l : l = IF fileNumber > 0 THEN "rename" ELSE "open"
  OBVIOUS
<1>2. /\ pc[t] = "rename" /\ fileLock' = fileLock /\ Stay(t, l) /\ opened' = opened /\ fileSize' = fileSize
      /\ firstWrite' = firstWrite /\ fileNumber' = fileNumber - 1 /\ restarts' = restarts
      /\ \/ files' = Renamed(fileNumber) /\ failed' = failed
         \/ Fails(fileNumber)
  BY <1>1 DEF RenameOne
<1>3. /\ ~opened /\ fileNumber >= 0 /\ fileNumber <= MaxFiles - 2 /\ fileNumber \in Int
      /\ MaxFiles \in Nat /\ MaxFiles > 0
  BY <1>2, LoggingAssumption DEF FileInv, Relies, FileTypes
<1>4. /\ files \in [Numbers -> Seq(Int)] /\ fileNumber \in Numbers /\ fileNumber + 1 \in Numbers /\ 0 \in Numbers
      /\ failed \in [Numbers -> Nat] /\ failed[0] \in Nat
  BY <1>3, NumbersZero DEF FileInv, FileTypes
<1>5. /\ l \in {"rename", "open"} /\ (l = "open" => fileNumber = 0) /\ fileNumber' \in Int
      /\ l = "rename" => fileNumber' >= 0 /\ fileNumber' <= MaxFiles - 2
  BY <1>1, <1>2, <1>3
<1>6. CASE files' = Renamed(fileNumber) /\ failed' = failed
  <2>1. /\ files' \in [Numbers -> Seq(Int)] /\ files'[fileNumber] = Absent
        /\ \A n \in Numbers : files'[n] = Absent \/ \E k \in Numbers : files'[n] = files[k]
    BY <1>4, <1>6, RenamedFacts
  <2>2. Rolls(t, l)
    BY <1>2, <1>3, <1>4, <1>5, <1>6, <2>1 DEF Rolls
  <2> QED
    BY <2>2, RollKeeps
<1>7. CASE Fails(fileNumber)
  <2>1. /\ files' = files /\ failed' \in [Numbers -> Nat] /\ failed'[fileNumber] = failed[fileNumber] + 1
        /\ failed'[0] >= failed[0]
    BY <1>4, <1>7, FailsFacts
  <2>2. Rolls(t, l)
    BY <1>2, <1>3, <1>4, <1>5, <2>1 DEF Rolls
  <2> QED
    BY <2>2, RollKeeps
<1> QED
  BY <1>2, <1>6, <1>7

\* The current file becomes f.
CurrentBecomes(f) ==
    /\ files' = [files EXCEPT ![0] = f] /\ restarts' = restarts /\ failed' = failed /\ ~firstWrite'
    /\ opened' => fileSize' = Len(f)
    /\ \A i \in DOMAIN f : f[i] = HeaderLine => i = 1
    /\ MaxFiles > 0 => Len(f) <= Limit + 1

LEMMA CurrentShared ==
    ASSUME FileInv, NEW f \in Seq(Int), CurrentBecomes(f)
    PROVE  /\ Shared' /\ files' \in [Numbers -> Seq(Int)] /\ files'[0] = f /\ Limit' = Limit
           /\ restarts' \in Nat /\ failed' \in [Numbers -> Nat]
<1>1. files' \in [Numbers -> Seq(Int)] /\ files'[0] = f /\ \A n \in Numbers : n # 0 => files'[n] = files[n]
  BY NumbersZero DEF CurrentBecomes, FileInv, FileTypes
<1>2. Limit' = Limit /\ restarts' \in Nat /\ failed' \in [Numbers -> Nat] /\ ~firstWrite'
  BY DEF CurrentBecomes, Limit, FileInv, FileTypes
<1>3. ASSUME NEW n \in Numbers PROVE Titled(files[n])'
  <2>1. CASE n = 0
    BY <1>1, <2>1 DEF Titled, HeaderLine, CurrentBecomes
  <2>2. CASE n # 0
    BY <1>1, <2>2 DEF Titled, HeaderLine, FileInv, Shared
  <2>3. QED
    BY <2>1, <2>2
<1>4. ASSUME MaxFiles > 0, NEW n \in Numbers PROVE Len(files'[n]) <= Limit + 1
  <2>1. CASE n = 0
    BY <1>1, <1>4, <2>1 DEF CurrentBecomes
  <2>2. CASE n # 0
    BY <1>1, <1>4, <2>2 DEF FileInv, Shared
  <2>3. QED
    BY <2>1, <2>2
<1>5. opened' => fileSize' = Len(files'[0])
  BY <1>1 DEF CurrentBecomes
<1>6. QED
  BY <1>1, <1>2, <1>3, <1>4, <1>5 DEF Shared

LEMMA OpenLogFileKeeps ==
    ASSUME FileInv, NEW t \in Threads, OpenLogFile(t)
    PROVE  FileInv'
<1> DEFINE there == IF files[0] = Absent THEN <<>> ELSE files[0]
<1>1. /\ pc[t] = "open" /\ fileLock' = fileLock /\ ~firstWrite'
      /\ fileNumber' = fileNumber /\ restarts' = restarts /\ failed' = failed
  BY DEF OpenLogFile
<1>2. PICK l \in {"header", "write"} :
         /\ Stay(t, l)
         /\ \/ /\ opened' /\ files' = [files EXCEPT ![0] = there] /\ fileSize' = Len(there)
               /\ l = "header" => there = <<>>
            \/ ~opened' /\ fileSize' = -1 /\ l = "write" /\ files' = files
  BY DEF OpenLogFile
<1>3. /\ MovesInFile(t) /\ pc'[t] = l /\ rec'[t] > 0
      /\ pc' \in [Threads -> Places] /\ rec' \in [Threads -> Nat] /\ clock' \in Nat
  BY <1>1, <1>2, FileMoves DEF InFile
<1>4. /\ MaxFiles > 0 => Len(files[0]) <= Limit
      /\ Limit \in Nat /\ Limit >= 1 /\ restarts \in Nat /\ failed \in [Numbers -> Nat] /\ fileNumber \in Int
      /\ files \in [Numbers -> Seq(Int)] /\ files[0] \in Seq(Int)
  BY <1>1, LimitType, NumbersZero DEF FileInv, Relies, FileTypes
<1>5. CASE opened' /\ files' = [files EXCEPT ![0] = there] /\ fileSize' = Len(there) /\ (l = "header" => there = <<>>)
  <2>1. there \in Seq(Int) /\ Len(there) \in Nat
    BY <1>4
  <2>2. MaxFiles > 0 => Len(there) <= Limit
    BY <1>4
  <2>3. \A i \in DOMAIN there : there[i] = HeaderLine => i = 1
    BY <1>4, NumbersZero DEF FileInv, Shared, Titled
  <2> HIDE DEF there
  <2>5. CurrentBecomes(there)
    BY <1>1, <1>4, <1>5, <2>1, <2>2, <2>3 DEF CurrentBecomes
  <2>6. /\ Shared' /\ files' \in [Numbers -> Seq(Int)] /\ files'[0] = there /\ Limit' = Limit
        /\ restarts' \in Nat /\ failed' \in [Numbers -> Nat]
    BY <2>1, <2>5, CurrentShared
  <2>7. FileTypes'
    <3>1. fileSize' \in Int /\ fileNumber' \in Int
      BY <1>1, <1>4, <1>5, <2>1
    <3> QED
      BY <1>3, <2>6, <3>1, Zenon DEF FileTypes
  <2>8. Relies(t)'
    BY <1>2, <1>3, <1>5, <2>2, <2>6 DEF Relies
  <2>9. QED
    BY <1>3, <2>6, <2>7, <2>8, MoveInFile
<1> HIDE DEF there
<1>6. CASE ~opened' /\ fileSize' = -1 /\ l = "write" /\ files' = files
  <2>1. FileTypes'
    <3>1. fileSize' \in Int
      BY <1>6
    <3> QED
      BY <1>1, <1>3, <1>4, <1>6, <3>1, Zenon DEF FileTypes
  <2>2. Shared'
    <3>1. Limit' = Limit
      BY <1>1, Zenon DEF Limit
    <3> QED
      BY <1>1, <1>6, <3>1, Zenon DEF FileInv, Shared, Titled, HeaderLine
  <2>3. Relies(t)'
    BY <1>3, <1>6 DEF Relies
  <2>4. QED
    BY <1>3, <2>1, <2>2, <2>3, MoveInFile
<1>7. QED
  BY <1>2, <1>5, <1>6

LEMMA WriteHeaderKeeps ==
    ASSUME FileInv, NEW t \in Threads, WriteHeader(t)
    PROVE  FileInv'
<1>1. /\ pc[t] = "header" /\ fileLock' = fileLock /\ Stay(t, "write") /\ opened' = opened
      /\ firstWrite' = firstWrite /\ fileNumber' = fileNumber /\ restarts' = restarts /\ failed' = failed
      /\ \/ files' = [files EXCEPT ![0] = Append(files[0], HeaderLine)] /\ fileSize' = fileSize + 1
         \/ files' = files /\ fileSize' = fileSize
  BY NumbersZero DEF WriteHeader
<1>2. /\ MovesInFile(t) /\ pc'[t] = "write" /\ rec'[t] > 0
      /\ pc' \in [Threads -> Places] /\ rec' \in [Threads -> Nat] /\ clock' \in Nat
  BY <1>1, FileMoves DEF InFile
<1>3. /\ opened /\ ~firstWrite /\ fileSize = 0 /\ files[0] = <<>>
      /\ restarts \in Nat /\ fileNumber \in Int
  <2>1. opened /\ files[0] = <<>>
    BY <1>1, Zenon DEF FileInv, Relies
  <2>2. ~firstWrite /\ fileSize = Len(files[0])
    BY <2>1, Zenon DEF FileInv, Shared
  <2>3. restarts \in Nat /\ fileNumber \in Int
    BY Zenon DEF FileInv, FileTypes
  <2> QED
    BY <2>1, <2>2, <2>3
<1>4. Limit \in Nat /\ Limit >= 1
  BY LimitType DEF FileInv
<1>5. CASE files' = [files EXCEPT ![0] = Append(files[0], HeaderLine)] /\ fileSize' = fileSize + 1
  <2> DEFINE f == Append(files[0], HeaderLine)
  <2>1. f \in Seq(Int) /\ Len(f) = 1
    BY <1>3 DEF HeaderLine
  <2>2. \A i \in DOMAIN f : i = 1
    BY <2>1
  <2> HIDE DEF f
  <2>3. CurrentBecomes(f)
    BY <1>1, <1>3, <1>4, <1>5, <2>1, <2>2 DEF CurrentBecomes, f
  <2>4. /\ Shared' /\ files' \in [Numbers -> Seq(Int)] /\ files'[0] = f /\ Limit' = Limit
        /\ restarts' \in Nat /\ failed' \in [Numbers -> Nat]
    BY <2>1, <2>3, CurrentShared
  <2>5. FileTypes'
    BY <1>1, <1>2, <1>3, <1>5, <2>4 DEF FileTypes
  <2>6. Relies(t)'
    BY <1>2, <1>4, <2>1, <2>4 DEF Relies
  <2>7. QED
    BY <1>2, <2>4, <2>5, <2>6, MoveInFile
<1>6. CASE files' = files /\ fileSize' = fileSize
  <2>1. FileTypes'
    BY <1>1, <1>2, <1>3, <1>6 DEF FileInv, FileTypes
  <2>2. Shared'
    BY <1>1, <1>6 DEF FileInv, Shared, Titled, HeaderLine, Limit
  <2>3. Relies(t)'
    BY <1>1, <1>2, <1>3, <1>4, <1>6 DEF Relies, Limit
  <2>4. QED
    BY <1>2, <2>1, <2>2, <2>3, MoveInFile
<1>7. QED
  BY <1>1, <1>5, <1>6

LEMMA WriteRecordKeeps ==
    ASSUME FileInv, NEW t \in Threads, WriteRecord(t)
    PROVE  FileInv'
<1>1. /\ pc[t] = "write" /\ fileLock' = NoThread /\ pc' = [pc EXCEPT ![t] = "dispatch"] /\ rec' = rec
      /\ clock' = clock /\ opened' = opened /\ firstWrite' = firstWrite /\ fileNumber' = fileNumber
      /\ restarts' = restarts /\ failed' = failed
      /\ \/ opened /\ files' = [files EXCEPT ![0] = Append(files[0], rec[t])] /\ fileSize' = fileSize + 1
         \/ files' = files /\ fileSize' = fileSize
  BY DEF WriteRecord, NextAppender, Go
<1>2. /\ pc \in [Threads -> Places] /\ rec \in [Threads -> Nat] /\ clock \in Nat
      /\ files[0] \in Seq(Int) /\ rec[t] > 0 /\ fileNumber \in Int /\ fileSize \in Int
      /\ Limit \in Nat
  BY <1>1, NumbersZero, LimitType DEF FileInv, FileTypes, Relies
<1>3. /\ pc'[t] = "dispatch" /\ pc' \in [Threads -> Places]
      /\ \A u \in Threads : u # t => pc'[u] = pc[u]
  BY <1>1, <1>2 DEF Places, Outside
<1>4. MovesInFile(t)
  <2>1. \A u \in Threads : u # t => pc[u] \notin InFile
    BY <1>1 DEF FileInv, InFile
  <2>2. QED
    BY <1>1, <1>3, <2>1 DEF MovesInFile, InFile
<1>5. Relies(t)'
  BY <1>1, <1>2, <1>3 DEF Relies
<1>6. CASE opened /\ files' = [files EXCEPT ![0] = Append(files[0], rec[t])] /\ fileSize' = fileSize + 1
  <2> DEFINE f == Append(files[0], rec[t])
  <2>1. /\ f \in Seq(Int) /\ Len(f) = Len(files[0]) + 1 /\ f[Len(files[0]) + 1] = rec[t] /\ Len(files[0]) \in Nat
        /\ \A i \in 1 .. Len(files[0]) : f[i] = files[0][i]
    BY <1>2
  <2>2. \A i \in DOMAIN f : f[i] = HeaderLine => i = 1
    <3>1. DOMAIN f = 1 .. Len(files[0]) + 1 /\ DOMAIN files[0] = 1 .. Len(files[0])
      BY <1>2, <2>1
    <3>2. \A i \in DOMAIN files[0] : files[0][i] = 0 => i = 1
      BY NumbersZero DEF FileInv, Shared, Titled, HeaderLine
    <3> HIDE DEF f
    <3>3. rec[t] # 0
      BY <1>2
    <3>4. ASSUME NEW i \in 1 .. Len(files[0]) + 1, f[i] = 0 PROVE i = 1
      <4>1. CASE i \in 1 .. Len(files[0])
        BY <3>1, <3>2, <3>4, <4>1, <2>1
      <4>2. CASE i = Len(files[0]) + 1
        BY <3>3, <3>4, <4>2, <2>1
      <4>3. QED
        BY <4>1, <4>2, <2>1
    <3>5. QED
      BY <3>1, <3>4 DEF HeaderLine
  <2>3. MaxFiles > 0 => Len(files[0]) <= Limit
    BY <1>1, <1>6 DEF FileInv, Relies
  <2>4. ~firstWrite /\ fileSize = Len(files[0]) /\ Limit \in Nat
    BY <1>2, <1>6 DEF FileInv, Shared
  <2> HIDE DEF f
  <2>5. files' = [files EXCEPT ![0] = f]
    BY <1>6 DEF f
  <2>6. CurrentBecomes(f)
    <3>1. fileSize' = Len(f) /\ (MaxFiles > 0 => Len(f) <= Limit + 1)
      BY <1>6, <2>1, <2>3, <2>4
    <3>2. QED
      BY <1>1, <2>2, <2>4, <2>5, <3>1 DEF CurrentBecomes
  <2>7. Shared' /\ files' \in [Numbers -> Seq(Int)] /\ restarts' \in Nat /\ failed' \in [Numbers -> Nat]
    BY <2>1, <2>6, CurrentShared
  <2>8. FileTypes'
    BY <1>1, <1>2, <1>3, <1>6, <2>7 DEF FileTypes
  <2>9. QED
    BY <1>4, <1>5, <2>7, <2>8, MoveInFile
<1>7. CASE files' = files /\ fileSize' = fileSize
  <2>1. FileTypes'
    BY <1>1, <1>3, <1>7 DEF FileInv, FileTypes
  <2>2. Shared'
    BY <1>1, <1>7 DEF FileInv, Shared, Titled, HeaderLine, Limit
  <2>3. QED
    BY <1>4, <1>5, <2>1, <2>2, MoveInFile
<1>8. QED
  BY <1>1, <1>6, <1>7

LEMMA FileInit == LogInit => FileInv
<1> SUFFICES ASSUME LogInit PROVE FileInv
  OBVIOUS
<1>1. Absent \in Seq(Int) /\ Len(Absent) = 1 /\ \A i \in DOMAIN Absent : Absent[i] = -1
  BY DEF Absent
<1>2. FileTypes
  BY <1>1 DEF LogInit, FileTypes, Places, Outside
<1>3. ASSUME NEW n \in Numbers PROVE files[n] = Absent
  BY DEF LogInit
<1>4. Shared
  <2>1. Limit \in Nat /\ Limit >= 1
    BY <1>2, LimitType
  <2>2. ~opened
    BY DEF LogInit
  <2>3. ASSUME NEW n \in Numbers PROVE Titled(files[n]) 
    BY <1>1, <1>3 DEF Titled, HeaderLine
  <2>4. ASSUME NEW n \in Numbers PROVE Len(files[n]) <= Limit
    BY <1>1, <1>3, <2>1
  <2>5. QED
    BY <1>1, <1>3, <2>1, <2>2, <2>3, <2>4 DEF Shared
<1>5. \A t \in Threads : pc[t] = "idle" /\ fileLock # t
  BY LoggingAssumption DEF LogInit
<1>6. QED
  BY <1>2, <1>4, <1>5 DEF FileInv, InFile, Relies

LEMMA CrashKeeps == ASSUME FileInv, Crash PROVE FileInv'
<1>1. FileTypes'
  BY DEF Crash, FileInv, FileTypes, Places, Outside
<1>2. Limit' = Limit + 1 /\ Limit \in Nat
  <2>1. restarts' = restarts + 1 /\ failed' = failed
    BY DEF Crash
  <2>2. MaxFileSize \in Nat /\ restarts \in Nat /\ failed[0] \in Nat
    BY LoggingAssumption, LimitType DEF FileInv, FileTypes
  <2> QED
    BY <2>1, <2>2 DEF Limit
<1>3. Shared'
  <2>1. files' = files /\ ~opened'
    BY DEF Crash
  <2>2. (\A n \in Numbers : Titled(files[n]))'
    BY <2>1 DEF FileInv, Shared, Titled, HeaderLine
  <2>3. ASSUME MaxFiles > 0, NEW n \in Numbers PROVE Len(files[n]) <= Limit + 1 /\ Len(files[n]) \in Nat
    BY <2>3 DEF FileInv, FileTypes, Shared
  <2>4. QED
    BY <1>2, <2>1, <2>2, <2>3 DEF Shared
<1>4. \A t \in Threads : pc'[t] = "idle" /\ fileLock' # t
  BY LoggingAssumption DEF Crash
<1>5. QED
  BY <1>1, <1>3, <1>4 DEF FileInv, InFile, Relies

LEMMA FileStep == FileInv /\ [LogNext]_logVars => FileInv'
<1> SUFFICES ASSUME FileInv, [LogNext]_logVars PROVE FileInv'
  OBVIOUS
<1>1. ASSUME UNCHANGED logVars PROVE FileInv'
  BY <1>1 DEF FileInv, FileTypes, Shared, Relies, Titled, HeaderLine, Limit, logVars
<1>2. ASSUME NEW t \in Threads, Step(t) PROVE FileInv'
  <2> pc \in [Threads -> Places] /\ rec \in [Threads -> Nat] /\ clock \in Nat
    BY DEF FileInv, FileTypes
  <2>1. CASE Log(t)
    <3>1. LeavesFiles(t)
      BY <2>1 DEF Log, Go, LeavesFiles, InFile, Places, Outside, fileVars
    <3>2. QED
      BY <3>1, LeaveFiles
  <2>2. ASSUME ReturnLog(t) \/ LockConsole(t) \/ SetColor(t) \/ WriteStr(t) \/ ResetColor(t) PROVE FileInv'
    <3>1. /\ rec' = rec /\ clock' = clock /\ restarts' = restarts /\ fileVars' = fileVars
          /\ pc[t] \in {"dispatch", "color", "text", "reset"}
      BY <2>2 DEF ReturnLog, LockConsole, Turn, SetColor, WriteStr, ResetColor, Stay, NextAppender, fileVars
    <3>2. \E l \in {"idle", "dispatch", "color", "text", "reset"} : pc' = [pc EXCEPT ![t] = l]
      BY <2>2 DEF ReturnLog, LockConsole, SetColor, WriteStr, ResetColor, Stay, NextAppender, Go
    <3>3. rec[t] > 0
      BY <3>1 DEF FileInv, Relies
    <3>4. LeavesFiles(t)
      BY <3>1, <3>2, <3>3 DEF LeavesFiles, InFile, Places, Outside, Inside, fileVars
    <3>5. QED
      BY <3>4, LeaveFiles
  <2>3. QED
    BY <1>2, <2>1, <2>2, LockFileKeeps, UnlinkLastKeeps, RenameOneKeeps, OpenLogFileKeeps, WriteHeaderKeeps,
       WriteRecordKeeps DEF Step
<1>3. QED
  BY <1>1, <1>2, CrashKeeps DEF LogNext

\* No file exceeds the limit by more than a record, one for every restart and one
\* for every time the current file could not be moved, for any limit, number of
\* files, threads and crashes, whichever calls fail (RollingFileAppender).
THEOREM FilesBoundedAlways == LogSpec => []FilesBounded
<1>1. FileInv => FilesBounded
  <2> SUFFICES ASSUME FileInv, MaxFiles > 0, NEW n \in Numbers
               PROVE  Len(files[n]) <= MaxFileSize + 1 + restarts + failed[0]
    BY DEF FilesBounded
  <2>1. Len(files[n]) <= Limit + 1
    BY DEF FileInv, Shared
  <2>2. MaxFileSize \in Nat /\ restarts \in Nat /\ failed[0] \in Nat
    BY LoggingAssumption, LimitType DEF FileInv, FileTypes
  <2> QED
    BY <2>1, <2>2 DEF Limit
<1>2. QED
  BY <1>1, FileInit, FileStep, PTL DEF LogSpec

\* A header is only ever the first line of a file (openLogFile).
THEOREM HeadersFirstAlways == LogSpec => []HeadersFirst
<1>1. FileInv => HeadersFirst
  BY DEF FileInv, Shared, HeadersFirst, Titled
<1>2. QED
  BY <1>1, FileInit, FileStep, PTL DEF LogSpec

-----------------------------------------------------------------------------
(* The records in the files *)

\* The records of a file are those written from the a-th on to the b-th.
Piece(f, a, b) == a <= b /\ Records(f) = SubSeq(written, a + 1, b)

\* The records of file n are those after the first b[n], up to the u[n]-th.
Kept(b, u) ==
    /\ b \in [Numbers -> 0 .. Len(written)] /\ u \in [Numbers -> 0 .. Len(written)]
    /\ u[0] = Len(written)
    /\ \A n \in Numbers : Piece(files[n], b[n], u[n])
    /\ \A n \in Numbers \ {0} : u[n] <= b[n - 1]
    /\ Undisturbed => \A n \in Numbers \ {0} : u[n] = b[n - 1]

\* What is lost with file n leaves no gap.
Free(n) == Undisturbed => files[n] = Absent \/ n = MaxFiles - 1

\* A file that is open is there, and a file is moved to a place that is free.
KeptInv ==
    /\ written \in Seq(Int)
    /\ opened => files[0] # Absent
    /\ \A t \in Threads : pc[t] = "rename" => Free(fileNumber + 1)
    /\ \E b, u : Kept(b, u)

\* The pieces of a sequence.
LEMMA PieceFacts ==
  ASSUME NEW w \in Seq(Int), NEW a \in 0 .. Len(w), NEW b \in 0 .. Len(w), a <= b
  PROVE  /\ SubSeq(w, a + 1, b) \in Seq(Int) /\ Len(SubSeq(w, a + 1, b)) = b - a
         /\ \A i \in 1 .. b - a : SubSeq(w, a + 1, b)[i] = w[a + i]
<1>1. SubSeq(w, a + 1, b) \in Seq(Int)
  OBVIOUS
<1>2. Len(SubSeq(w, a + 1, b)) = b - a
  OBVIOUS
<1>3. \A i \in 1 .. b - a : SubSeq(w, a + 1, b)[i] = w[a + i]
  BY SMTT(20)
<1> QED
  BY <1>1, <1>2, <1>3

LEMMA SameSequence ==
  ASSUME NEW s \in Seq(Int), NEW t \in Seq(Int), Len(s) = Len(t), \A i \in 1 .. Len(s) : s[i] = t[i]
  PROVE  s = t
  BY SMTT(30)

LEMMA AppendFacts ==
  ASSUME NEW s \in Seq(Int), NEW r \in Int
  PROVE  /\ Append(s, r) \in Seq(Int) /\ Len(Append(s, r)) = Len(s) + 1 /\ Len(s) \in Nat
         /\ Append(s, r) # <<>> /\ Append(s, r)[Len(s) + 1] = r
         /\ \A i \in 1 .. Len(s) : Append(s, r)[i] = s[i]
  OBVIOUS

LEMMA KeptIsNewest == KeptInv => NewestKept
<1> SUFFICES ASSUME KeptInv PROVE NewestKept
  OBVIOUS
<1>1. PICK b, u : Kept(b, u)
  BY Zenon DEF KeptInv
<1>2. /\ b \in [Numbers -> 0 .. Len(written)] /\ u \in [Numbers -> 0 .. Len(written)] /\ u[0] = Len(written)
      /\ \A n \in Numbers \ {0} : u[n] <= b[n - 1]
      /\ Undisturbed => \A n \in Numbers \ {0} : u[n] = b[n - 1]
  BY <1>1, Zenon DEF Kept
<1>3. ASSUME NEW n \in Numbers
      PROVE  /\ b[n] + Len(Records(files[n])) = u[n]
             /\ Records(files[n]) = SubSeq(written, b[n] + 1, u[n])
  <2>1. b[n] <= u[n] /\ Records(files[n]) = SubSeq(written, b[n] + 1, u[n])
    BY <1>1, Zenon DEF Kept, Piece
  <2>2. b[n] \in 0 .. Len(written) /\ u[n] \in 0 .. Len(written) /\ written \in Seq(Int)
    BY <1>2, Zenon DEF KeptInv
  <2>3. Len(SubSeq(written, b[n] + 1, u[n])) = u[n] - b[n]
    BY <2>1, <2>2, PieceFacts, Zenon
  <2>4. Len(Records(files[n])) = u[n] - b[n]
    BY <2>1, <2>3, Zenon
  <2>5. b[n] \in Int /\ u[n] \in Int
    BY <2>2
  <2>6. b[n] + (u[n] - b[n]) = u[n]
    BY <2>5
  <2> QED
    BY <2>1, <2>4, <2>6, Zenon
<1>4. b[0] + Len(Records(files[0])) = Len(written)
  BY <1>2, <1>3, NumbersZero, Zenon
<1>5. \A n \in Numbers \ {0} : b[n] + Len(Records(files[n])) = u[n]
  BY <1>3, Zenon
<1>6. \A n \in Numbers \ {0} : b[n] + Len(Records(files[n])) <= b[n - 1]
  BY <1>2, <1>5, Zenon
<1>7. Undisturbed => \A n \in Numbers \ {0} : b[n] + Len(Records(files[n])) = b[n - 1]
  BY <1>2, <1>5, Zenon
<1>8. \A n \in Numbers : Records(files[n]) = SubSeq(written, b[n] + 1, b[n] + Len(Records(files[n])))
  BY <1>3, Zenon
<1> QED
  BY <1>2, <1>4, <1>6, <1>7, <1>8, Zenon DEF NewestKept

LEMMA NoRecords == Records(<<>>) = <<>> /\ Records(Absent) = <<>>
  BY Zenon DEF Records

LEMMA EmptyPiece ==
  ASSUME NEW a \in Int
  PROVE  SubSeq(written, a + 1, a) = <<>>
  OBVIOUS

\* As long as the files keep their records and nothing is written.
LEMMA KeptStill ==
  ASSUME NEW b, NEW u, Kept(b, u), written' = written, Undisturbed' => Undisturbed,
         \A n \in Numbers : Records(files'[n]) = Records(files[n])
  PROVE  Kept(b, u)'
  BY Zenon DEF Kept, Piece

\* New pieces for the same records.
LEMMA KeptNew ==
  ASSUME written' = written, Undisturbed' => Undisturbed,
         NEW b \in [Numbers -> 0 .. Len(written)], NEW u \in [Numbers -> 0 .. Len(written)],
         u[0] = Len(written),
         \A n \in Numbers : b[n] <= u[n] /\ Records(files'[n]) = SubSeq(written, b[n] + 1, u[n]),
         \A n \in Numbers \ {0} : u[n] <= b[n - 1],
         Undisturbed => \A n \in Numbers \ {0} : u[n] = b[n - 1]
  PROVE  (\E x, y : Kept(x, y))'
<1>1. Kept(b, u)'
  BY Zenon DEF Kept, Piece
<1> QED
  BY <1>1, Zenon

\* The oldest file goes.
LEMMA KeptWithoutLast ==
  ASSUME written' = written, Undisturbed' => Undisturbed, NEW b, NEW u, Kept(b, u),
         NEW m \in Numbers, \A n \in Numbers : n <= m,
         \A n \in Numbers : files'[n] = IF n = m THEN Absent ELSE files[n]
  PROVE  (\E x, y : Kept(x, y))'
<1>1. /\ b \in [Numbers -> 0 .. Len(written)] /\ u \in [Numbers -> 0 .. Len(written)] /\ u[0] = Len(written)
      /\ \A n \in Numbers : Piece(files[n], b[n], u[n])
      /\ \A n \in Numbers \ {0} : u[n] <= b[n - 1]
      /\ Undisturbed => \A n \in Numbers \ {0} : u[n] = b[n - 1]
  BY Zenon DEF Kept
<1>2. PICK c : c = [b EXCEPT ![m] = u[m]]
  OBVIOUS
<1>3. /\ c \in [Numbers -> 0 .. Len(written)] /\ c[m] = u[m]
      /\ \A n \in Numbers : n # m => c[n] = b[n]
  BY <1>1, <1>2, Zenon
<1>4. ASSUME NEW n \in Numbers \ {0} PROVE c[n - 1] = b[n - 1]
  <2>1. n - 1 \in Numbers /\ n - 1 # m
    BY LoggingAssumption DEF Numbers
  <2> QED
    BY <1>3, <2>1, Zenon
<1>5. ASSUME NEW n \in Numbers PROVE c[n] <= u[n] /\ Records(files'[n]) = SubSeq(written, c[n] + 1, u[n])
  <2>1. CASE n = m
    <3>1. c[n] = u[n] /\ Records(files'[n]) = <<>>
      BY <1>3, <2>1, NoRecords, Zenon
    <3>2. u[n] \in Int /\ u[n] <= u[n]
      BY <1>1
    <3>3. SubSeq(written, u[n] + 1, u[n]) = <<>>
      BY <3>2, EmptyPiece, Zenon
    <3> QED
      BY <3>1, <3>2, <3>3, Zenon
  <2>2. CASE n # m
    BY <1>1, <1>3, <2>2, Zenon DEF Piece
  <2> QED
    BY <2>1, <2>2, Zenon
<1>6. /\ \A n \in Numbers \ {0} : u[n] <= c[n - 1]
      /\ Undisturbed => \A n \in Numbers \ {0} : u[n] = c[n - 1]
  BY <1>1, <1>4, Zenon
<1> QED
  BY <1>1, <1>3, <1>5, <1>6, KeptNew, Zenon

\* A file moves up, and replaces the one that is there.
LEMMA KeptMoved ==
  ASSUME written \in Seq(Int), written' = written, Undisturbed' => Undisturbed, NEW b, NEW u, Kept(b, u),
         NEW k \in Numbers, k + 1 \in Numbers, Free(k + 1),
         \A n \in Numbers : files'[n] = IF n = k THEN Absent ELSE IF n = k + 1 THEN files[k] ELSE files[n]
  PROVE  (\E x, y : Kept(x, y))'
<1>1. PICK m : m = k + 1
  OBVIOUS
<1>2. /\ m \in Numbers /\ k \in Int /\ m \in Int /\ k # m /\ m # 0 /\ m - 1 = k /\ Free(m)
      /\ \A n \in Numbers : files'[n] = IF n = k THEN Absent ELSE IF n = m THEN files[k] ELSE files[n]
  BY <1>1 DEF Numbers
<1>3. /\ b \in [Numbers -> 0 .. Len(written)] /\ u \in [Numbers -> 0 .. Len(written)] /\ u[0] = Len(written)
      /\ \A n \in Numbers : Piece(files[n], b[n], u[n])
      /\ \A n \in Numbers \ {0} : u[n] <= b[n - 1]
      /\ Undisturbed => \A n \in Numbers \ {0} : u[n] = b[n - 1]
  BY Zenon DEF Kept
<1>4. PICK c : c = [n \in Numbers |-> IF n = k THEN u[k] ELSE IF n = m THEN b[k] ELSE b[n]]
  OBVIOUS
<1>5. PICK v : v = [n \in Numbers |-> IF n = m THEN u[k] ELSE u[n]]
  OBVIOUS
<1>6. /\ c \in [Numbers -> 0 .. Len(written)] /\ c[k] = u[k] /\ c[m] = b[k]
      /\ \A n \in Numbers : n # k /\ n # m => c[n] = b[n]
  BY <1>2, <1>3, <1>4, Zenon
<1>7. /\ v \in [Numbers -> 0 .. Len(written)] /\ v[m] = u[k] /\ v[k] = u[k] /\ v[0] = u[0]
      /\ \A n \in Numbers : n # m => v[n] = u[n]
  BY <1>2, <1>3, <1>5, NumbersZero, Zenon
<1>8. ASSUME NEW n \in Numbers PROVE c[n] <= v[n] /\ Records(files'[n]) = SubSeq(written, c[n] + 1, v[n])
  <2>1. CASE n = k
    <3>1. c[n] = u[n] /\ v[n] = u[n] /\ Records(files'[n]) = <<>>
      BY <1>2, <1>6, <1>7, <2>1, NoRecords, Zenon
    <3>2. u[n] \in Int /\ u[n] <= u[n]
      BY <1>3
    <3>3. SubSeq(written, u[n] + 1, u[n]) = <<>>
      BY <3>2, EmptyPiece, Zenon
    <3> QED
      BY <3>1, <3>2, <3>3, Zenon
  <2>2. CASE n = m
    BY <1>2, <1>3, <1>6, <1>7, <2>2, Zenon DEF Piece
  <2>3. CASE n # k /\ n # m
    BY <1>2, <1>3, <1>6, <1>7, <2>3, Zenon DEF Piece
  <2> QED
    BY <2>1, <2>2, <2>3, Zenon
<1>9. /\ b[m] <= u[m] /\ u[m] <= b[k] /\ (Undisturbed => u[m] = b[k])
       /\ b[m] \in Int /\ u[m] \in Int /\ b[k] \in Int
  <2>1. m \in Numbers \ {0}
    BY <1>2, Zenon
  <2>2. b[m] <= u[m] /\ u[m] <= b[k] /\ (Undisturbed => u[m] = b[k])
    BY <1>2, <1>3, <2>1, Zenon DEF Piece
  <2>3. b[m] \in 0 .. Len(written) /\ u[m] \in 0 .. Len(written) /\ b[k] \in 0 .. Len(written)
    BY <1>2, <1>3, Zenon
  <2> QED
    BY <2>2, <2>3
<1>10. files[m] = Absent => b[m] = u[m]
  <2>1. SUFFICES ASSUME files[m] = Absent PROVE b[m] = u[m]
    OBVIOUS
  <2>2. SubSeq(written, b[m] + 1, u[m]) = <<>>
    BY <1>2, <1>3, <2>1, NoRecords, Zenon DEF Piece
  <2>3. Len(SubSeq(written, b[m] + 1, u[m])) = u[m] - b[m]
    <3>1. b[m] \in 0 .. Len(written) /\ u[m] \in 0 .. Len(written)
      BY <1>2, <1>3, Zenon
    <3> QED
      BY <1>9, <3>1, PieceFacts, Zenon
  <2>4. u[m] - b[m] = 0
    BY <2>2, <2>3
  <2> QED
    BY <1>9, <2>4
<1>11. ASSUME NEW n \in Numbers \ {0} PROVE v[n] <= c[n - 1] /\ (Undisturbed => v[n] = c[n - 1])
  <2>0. n \in Int /\ n \in Numbers /\ n - 1 \in Numbers
    BY LoggingAssumption DEF Numbers
  <2>1. u[n] <= b[n - 1] /\ (Undisturbed => u[n] = b[n - 1])
    BY <1>3, Zenon
  <2>2. CASE n = m
    <3>1. v[n] = u[k] /\ c[n - 1] = u[k]
      BY <1>2, <1>6, <1>7, <2>2, Zenon
    <3>2. u[k] <= u[k]
      BY <1>3
    <3> QED
      BY <3>1, <3>2, Zenon
  <2>3. CASE n - 1 = m
    <3>1. n # m
      BY <1>2, <2>3
    <3>2. v[n] = u[n] /\ c[n - 1] = b[k] /\ u[n] <= b[m] /\ (Undisturbed => u[n] = b[m])
      BY <1>6, <1>7, <2>0, <2>1, <2>3, <3>1, Zenon
    <3>3. u[n] \in Int
      BY <1>3
    <3>4. u[n] <= b[k]
      BY <1>9, <3>2, <3>3
    <3>5. m # MaxFiles - 1
      BY <1>2, <2>3, LoggingAssumption DEF Numbers
    <3>6. Undisturbed => u[n] = b[k]
      BY <1>2, <1>9, <1>10, <3>2, <3>5, Zenon DEF Free
    <3> QED
      BY <3>2, <3>4, <3>6, Zenon
  <2>4. CASE n # m /\ n - 1 # m
    <3>1. n - 1 # k
      BY <1>2, <2>0, <2>4
    <3>2. v[n] = u[n] /\ c[n - 1] = b[n - 1]
      BY <1>6, <1>7, <2>0, <2>4, <3>1, Zenon
    <3> QED
      BY <2>1, <3>2, Zenon
  <2> QED
    BY <2>2, <2>3, <2>4, Zenon
<1>12. /\ \A n \in Numbers \ {0} : v[n] <= c[n - 1]
       /\ Undisturbed => \A n \in Numbers \ {0} : v[n] = c[n - 1]
  BY <1>11, Zenon
<1>13. v[0] = Len(written)
  BY <1>3, <1>7, Zenon
<1> QED
  BY <1>6, <1>7, <1>8, <1>12, <1>13, KeptNew, Zenon

\* What the pieces of a sequence are once a record is appended to it.
LEMMA AppendedPieces ==
  ASSUME NEW w \in Seq(Int), NEW r \in Int, NEW a \in 0 .. Len(w), NEW b \in 0 .. Len(w), a <= b
  PROVE  /\ SubSeq(Append(w, r), a + 1, b) = SubSeq(w, a + 1, b)
         /\ SubSeq(Append(w, r), a + 1, Len(w) + 1) = Append(SubSeq(w, a + 1, Len(w)), r)
<1>1. PICK v : v = Append(w, r)
  OBVIOUS
<1>2. /\ v \in Seq(Int) /\ Len(v) = Len(w) + 1 /\ v[Len(w) + 1] = r /\ Len(w) \in Nat
      /\ \A i \in 1 .. Len(w) : v[i] = w[i]
  BY <1>1, AppendFacts
<1>3. SubSeq(v, a + 1, b) = SubSeq(w, a + 1, b)
  <2>1. a \in 0 .. Len(v) /\ b \in 0 .. Len(v)
    BY <1>2
  <2>2. /\ SubSeq(v, a + 1, b) \in Seq(Int) /\ Len(SubSeq(v, a + 1, b)) = b - a
        /\ \A i \in 1 .. b - a : SubSeq(v, a + 1, b)[i] = v[a + i]
    BY <1>2, <2>1, PieceFacts
  <2>3. /\ SubSeq(w, a + 1, b) \in Seq(Int) /\ Len(SubSeq(w, a + 1, b)) = b - a
        /\ \A i \in 1 .. b - a : SubSeq(w, a + 1, b)[i] = w[a + i]
    BY PieceFacts
  <2>4. ASSUME NEW i \in 1 .. b - a PROVE v[a + i] = w[a + i]
    <3>1. a + i \in 1 .. Len(w)
      BY <1>2
    <3> QED
      BY <1>2, <3>1, Zenon
  <2> QED
    BY <2>2, <2>3, <2>4, SameSequence, Zenon
<1>4. SubSeq(v, a + 1, Len(w) + 1) = Append(SubSeq(w, a + 1, Len(w)), r)
  <2>1. /\ a \in 0 .. Len(v) /\ Len(w) + 1 \in 0 .. Len(v) /\ a <= Len(w) + 1
        /\ Len(w) \in 0 .. Len(w) /\ a <= Len(w) /\ a \in Int
    BY <1>2
  <2>2. PICK x : x = SubSeq(v, a + 1, Len(w) + 1)
    OBVIOUS
  <2>3. /\ x \in Seq(Int) /\ Len(x) = (Len(w) + 1) - a
        /\ \A i \in 1 .. (Len(w) + 1) - a : x[i] = v[a + i]
    BY <1>2, <2>1, <2>2, PieceFacts
  <2>4. PICK y : y = SubSeq(w, a + 1, Len(w))
    OBVIOUS
  <2>5. y \in Seq(Int) /\ Len(y) = Len(w) - a /\ \A i \in 1 .. Len(w) - a : y[i] = w[a + i]
    BY <2>1, <2>4, PieceFacts
  <2>6. /\ Append(y, r) \in Seq(Int) /\ Len(Append(y, r)) = Len(y) + 1 /\ Append(y, r)[Len(y) + 1] = r
        /\ \A i \in 1 .. Len(y) : Append(y, r)[i] = y[i]
    BY <2>5, AppendFacts
  <2>7. Len(x) = Len(Append(y, r))
    BY <1>2, <2>1, <2>3, <2>5, <2>6
  <2>8. ASSUME NEW i \in 1 .. Len(x) PROVE x[i] = Append(y, r)[i]
    <3>1. CASE i \in 1 .. Len(w) - a
      <4>1. x[i] = v[a + i] /\ a + i \in 1 .. Len(w)
        BY <1>2, <2>1, <2>3, <3>1
      <4>2. Append(y, r)[i] = w[a + i]
        BY <2>5, <2>6, <3>1
      <4> QED
        BY <1>2, <4>1, <4>2, Zenon
    <3>2. CASE i = (Len(w) - a) + 1
      <4>1. x[i] = v[a + i]
        BY <2>3, Zenon
      <4>2. a + i = Len(w) + 1
        BY <1>2, <2>1, <3>2
      <4>3. Append(y, r)[i] = r
        BY <2>5, <2>6, <3>2, Zenon
      <4> QED
        BY <1>2, <4>1, <4>2, <4>3, Zenon
    <3>3. i \in Int /\ i >= 1 /\ i <= (Len(w) + 1) - a /\ Len(w) \in Int /\ a \in Int
      BY <1>2, <2>1, <2>3
    <3>4. i \in 1 .. Len(w) - a \/ i = (Len(w) - a) + 1
      BY <3>3
    <3> QED
      BY <3>1, <3>2, <3>4, Zenon
  <2>9. x = Append(y, r)
    BY <2>3, <2>6, <2>7, <2>8, SameSequence, Zenon
  <2> QED
    BY <2>2, <2>4, <2>9, Zenon
<1> QED
  BY <1>1, <1>3, <1>4, Zenon

LEMMA RecordIsThere ==
  ASSUME NEW f \in Seq(Int), NEW r \in Int, r > 0
  PROVE  Append(f, r) # Absent
<1>1. Len(Append(f, r)) = Len(f) + 1 /\ Append(f, r)[Len(f) + 1] = r /\ Len(f) \in Nat
  BY AppendFacts
<1>2. Len(Absent) = 1 /\ Absent[1] = -1
  BY DEF Absent
<1>3. ASSUME Append(f, r) = Absent PROVE FALSE
  <2>1. Len(f) + 1 = 1 /\ Absent[Len(f) + 1] = r
    BY <1>1, <1>2, <1>3, Zenon
  <2> QED
    BY <1>1, <1>2, <2>1
<1> QED
  BY <1>3

\* A record, which is no header, adds itself to the records of its file.
LEMMA RecordAdded ==
  ASSUME NEW f \in Seq(Int), f # Absent, NEW r \in Int, r > 0
  PROVE  Records(Append(f, r)) = Append(Records(f), r)
<1>1. /\ Append(f, r) # <<>> /\ Len(Append(f, r)) = Len(f) + 1
      /\ \A i \in 1 .. Len(f) : Append(f, r)[i] = f[i]
      /\ Append(f, r)[Len(f) + 1] = r
  BY AppendFacts
<1>2. Append(f, r) # Absent
  BY RecordIsThere, Zenon
<1>3. CASE f = <<>>
  <2>1. Append(f, r)[1] # HeaderLine
    BY <1>1, <1>3 DEF HeaderLine
  <2> QED
    BY <1>1, <1>2, <1>3, <2>1, Zenon DEF Records
<1>4. CASE f # <<>>
  <2>1. Append(f, r)[1] = f[1]
    BY <1>1, <1>4
  <2>2. Tail(Append(f, r)) = Append(Tail(f), r)
    BY <1>4
  <2> QED
    BY <1>1, <1>2, <1>4, <2>1, <2>2, Zenon DEF Records
<1> QED
  BY <1>3, <1>4

\* A record is written.
LEMMA KeptWritten ==
  ASSUME written \in Seq(Int), NEW b, NEW u, Kept(b, u), Undisturbed' => Undisturbed,
         NEW r \in Int, r > 0, written' = Append(written, r),
         files[0] \in Seq(Int), files[0] # Absent,
         \A n \in Numbers : files'[n] = IF n = 0 THEN Append(files[0], r) ELSE files[n]
  PROVE  (\E x, y : Kept(x, y))'
<1>1. /\ b \in [Numbers -> 0 .. Len(written)] /\ u \in [Numbers -> 0 .. Len(written)] /\ u[0] = Len(written)
      /\ \A n \in Numbers : Piece(files[n], b[n], u[n])
      /\ \A n \in Numbers \ {0} : u[n] <= b[n - 1]
      /\ Undisturbed => \A n \in Numbers \ {0} : u[n] = b[n - 1]
  BY Zenon DEF Kept
<1>2. Len(written') = Len(written) + 1 /\ Len(written) \in Nat
  BY AppendFacts
<1>3. PICK v : v = [u EXCEPT ![0] = Len(written) + 1]
  OBVIOUS
<1>4. b \in [Numbers -> 0 .. Len(written')] /\ u \in [Numbers -> 0 .. Len(written')]
  BY <1>1, <1>2
<1>5. Len(written) + 1 \in 0 .. Len(written')
  BY <1>2
<1>6. /\ v \in [Numbers -> 0 .. Len(written')] /\ v[0] = Len(written')
      /\ \A n \in Numbers : n # 0 => v[n] = u[n]
  BY <1>2, <1>3, <1>4, <1>5, NumbersZero, Zenon
<1>7. ASSUME NEW n \in Numbers PROVE b[n] <= v[n] /\ Records(files'[n]) = SubSeq(written', b[n] + 1, v[n])
  <2>1. /\ b[n] \in 0 .. Len(written) /\ u[n] \in 0 .. Len(written)
        /\ b[n] <= u[n] /\ Records(files[n]) = SubSeq(written, b[n] + 1, u[n])
    BY <1>1, Zenon DEF Piece
  <2>2. CASE n = 0
    <3>1. u[n] = Len(written) /\ v[n] = Len(written) + 1
      BY <1>1, <1>2, <1>6, <2>2, Zenon
    <3>2. Records(files'[n]) = Append(SubSeq(written, b[n] + 1, Len(written)), r)
      BY <2>1, <2>2, <3>1, RecordAdded, Zenon
    <3>3. SubSeq(written', b[n] + 1, Len(written) + 1) = Append(SubSeq(written, b[n] + 1, Len(written)), r)
      BY <2>1, AppendedPieces, Zenon
    <3>4. b[n] <= Len(written) + 1
      BY <1>2, <2>1
    <3> QED
      BY <3>1, <3>2, <3>3, <3>4, Zenon
  <2>3. CASE n # 0
    <3>1. SubSeq(written', b[n] + 1, u[n]) = SubSeq(written, b[n] + 1, u[n])
      BY <2>1, AppendedPieces, Zenon
    <3> QED
      BY <1>6, <2>1, <2>3, <3>1, Zenon
  <2> QED
    BY <2>2, <2>3, Zenon
<1>8. \A n \in Numbers \ {0} : v[n] = u[n]
  BY <1>6
<1>9. /\ \A n \in Numbers \ {0} : v[n] <= b[n - 1]
      /\ Undisturbed => \A n \in Numbers \ {0} : v[n] = b[n - 1]
  BY <1>1, <1>8, Zenon
<1>10. Kept(b, v)'
  BY <1>4, <1>6, <1>7, <1>9, Zenon DEF Kept, Piece
<1> QED
  BY <1>10, Zenon

-----------------------------------------------------------------------------
(* The steps *)

\* A thread that goes elsewhere than to the loop of rollLogFiles.
LEMMA GoesElsewhere ==
  ASSUME FileInv, NEW t \in Threads, NEW l, Go(t, l), l # "rename", NEW u \in Threads, pc'[u] = "rename"
  PROVE  pc[u] = "rename" /\ u # t
<1>1. pc \in [Threads -> Places]
  BY Zenon DEF FileInv, FileTypes
<1> QED
  BY <1>1 DEF Go

\* Who works on the files works alone.
LEMMA AloneInFile ==
  ASSUME FileInv, NEW t \in Threads, NEW u \in Threads, pc[t] \in InFile, pc[u] \in InFile
  PROVE  t = u
  BY Zenon DEF FileInv

\* A step that leaves the files alone.
LEMMA KeptAlone ==
  ASSUME KeptInv, files' = files, written' = written, failed' = failed, opened' => opened,
         \A u \in Threads : pc'[u] = "rename" => pc[u] = "rename" /\ fileNumber' = fileNumber
  PROVE  KeptInv'
<1>0. Undisturbed' <=> Undisturbed
  BY Zenon DEF Undisturbed
<1>1. PICK b, u : Kept(b, u)
  BY Zenon DEF KeptInv
<1>2. Kept(b, u)'
  BY <1>0, <1>1, KeptStill, Zenon
<1>3. (\A t \in Threads : pc[t] = "rename" => Free(fileNumber + 1))'
  BY <1>0, Zenon DEF KeptInv, Free
<1>4. written' \in Seq(Int) /\ (opened' => files'[0] # Absent)
  BY Zenon DEF KeptInv
<1> QED
  BY <1>2, <1>3, <1>4, Zenon DEF KeptInv

LEMMA KeptInit == LogInit => KeptInv
<1> SUFFICES ASSUME LogInit PROVE KeptInv
  OBVIOUS
<1>1. /\ written = <<>> /\ ~opened /\ \A n \in Numbers : files[n] = Absent
      /\ \A t \in Threads : pc[t] = "idle"
  BY DEF LogInit
<1>2. written \in Seq(Int) /\ Len(written) = 0
  BY <1>1
<1>3. PICK before : before = [n \in Numbers |-> 0]
  OBVIOUS
<1>4. before \in [Numbers -> 0 .. Len(written)] /\ \A n \in Numbers : before[n] = 0
  BY <1>2, <1>3
<1>5. ASSUME NEW n \in Numbers PROVE Piece(files[n], before[n], before[n])
  <2>1. before[n] = 0
    BY <1>4
  <2>2. SubSeq(written, 0 + 1, 0) = <<>>
    BY EmptyPiece
  <2>3. 0 <= 0
    OBVIOUS
  <2> QED
    BY <1>1, <2>1, <2>2, <2>3, NoRecords, Zenon DEF Piece
<1>6. Kept(before, before)
  <2>1. ASSUME NEW n \in Numbers \ {0} PROVE before[n] = 0 /\ before[n - 1] = 0
    BY <1>4, LoggingAssumption DEF Numbers
  <2>2. 0 <= 0
    OBVIOUS
  <2>3. \A n \in Numbers \ {0} : before[n] <= before[n - 1] /\ before[n] = before[n - 1]
    BY <2>1, <2>2, Zenon
  <2>4. before[0] = Len(written)
    BY <1>2, <1>4, NumbersZero, Zenon
  <2> QED
    BY <1>4, <1>5, <2>3, <2>4, Zenon DEF Kept
<1>7. \A t \in Threads : pc[t] # "rename"
  BY <1>1
<1> QED
  BY <1>1, <1>2, <1>6, <1>7, Zenon DEF KeptInv

\* What a step that works on the files comes to, when no thread is left in the
\* loop of rollLogFiles.
LEMMA KeptInFile ==
  ASSUME FileInv, NEW t \in Threads, NEW l, Go(t, l), l # "rename", pc[t] \in InFile,
         written' \in Seq(Int), opened' => files'[0] # Absent, (\E x, y : Kept(x, y))'
  PROVE  KeptInv'
<1>1. ASSUME NEW u \in Threads PROVE pc'[u] # "rename"
  <2>1. SUFFICES ASSUME pc'[u] = "rename" PROVE FALSE
    OBVIOUS
  <2>2. pc[u] = "rename" /\ u # t
    BY <2>1, GoesElsewhere, Zenon
  <2>3. pc[u] \in InFile
    BY <2>2 DEF InFile
  <2> QED
    BY <2>2, <2>3, AloneInFile, Zenon
<1>2. (\A u \in Threads : pc[u] = "rename" => Free(fileNumber + 1))'
  BY <1>1, Zenon
<1> QED
  BY <1>2, Zenon DEF KeptInv

\* What a failing call leaves.
LEMMA FailsKept ==
  ASSUME FileInv, NEW k \in Numbers, Fails(k), written' = written, NEW b, NEW u, Kept(b, u)
  PROVE  Kept(b, u)' /\ (Undisturbed' => Undisturbed)
<1>1. files' = files /\ \A n \in Numbers : failed[n] \in Nat /\ failed'[n] \in Nat /\ failed'[n] >= failed[n]
  BY FailsFacts
<1>2. \A n \in 1 .. MaxFiles - 2 : n \in Numbers
  BY LoggingAssumption DEF Numbers
<1>3. Undisturbed' => Undisturbed
  BY <1>1, <1>2 DEF Undisturbed
<1>4. Kept(b, u)'
  BY <1>1, <1>3, KeptStill, Zenon
<1> QED
  BY <1>3, <1>4

LEMMA KeptUnlink ==
  ASSUME FileInv, KeptInv, NEW t \in Threads, UnlinkLast(t)
  PROVE  KeptInv'
<1>1. /\ pc[t] = "unlink" /\ ~opened' /\ fileNumber' = MaxFiles - 2 /\ written' = written
      /\ \/ files' = [files EXCEPT ![MaxFiles - 1] = Absent] /\ failed' = failed
         \/ Fails(MaxFiles - 1)
  BY Zenon DEF UnlinkLast
<1>2. MaxFiles > 0 /\ MaxFiles \in Nat
  BY <1>1, LoggingAssumption DEF FileInv, Relies
<1>3. PICK m : m = MaxFiles - 1
  OBVIOUS
<1>4. m \in Numbers /\ (\A n \in Numbers : n <= m) /\ (MaxFiles - 2) + 1 = m
  BY <1>2, <1>3, NumbersZero
<1>5. files \in [Numbers -> Seq(Int)]
  BY Zenon DEF FileInv, FileTypes
<1>6. PICK b, u : Kept(b, u)
  BY Zenon DEF KeptInv
<1>7. (\E x, y : Kept(x, y))'
  <2>1. CASE files' = [files EXCEPT ![MaxFiles - 1] = Absent] /\ failed' = failed
    <3>1. \A n \in Numbers : files'[n] = IF n = m THEN Absent ELSE files[n]
      BY <1>3, <1>4, <1>5, <2>1, Zenon
    <3>2. Undisturbed' => Undisturbed
      BY <2>1, Zenon DEF Undisturbed
    <3> QED
      BY <1>1, <1>4, <1>6, <3>1, <3>2, KeptWithoutLast
  <2>2. CASE Fails(MaxFiles - 1)
    BY <1>1, <1>3, <1>4, <1>6, <2>2, FailsKept, Zenon
  <2> QED
    BY <1>1, <2>1, <2>2, Zenon
<1>8. (\A x \in Threads : pc[x] = "rename" => Free(fileNumber + 1))'
  BY <1>1, <1>3, <1>4, Zenon DEF Free
<1>9. written' \in Seq(Int)
  BY <1>1, Zenon DEF KeptInv
<1> QED
  BY <1>1, <1>7, <1>8, <1>9, Zenon DEF KeptInv

LEMMA KeptRename ==
  ASSUME FileInv, KeptInv, NEW t \in Threads, RenameOne(t)
  PROVE  KeptInv'
<1>1. /\ pc[t] = "rename" /\ opened' = opened /\ fileNumber' = fileNumber - 1 /\ written' = written
      /\ Stay(t, IF fileNumber > 0 THEN "rename" ELSE "open")
      /\ \/ files' = Renamed(fileNumber) /\ failed' = failed
         \/ Fails(fileNumber)
  BY Zenon DEF RenameOne
<1>2. PICK k : k = fileNumber
  OBVIOUS
<1>3. /\ ~opened /\ k \in Int /\ k >= 0 /\ k <= MaxFiles - 2 /\ k \in Numbers /\ k + 1 \in Numbers
      /\ (fileNumber - 1) + 1 = k
  <2>1. ~opened /\ k \in Int /\ k >= 0 /\ k <= MaxFiles - 2
    BY <1>1, <1>2 DEF FileInv, FileTypes, Relies
  <2> QED
    BY <1>2, <2>1, LoggingAssumption DEF Numbers
<1>4. files \in [Numbers -> Seq(Int)]
  BY Zenon DEF FileInv, FileTypes
<1>5. written \in Seq(Int) /\ Free(k + 1)
  BY <1>1, <1>2, Zenon DEF KeptInv
<1>6. PICK b, u : Kept(b, u)
  BY Zenon DEF KeptInv
<1>7. CASE files' = Renamed(fileNumber) /\ failed' = failed
  <2>1. /\ files'[k] = Absent /\ (files[k] = Absent => files' = files)
        /\ files[k] # Absent =>
              \A n \in Numbers : files'[n] = IF n = k THEN Absent ELSE IF n = k + 1 THEN files[k] ELSE files[n]
    BY <1>2, <1>3, <1>4, <1>7, RenamedFacts
  <2>2. Undisturbed' => Undisturbed
    BY <1>7, Zenon DEF Undisturbed
  <2>3. CASE files[k] = Absent
    <3>1. Kept(b, u)'
      BY <1>1, <1>6, <2>1, <2>2, <2>3, KeptStill, Zenon
    <3>2. (\A x \in Threads : pc[x] = "rename" => Free(fileNumber + 1))'
      BY <1>1, <1>3, <2>1, Zenon DEF Free
    <3> QED
      BY <1>1, <1>3, <1>5, <3>1, <3>2, Zenon DEF KeptInv
  <2>4. CASE files[k] # Absent
    <3>1. (\E x, y : Kept(x, y))'
      BY <1>1, <1>3, <1>5, <1>6, <2>1, <2>2, <2>4, KeptMoved
    <3>2. (\A x \in Threads : pc[x] = "rename" => Free(fileNumber + 1))'
      BY <1>1, <1>3, <2>1, Zenon DEF Free
    <3> QED
      BY <1>1, <1>3, <1>5, <3>1, <3>2, Zenon DEF KeptInv
  <2> QED
    BY <2>3, <2>4
<1>8. CASE Fails(fileNumber)
  <2>1. Kept(b, u)'
    BY <1>1, <1>2, <1>3, <1>6, <1>8, FailsKept, Zenon
  <2>2. failed'[k] = failed[k] + 1 /\ failed[k] \in Nat
    BY <1>2, <1>3, <1>8, FailsFacts
  <2>3. CASE fileNumber > 0
    <3>1. k \in 1 .. MaxFiles - 2
      BY <1>2, <1>3, <2>3, LoggingAssumption
    <3>2. failed'[k] # 0
      BY <2>2
    <3>3. ~Undisturbed'
      BY <3>1, <3>2, Zenon DEF Undisturbed
    <3>4. (\A x \in Threads : pc[x] = "rename" => Free(fileNumber + 1))'
      BY <3>3, Zenon DEF Free
    <3> QED
      BY <1>1, <1>3, <1>5, <2>1, <3>4, Zenon DEF KeptInv
  <2>4. CASE ~(fileNumber > 0)
    <3>1. Go(t, "open") /\ "open" # "rename" /\ pc[t] \in InFile
      BY <1>1, <2>4 DEF Stay, InFile
    <3> QED
      BY <1>1, <1>3, <1>5, <2>1, <3>1, KeptInFile
  <2> QED
    BY <2>3, <2>4
<1> QED
  BY <1>1, <1>7, <1>8, Zenon

LEMMA KeptOpen ==
  ASSUME FileInv, KeptInv, NEW t \in Threads, OpenLogFile(t)
  PROVE  KeptInv'
<1>1. pc[t] = "open" /\ written' = written /\ failed' = failed
  BY Zenon DEF OpenLogFile
<1>d. Undisturbed' => Undisturbed
  BY <1>1, Zenon DEF Undisturbed
<1>2. pc[t] \in InFile
  BY <1>1 DEF InFile
<1>3. PICK there : there = IF files[0] = Absent THEN <<>> ELSE files[0]
  OBVIOUS
<1>4. \/ /\ files' = [files EXCEPT ![0] = there]
         /\ Stay(t, IF there = <<>> /\ HasHeader THEN "header" ELSE "write")
      \/ ~opened' /\ Stay(t, "write") /\ files' = files
  BY <1>3, Zenon DEF OpenLogFile
<1>5. files \in [Numbers -> Seq(Int)] /\ 0 \in Numbers
  BY NumbersZero, Zenon DEF FileInv, FileTypes
<1>6. PICK b, u : Kept(b, u)
  BY Zenon DEF KeptInv
<1>7. written' \in Seq(Int)
  BY <1>1, Zenon DEF KeptInv
<1>8. CASE /\ files' = [files EXCEPT ![0] = there]
           /\ Stay(t, IF there = <<>> /\ HasHeader THEN "header" ELSE "write")
  <2>1. \A n \in Numbers : files'[n] = IF n = 0 THEN there ELSE files[n]
    BY <1>5, <1>8, Zenon
  <2>2. \A n \in Numbers : Records(files'[n]) = Records(files[n])
    BY <1>3, <2>1, NoRecords, Zenon
  <2>3. Kept(b, u)'
    BY <1>1, <1>d, <1>6, <2>2, KeptStill, Zenon
  <2>4. Absent # <<>>
    BY DEF Absent
  <2>5. files'[0] # Absent
    BY <1>3, <1>5, <2>1, <2>4, Zenon
  <2>6. \E l : l # "rename" /\ Go(t, l)
    BY <1>8, Zenon DEF Stay
  <2> QED
    BY <1>2, <1>7, <2>3, <2>5, <2>6, KeptInFile
<1>9. CASE ~opened' /\ Stay(t, "write") /\ files' = files
  <2>1. Kept(b, u)'
    BY <1>1, <1>d, <1>6, <1>9, KeptStill, Zenon
  <2>2. Go(t, "write")
    BY <1>9, Zenon DEF Stay
  <2> QED
    BY <1>2, <1>7, <1>9, <2>1, <2>2, KeptInFile
<1> QED
  BY <1>4, <1>8, <1>9, Zenon

LEMMA KeptHeader ==
  ASSUME FileInv, KeptInv, NEW t \in Threads, WriteHeader(t)
  PROVE  KeptInv'
<1>1. /\ pc[t] = "header" /\ written' = written /\ failed' = failed /\ opened' = opened /\ Go(t, "write")
      /\ files' = [files EXCEPT ![0] = Append(@, HeaderLine)] \/ files' = files
  BY Zenon DEF WriteHeader, Stay
<1>d. Undisturbed' => Undisturbed
  BY <1>1, Zenon DEF Undisturbed
<1>2. pc[t] \in InFile
  BY <1>1 DEF InFile
<1>3. files \in [Numbers -> Seq(Int)] /\ 0 \in Numbers /\ files[0] = <<>>
  BY <1>1, NumbersZero, Zenon DEF FileInv, FileTypes, Relies
<1>4. PICK b, u : Kept(b, u)
  BY Zenon DEF KeptInv
<1>5. PICK line : line = Append(<<>>, HeaderLine)
  OBVIOUS
<1>6. line = <<0>> /\ line # <<>> /\ line # Absent /\ line[1] = HeaderLine /\ Tail(line) = <<>>
  BY <1>5 DEF HeaderLine, Absent
<1>7. Records(line) = <<>>
  BY <1>6, Zenon DEF Records
<1>8. ASSUME files' = [files EXCEPT ![0] = Append(@, HeaderLine)]
      PROVE  (\A n \in Numbers : Records(files'[n]) = Records(files[n])) /\ files'[0] # Absent
  <2>1. \A n \in Numbers : files'[n] = IF n = 0 THEN line ELSE files[n]
    BY <1>3, <1>5, <1>8, Zenon
  <2>2. \A n \in Numbers : Records(files'[n]) = Records(files[n])
    BY <1>3, <1>7, <2>1, NoRecords, Zenon
  <2>3. files'[0] # Absent
    BY <1>3, <1>6, <2>1, Zenon
  <2> QED
    BY <2>2, <2>3, Zenon
<1>9. (\A n \in Numbers : Records(files'[n]) = Records(files[n])) /\ (opened' => files'[0] # Absent)
  BY <1>1, <1>8, Zenon DEF KeptInv
<1>10. Kept(b, u)'
  BY <1>1, <1>d, <1>4, <1>9, KeptStill, Zenon
<1>11. written' \in Seq(Int)
  BY <1>1, Zenon DEF KeptInv
<1> QED
  BY <1>1, <1>2, <1>9, <1>10, <1>11, KeptInFile

LEMMA KeptRecord ==
  ASSUME FileInv, KeptInv, NEW t \in Threads, WriteRecord(t)
  PROVE  KeptInv'
<1>1. /\ pc[t] = "write" /\ opened' = opened /\ failed' = failed /\ Go(t, "dispatch")
      /\ \/ opened /\ files' = [files EXCEPT ![0] = Append(@, rec[t])] /\ written' = Append(written, rec[t])
         \/ files' = files /\ written' = written
  BY Zenon DEF WriteRecord, NextAppender
<1>d. Undisturbed' => Undisturbed
  BY <1>1, Zenon DEF Undisturbed
<1>2. pc[t] \in InFile
  BY <1>1 DEF InFile
<1>3. files \in [Numbers -> Seq(Int)] /\ 0 \in Numbers
  BY NumbersZero, Zenon DEF FileInv, FileTypes
<1>4. PICK r : r = rec[t]
  OBVIOUS
<1>5. r \in Int /\ r > 0
  BY <1>1, <1>4 DEF FileInv, FileTypes, Relies
<1>6. PICK b, u : Kept(b, u)
  BY Zenon DEF KeptInv
<1>7. written \in Seq(Int) /\ (opened => files[0] # Absent)
  BY Zenon DEF KeptInv
<1>8. CASE opened /\ files' = [files EXCEPT ![0] = Append(@, rec[t])] /\ written' = Append(written, rec[t])
  <2>1. \A n \in Numbers : files'[n] = IF n = 0 THEN Append(files[0], r) ELSE files[n]
    BY <1>3, <1>4, <1>8, Zenon
  <2>2. files[0] \in Seq(Int) /\ files[0] # Absent
    BY <1>3, <1>7, <1>8, Zenon
  <2>3. written' = Append(written, r)
    BY <1>4, <1>8, Zenon
  <2>4. (\E x, y : Kept(x, y))'
    BY <1>d, <1>5, <1>6, <1>7, <2>1, <2>2, <2>3, KeptWritten, Zenon
  <2>5. written' \in Seq(Int)
    BY <1>5, <1>7, <2>3
  <2>6. files'[0] # Absent
    BY <1>3, <1>5, <2>1, <2>2, RecordIsThere, Zenon
  <2> QED
    BY <1>1, <1>2, <2>4, <2>5, <2>6, KeptInFile
<1>9. CASE files' = files /\ written' = written
  <2>1. Kept(b, u)'
    BY <1>d, <1>6, <1>9, KeptStill, Zenon
  <2>2. written' \in Seq(Int) /\ (opened' => files'[0] # Absent)
    BY <1>1, <1>7, <1>9, Zenon
  <2> QED
    BY <1>1, <1>2, <2>1, <2>2, KeptInFile
<1> QED
  BY <1>1, <1>8, <1>9, Zenon

LEMMA KeptStep == FileInv /\ KeptInv /\ [LogNext]_logVars => KeptInv'
<1> SUFFICES ASSUME FileInv, KeptInv, [LogNext]_logVars PROVE KeptInv'
  OBVIOUS
<1>1. ASSUME UNCHANGED logVars PROVE KeptInv'
  BY <1>1, KeptAlone, Zenon DEF logVars
<1>2. ASSUME Crash PROVE KeptInv'
  <2>1. files' = files /\ written' = written /\ failed' = failed /\ ~opened' /\ \A u \in Threads : pc'[u] = "idle"
    BY <1>2 DEF Crash
  <2>2. \A u \in Threads : pc'[u] # "rename"
    BY <2>1
  <2> QED
    BY <2>1, <2>2, KeptAlone, Zenon
<1>3. ASSUME NEW t \in Threads, Step(t) PROVE KeptInv'
  <2>1. ASSUME files' = files, written' = written, failed' = failed, opened' = opened, fileNumber' = fileNumber,
               NEW l, Go(t, l), l # "rename"
        PROVE  KeptInv'
    <3>1. ASSUME NEW u \in Threads, pc'[u] = "rename" PROVE pc[u] = "rename"
      BY <2>1, <3>1, GoesElsewhere, Zenon
    <3> QED
      BY <2>1, <3>1, KeptAlone, Zenon
  <2>2. CASE \/ Log(t) \/ ReturnLog(t) \/ LockConsole(t) \/ SetColor(t) \/ WriteStr(t) \/ ResetColor(t)
             \/ LockFile(t)
    <3>1. files' = files /\ written' = written /\ failed' = failed /\ opened' = opened /\ fileNumber' = fileNumber
      BY <2>2, Zenon DEF Log, ReturnLog, LockConsole, SetColor, WriteStr, ResetColor, LockFile, fileVars, appenderVars
    <3>2. \E l : Go(t, l) /\ l # "rename"
      <4>1. CASE LockFile(t)
        <5>1. PICK l : l = IF firstWrite THEN "open" ELSE IF TooLarge THEN "unlink" ELSE "write"
          OBVIOUS
        <5>2. l # "rename"
          BY <5>1
        <5>3. Go(t, l)
          BY <4>1, <5>1, Zenon DEF LockFile, Stay
        <5> QED
          BY <5>2, <5>3, Zenon
      <4>2. ASSUME ~LockFile(t)
            PROVE  \/ Go(t, "dispatch") \/ Go(t, "idle") \/ Go(t, "color") \/ Go(t, "text") \/ Go(t, "reset")
        BY <2>2, <4>2, Zenon DEF Log, ReturnLog, LockConsole, SetColor, WriteStr, ResetColor, Stay, NextAppender
      <4>3. /\ "dispatch" # "rename" /\ "idle" # "rename" /\ "color" # "rename" /\ "text" # "rename"
            /\ "reset" # "rename"
        OBVIOUS
      <4> QED
        BY <4>1, <4>2, <4>3, Zenon
    <3> QED
      BY <2>1, <3>1, <3>2, Zenon
  <2> QED
    BY <1>3, <2>2, KeptUnlink, KeptRename, KeptOpen, KeptHeader, KeptRecord, Zenon DEF Step
<1> QED
  BY <1>1, <1>2, <1>3, Zenon DEF LogNext

\* What is on disk is in the order in which it was written and ends with the last
\* record, without a gap as long as no file between the first and the last fails
\* to be renamed, for any number of threads and files, whichever calls fail and
\* whenever the process ends and starts again (rollLogFiles, openLogFile).
THEOREM NewestAlwaysKept == LogSpec => []NewestKept
  BY FileInit, FileStep, KeptInit, KeptStep, KeptIsNewest, PTL DEF LogSpec

\* What was logged is whole on the console, the newest of it is in the files, and
\* the files are in order, bounded as far as renaming succeeds and have one header
\* each (ColorConsoleAppender, RollingFileAppender).
THEOREM LogAlwaysWhole == LogSpec => []LogIsWhole
<1>1. ConsoleWhole /\ NewestKept /\ FilesBounded /\ HeadersFirst => LogIsWhole
  BY Zenon DEF LogIsWhole
<1> QED
  BY <1>1, ConsoleWholeAlways, NewestAlwaysKept, FilesBoundedAlways, HeadersFirstAlways, PTL

=============================================================================
