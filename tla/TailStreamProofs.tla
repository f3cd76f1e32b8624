--------------------------- MODULE TailStreamProofs ---------------------------
(***************************************************************************)
(* The block log and the stream that follows it, for any number of         *)
(* helpers, lines, files and streams: proofs that TLAPS checks.            *)
(***************************************************************************)
EXTENDS TailStream, NaturalsInduction, WellFoundedInduction, TLAPS

-----------------------------------------------------------------------------
(* Lines stay whole.                                                         *)

HoldsLock(h) == step[h] \in {"write", "rest", "unlock"}

LogTypes ==
  /\ disk \in [File -> Seq(Cell)] /\ ever \in [File -> Seq(Cell)]
  /\ named \in 0 .. created /\ created \in 0 .. MaxFiles
  /\ flock \in [File -> HelperId \cup {Nobody}]
  /\ step \in [HelperId -> {"idle", "lock", "write", "rest", "unlock"}]
  /\ fd \in [HelperId -> 0 .. MaxFiles]
  /\ logging \in [HelperId -> 0 .. MaxLines] /\ logged \in 0 .. MaxLines

\* A helper between its open and its close has a file and a line, and the file's
\* lock from Lock on.
Locked ==
  \A h \in HelperId :
    /\ step[h] # "idle" => fd[h] \in File /\ logging[h] \in Line
    /\ HoldsLock(h) => flock[fd[h]] = h

\* The last thing in the file of a helper in the middle of its line is the
\* beginning of that line.
Begun ==
  \A h \in HelperId : step[h] = "rest" =>
    /\ ever[fd[h]] # <<>>
    /\ ever[fd[h]][Len(ever[fd[h]])] = <<logging[h], 1>>

LogInv == LogTypes /\ Locked /\ Begun /\ LinesWhole

\* What a step of the log's writers adds to a file's history.
History ==
  ever' = [f \in File |->
    IF Len(disk'[f]) > Len(disk[f]) THEN Append(ever[f], Last(disk'[f])) ELSE ever[f]]

\* What is written to no file is added to no history.
LEMMA NothingAdded ==
  ASSUME LogTypes, History, disk' = disk
  PROVE  ever' = ever
BY DEF LogTypes, History

\* A cell appended to a file is appended to its history, and to no other.
LEMMA CellAdded ==
  ASSUME LogTypes, History, NEW f \in File, NEW cell \in Cell, Extend(f, cell)
  PROVE  /\ disk' \in [File -> Seq(Cell)]
         /\ ever' = [ever EXCEPT ![f] = Append(@, cell)]
<1>1. /\ disk[f] \in Seq(Cell) /\ disk' = [disk EXCEPT ![f] = Append(disk[f], cell)]
      /\ disk'[f] = Append(disk[f], cell)
  BY DEF LogTypes, Extend
<1>2. Append(disk[f], cell) \in Seq(Cell) /\ Len(disk'[f]) > Len(disk[f])
      /\ Last(disk'[f]) = cell
  BY <1>1 DEF Last
<1>3. \A g \in File : g # f => disk'[g] = disk[g]
  BY <1>1 DEF LogTypes
<1>4. \A g \in File : g # f => ~(Len(disk'[g]) > Len(disk[g]))
  BY <1>3 DEF LogTypes
<1>5. ever' = [g \in File |-> IF g = f THEN Append(ever[f], cell) ELSE ever[g]]
  BY <1>2, <1>4 DEF History
<1> QED BY <1>1, <1>2, <1>5 DEF LogTypes

\* Lines stay whole when the beginning of one is appended, or the rest of the one
\* whose beginning is last.
LEMMA WholeKept ==
  ASSUME ever \in [File -> Seq(Cell)], LinesWhole, NEW f \in File, NEW l \in Line,
         NEW half \in {1, 2},
         ever' = [ever EXCEPT ![f] = Append(@, <<l, half>>)],
         half = 2 => ever[f] # <<>> /\ ever[f][Len(ever[f])] = <<l, 1>>
  PROVE  LinesWhole'
<1> SUFFICES ASSUME NEW g \in File, NEW i \in DOMAIN ever'[g], ever'[g][i][2] = 2
             PROVE  i > 1 /\ ever'[g][i - 1] = <<ever'[g][i][1], 1>>
  BY DEF LinesWhole
<1>1. CASE g # f
  <2>1. ever'[g] = ever[g]
    BY <1>1
  <2> QED BY <2>1 DEF LinesWhole
<1>2. CASE g = f
  <2> DEFINE e == ever[f]
  <2>1. e \in Seq(Cell) /\ ever'[f] = Append(e, <<l, half>>)
    OBVIOUS
  <2>2. CASE i = Len(e) + 1
    <3>1. ever'[f][i] = <<l, half>>
      BY <2>1, <2>2
    <3>2. half = 2
      BY <1>2, <3>1
    <3>3. Len(e) > 0 /\ i - 1 = Len(e) /\ Len(e) \in 1 .. Len(e)
      BY <2>1, <2>2, <3>2
    <3>4. ever'[f][i - 1] = e[Len(e)]
      BY <2>1, <3>3
    <3> QED BY <1>2, <3>1, <3>2, <3>3, <3>4
  <2>3. CASE i \in 1 .. Len(e)
    <3>1. ever'[f][i] = e[i] /\ i \in DOMAIN e
      BY <2>1, <2>3
    <3>2. i > 1 /\ e[i - 1] = <<e[i][1], 1>>
      BY <1>2, <3>1 DEF LinesWhole
    <3>3. ever'[f][i - 1] = e[i - 1]
      BY <2>1, <2>3, <3>2
    <3> QED BY <1>2, <3>1, <3>2, <3>3
  <2> QED BY <1>2, <2>1, <2>2, <2>3
<1> QED BY <1>1, <1>2

\* Every step of the log's writers keeps the log's invariant.
LEMMA LogStepKeeps == ASSUME LogInv, LogStep PROVE LogInv'
<1> USE BlockLogAssumption DEF LogInv, LogTypes, Locked, HoldsLock, File, Line
<1>0. History
  BY DEF LogStep, History
<1>1. ASSUME NEW h \in HelperId, OpenLog(h) PROVE LogInv'
  <2>1. disk' = disk /\ ever' = ever
    BY <1>0, <1>1, NothingAdded DEF OpenLog
  <2>2. named' \in 1 .. MaxFiles /\ named' \in 0 .. created' /\ created' \in 0 .. MaxFiles
    BY <1>1 DEF OpenLog
  <2>3. logged' \in 1 .. MaxLines
    BY <1>1 DEF OpenLog
  <2>4. LogTypes' /\ Locked'
    <3>1. /\ fd' = [fd EXCEPT ![h] = named'] /\ logging' = [logging EXCEPT ![h] = logged']
          /\ step' = [step EXCEPT ![h] = "lock"] /\ flock' = flock
          /\ step[h] = "idle"
      BY <1>1 DEF OpenLog, To
    <3>2. LogTypes'
      <4>1. named' \in 0 .. MaxFiles /\ logged' \in 0 .. MaxLines
        BY <2>2, <2>3
      <4>2. /\ step' \in [HelperId -> {"idle", "lock", "write", "rest", "unlock"}]
            /\ fd' \in [HelperId -> 0 .. MaxFiles]
            /\ logging' \in [HelperId -> 0 .. MaxLines]
        BY <3>1, <4>1
      <4> QED BY <2>1, <2>2, <3>1, <4>1, <4>2
    <3>3. ASSUME NEW k \in HelperId
          PROVE  /\ step'[k] # "idle" => fd'[k] \in File /\ logging'[k] \in Line
                 /\ HoldsLock(k)' => flock'[fd'[k]] = k
      BY <2>2, <2>3, <3>1
    <3> QED BY <3>2, <3>3
  <2>5. Begun' /\ LinesWhole'
    BY <1>1, <2>1 DEF OpenLog, To, Begun, LinesWhole
  <2> QED BY <2>4, <2>5
<1>2. ASSUME NEW h \in HelperId, Lock(h) PROVE LogInv'
  <2>1. disk' = disk /\ ever' = ever
    BY <1>0, <1>2, NothingAdded DEF Lock
  <2>2. LogTypes' /\ Locked'
    BY <1>2, <2>1 DEF Lock, To
  <2>3. Begun' /\ LinesWhole'
    BY <1>2, <2>1 DEF Lock, To, Begun, LinesWhole
  <2> QED BY <2>2, <2>3
<1>3. ASSUME NEW h \in HelperId, Write(h) PROVE LogInv'
  <2> DEFINE f == fd[h]
             l == logging[h]
             half == IF step[h] = "write" THEN 1 ELSE 2
  <2>1. f \in File /\ l \in Line /\ half \in {1, 2} /\ <<l, half>> \in Cell
        /\ Extend(f, <<l, half>>)
    BY <1>3 DEF Write, Cell
  <2>2. disk' \in [File -> Seq(Cell)] /\ ever' = [ever EXCEPT ![f] = Append(@, <<l, half>>)]
    BY <1>0, <2>1, CellAdded
  <2>3. LogTypes' /\ Locked'
    <3>1. ever' \in [File -> Seq(Cell)]
      BY <2>1, <2>2
    <3> QED BY <1>3, <2>2, <3>1 DEF Write, To
  <2>4. half = 2 => ever[f] # <<>> /\ ever[f][Len(ever[f])] = <<l, 1>>
    BY <1>3 DEF Write, Begun
  <2>5. LinesWhole'
    <3> HIDE DEF f, l, half
    <3> QED BY <2>1, <2>2, <2>4, WholeKept
  <2>6. Begun'
    <3>0. fd' = fd /\ logging' = logging
      BY <1>3 DEF Write
    <3> SUFFICES ASSUME NEW k \in HelperId, step'[k] = "rest"
                 PROVE  /\ ever'[fd[k]] # <<>>
                        /\ ever'[fd[k]][Len(ever'[fd[k]])] = <<logging[k], 1>>
      BY <3>0 DEF Begun
    <3>1. CASE k = h
      <4>1. step[h] = "write" /\ half = 1
        BY <1>3, <3>1 DEF Write, To
      <4>2. ever'[f] = Append(ever[f], <<l, 1>>) /\ ever[f] \in Seq(Cell)
        BY <2>1, <2>2, <4>1
      <4>3. Len(ever'[f]) = Len(ever[f]) + 1 /\ ever'[f][Len(ever[f]) + 1] = <<l, 1>>
        BY <4>2
      <4>4. ever'[f] # <<>>
        <5>1. Len(ever'[f]) > 0 /\ Len(<<>>) = 0
          BY <4>2, <4>3
        <5> QED BY <5>1
      <4> QED BY <3>1, <4>3, <4>4
    <3>2. CASE k # h
      <4>1. step[k] = "rest" /\ fd[k] \in File
        BY <1>3, <3>2 DEF Write, To
      <4>2. fd[k] # f
        BY <1>3, <3>2, <4>1 DEF Write
      <4>3. ever'[fd[k]] = ever[fd[k]]
        BY <2>2, <4>1, <4>2
      <4> QED BY <4>1, <4>3 DEF Begun
    <3> QED BY <3>1, <3>2
  <2> QED BY <2>3, <2>5, <2>6
<1>4. ASSUME NEW h \in HelperId, WriteFails(h) PROVE LogInv'
  <2>1. disk' = disk /\ ever' = ever
    BY <1>0, <1>4, NothingAdded DEF WriteFails
  <2>2. LogTypes' /\ Locked'
    BY <1>4, <2>1 DEF WriteFails, To
  <2>3. Begun' /\ LinesWhole'
    BY <1>4, <2>1 DEF WriteFails, To, Begun, LinesWhole
  <2> QED BY <2>2, <2>3
<1>5. ASSUME NEW h \in HelperId, Release(h) PROVE LogInv'
  <2>1. disk' = disk /\ ever' = ever
    BY <1>0, <1>5, NothingAdded DEF Release
  <2>2. LogTypes' /\ Locked'
    BY <1>5, <2>1 DEF Release, To
  <2>3. Begun' /\ LinesWhole'
    BY <1>5, <2>1 DEF Release, To, Begun, LinesWhole
  <2> QED BY <2>2, <2>3
<1>6. ASSUME Rotate PROVE LogInv'
  <2>1. disk' = disk /\ ever' = ever
    BY <1>0, <1>6, NothingAdded DEF Rotate
  <2> QED BY <1>6, <2>1 DEF Rotate, Begun, LinesWhole
<1>7. ASSUME Truncate PROVE LogInv'
  <2>1. named \in File /\ disk' = [disk EXCEPT ![named] = <<>>]
    BY <1>7 DEF Truncate
  <2>2. disk' \in [File -> Seq(Cell)]
    BY <2>1
  <2>3. \A f \in File : ~(Len(disk'[f]) > Len(disk[f]))
    BY <2>1
  <2>4. ever' = ever
    BY <1>0, <2>3 DEF History
  <2> QED BY <1>7, <2>2, <2>4 DEF Truncate, Begun, LinesWhole
<1> QED
  BY <1>1, <1>2, <1>3, <1>4, <1>5, <1>6, <1>7 DEF LogStep, LogNext, HelperStep, Unlock, Kill

\* So does every step: the streams and the tab leave the log alone.
LEMMA LogInvKept == ASSUME LogInv, [Next]_vars PROVE LogInv'
<1>1. CASE LogStep
  BY <1>1, LogStepKeeps
<1>2. CASE UNCHANGED <<log, ever>>
  BY <1>2 DEF log, LogInv, LogTypes, Locked, HoldsLock, Begun, LinesWhole
<1> QED
  BY <1>1, <1>2
     DEF Next, vars, Connect, Opened, Handler, Watch, NoName, SendLine, AtEnd, Ping,
         TakeTick, Leave, End, Event, Timer, NoWatcher, Fatal, Deliver, Hangup

\* Helpers never write into each other's lines: whoever is between its open and its
\* close has the lock of its file, so that what comes after the beginning of a line
\* is its rest, unless the helper died or the disk was full.
THEOREM LinesStayWhole == Spec => []LinesWhole
<1>1. Init => LogInv
  BY BlockLogAssumption
     DEF Init, LogInit, LogInv, LogTypes, Locked, HoldsLock, Begun, LinesWhole, File, Line
<1>2. LogInv => LinesWhole
  BY DEF LogInv
<1> QED BY <1>1, <1>2, LogInvKept, PTL DEF Spec

-----------------------------------------------------------------------------
(* Nothing is lost between the end of the file and the wait.                 *)

StreamTypes ==
  /\ pc \in [Stream -> {"none", "watch", "check", "ping", "wait"}]
  /\ file \in [Stream -> 0 .. MaxFiles] /\ watched \in [Stream -> 0 .. MaxFiles]
  /\ pos = [k \in Stream |-> pos[k]]
  /\ event \in [Stream -> BOOLEAN] /\ tick \in [Stream -> BOOLEAN]
  /\ \A k \in Stream : pc[k] # "none" => file[k] # 0

Sleeping(k) == pc[k] \in {"ping", "wait"} /\ watched[k] = file[k] /\ ~tick[k] /\ ~event[k]

AsleepAtEnd(k) == Sleeping(k) => ~HasLine(k)

StreamInv == LogInv /\ StreamTypes /\ SleepsOnlyAtEnd

\* A step that neither sends the stream to sleep nor moves what it reads.
LEMMA AsleepStill ==
  ASSUME NEW k \in Stream, AsleepAtEnd(k), Sleeping(k)' => Sleeping(k),
         Sleeping(k)' => file'[k] = file[k] /\ pos'[k] = pos[k]
                         /\ disk'[file[k]] = disk[file[k]]
  PROVE  AsleepAtEnd(k)'
<1> SUFFICES ASSUME Sleeping(k)' PROVE ~HasLine(k)'
  BY DEF AsleepAtEnd
<1>1. ~HasLine(k) /\ disk'[file'[k]] = disk[file[k]] /\ pos'[k] = pos[k]
  BY DEF AsleepAtEnd
<1> QED BY <1>1 DEF HasLine, Ends

\* The watcher hears of every change of the file it watches.
LEMMA ChangeHeard ==
  ASSUME StreamInv, LogStep, LogTypes'
  PROVE  StreamTypes' /\ SleepsOnlyAtEnd'
<1>1. /\ UNCHANGED <<pc, file, pos, watched, tick>>
      /\ event' = [k \in Stream |->
                     event[k] \/ (watched[k] # 0 /\ Touched(watched[k]))]
  BY DEF LogStep
<1>2. StreamTypes'
  <2>1. event' \in [Stream -> BOOLEAN]
    BY <1>1
  <2> QED BY <1>1, <2>1 DEF StreamInv, StreamTypes
<1>3. ASSUME NEW k \in Stream PROVE AsleepAtEnd(k)'
  <2>1. AsleepAtEnd(k)
    BY DEF StreamInv, SleepsOnlyAtEnd, AsleepAtEnd, Sleeping
  <2>2. ASSUME Sleeping(k)' PROVE Sleeping(k) /\ disk'[file[k]] = disk[file[k]]
    <3>1. ~event[k] /\ ~(watched[k] # 0 /\ Touched(watched[k]))
      BY <1>1, <2>2 DEF Sleeping
    <3>2. watched[k] = file[k] /\ file[k] # 0
      BY <1>1, <2>2 DEF Sleeping, StreamInv, StreamTypes
    <3>3. disk'[file[k]] = disk[file[k]]
      BY <3>1, <3>2 DEF Touched
    <3> QED BY <1>1, <2>2, <3>1, <3>3 DEF Sleeping
  <2> QED BY <1>1, <2>1, <2>2, AsleepStill
<1> QED BY <1>2, <1>3 DEF SleepsOnlyAtEnd, AsleepAtEnd, Sleeping

\* No handler goes to sleep with a line to read and nothing to wake it.
LEMMA StreamStepKeeps ==
  ASSUME StreamInv, disk' = disk, NEW k \in Stream,
         Connect(k) \/ Handler(k) \/ Leave(k) \/ Event(k) \/ Timer(k) \/ NoWatcher(k)
  PROVE  StreamTypes' /\ SleepsOnlyAtEnd'
<1> USE BlockLogAssumption DEF StreamInv, StreamTypes
<1>0. named \in 0 .. MaxFiles /\ created \in 0 .. MaxFiles
  BY DEF LogInv, LogTypes
<1>a. \A j \in Stream : AsleepAtEnd(j)
  BY DEF SleepsOnlyAtEnd, AsleepAtEnd, Sleeping
<1>b. SUFFICES StreamTypes' /\ \A j \in Stream : AsleepAtEnd(j)'
  BY DEF SleepsOnlyAtEnd, AsleepAtEnd, Sleeping
<1>1. CASE Connect(k)
  <2>1. StreamTypes'
    BY <1>0, <1>1 DEF Connect, Opened, At, Goto
  <2>2. ASSUME NEW j \in Stream PROVE AsleepAtEnd(j)'
    BY <1>1, <1>a, AsleepStill DEF Connect, Opened, At, Goto, Sleeping
  <2> QED BY <2>1, <2>2
<1>2. CASE Watch(k)
  <2>1. StreamTypes'
    BY <1>0, <1>2 DEF Watch, At, Goto
  <2>2. ASSUME NEW j \in Stream PROVE AsleepAtEnd(j)'
    BY <1>2, <1>a, AsleepStill DEF Watch, At, Goto, Sleeping
  <2> QED BY <2>1, <2>2
<1>3. CASE SendLine(k)
  <2>1. StreamTypes'
    BY <1>3 DEF SendLine
  <2>2. ASSUME NEW j \in Stream PROVE AsleepAtEnd(j)'
    BY <1>3, <1>a, AsleepStill DEF SendLine, At, Sleeping
  <2> QED BY <2>1, <2>2
<1>4. CASE AtEnd(k)
  <2>1. StreamTypes'
    BY <1>4 DEF AtEnd, At, Goto
  <2>2. ~HasLine(k)'
    BY <1>4 DEF AtEnd, HasLine
  <2>3. ASSUME NEW j \in Stream, j # k PROVE AsleepAtEnd(j)'
    BY <1>4, <1>a, <2>3, AsleepStill DEF AtEnd, At, Goto, Sleeping
  <2> QED BY <2>1, <2>2, <2>3 DEF AsleepAtEnd
<1>5. CASE Ping(k)
  <2>1. StreamTypes'
    BY <1>5 DEF Ping, At, Goto
  <2>2. ASSUME NEW j \in Stream PROVE AsleepAtEnd(j)'
    BY <1>5, <1>a, AsleepStill DEF Ping, At, Goto, Sleeping
  <2> QED BY <2>1, <2>2
<1>6. CASE TakeTick(k)
  <2>1. StreamTypes'
    BY <1>6 DEF TakeTick, At, Goto
  <2>2. ASSUME NEW j \in Stream PROVE AsleepAtEnd(j)'
    BY <1>6, <1>a, AsleepStill DEF TakeTick, At, Goto, Sleeping
  <2> QED BY <2>1, <2>2
<1>7. CASE Leave(k)
  <2>1. StreamTypes'
    <3>1. file' \in [Stream -> 0 .. MaxFiles] /\ watched' \in [Stream -> 0 .. MaxFiles]
      BY <1>7 DEF Leave, End
    <3>2. event' \in [Stream -> BOOLEAN] /\ tick' \in [Stream -> BOOLEAN]
      BY <1>7 DEF Leave, End
    <3>3. /\ pc' \in [Stream -> {"none", "watch", "check", "ping", "wait"}]
          /\ pos' = [j \in Stream |-> pos'[j]]
          /\ \A j \in Stream : pc'[j] # "none" => file'[j] # 0
      BY <1>7 DEF Leave, End, Goto
    <3> QED BY <3>1, <3>2, <3>3
  <2>2. ASSUME NEW j \in Stream PROVE AsleepAtEnd(j)'
    BY <1>7, <1>a, AsleepStill DEF Leave, End, Goto, Sleeping
  <2> QED BY <2>1, <2>2
<1>8. CASE Event(k)
  <2>1. StreamTypes'
    BY <1>8 DEF Event
  <2>2. ASSUME NEW j \in Stream PROVE AsleepAtEnd(j)'
    BY <1>8, <1>a, AsleepStill DEF Event, Sleeping
  <2> QED BY <2>1, <2>2
<1>9. CASE Timer(k)
  <2>1. StreamTypes'
    BY <1>9 DEF Timer
  <2>2. ASSUME NEW j \in Stream PROVE AsleepAtEnd(j)'
    BY <1>9, <1>a, AsleepStill DEF Timer, Sleeping
  <2> QED BY <2>1, <2>2
<1>10. CASE NoName(k) \/ NoWatcher(k)
  <2>0. Fatal
    BY <1>10 DEF NoName, NoWatcher
  <2>1. StreamTypes'
    <3>1. file' \in [Stream -> 0 .. MaxFiles] /\ watched' \in [Stream -> 0 .. MaxFiles]
          /\ pc' = [j \in Stream |-> "none"] /\ pos' = [j \in Stream |-> 0]
      BY <2>0 DEF Fatal
    <3>2. event' \in [Stream -> BOOLEAN] /\ tick' \in [Stream -> BOOLEAN]
      BY <2>0 DEF Fatal
    <3> QED BY <3>1, <3>2
  <2>2. ASSUME NEW j \in Stream PROVE AsleepAtEnd(j)'
    BY <2>0 DEF Fatal, AsleepAtEnd, Sleeping
  <2> QED BY <2>1, <2>2
<1> QED
  BY <1>1, <1>2, <1>3, <1>4, <1>5, <1>6, <1>7, <1>8, <1>9, <1>10 DEF Handler

\* The invariant holds at the start.
LEMMA StreamInvInit == ASSUME Init PROVE StreamInv
<1>1. LogInv
  BY BlockLogAssumption
     DEF Init, LogInit, LogInv, LogTypes, Locked, HoldsLock, Begun, LinesWhole, File, Line
<1>2. StreamTypes /\ SleepsOnlyAtEnd
  BY BlockLogAssumption DEF Init, StreamTypes, SleepsOnlyAtEnd
<1> QED BY <1>1, <1>2 DEF StreamInv

\* Every step keeps it.
LEMMA StreamInvKept == ASSUME StreamInv, [Next]_vars PROVE StreamInv'
<1>1. LogInv'
  BY LogInvKept DEF StreamInv
<1>2. CASE LogStep
  BY <1>1, <1>2, ChangeHeard DEF LogInv, StreamInv
<1>3. ASSUME NEW k \in Stream,
             Connect(k) \/ Handler(k) \/ Leave(k) \/ Event(k) \/ Timer(k) \/ NoWatcher(k)
      PROVE  StreamInv'
  <2>1. disk' = disk
    BY <1>3 DEF log, Connect, Opened, Handler, Watch, NoName, SendLine, AtEnd, Ping,
                TakeTick, Leave, End, Event, Timer, NoWatcher, Fatal
  <2> QED BY <1>1, <1>3, <2>1, StreamStepKeeps DEF StreamInv
<1>4. CASE Deliver \/ Hangup \/ UNCHANGED vars
  <2>1. UNCHANGED <<disk, pc, file, pos, watched, event, tick>>
    BY <1>4 DEF Deliver, Hangup, vars, log, stream
  <2> QED
    BY <1>1, <2>1 DEF StreamInv, StreamTypes, SleepsOnlyAtEnd, HasLine, Ends
<1> QED BY <1>1, <1>2, <1>3, <1>4 DEF Next, StreamInv

\* A handler that waits, or is about to, has read its file to the end, unless a
\* tick or an event is under way: a tick dropped because one is pending loses
\* nothing, since the one that is pending makes the handler read again.
THEOREM StreamsSleepAtEnd == Spec => []SleepsOnlyAtEnd
<1>1. StreamInv => SleepsOnlyAtEnd
  BY DEF StreamInv
<1> QED BY <1>1, StreamInvInit, StreamInvKept, PTL DEF Spec

-----------------------------------------------------------------------------
(* What the log's writers do to a file.                                      *)

Counts ==
  /\ fd \in [HelperId -> 0 .. created]
  /\ logging \in [HelperId -> 0 .. logged]

\* What is in a file is the end of all that was ever written to it.
Before(f) == Len(ever[f]) - Len(disk[f])

Kept ==
  \A f \in File :
    /\ Len(disk[f]) <= Len(ever[f])
    /\ \A i \in DOMAIN disk[f] : disk[f][i] = ever[f][Before(f) + i]

\* Every line is another one, and begins once.
Apart ==
  /\ \A f \in File : \A i \in DOMAIN ever[f] : ever[f][i][1] <= logged
  /\ \A h \in HelperId : step[h] \in {"lock", "write"} =>
       \A f \in File : \A i \in DOMAIN ever[f] : ever[f][i] # <<logging[h], 1>>
  /\ \A g, h \in HelperId : step[g] # "idle" /\ logging[g] = logging[h] => g = h

Once ==
  \A f \in File : \A i, j \in DOMAIN ever[f] :
    ever[f][i][2] = 1 /\ ever[f][i] = ever[f][j] => i = j

Same(f) == disk'[f] = disk[f] /\ ever'[f] = ever[f]

Emptied(f) == disk[f] # <<>> /\ disk'[f] = <<>> /\ ever'[f] = ever[f]

Added(f, cell) ==
  disk'[f] = Append(disk[f], cell) /\ ever'[f] = Append(ever[f], cell)

\* A file is left alone, or emptied, or a helper in the middle of a line appends
\* its next cell to the file it has open.
Wrote(h) ==
  /\ step[h] \in {"write", "rest"} /\ fd[h] \in File /\ logging[h] \in Line
  /\ Added(fd[h], <<logging[h], IF step[h] = "write" THEN 1 ELSE 2>>)
  /\ step' = [step EXCEPT ![h] = IF step[h] = "write" THEN "rest" ELSE "unlock"]
  /\ \A f \in File : f # fd[h] => Same(f)
  /\ UNCHANGED <<logged, logging, fd, created>>

\* What a helper's write does, all told.
LEMMA WriteIs ==
  ASSUME LogInv, LogStep, NEW h \in HelperId, Write(h)
  PROVE  Wrote(h)
<1> USE DEF LogInv, LogTypes, Locked, HoldsLock
<1>0. History
  BY DEF LogStep, History
<1> DEFINE cell == <<logging[h], IF step[h] = "write" THEN 1 ELSE 2>>
<1>1. /\ step[h] \in {"write", "rest"} /\ Extend(fd[h], cell)
      /\ step' = [step EXCEPT ![h] = IF step[h] = "write" THEN "rest" ELSE "unlock"]
      /\ UNCHANGED <<logged, logging, fd, created>>
  BY DEF Write, To
<1>2. fd[h] \in File /\ logging[h] \in Line /\ cell \in Cell
  BY <1>1 DEF Cell
<1>3. ever' = [ever EXCEPT ![fd[h]] = Append(@, cell)]
  <2> HIDE DEF cell
  <2> QED BY <1>0, <1>1, <1>2, CellAdded
<1>4. Added(fd[h], cell)
  BY <1>1, <1>2, <1>3 DEF Added, Extend
<1>5. \A f \in File : f # fd[h] => Same(f)
  BY <1>1, <1>2, <1>3 DEF Same, Extend
<1> QED BY <1>1, <1>2, <1>4, <1>5 DEF Wrote

\* A step that leaves the contents alone leaves the histories alone.
LEMMA FilesLeft ==
  ASSUME LogInv, LogStep, disk' = disk
  PROVE  \A f \in File : Same(f)
BY NothingAdded DEF LogInv, LogStep, History, Same

\* A truncation empties the file that has the name, and no history.
LEMMA TruncateIs ==
  ASSUME LogInv, LogStep, Truncate
  PROVE  named \in File /\ Emptied(named) /\ \A f \in File : f # named => Same(f)
<1>1. History
  BY DEF LogStep, History
<1>2. named \in File /\ disk' = [disk EXCEPT ![named] = <<>>] /\ disk[named] # <<>>
  BY BlockLogAssumption DEF Truncate, LogInv, LogTypes, File
<1>3. \A f \in File : disk'[f] = IF f = named THEN <<>> ELSE disk[f]
  BY <1>2 DEF LogInv, LogTypes
<1>4. \A f \in File : ~(Len(disk'[f]) > Len(disk[f]))
  BY <1>3 DEF LogInv, LogTypes
<1>5. ever' = ever
  BY <1>1, <1>4 DEF History, LogInv, LogTypes
<1> QED BY <1>2, <1>3, <1>5 DEF Emptied, Same

\* What can happen to one file.
LEMMA FileStep ==
  ASSUME LogInv, LogStep, NEW f \in File
  PROVE  Same(f) \/ Emptied(f) \/ \E cell \in Cell : Added(f, cell)
<1>1. CASE \E h \in HelperId : Write(h)
  <2>1. PICK h \in HelperId : Write(h)
    BY <1>1
  <2>2. Wrote(h)
    BY <2>1, WriteIs
  <2>3. <<logging[h], IF step[h] = "write" THEN 1 ELSE 2>> \in Cell
    BY <2>2 DEF Wrote, Cell
  <2> QED BY <2>2, <2>3 DEF Wrote
<1>2. CASE Truncate
  BY <1>2, TruncateIs
<1>3. CASE ~Truncate /\ ~\E h \in HelperId : Write(h)
  <2>1. disk' = disk
    BY <1>3 DEF LogStep, LogNext, HelperStep, OpenLog, Lock, WriteFails, Unlock, Kill,
               Release, Rotate
  <2> QED BY <2>1, FilesLeft
<1> QED BY <1>1, <1>2, <1>3

\* What is in a file stays the end of its history.
LEMMA KeptStill == ASSUME LogInv, LogInv', LogStep, Kept PROVE Kept'
<1> SUFFICES ASSUME NEW f \in File
             PROVE  /\ Len(disk'[f]) <= Len(ever'[f])
                    /\ \A i \in DOMAIN disk'[f] :
                         disk'[f][i] = ever'[f][Len(ever'[f]) - Len(disk'[f]) + i]
  BY DEF Kept, Before
<1> DEFINE d == disk[f]
           e == ever[f]
<1>1. d \in Seq(Cell) /\ e \in Seq(Cell)
  BY DEF LogInv, LogTypes
<1>2. Len(d) <= Len(e) /\ \A i \in DOMAIN d : d[i] = e[Len(e) - Len(d) + i]
  BY DEF Kept, Before
<1>3. CASE Same(f)
  BY <1>2, <1>3 DEF Same
<1>4. CASE Emptied(f)
  BY <1>1, <1>4 DEF Emptied
<1>5. ASSUME NEW cell \in Cell, Added(f, cell)
      PROVE  /\ Len(disk'[f]) <= Len(ever'[f])
             /\ \A i \in DOMAIN disk'[f] :
                  disk'[f][i] = ever'[f][Len(ever'[f]) - Len(disk'[f]) + i]
  <2>1. disk'[f] = Append(d, cell) /\ ever'[f] = Append(e, cell)
    BY <1>5 DEF Added
  <2> HIDE DEF d, e
  <2>2. Len(disk'[f]) = Len(d) + 1 /\ Len(ever'[f]) = Len(e) + 1
    BY <1>1, <2>1
  <2>3. ASSUME NEW i \in DOMAIN disk'[f]
        PROVE  disk'[f][i] = ever'[f][Len(ever'[f]) - Len(disk'[f]) + i]
    <3>1. i \in 1 .. Len(d) + 1 /\ Len(d) \in Nat /\ Len(e) \in Nat
      BY <1>1, <2>1
    <3>2. Len(ever'[f]) - Len(disk'[f]) + i = Len(e) - Len(d) + i
      BY <2>2, <3>1
    <3>3. CASE i = Len(d) + 1
      <4>1. Len(e) - Len(d) + i = Len(e) + 1
        BY <3>1, <3>3
      <4> QED BY <1>1, <2>1, <3>2, <3>3, <4>1
    <3>4. CASE i # Len(d) + 1
      <4>1. i \in 1 .. Len(d) /\ Len(e) - Len(d) + i \in 1 .. Len(e)
        BY <1>2, <3>1, <3>4
      <4>2. d[i] = e[Len(e) - Len(d) + i]
        BY <1>1, <1>2, <4>1
      <4> QED BY <1>1, <2>1, <3>2, <4>1, <4>2
    <3> QED BY <3>3, <3>4
  <2> QED BY <1>1, <1>2, <2>2, <2>3
<1> QED BY <1>3, <1>4, <1>5, FileStep

\* The files opened were created, and the lines at work counted.
LEMMA CountsStill == ASSUME LogInv, LogStep, Counts PROVE Counts'
<1> USE BlockLogAssumption DEF LogInv, LogTypes, Counts, Line
<1>1. ASSUME NEW h \in HelperId, OpenLog(h) PROVE Counts'
  <2>1. /\ created' \in Nat /\ created <= created' /\ named' \in 0 .. created'
        /\ logged' = logged + 1
        /\ fd' = [fd EXCEPT ![h] = named'] /\ logging' = [logging EXCEPT ![h] = logged']
    BY <1>1 DEF OpenLog
  <2>2. fd' \in [HelperId -> 0 .. created']
    BY <2>1
  <2>3. logging' \in [HelperId -> 0 .. logged']
    BY <2>1
  <2> QED BY <2>2, <2>3
<1>2. ASSUME NEW h \in HelperId, Lock(h) \/ Write(h) \/ WriteFails(h) PROVE Counts'
  BY <1>2 DEF Lock, Write, WriteFails
<1>3. ASSUME NEW h \in HelperId, Release(h) PROVE Counts'
  BY <1>3 DEF Release
<1>4. CASE Rotate \/ Truncate
  BY <1>4 DEF Rotate, Truncate
<1> QED
  BY <1>1, <1>2, <1>3, <1>4 DEF LogStep, LogNext, HelperStep, Unlock, Kill

\* A step that writes nothing and starts no line.
LEMMA ApartQuietly ==
  ASSUME LogInv, LogInv', Apart, \A f \in File : Same(f) \/ Emptied(f), logged' = logged,
         \A h \in HelperId :
           /\ step'[h] \in {"lock", "write"} => step[h] \in {"lock", "write"}
           /\ step'[h] # "idle" => step[h] # "idle" /\ logging'[h] = logging[h],
         \A h \in HelperId : step'[h] = "idle" => logging'[h] = 0
                             \/ (logging'[h] = logging[h] /\ step[h] = "idle")
  PROVE  Apart'
<1>1. \A f \in File : ever'[f] = ever[f]
  BY DEF Same, Emptied
<1>2. \A f \in File : \A i \in DOMAIN ever'[f] : ever'[f][i][1] <= logged'
  BY <1>1 DEF Apart
<1>3. ASSUME NEW h \in HelperId, step'[h] \in {"lock", "write"}, NEW f \in File,
             NEW i \in DOMAIN ever'[f]
      PROVE  ever'[f][i] # <<logging'[h], 1>>
  <2>1. step[h] \in {"lock", "write"} /\ logging'[h] = logging[h]
    BY <1>3
  <2>2. ever'[f] = ever[f]
    BY <1>1
  <2> QED BY <2>1, <2>2, <1>3 DEF Apart
<1>4. ASSUME NEW g \in HelperId, NEW h \in HelperId, step'[g] # "idle",
             logging'[g] = logging'[h]
      PROVE  g = h
  <2>1. step[g] # "idle" /\ logging'[g] = logging[g] /\ logging[g] \in Line
    BY <1>4 DEF LogInv, Locked
  <2>2. logging'[h] # 0
    BY <1>4, <2>1, BlockLogAssumption DEF Line
  <2>3. logging'[h] = logging[h]
    <3>1. CASE step'[h] = "idle"
      BY <2>2, <3>1
    <3>2. CASE step'[h] # "idle"
      BY <3>2
    <3> QED BY <3>1, <3>2
  <2> QED BY <1>4, <2>1, <2>3 DEF Apart
<1> QED BY <1>2, <1>3, <1>4 DEF Apart

\* A line that is started is new, and no two helpers write the same one.
LEMMA ApartStill == ASSUME LogInv, LogInv', LogStep, Counts, Apart PROVE Apart'
<1> USE BlockLogAssumption DEF LogInv, LogTypes
<1>1. ASSUME NEW h \in HelperId, OpenLog(h) PROVE Apart'
  <2>1. \A f \in File : ever'[f] = ever[f] /\ ever[f] \in Seq(Cell)
    BY <1>1, FilesLeft DEF OpenLog, Same
  <2>2. /\ logged' = logged + 1 /\ logging' = [logging EXCEPT ![h] = logged']
        /\ step' = [step EXCEPT ![h] = "lock"] /\ step[h] = "idle"
    BY <1>1 DEF OpenLog, To
  <2>3. ASSUME NEW f \in File, NEW i \in DOMAIN ever[f]
        PROVE  ever[f][i][1] \in Nat /\ ever[f][i][1] < logged'
    <3>1. ever[f][i] \in Cell
      BY <2>1
    <3>2. ever[f][i][1] \in Nat /\ ever[f][i][1] <= logged
      BY <3>1 DEF Cell, Line, Apart
    <3> QED BY <2>2, <3>2
  <2>4. \A g \in HelperId : g # h => logging'[g] = logging[g] /\ logging[g] < logged'
                                     /\ step'[g] = step[g]
    BY <2>2 DEF Counts
  <2>5. logging'[h] = logged' /\ logged' \in Nat
    BY <2>2
  <2>6. ASSUME NEW g \in HelperId, step'[g] \in {"lock", "write"}, NEW f \in File,
               NEW i \in DOMAIN ever'[f]
        PROVE  ever'[f][i] # <<logging'[g], 1>>
    <3>1. CASE g = h
      <4>1. ever'[f][i][1] \in Nat /\ ever'[f][i][1] < logged'
        BY <2>1, <2>3
      <4>2. <<logging'[g], 1>>[1] = logged'
        BY <2>5, <3>1
      <4> QED BY <2>5, <4>1, <4>2
    <3>2. CASE g # h
      <4>1. step[g] \in {"lock", "write"} /\ <<logging'[g], 1>> = <<logging[g], 1>>
        BY <2>4, <2>6, <3>2
      <4>2. i \in DOMAIN ever[f] /\ ever'[f][i] = ever[f][i]
        BY <2>1
      <4>3. ever[f][i] # <<logging[g], 1>>
        BY <4>1, <4>2, Zenon DEF Apart
      <4> QED BY <4>1, <4>2, <4>3
    <3> QED BY <3>1, <3>2
  <2>7. ASSUME NEW g \in HelperId, NEW k \in HelperId, step'[g] # "idle",
               logging'[g] = logging'[k]
        PROVE  g = k
    <3>1. CASE g = h \/ k = h
      BY <2>4, <2>5, <2>7, <3>1 DEF Counts
    <3>2. CASE g # h /\ k # h
      BY <2>4, <2>7, <3>2 DEF Apart
    <3> QED BY <3>1, <3>2
  <2>8. \A f \in File : \A i \in DOMAIN ever'[f] : ever'[f][i][1] <= logged'
    BY <2>1, <2>2, <2>3
  <2> QED BY <2>6, <2>7, <2>8 DEF Apart
<1>2. ASSUME NEW h \in HelperId, Write(h) PROVE Apart'
  <2>1. Wrote(h)
    BY <1>2, WriteIs
  <2> DEFINE half == IF step[h] = "write" THEN 1 ELSE 2
             cell == <<logging[h], half>>
  <2>2. ASSUME NEW f \in File, NEW i \in DOMAIN ever'[f]
        PROVE  \/ i \in DOMAIN ever[f] /\ ever'[f][i] = ever[f][i]
               \/ ever'[f][i] = cell
    <3>1. CASE f = fd[h]
      <4>1. ever'[f] = Append(ever[f], cell) /\ ever[f] \in Seq(Cell)
        BY <2>1, <3>1 DEF Wrote, Added
      <4> HIDE DEF cell
      <4> QED BY <4>1
    <3>2. CASE f # fd[h]
      BY <2>1, <3>2 DEF Wrote, Same
    <3> QED BY <3>1, <3>2
  <2>3. \A f \in File : \A i \in DOMAIN ever'[f] : ever'[f][i][1] <= logged'
    <3>1. cell[1] <= logged /\ logged' = logged
      BY <2>1 DEF Wrote, Counts, Line
    <3> HIDE DEF cell
    <3> QED BY <2>2, <3>1 DEF Apart
  <2>4. ASSUME NEW g \in HelperId, step'[g] \in {"lock", "write"}, NEW f \in File,
               NEW i \in DOMAIN ever'[f]
        PROVE  ever'[f][i] # <<logging'[g], 1>>
    <3>1. g # h /\ step[g] \in {"lock", "write"} /\ logging'[g] = logging[g]
      BY <2>1, <2>4 DEF Wrote
    <3>2. logging[g] # logging[h]
      BY <3>1 DEF Apart
    <3>3. cell # <<logging[g], 1>>
      BY <3>2
    <3>4. \A n \in DOMAIN ever[f] : ever[f][n] # <<logging[g], 1>>
      BY <3>1, Zenon DEF Apart
    <3>5. <<logging'[g], 1>> = <<logging[g], 1>>
      BY <3>1
    <3> HIDE DEF cell
    <3> QED BY <2>2, <3>3, <3>4, <3>5
  <2>5. ASSUME NEW g \in HelperId, NEW k \in HelperId, step'[g] # "idle",
               logging'[g] = logging'[k]
        PROVE  g = k
    <3>1. step[g] # "idle" /\ logging[g] = logging[k]
      BY <2>1, <2>5 DEF Wrote
    <3> QED BY <3>1 DEF Apart
  <2> QED BY <2>3, <2>4, <2>5 DEF Apart
<1>3. ASSUME NEW h \in HelperId, Lock(h) \/ WriteFails(h) \/ Release(h) PROVE Apart'
  <2>1. disk' = disk /\ logged' = logged
    BY <1>3 DEF Lock, WriteFails, Release
  <2>2. \A f \in File : Same(f)
    BY <2>1, FilesLeft
  <2>3. \A g \in HelperId :
           /\ step'[g] \in {"lock", "write"} => step[g] \in {"lock", "write"}
           /\ step'[g] # "idle" => step[g] # "idle" /\ logging'[g] = logging[g]
    BY <1>3 DEF Lock, WriteFails, Release, To
  <2>4. \A g \in HelperId : step'[g] = "idle" => logging'[g] = 0
                             \/ (logging'[g] = logging[g] /\ step[g] = "idle")
    <3>1. CASE Lock(h) \/ WriteFails(h)
      BY <3>1 DEF Lock, WriteFails, To
    <3>2. CASE Release(h)
      <4>1. /\ step' = [step EXCEPT ![h] = "idle"]
            /\ logging' = [logging EXCEPT ![h] = 0]
        BY <3>2 DEF Release, To
      <4>2. logging'[h] = 0
        BY <4>1
      <4>3. \A g \in HelperId : g # h => logging'[g] = logging[g] /\ step'[g] = step[g]
        BY <4>1
      <4> QED BY <4>2, <4>3
    <3> QED BY <1>3, <3>1, <3>2
  <2> QED BY <2>1, <2>2, <2>3, <2>4, ApartQuietly
<1>4. CASE Rotate \/ Truncate
  <2>1. UNCHANGED <<logged, step, logging>>
    BY <1>4 DEF Rotate, Truncate
  <2>2. \A f \in File : Same(f) \/ Emptied(f)
    BY <1>4, FilesLeft, TruncateIs DEF Rotate
  <2> QED BY <2>1, <2>2, ApartQuietly
<1> QED
  BY <1>1, <1>2, <1>3, <1>4 DEF LogStep, LogNext, HelperStep, Unlock, Kill

\* No line begins twice: whoever writes its beginning goes on to its rest.
LEMMA OnceStill == ASSUME LogInv, LogStep, Apart, Once PROVE Once'
<1>1. CASE \E h \in HelperId : Write(h)
  <2>1. PICK h \in HelperId : Write(h)
    BY <1>1
  <2>2. Wrote(h)
    BY <2>1, WriteIs
  <2> DEFINE cell == <<logging[h], IF step[h] = "write" THEN 1 ELSE 2>>
  <2>3. \A f \in File : \A i \in DOMAIN ever[f] :
          cell[2] = 1 => ever[f][i] # cell
    BY <2>2 DEF Wrote, Apart
  <2>4. Added(fd[h], cell) /\ \A f \in File : f # fd[h] => Same(f)
    BY <2>2 DEF Wrote
  <2> HIDE DEF cell
  <2> SUFFICES ASSUME NEW f \in File, NEW i \in DOMAIN ever'[f], NEW j \in DOMAIN ever'[f],
                      ever'[f][i][2] = 1, ever'[f][i] = ever'[f][j]
               PROVE  i = j
    BY DEF Once
  <2>5. CASE f # fd[h]
    BY <2>4, <2>5 DEF Same, Once
  <2>6. CASE f = fd[h]
    <3>1. ever[f] \in Seq(Cell) /\ ever'[f] = Append(ever[f], cell)
      BY <2>4, <2>6 DEF Added, LogInv, LogTypes
    <3>2. \A n \in DOMAIN ever'[f] :
             \/ n \in DOMAIN ever[f] /\ ever'[f][n] = ever[f][n]
             \/ n = Len(ever[f]) + 1 /\ ever'[f][n] = cell
      BY <3>1
    <3> QED BY <2>3, <3>2 DEF Once
  <2> QED BY <2>5, <2>6
<1>2. CASE ~\E h \in HelperId : Write(h)
  <2>1. \A f \in File : Same(f) \/ Emptied(f)
    BY <1>2, TruncateIs, FilesLeft
       DEF LogStep, LogNext, HelperStep, OpenLog, Lock, WriteFails, Unlock, Kill, Release, Rotate
  <2> QED BY <2>1 DEF Same, Emptied, Once
<1> QED BY <1>1, <1>2

-----------------------------------------------------------------------------
(* What a stream reads, and what its tab has been sent.                      *)

TailTypes ==
  /\ file \in [Stream -> 0 .. created] /\ watched \in [Stream -> 0 .. created]
  /\ pos \in [Stream -> Nat] /\ start \in [Stream -> Nat]
  /\ gone \in [Stream -> BOOLEAN]
  /\ wire \in [Stream -> Seq(Line)]
  /\ sock \in Stream \cup {NoStream} /\ shown \in Seq(Line)

\* The tab's connection is served, and nothing is on its way of one that is not.
Connection ==
  /\ \A k \in Stream : pc[k] = "none" => wire[k] = <<>> /\ ~gone[k]
  /\ Connected => pc[sock] # "none" /\ ~gone[sock]

TailInv == LogInv /\ StreamInv /\ Counts /\ TailTypes /\ Connection

\* A set of naturals that is not empty has a least element.
LEMMA Least ==
  ASSUME NEW S, S \subseteq Nat, S # {}
  PROVE \E i \in S : \A j \in S : i <= j
<1>1. PICK i \in S : \A j \in S : <<j, i>> \notin OpToRel(<, Nat)
  BY NatLessThanWellFounded, WFMin
<1>2. ASSUME NEW j \in S PROVE i <= j
  <2>1. i \in Nat /\ j \in Nat
    OBVIOUS
  <2>2. <<j, i>> \in Nat \X Nat /\ <<j, i>>[1] = j /\ <<j, i>>[2] = i
    BY <2>1
  <2>3. ~(<<j, i>>[1] < <<j, i>>[2])
    BY <1>1, <2>2, Zenon DEF OpToRel
  <2> QED BY <2>1, <2>2, <2>3
<1> QED BY <1>2

\* The first end of a line after the position, and no end between them.
LEMMA LineEndIs ==
  ASSUME NEW k \in Stream, disk[file[k]] \in Seq(Cell), pos[k] \in Nat, HasLine(k)
  PROVE  /\ LineEnd(k) \in DOMAIN disk[file[k]] /\ LineEnd(k) > pos[k]
         /\ disk[file[k]][LineEnd(k)][2] = 2
         /\ \A j \in DOMAIN disk[file[k]] :
              j > pos[k] /\ disk[file[k]][j][2] = 2 => LineEnd(k) <= j
<1> DEFINE S == {i \in Ends(disk[file[k]]) : i > pos[k]}
<1>1. S \subseteq Nat /\ S # {}
  BY DEF HasLine, Ends
<1>2. PICK i \in S : \A j \in S : i <= j
  BY <1>1, Least
<1>3. \E n \in Ends(disk[file[k]]) :
        n > pos[k] /\ \A j \in Ends(disk[file[k]]) : j > pos[k] => n <= j
  BY <1>2
<1>4. /\ LineEnd(k) \in Ends(disk[file[k]]) /\ LineEnd(k) > pos[k]
      /\ \A j \in Ends(disk[file[k]]) : j > pos[k] => LineEnd(k) <= j
  BY <1>3 DEF LineEnd
<1> QED BY <1>4 DEF Ends

\* What a piece is taken for, if for anything, is a line in it.
LEMMA RowInPiece ==
  ASSUME NEW piece, NEW row \in Parse(piece), row # 0
  PROVE  \E i \in DOMAIN piece : row = piece[i][1]
BY DEF Parse

\* A row is one of the lines in the piece.
LEMMA RowOfPiece ==
  ASSUME NEW cells \in Seq(Cell), NEW p \in Nat, NEW e \in DOMAIN cells, p < e,
         NEW row \in Parse(SubSeq(cells, p + 1, e)), row # 0
  PROVE  row \in Line /\ \E m \in p + 1 .. e : row = cells[m][1]
<1> DEFINE piece == SubSeq(cells, p + 1, e)
<1>1. /\ Len(piece) = e - p /\ DOMAIN piece = 1 .. e - p
      /\ \A i \in 1 .. e - p : piece[i] = cells[p + i]
  OBVIOUS
<1>2. row \in Parse(piece)
  OBVIOUS
<1>3. PICK i \in 1 .. e - p : row = piece[i][1]
  <2> HIDE DEF piece
  <2> QED BY <1>1, <1>2, RowInPiece
<1>4. p + i \in p + 1 .. e /\ row = cells[p + i][1] /\ p + i \in DOMAIN cells
  BY <1>1, <1>3
<1>5. cells[p + i] \in Cell
  BY <1>4
<1> QED BY <1>4, <1>5 DEF Cell

\* A handler sends nothing that is not a line of its file.
LEMMA RowIsLine ==
  ASSUME TailInv, NEW k \in Stream, pc[k] # "none", HasLine(k),
         NEW row \in Parse(SubSeq(disk[file[k]], pos[k] + 1, LineEnd(k)))
  PROVE  file[k] \in File /\ LineEnd(k) \in Nat /\ (row = 0 \/ row \in Line)
<1>1. file[k] \in File /\ disk[file[k]] \in Seq(Cell) /\ pos[k] \in Nat
  BY BlockLogAssumption DEF TailInv, LogInv, LogTypes, StreamInv, StreamTypes, TailTypes, File
<1>2. LineEnd(k) \in DOMAIN disk[file[k]] /\ pos[k] < LineEnd(k)
  BY <1>1, LineEndIs
<1>3. row # 0 => row \in Line
  BY <1>1, <1>2, RowOfPiece
<1> QED BY <1>1, <1>2, <1>3

\* Every step keeps the types of the streams and the tab.
LEMMA TailTypesStill == ASSUME TailInv, [Next]_vars, Counts' PROVE TailTypes'
<1> USE BlockLogAssumption DEF TailInv, TailTypes
<1>1. CASE LogStep
  <2>1. created \in Nat /\ created' \in Nat /\ created <= created'
    <3>1. created \in Nat
      BY DEF LogInv, LogTypes
    <3>2. created' = created \/ created' = created + 1
      BY <1>1 DEF LogStep, LogNext, HelperStep, OpenLog, Lock, Write, WriteFails, Unlock,
                 Kill, Release, Rotate, Truncate
    <3> QED BY <3>1, <3>2
  <2>2. UNCHANGED <<file, watched, pos, gone, wire, start, sock, shown>>
    BY <1>1 DEF LogStep, tab
  <2>3. file' \in [Stream -> 0 .. created']
    BY <2>1, <2>2
  <2>4. watched' \in [Stream -> 0 .. created']
    BY <2>1, <2>2
  <2> QED BY <2>2, <2>3, <2>4
<1>2. CASE UNCHANGED vars
  BY <1>2 DEF vars, stream, log, tab
<1>3. ASSUME NEW k \in Stream, Connect(k) PROVE TailTypes'
  <2>1. named \in 0 .. created /\ created' = created /\ named \in File
    BY <1>3 DEF Connect, Opened, log, LogInv, LogTypes, File
  <2>2. Beginning(disk[named]) \in Nat
    BY <2>1, TailStreamAssumption DEF Beginning, LogInv, LogTypes
  <2>3. /\ pos' = [pos EXCEPT ![k] = Beginning(disk[named])]
        /\ start' = [start EXCEPT ![k] = pos'[k]]
        /\ file' = [file EXCEPT ![k] = named]
        /\ sock' = k /\ shown' = <<>> /\ UNCHANGED <<watched, gone, wire>>
    BY <1>3 DEF Connect, Opened
  <2> HIDE DEF Beginning
  <2>4. pos' \in [Stream -> Nat] /\ pos'[k] \in Nat
    BY <2>2, <2>3
  <2>5. start' \in [Stream -> Nat]
    BY <2>3, <2>4
  <2>6. file' \in [Stream -> 0 .. created'] /\ watched' \in [Stream -> 0 .. created']
    BY <2>1, <2>3
  <2> QED BY <2>3, <2>4, <2>5, <2>6
<1>4. ASSUME NEW k \in Stream, SendLine(k) PROVE TailTypes'
  <2>1. PICK row \in Parse(SubSeq(disk[file[k]], pos[k] + 1, LineEnd(k))) : Forward(k, row)
    BY <1>4 DEF SendLine
  <2>2. LineEnd(k) \in Nat /\ (row = 0 \/ row \in Line)
    BY <1>4, <2>1, RowIsLine DEF SendLine, At
  <2>3. pos' = [pos EXCEPT ![k] = LineEnd(k)]
        /\ UNCHANGED <<created, file, watched, gone, start, sock, shown>>
    BY <1>4 DEF SendLine, log, tab
  <2> HIDE DEF LineEnd
  <2>4. wire' \in [Stream -> Seq(Line)]
    BY <2>1, <2>2 DEF Forward
  <2>5. pos' \in [Stream -> Nat]
    BY <2>2, <2>3
  <2> QED BY <2>3, <2>4, <2>5
<1>5. ASSUME NEW k \in Stream, Watch(k) PROVE TailTypes'
  <2>1. named \in 0 .. created
    BY DEF LogInv, LogTypes
  <2> QED BY <1>5, <2>1 DEF Watch, log, tab
<1>6. ASSUME NEW k \in Stream, AtEnd(k) \/ Ping(k) \/ TakeTick(k) \/ Event(k) \/ Timer(k)
      PROVE  TailTypes'
  BY <1>6 DEF AtEnd, Ping, TakeTick, Event, Timer, log, tab
<1>7. ASSUME NEW k \in Stream, Leave(k) PROVE TailTypes'
  <2>0. created \in Nat
    BY DEF LogInv, LogTypes
  <2>1. UNCHANGED <<created, sock, shown>>
    BY <1>7 DEF Leave, End, log, tab
  <2>2. file' \in [Stream -> 0 .. created'] /\ watched' \in [Stream -> 0 .. created']
    BY <1>7, <2>0, <2>1 DEF Leave, End
  <2>3. pos' \in [Stream -> Nat] /\ start' \in [Stream -> Nat]
    BY <1>7 DEF Leave, End
  <2>4. gone' \in [Stream -> BOOLEAN]
    BY <1>7 DEF Leave, End
  <2>5. wire' \in [Stream -> Seq(Line)]
    BY <1>7 DEF Leave, End
  <2> QED BY <2>1, <2>2, <2>3, <2>4, <2>5
<1>8. CASE Fatal
  BY <1>8 DEF Fatal, log, LogInv, LogTypes
<1>9. CASE Deliver
  <2>1. wire[sock] \in Seq(Line) /\ wire[sock] # <<>>
    BY <1>9 DEF Deliver
  <2>2. Head(wire[sock]) \in Line /\ Tail(wire[sock]) \in Seq(Line)
    BY <2>1
  <2>3. <<Head(wire[sock])>> \o shown \in Seq(Line)
    BY <2>2
  <2>4. wire' \in [Stream -> Seq(Line)] /\ shown' \in Seq(Line)
        /\ UNCHANGED <<created, file, watched, pos, start, gone, sock>>
    BY <1>9, <2>2, <2>3 DEF Deliver, log
  <2> QED BY <2>4
<1>10. CASE Hangup
  <2>1. sock \in Stream
    BY <1>10 DEF Hangup
  <2>2. wire' \in [Stream -> Seq(Line)] /\ gone' \in [Stream -> BOOLEAN] /\ sock' = NoStream
        /\ UNCHANGED <<created, file, watched, pos, start, shown>>
    BY <1>10, <2>1 DEF Hangup, log
  <2> QED BY <2>2
<1> QED
  BY <1>1, <1>2, <1>3, <1>4, <1>5, <1>6, <1>7, <1>8, <1>9, <1>10
     DEF Next, Handler, NoName, NoWatcher

\* The handler of the tab's connection runs: a handler ends when its client has
\* gone, or with the server, which ends the connection.
LEMMA ConnectionStill == ASSUME TailInv, [Next]_vars PROVE Connection'
<1> USE TailStreamAssumption DEF TailInv, StreamInv, StreamTypes, TailTypes, Connection, Connected
<1>1. CASE LogStep \/ UNCHANGED vars
  BY <1>1 DEF LogStep, vars, stream, tab
<1>2. ASSUME NEW k \in Stream, Connect(k) PROVE Connection'
  BY <1>2 DEF Connect, Opened, At, Goto
<1>3. ASSUME NEW k \in Stream, SendLine(k) PROVE Connection'
  <2>1. At(k, "check") /\ UNCHANGED <<pc, gone, sock>>
    BY <1>3 DEF SendLine, tab
  <2>2. \A j \in Stream : j # k => wire'[j] = wire[j]
    BY <1>3 DEF SendLine, Forward
  <2> QED BY <2>1, <2>2 DEF At
<1>4. ASSUME NEW k \in Stream,
             Watch(k) \/ AtEnd(k) \/ Ping(k) \/ TakeTick(k) \/ Event(k) \/ Timer(k)
      PROVE  Connection'
  BY <1>4 DEF Watch, AtEnd, Ping, TakeTick, Event, Timer, At, Goto, tab
<1>5. ASSUME NEW k \in Stream, Leave(k) PROVE Connection'
  <2>1. gone[k] /\ sock' = sock /\ pc' = [pc EXCEPT ![k] = "none"]
        /\ gone' = [gone EXCEPT ![k] = FALSE] /\ wire' = [wire EXCEPT ![k] = <<>>]
    BY <1>5 DEF Leave, End, Goto, tab
  <2>2. k # sock
    BY <2>1
  <2> QED BY <2>1, <2>2
<1>6. CASE Fatal
  BY <1>6 DEF Fatal
<1>7. CASE Deliver
  BY <1>7 DEF Deliver
<1>8. CASE Hangup
  BY <1>8 DEF Hangup
<1> QED
  BY <1>1, <1>2, <1>3, <1>4, <1>5, <1>6, <1>7, <1>8 DEF Next, Handler, NoName, NoWatcher

\* The invariant holds at the start.
LEMMA TailInvInit == ASSUME Init PROVE TailInv
<1>1. LogInv /\ StreamInv
  BY StreamInvInit DEF StreamInv
<1>2. Counts
  BY DEF Init, LogInit, Counts
<1>3. TailTypes
  BY DEF Init, LogInit, TailTypes
<1>4. Connection
  BY DEF Init, Connection, Connected
<1> QED BY <1>1, <1>2, <1>3, <1>4 DEF TailInv

\* Either the log's writers step, or they and what they wrote stay as they are.
LEMMA LogQuiet ==
  ASSUME [Next]_vars, ~LogStep
  PROVE  UNCHANGED <<log, ever>>
BY DEF Next, vars, Connect, Opened, Handler, Watch, NoName, SendLine, AtEnd, Ping,
       TakeTick, Leave, End, Event, Timer, NoWatcher, Fatal, Deliver, Hangup

\* Every step keeps it.
LEMMA TailInvKept == ASSUME TailInv, [Next]_vars PROVE TailInv'
<1>1. LogInv' /\ StreamInv'
  BY LogInvKept, StreamInvKept DEF TailInv
<1>2. Counts'
  <2>1. CASE LogStep
    BY <2>1, CountsStill DEF TailInv
  <2>2. CASE ~LogStep
    BY <2>2, LogQuiet DEF TailInv, Counts, log
  <2> QED BY <2>1, <2>2
<1> QED BY <1>1, <1>2, TailTypesStill, ConnectionStill DEF TailInv

\* Every variable keeps its type: files and positions of handlers (tailer.go), locks
\* and lines of helpers (logBlock), and the rows of the tab.
THEOREM TypeCorrect == Spec => []TypeOK
<1>1. TailInv => TypeOK
  BY DEF TailInv, LogInv, LogTypes, StreamInv, StreamTypes, Counts, TailTypes, TypeOK
<1> QED BY <1>1, TailInvInit, TailInvKept, PTL DEF Spec

-----------------------------------------------------------------------------
(* The table: what a step does to what the connection reads and the tab has. *)

\* The reverse of a sequence, by its elements.
LEMMA ReverseIs ==
  ASSUME NEW s \in Seq(Line)
  PROVE  /\ Reverse(s) \in Seq(Line) /\ Len(Reverse(s)) = Len(s)
         /\ \A i \in 1 .. Len(s) : Reverse(s)[i] = s[(Len(s) - i) + 1]
<1>1. \A i \in 1 .. Len(s) : (Len(s) - i) + 1 \in 1 .. Len(s) /\ s[(Len(s) - i) + 1] \in Line
  OBVIOUS
<1>2. Reverse(s) \in [1 .. Len(s) -> Line]
  BY <1>1 DEF Reverse
<1> QED BY <1>2 DEF Reverse

\* A delivered row is still the same one of the rows.
LEMMA DeliveredStays ==
  ASSUME NEW s \in Seq(Line), NEW w \in Seq(Line), w # <<>>
  PROVE  Reverse(<<Head(w)>> \o s) \o Tail(w) = Reverse(s) \o w
<1> DEFINE new == <<Head(w)>> \o s
           a == Reverse(new)
           b == Reverse(s)
<1>1. /\ Len(w) >= 1 /\ Len(w) \in Nat /\ Len(s) \in Nat
      /\ Tail(w) \in Seq(Line) /\ Len(Tail(w)) = Len(w) - 1 /\ Head(w) = w[1]
      /\ \A i \in 1 .. Len(w) - 1 : Tail(w)[i] = w[i + 1]
  OBVIOUS
<1>2. /\ new \in Seq(Line) /\ Len(new) = Len(s) + 1 /\ new[1] = w[1]
      /\ \A i \in 1 .. Len(s) : new[i + 1] = s[i]
  BY <1>1
<1>3. /\ a \in Seq(Line) /\ Len(a) = Len(s) + 1
      /\ \A i \in 1 .. Len(s) + 1 : a[i] = new[(Len(s) + 1 - i) + 1]
  <2> HIDE DEF new
  <2> QED BY <1>2, ReverseIs
<1>4. /\ b \in Seq(Line) /\ Len(b) = Len(s)
      /\ \A i \in 1 .. Len(s) : b[i] = s[(Len(s) - i) + 1]
  BY ReverseIs
<1> HIDE DEF a, b, new
<1>5. \A i \in 1 .. Len(s) : a[i] = b[i]
  <2> SUFFICES ASSUME NEW i \in 1 .. Len(s) PROVE a[i] = b[i]
    OBVIOUS
  <2> DEFINE j == (Len(s) - i) + 1
  <2>1. j \in 1 .. Len(s) /\ (Len(s) + 1 - i) + 1 = j + 1 /\ i \in 1 .. Len(s) + 1
    BY <1>1
  <2>2. a[i] = new[j + 1] /\ b[i] = s[j]
    BY <1>3, <1>4, <2>1
  <2> QED BY <1>2, <2>1, <2>2
<1>6. a[Len(s) + 1] = w[1]
  <2>1. Len(s) + 1 \in 1 .. Len(s) + 1 /\ (Len(s) + 1 - (Len(s) + 1)) + 1 = 1
    BY <1>1
  <2> QED BY <1>2, <1>3, <2>1
<1>7. /\ a \o Tail(w) \in Seq(Line) /\ Len(a \o Tail(w)) = Len(s) + Len(w)
      /\ b \o w \in Seq(Line) /\ Len(b \o w) = Len(s) + Len(w)
  <2>1. a \o Tail(w) \in Seq(Line) /\ Len(a \o Tail(w)) = (Len(s) + 1) + (Len(w) - 1)
    BY <1>1, <1>3
  <2>2. b \o w \in Seq(Line) /\ Len(b \o w) = Len(s) + Len(w)
    <3>1. b \in Seq(Line) /\ w \in Seq(Line)
      BY <1>4
    <3>2. b \o w \in Seq(Line) /\ Len(b \o w) = Len(b) + Len(w)
      BY <3>1
    <3> QED BY <1>4, <3>2
  <2>3. (Len(s) + 1) + (Len(w) - 1) = Len(s) + Len(w)
    BY <1>1
  <2> QED BY <2>1, <2>2, <2>3
<1>8. ASSUME NEW i \in 1 .. Len(s) + Len(w) PROVE (a \o Tail(w))[i] = (b \o w)[i]
  <2>1. CASE i \in 1 .. Len(s)
    <3>1. (a \o Tail(w))[i] = a[i]
      BY <1>1, <1>3, <2>1
    <3>2. (b \o w)[i] = b[i]
      BY <1>1, <1>4, <2>1
    <3> QED BY <1>5, <2>1, <3>1, <3>2
  <2>2. CASE i = Len(s) + 1
    <3>1. (a \o Tail(w))[i] = a[i]
      BY <1>1, <1>3, <2>2
    <3>2. (b \o w)[i] = w[1]
      BY <1>1, <1>4, <2>2
    <3> QED BY <1>6, <2>2, <3>1, <3>2
  <2>3. CASE i > Len(s) + 1
    <3>1. i - (Len(s) + 1) \in 1 .. Len(w) - 1 /\ i - Len(s) \in 1 .. Len(w)
          /\ (i - (Len(s) + 1)) + 1 = i - Len(s)
      BY <1>1, <2>3
    <3>2. (a \o Tail(w))[i] = Tail(w)[i - (Len(s) + 1)]
      BY <1>1, <1>3, <3>1, <2>3
    <3>3. (b \o w)[i] = w[i - Len(s)]
      BY <1>1, <1>4, <3>1, <2>3
    <3> QED BY <1>1, <3>1, <3>2, <3>3
  <2>4. i \in 1 .. Len(s) \/ i = Len(s) + 1 \/ i > Len(s) + 1
    BY <1>1
  <2> QED BY <2>1, <2>2, <2>3, <2>4
<1>9. a \o Tail(w) = b \o w
  <2> DEFINE x == a \o Tail(w)
             y == b \o w
  <2>1. x \in Seq(Line) /\ y \in Seq(Line) /\ Len(x) = Len(y)
        /\ \A i \in 1 .. Len(x) : x[i] = y[i]
    BY <1>7, <1>8
  <2> HIDE DEF x, y
  <2>2. x = y
    BY <2>1
  <2> QED BY <2>2 DEF x, y
<1> QED BY <1>9 DEF a, b, new

\* While the tab is connected, it has been sent lines.
LEMMA RowsAre ==
  ASSUME TailTypes, Connected
  PROVE  sock \in Stream /\ Rows \in Seq(Line)
<1>1. sock \in Stream /\ wire[sock] \in Seq(Line) /\ shown \in Seq(Line)
  BY DEF TailTypes, Connected
<1> QED BY <1>1, ReverseIs DEF Rows

SameTab ==
  /\ sock' = sock /\ Rows' = Rows
  /\ file'[sock] = file[sock] /\ pos'[sock] = pos[sock] /\ start'[sock] = start[sock]

FreshTab ==
  /\ Rows' = <<>> /\ start'[sock'] = pos'[sock']
  /\ file'[sock'] \in File /\ pos'[sock'] = Beginning(disk[file'[sock']])

SentTab ==
  /\ HasLine(sock) /\ sock' = sock
  /\ file'[sock] = file[sock] /\ pos'[sock] = LineEnd(sock) /\ start'[sock] = start[sock]
  /\ \E row \in Parse(SubSeq(disk[file[sock]], pos[sock] + 1, LineEnd(sock))) :
       Rows' = IF row = 0 THEN Rows ELSE Append(Rows, row)

\* What a step does to the connection: nothing, a new one, or a line read.
LEMMA TabStep ==
  ASSUME TailInv, [Next]_vars, Connected'
  PROVE  \/ SameTab /\ (LogStep \/ UNCHANGED <<disk, ever>>)
         \/ FreshTab /\ UNCHANGED <<disk, ever>>
         \/ SentTab /\ UNCHANGED <<disk, ever>>
<1> USE TailStreamAssumption DEF TailInv, StreamInv, StreamTypes, Connection, Connected
<1>0. TailTypes
  OBVIOUS
<1>1. CASE LogStep \/ UNCHANGED vars
  BY <1>1 DEF LogStep, vars, stream, tab, log, SameTab, Rows
<1>2. ASSUME NEW k \in Stream, Connect(k)
      PROVE  FreshTab /\ UNCHANGED <<disk, ever>>
  <2>1. /\ named \in File /\ sock' = k /\ shown' = <<>> /\ wire' = wire
        /\ file' = [file EXCEPT ![k] = named]
        /\ pos' = [pos EXCEPT ![k] = Beginning(disk[named])]
        /\ start' = [start EXCEPT ![k] = pos'[k]] /\ pc[k] = "none"
        /\ UNCHANGED <<disk, ever>>
    BY <1>2, BlockLogAssumption
       DEF Connect, Opened, At, log, LogInv, LogTypes, File
  <2>2. wire[k] = <<>>
    BY <2>1
  <2>3. Rows' = <<>>
    <3>1. Rows' = Reverse(<<>>) \o <<>>
      BY <2>1, <2>2 DEF Rows
    <3>2. <<>> \in Seq(Line) /\ Len(<<>>) = 0
      OBVIOUS
    <3>3. Reverse(<<>>) \in Seq(Line) /\ Len(Reverse(<<>>)) = 0
      BY <3>2, ReverseIs
    <3> QED BY <3>1, <3>3
  <2>4. file'[k] = named /\ pos'[k] = Beginning(disk[named]) /\ start'[k] = pos'[k]
    <3> HIDE DEF Beginning
    <3> QED BY <1>0, <2>1 DEF TailTypes
  <2> QED BY <2>1, <2>3, <2>4 DEF FreshTab
<1>3. ASSUME NEW k \in Stream, SendLine(k)
      PROVE  (SameTab \/ SentTab) /\ UNCHANGED <<disk, ever>>
  <2>1. PICK row \in Parse(SubSeq(disk[file[k]], pos[k] + 1, LineEnd(k))) : Forward(k, row)
    BY <1>3 DEF SendLine
  <2>2. /\ HasLine(k) /\ pos' = [pos EXCEPT ![k] = LineEnd(k)]
        /\ UNCHANGED <<disk, ever, file, start, sock, shown>>
    BY <1>3 DEF SendLine, log, tab
  <2>3. CASE k # sock
    BY <1>0, <2>1, <2>2, <2>3 DEF SameTab, Rows, Forward, TailTypes
  <2>4. CASE k = sock
    <3>1. ~gone[k] /\ pc[k] # "none"
      BY <2>2, <2>4
    <3>2. row = 0 \/ row \in Line
      BY <2>2, <3>1, <2>1, RowIsLine
    <3>3. wire'[k] = IF row = 0 THEN wire[k] ELSE Append(wire[k], row)
      BY <1>0, <2>1, <3>1 DEF Forward, TailTypes
    <3>4. Reverse(shown) \in Seq(Line) /\ wire[k] \in Seq(Line)
      BY <1>0, ReverseIs DEF TailTypes
    <3>5. Rows' = IF row = 0 THEN Rows ELSE Append(Rows, row)
      <4> DEFINE r == Reverse(shown)
                 w == wire[k]
      <4>1. r \in Seq(Line) /\ w \in Seq(Line) /\ Rows = r \o w
            /\ Rows' = r \o IF row = 0 THEN w ELSE Append(w, row)
        BY <2>2, <2>4, <3>3, <3>4 DEF Rows
      <4> HIDE DEF r, w
      <4>2. row \in Line => r \o Append(w, row) = Append(r \o w, row)
        BY <4>1
      <4> QED BY <3>2, <4>1, <4>2
    <3>6. pos'[k] = LineEnd(k)
      BY <1>0, <2>2 DEF TailTypes
    <3> QED BY <2>2, <2>4, <3>5, <3>6 DEF SentTab
  <2> QED BY <2>2, <2>3, <2>4
<1>4. ASSUME NEW k \in Stream,
             Watch(k) \/ AtEnd(k) \/ Ping(k) \/ TakeTick(k) \/ Event(k) \/ Timer(k)
      PROVE  SameTab /\ UNCHANGED <<disk, ever>>
  BY <1>4 DEF Watch, AtEnd, Ping, TakeTick, Event, Timer, tab, log, SameTab, Rows
<1>5. ASSUME NEW k \in Stream, Leave(k) PROVE SameTab /\ UNCHANGED <<disk, ever>>
  <2>1. /\ gone[k] /\ UNCHANGED <<disk, ever, sock, shown>>
        /\ file' = [file EXCEPT ![k] = 0] /\ pos' = [pos EXCEPT ![k] = 0]
        /\ start' = [start EXCEPT ![k] = 0] /\ wire' = [wire EXCEPT ![k] = <<>>]
    BY <1>5 DEF Leave, End, tab, log
  <2>2. k # sock
    BY <2>1
  <2> QED BY <1>0, <2>1, <2>2 DEF SameTab, Rows, TailTypes
<1>6. CASE Deliver
  <2>1. /\ wire[sock] # <<>> /\ shown' = <<Head(wire[sock])>> \o shown
        /\ wire' = [wire EXCEPT ![sock] = Tail(@)] /\ sock \in Stream
        /\ UNCHANGED <<disk, ever, file, pos, start, sock>>
    BY <1>0, <1>6 DEF Deliver, log, TailTypes
  <2>2. wire'[sock] = Tail(wire[sock]) /\ wire[sock] \in Seq(Line) /\ shown \in Seq(Line)
    BY <1>0, <2>1 DEF TailTypes
  <2>3. Rows' = Rows
    BY <2>1, <2>2, DeliveredStays DEF Rows
  <2> QED BY <2>1, <2>3 DEF SameTab
<1> QED
  BY <1>1, <1>2, <1>3, <1>4, <1>5, <1>6 DEF Next, Handler, NoName, NoWatcher, Fatal, Hangup

-----------------------------------------------------------------------------
(* No whole line is skipped.                                                 *)

\* Of a file that was not truncated, the connection has read whole lines, from
\* where it began.
Reading ==
  Connected =>
    /\ start[sock] <= pos[sock]
    /\ disk[file[sock]] = ever[file[sock]] =>
         /\ pos[sock] <= Len(disk[file[sock]])
         /\ start[sock] < pos[sock] => disk[file[sock]][pos[sock]][2] = 2

\* A line that is whole is two cells, which follow the end of another.
Stands(cells, i) ==
  /\ i \in 1 .. Len(cells) - 1
  /\ cells[i][1] = cells[i + 1][1] /\ cells[i][2] = 1
  /\ cells[i][1] \notin Unparsable
  /\ i = 1 \/ cells[i - 1][2] = 2

\* A line that stands is a complete piece after the end of another.
LEMMA StandsIs ==
  ASSUME NEW cells \in Seq(Cell), NEW i \in Nat
  PROVE  Stands(cells, i) <=>
           /\ {i, i + 1} \subseteq DOMAIN cells /\ Complete(SubSeq(cells, i, i + 1))
           /\ cells[i][1] \notin Unparsable
           /\ i = 1 \/ cells[i - 1][2] = 2
<1>1. {i, i + 1} \subseteq DOMAIN cells <=> i \in 1 .. Len(cells) - 1
  OBVIOUS
<1>2. ASSUME i \in 1 .. Len(cells) - 1
      PROVE  Complete(SubSeq(cells, i, i + 1))
             <=> cells[i][1] = cells[i + 1][1] /\ cells[i][2] = 1
  <2>1. Len(SubSeq(cells, i, i + 1)) = 2 /\ SubSeq(cells, i, i + 1)[1] = cells[i]
        /\ SubSeq(cells, i, i + 1)[2] = cells[i + 1]
    BY <1>2
  <2> QED BY <2>1 DEF Complete
<1> QED BY <1>1, <1>2 DEF Stands

\* What is appended does not change what stands before.
LEMMA StandsInMore ==
  ASSUME NEW d \in Seq(Cell), NEW cell \in Cell, NEW p \in Nat, p <= Len(d),
         NEW i \in 1 .. p - 1
  PROVE  /\ Stands(Append(d, cell), i) <=> Stands(d, i)
         /\ Append(d, cell)[i] = d[i]
<1>1. \A j \in 1 .. p : Append(d, cell)[j] = d[j]
  OBVIOUS
<1>2. i \in 1 .. p /\ i + 1 \in 1 .. p /\ (i # 1 => i - 1 \in 1 .. p)
  OBVIOUS
<1>3. i \in 1 .. Len(d) - 1 /\ i \in 1 .. Len(Append(d, cell)) - 1
  OBVIOUS
<1> DEFINE e == Append(d, cell)
<1> HIDE DEF e
<1>4. e[i] = d[i] /\ e[i + 1] = d[i + 1] /\ (i # 1 => e[i - 1] = d[i - 1])
  BY <1>1, <1>2 DEF e
<1> QED BY <1>3, <1>4 DEF Stands, e

\* A complete piece that parses is taken for its line, and nothing else.
LEMMA CompleteRow ==
  ASSUME NEW piece, Complete(piece), 1 \in DOMAIN piece, piece[1][1] \notin Unparsable,
         DOMAIN piece = {1, 2}, NEW row \in Parse(piece)
  PROVE  row = piece[1][1]
<1>1. {piece[i][1] : i \in DOMAIN piece} \ Unparsable = {piece[1][1]}
  BY DEF Complete
<1> QED BY <1>1 DEF Parse

\* The line that stands in the piece just read is the row that was sent.
LEMMA PieceSent ==
  ASSUME NEW d \in Seq(Cell), NEW p \in Nat, NEW e \in DOMAIN d, p < e,
         \A j \in DOMAIN d : j > p /\ d[j][2] = 2 => e <= j,
         NEW i \in p + 1 .. e - 1, Stands(d, i), d[i + 1][2] = 2,
         NEW row \in Parse(SubSeq(d, p + 1, e))
  PROVE  row = d[i][1] /\ row \in Line
<1>1. i \in DOMAIN d /\ i + 1 \in DOMAIN d /\ i + 1 > p
  OBVIOUS
<1>2. e = i + 1
  BY <1>1
<1>3. i = p + 1
  <2>1. CASE i = 1
    BY <2>1
  <2>2. CASE i # 1
    <3>1. d[i - 1][2] = 2 /\ i - 1 \in DOMAIN d
      BY <2>2, <1>1 DEF Stands
    <3>2. ~(i - 1 > p)
      BY <1>2, <3>1
    <3> QED BY <3>2
  <2> QED BY <2>1, <2>2
<1> DEFINE piece == SubSeq(d, p + 1, e)
<1>4. Len(piece) = 2 /\ DOMAIN piece = {1, 2} /\ piece[1] = d[i] /\ piece[2] = d[i + 1]
  BY <1>2, <1>3
<1>5. Complete(piece) /\ piece[1][1] \notin Unparsable
  BY <1>4 DEF Complete, Stands
<1>6. row \in Parse(piece)
  OBVIOUS
<1>7. row = d[i][1]
  <2> HIDE DEF piece
  <2> QED BY <1>4, <1>5, <1>6, CompleteRow
<1>8. d[i] \in Cell
  BY <1>1
<1> QED BY <1>7, <1>8 DEF Cell

\* What is left of a file that was emptied is less than all that was written to it.
LEMMA WholeFile ==
  ASSUME TailInv, TailInv', Kept, NEW f \in File, disk'[f] = ever'[f], LogStep
  PROVE  \/ Same(f)
         \/ \E cell \in Cell : Added(f, cell) /\ disk[f] = ever[f]
<1>0. disk[f] \in Seq(Cell) /\ ever[f] \in Seq(Cell)
  BY DEF TailInv, LogInv, LogTypes
<1>1. ~Emptied(f)
  <2> SUFFICES ASSUME Emptied(f) PROVE FALSE
    OBVIOUS
  <2>1. disk[f] # <<>> /\ ever[f] = <<>> /\ Len(disk[f]) <= Len(ever[f])
    BY DEF Emptied, Kept
  <2>2. Len(ever[f]) = 0
    BY <2>1
  <2> QED BY <1>0, <2>1, <2>2
<1>2. ASSUME NEW cell \in Cell, Added(f, cell) PROVE disk[f] = ever[f]
  <2> DEFINE d == disk[f]
             e == ever[f]
  <2>1. Append(d, cell) = Append(e, cell) /\ d \in Seq(Cell) /\ e \in Seq(Cell)
    BY <1>0, <1>2 DEF Added
  <2> HIDE DEF d, e
  <2>2. Len(d) = Len(e)
    BY <2>1
  <2>3. \A i \in 1 .. Len(d) : d[i] = Append(d, cell)[i] /\ e[i] = Append(e, cell)[i]
    BY <2>1, <2>2
  <2>4. d = e
    BY <2>1, <2>2, <2>3
  <2> QED BY <2>4 DEF d, e
<1> QED BY <1>1, <1>2, FileStep DEF TailInv

\* Every step keeps the position at the end of a line, and nothing skipped.
LEMMA ReadingStill ==
  ASSUME TailInv, TailInv', Kept, Once, [Next]_vars, Reading, NothingSkipped
  PROVE  Reading' /\ NothingSkipped'
<1> SUFFICES ASSUME Connected' PROVE Reading' /\ NothingSkipped'
  BY DEF Reading, NothingSkipped
<1> DEFINE f == file[sock]
           p == pos[sock]
           b == start[sock]
           d == disk[f]
<1>a. Connected => /\ sock \in Stream /\ f \in File /\ d \in Seq(Cell)
                   /\ p \in Nat /\ b \in Nat /\ Rows \in Seq(Line)
  <2> SUFFICES ASSUME Connected
               PROVE  /\ sock \in Stream /\ f \in File /\ d \in Seq(Cell)
                      /\ p \in Nat /\ b \in Nat /\ Rows \in Seq(Line)
    OBVIOUS
  <2>1. sock \in Stream /\ Rows \in Seq(Line) /\ pc[sock] # "none"
    BY RowsAre DEF TailInv, Connection
  <2>2. f \in File
    BY <2>1, BlockLogAssumption DEF TailInv, StreamInv, StreamTypes, File
  <2> QED BY <2>1, <2>2 DEF TailInv, TailTypes, LogInv, LogTypes
<1>1. CASE FreshTab /\ UNCHANGED <<disk, ever>>
  <2> DEFINE g == file'[sock']
             q == pos'[sock']
  <2>1. g \in File /\ q = Beginning(disk[g]) /\ start'[sock'] = q /\ disk[g] \in Seq(Cell)
    BY <1>1 DEF FreshTab, TailInv, LogInv, LogTypes
  <2>2. q \in Nat /\ q <= Len(disk[g])
    BY <2>1, TailStreamAssumption DEF Beginning
  <2>3. Reading'
    BY <1>1, <2>1, <2>2 DEF Reading
  <2>4. start'[sock'] + 1 .. pos'[sock'] - 1 = {}
    BY <2>1, <2>2
  <2> QED BY <2>3, <2>4 DEF NothingSkipped
<1>2. CASE SameTab /\ Connected /\ UNCHANGED <<disk, ever>>
  <2>1. Reading'
    BY <1>2 DEF Reading, SameTab
  <2>2. NothingSkipped'
    BY <1>2 DEF NothingSkipped, SameTab, WholeAt
  <2> QED BY <2>1, <2>2
<1>3. CASE SameTab /\ Connected /\ LogStep
  <2>0. /\ sock' = sock /\ file'[sock] = f /\ pos'[sock] = p /\ start'[sock] = b /\ Rows' = Rows
        /\ sock \in Stream /\ f \in File /\ d \in Seq(Cell) /\ p \in Nat /\ b \in Nat
        /\ b <= p
    BY <1>3, <1>a DEF SameTab, Reading
  <2>1. CASE disk'[f] # ever'[f]
    BY <2>0, <2>1 DEF Reading, NothingSkipped
  <2>2. CASE disk'[f] = ever'[f]
    <3>1. CASE Same(f)
      BY <2>0, <2>2, <3>1, <1>3 DEF Same, Reading, NothingSkipped, WholeAt
    <3>2. ASSUME NEW cell \in Cell, Added(f, cell), disk[f] = ever[f]
          PROVE  Reading' /\ NothingSkipped'
      <4>1. disk'[f] = Append(d, cell) /\ p <= Len(d) /\ (b < p => d[p][2] = 2)
        BY <1>3, <3>2 DEF Added, Reading
      <4>2. Reading'
        <5>1. Len(disk'[f]) = Len(d) + 1 /\ (b < p => disk'[f][p] = d[p])
          BY <2>0, <4>1
        <5> QED BY <2>0, <4>1, <5>1 DEF Reading
      <4>3. ASSUME NEW i \in b + 1 .. p - 1, WholeAt(f, i)'
            PROVE  disk'[f][i][1] \in ToSet(Rows)
        <5>1. i \in 1 .. p - 1 /\ i \in Nat
          BY <2>0
        <5>2. Stands(disk'[f], i)
          <6>1. disk'[f] \in Seq(Cell)
            BY <2>0 DEF TailInv, LogInv, LogTypes
          <6> DEFINE x == disk'[f]
          <6>2. Stands(x, i) <=> WholeAt(f, i)'
            <7>1. WholeAt(f, i)' <=>
                    /\ {i, i + 1} \subseteq DOMAIN x /\ Complete(SubSeq(x, i, i + 1))
                    /\ x[i][1] \notin Unparsable
                    /\ i = 1 \/ x[i - 1][2] = 2
              BY <2>0 DEF WholeAt
            <7> HIDE DEF x
            <7> QED BY <5>1, <6>1, <7>1, StandsIs DEF x
          <6> QED BY <4>3, <6>2
        <5>3. Stands(d, i) /\ disk'[f][i] = d[i]
          <6> HIDE DEF d, p, f
          <6> QED BY <2>0, <4>1, <5>1, <5>2, StandsInMore
        <5>4. WholeAt(f, i)
          BY <2>0, <5>1, <5>3, StandsIs DEF WholeAt
        <5> QED BY <1>3, <3>2, <5>3, <5>4 DEF NothingSkipped
      <4> QED BY <2>0, <4>2, <4>3 DEF NothingSkipped
    <3> QED BY <1>3, <2>0, <2>2, <3>1, <3>2, WholeFile
  <2> QED BY <2>1, <2>2
<1>4. CASE SentTab /\ Connected /\ UNCHANGED <<disk, ever>>
  <2> DEFINE e == LineEnd(sock)
  <2>0. /\ sock' = sock /\ file'[sock] = f /\ pos'[sock] = e /\ start'[sock] = b
        /\ sock \in Stream /\ f \in File /\ d \in Seq(Cell) /\ p \in Nat /\ b \in Nat
        /\ b <= p /\ Rows \in Seq(Line)
    BY <1>4, <1>a DEF SentTab, Reading
  <2>1. PICK row \in Parse(SubSeq(d, p + 1, e)) :
           Rows' = IF row = 0 THEN Rows ELSE Append(Rows, row)
    BY <1>4 DEF SentTab
  <2>2. e \in DOMAIN d /\ e > p /\ d[e][2] = 2
        /\ \A j \in DOMAIN d : j > p /\ d[j][2] = 2 => e <= j
    BY <1>4, <2>0, LineEndIs DEF SentTab
  <2> HIDE DEF e
  <2>3. Reading'
    BY <1>4, <2>0, <2>2 DEF Reading
  <2>4. ASSUME d = ever[f], NEW i \in b + 1 .. e - 1, WholeAt(f, i)
        PROVE  d[i][1] \in ToSet(Rows')
    <3>1. i \in Nat /\ Stands(d, i)
      BY <2>0, <2>2, <2>4, StandsIs DEF WholeAt
    <3>2. row \in Line => /\ ToSet(Rows) \subseteq ToSet(Rows')
                          /\ row \in ToSet(Rows')
      <4> SUFFICES ASSUME row \in Line
                   PROVE  ToSet(Rows) \subseteq ToSet(Rows') /\ row \in ToSet(Rows')
        OBVIOUS
      <4>1. Rows' = Append(Rows, row)
        BY <2>1, BlockLogAssumption DEF Line
      <4> DEFINE r == Rows
      <4>2. /\ \A n \in DOMAIN r : n \in DOMAIN Append(r, row) /\ Append(r, row)[n] = r[n]
            /\ Len(r) + 1 \in DOMAIN Append(r, row) /\ Append(r, row)[Len(r) + 1] = row
        <5>1. r \in Seq(Line)
          BY <2>0
        <5> HIDE DEF r
        <5> QED BY <5>1
      <4> QED BY <4>1, <4>2 DEF ToSet
    <3>3. ToSet(Rows) \subseteq ToSet(Rows')
      <4>1. row = 0 \/ row \in Line
        BY <2>0, <2>2, RowOfPiece
      <4>2. CASE row = 0
        BY <2>1, <4>2
      <4> QED BY <3>2, <4>1, <4>2
    <3>4. CASE i <= p - 1
      BY <1>4, <2>0, <2>4, <3>3, <3>4 DEF NothingSkipped
    <3>5. i # p
      <4>1. i = p => d[p][2] = 2
        BY <1>4, <2>0, <2>4 DEF Reading
      <4> QED BY <3>1, <4>1 DEF Stands
    <3>6. CASE i > p
      <4>1. i \in DOMAIN d /\ i + 1 \in DOMAIN d /\ d[i] \in Cell /\ d[i + 1] \in Cell
        BY <2>0, <3>1 DEF Stands
      <4>2. d[i + 1][2] = 2
        <5>1. d[i + 1][2] \in {1, 2}
          BY <4>1 DEF Cell
        <5>2. d[i + 1][2] = 1 => d[i + 1] = d[i]
          BY <3>1, <4>1 DEF Stands, Cell
        <5>3. d[i][2] = 1 /\ d[i + 1] = d[i] => i = i + 1
          BY <2>0, <2>4, <4>1 DEF Once
        <5> QED BY <3>1, <5>1, <5>2, <5>3 DEF Stands
      <4>3. i \in p + 1 .. e - 1
        BY <2>0, <2>2, <3>1, <3>6
      <4>4. row = d[i][1] /\ row \in Line
        <5> HIDE DEF d, p
        <5> QED BY <2>0, <2>1, <2>2, <3>1, <4>2, <4>3, PieceSent
      <4> QED BY <3>2, <4>4
    <3> QED BY <2>0, <2>2, <3>1, <3>4, <3>5, <3>6
  <2>5. NothingSkipped'
    BY <1>4, <2>0, <2>4 DEF NothingSkipped, WholeAt
  <2> QED BY <2>3, <2>5
<1>5. SameTab \/ SentTab => Connected
  BY DEF SameTab, SentTab, Connected
<1> QED BY <1>1, <1>2, <1>3, <1>4, <1>5, TabStep

-----------------------------------------------------------------------------
(* The table is in the order of the log.                                     *)

BeginsAt(f, row, i) == i \in DOMAIN ever[f] /\ ever[f][i] = <<row, 1>>

\* The lines in the table begin in the file before the position of the connection,
\* and in the order of the rows.
Passed(f, rows, p) ==
  /\ rows # <<>> => p > 0
  /\ \A n \in DOMAIN rows : \E i \in Nat : BeginsAt(f, rows[n], i) /\ i < Before(f) + p

Sorted(f, rows) ==
  \A m, n \in DOMAIN rows : \A i, j \in Nat :
    m < n /\ BeginsAt(f, rows[m], i) /\ BeginsAt(f, rows[n], j) => i < j

Behind == Connected => Passed(file[sock], Rows, pos[sock])

InOrder == Connected => Sorted(file[sock], Rows)

\* A line begins in one place.
LEMMA PlaceIs ==
  ASSUME Once, NEW f \in File, NEW row, NEW i, BeginsAt(f, row, i)
  PROVE  Place(f, row) = i
<1>1. \A j \in DOMAIN ever[f] : ever[f][j] = <<row, 1>> => j = i
  BY DEF Once, BeginsAt
<1> QED BY <1>1 DEF BeginsAt, Place

\* Rows in the order of their beginnings are in the order of the log.
LEMMA InOrderIs == ASSUME TailInv, Once, Behind, InOrder PROVE Ordered
<1> SUFFICES ASSUME Connected, NEW m \in DOMAIN Rows, NEW n \in DOMAIN Rows, m < n
             PROVE  Place(file[sock], Rows[m]) < Place(file[sock], Rows[n])
  BY DEF Ordered
<1> PICK f \in File : f = file[sock]
  BY BlockLogAssumption, RowsAre
     DEF TailInv, StreamInv, StreamTypes, Connection, File
<1>1. PICK i \in Nat : BeginsAt(f, Rows[m], i)
  BY DEF Behind, Passed
<1>2. PICK j \in Nat : BeginsAt(f, Rows[n], j)
  BY DEF Behind, Passed
<1>3. i < j
  BY <1>1, <1>2 DEF InOrder, Sorted
<1> QED BY <1>1, <1>2, <1>3, PlaceIs

\* Where a line begins stays, and so does that the position is behind it.
LEMMA BeginningStays ==
  ASSUME TailInv, LogStep, Kept, NEW f \in File, NEW row, NEW i \in Nat,
         BeginsAt(f, row, i), NEW p \in Nat, p > 0, i < Before(f) + p
  PROVE  BeginsAt(f, row, i)' /\ i < Before(f)' + p
<1> DEFINE d == disk[f]
           e == ever[f]
<1>1. d \in Seq(Cell) /\ e \in Seq(Cell) /\ Len(d) <= Len(e) /\ i \in 1 .. Len(e)
  BY DEF TailInv, LogInv, LogTypes, Kept, BeginsAt
<1>2. CASE Same(f)
  BY <1>2 DEF Same, BeginsAt, Before
<1>3. CASE Emptied(f)
  <2>1. disk'[f] = <<>> /\ ever'[f] = e
    BY <1>3 DEF Emptied
  <2>2. Before(f)' = Len(e)
    <3>1. Len(disk'[f]) = 0
      BY <2>1
    <3> QED BY <1>1, <2>1, <3>1 DEF Before
  <2> QED BY <1>1, <2>1, <2>2 DEF BeginsAt
<1>4. ASSUME NEW cell \in Cell, Added(f, cell)
      PROVE  BeginsAt(f, row, i)' /\ i < Before(f)' + p
  <2>1. disk'[f] = Append(d, cell) /\ ever'[f] = Append(e, cell)
    BY <1>4 DEF Added
  <2>2. /\ Len(disk'[f]) = Len(d) + 1 /\ Len(ever'[f]) = Len(e) + 1
        /\ i \in DOMAIN ever'[f] /\ ever'[f][i] = e[i]
    <3> HIDE DEF d, e
    <3> QED BY <1>1, <2>1
  <2>3. Before(f)' = Before(f)
    BY <1>1, <2>2 DEF Before
  <2> QED BY <2>2, <2>3 DEF BeginsAt
<1> QED BY <1>2, <1>3, <1>4, FileStep DEF TailInv

\* The line of a cell of a file begins at it or just before it.
LEMMA BeginningOf ==
  ASSUME TailInv, Kept, NEW f \in File, NEW p \in Nat, NEW e \in DOMAIN disk[f],
         p < e, disk[f][e][2] = 2, NEW m \in p + 1 .. e
  PROVE  \E i \in Nat : /\ BeginsAt(f, disk[f][m][1], i)
                        /\ Before(f) + p <= i /\ i < Before(f) + e
<1> DEFINE n == Before(f) + m
           row == disk[f][m][1]
<1>1. /\ disk[f] \in Seq(Cell) /\ ever[f] \in Seq(Cell) /\ Len(disk[f]) <= Len(ever[f])
      /\ m \in DOMAIN disk[f] /\ Before(f) \in Nat
      /\ n \in DOMAIN ever[f] /\ ever[f][n] = disk[f][m]
  <2>1. /\ disk[f] \in Seq(Cell) /\ ever[f] \in Seq(Cell) /\ Len(disk[f]) <= Len(ever[f])
        /\ m \in DOMAIN disk[f]
    BY DEF TailInv, LogInv, LogTypes, Kept
  <2>2. Before(f) \in Nat /\ n \in 1 .. Len(ever[f])
    <3> DEFINE x == Len(ever[f])
               y == Len(disk[f])
    <3>1. x \in Nat /\ y \in Nat /\ y <= x /\ m \in Nat /\ 1 <= m /\ m <= y
      BY <2>1
    <3>2. Before(f) = x - y
      BY DEF Before
    <3> HIDE DEF x, y
    <3>3. x - y \in Nat /\ (x - y) + m \in 1 .. x
      BY <3>1
    <3> QED BY <3>2, <3>3 DEF x
  <2>3. ever[f][n] = disk[f][m]
    BY <2>1 DEF Kept
  <2> QED BY <2>1, <2>2, <2>3
<1>2. ever[f][n] \in Cell
  BY <1>1
<1>3. CASE ever[f][n][2] = 1
  <2>1. ever[f][n] = <<row, 1>>
    BY <1>1, <1>2, <1>3 DEF Cell
  <2>2. m # e
    BY <1>1, <1>3
  <2>3. n \in Nat /\ Before(f) + p <= n /\ n < Before(f) + e
    BY <1>1, <2>2
  <2> QED BY <1>1, <2>1, <2>3 DEF BeginsAt
<1>4. CASE ever[f][n][2] = 2
  <2>1. n > 1 /\ ever[f][n - 1] = <<row, 1>>
    BY <1>1, <1>4 DEF TailInv, LogInv, LinesWhole
  <2>2. n - 1 \in DOMAIN ever[f] /\ n - 1 \in Nat
        /\ Before(f) + p <= n - 1 /\ n - 1 < Before(f) + e
    <3> DEFINE b == Before(f)
               len == Len(ever[f])
    <3>1. /\ b \in Nat /\ len \in Nat /\ e \in Nat /\ p + 1 <= m /\ m <= e /\ m \in Nat
          /\ n = b + m /\ n \in 1 .. len /\ DOMAIN ever[f] = 1 .. len
      BY <1>1
    <3> HIDE DEF b, len, n
    <3>2. n - 1 \in 1 .. len /\ n - 1 \in Nat /\ b + p <= n - 1 /\ n - 1 < b + e
      BY <2>1, <3>1
    <3> QED BY <3>1, <3>2 DEF b
  <2> QED BY <2>1, <2>2 DEF BeginsAt
<1> QED BY <1>2, <1>3, <1>4 DEF Cell

\* What the log's writers do keeps the rows passed, and in order.
LEMMA WrittenPast ==
  ASSUME TailInv, TailInv', LogStep, Kept, Once', NEW f \in File, NEW rows \in Seq(Line),
         NEW p \in Nat, Passed(f, rows, p), Sorted(f, rows)
  PROVE  Passed(f, rows, p)' /\ Sorted(f, rows)'
<1>1. ASSUME NEW n \in DOMAIN rows
      PROVE  \E i \in Nat : /\ BeginsAt(f, rows[n], i) /\ BeginsAt(f, rows[n], i)'
                           /\ i < Before(f)' + p
  <2>1. PICK i \in Nat : BeginsAt(f, rows[n], i) /\ i < Before(f) + p
    BY <1>1 DEF Passed
  <2>2. p > 0
    BY <1>1 DEF Passed
  <2>3. BeginsAt(f, rows[n], i)' /\ i < Before(f)' + p
    BY <2>1, <2>2, BeginningStays
  <2> QED BY <2>1, <2>3
<1>2. Passed(f, rows, p)'
  <2>1. rows # <<>> => p > 0
    BY DEF Passed
  <2>2. \A n \in DOMAIN rows : \E i \in Nat : BeginsAt(f, rows[n], i)' /\ i < Before(f)' + p
    BY <1>1
  <2> QED BY <2>1, <2>2 DEF Passed
<1>3. ASSUME NEW m \in DOMAIN rows, NEW n \in DOMAIN rows, NEW i \in Nat, NEW j \in Nat,
             m < n, BeginsAt(f, rows[m], i)', BeginsAt(f, rows[n], j)'
      PROVE  i < j
  <2>0. \A row, k, l : BeginsAt(f, row, k)' /\ BeginsAt(f, row, l)' => k = l
    BY DEF Once, BeginsAt
  <2>1. PICK a \in Nat : BeginsAt(f, rows[m], a) /\ BeginsAt(f, rows[m], a)'
    BY <1>1
  <2>2. PICK b \in Nat : BeginsAt(f, rows[n], b) /\ BeginsAt(f, rows[n], b)'
    BY <1>1
  <2>3. a = i
    BY <1>3, <2>0, <2>1
  <2>4. b = j
    BY <1>3, <2>0, <2>2
  <2>5. a < b
    BY <1>3, <2>1, <2>2 DEF Sorted
  <2> QED BY <2>3, <2>4, <2>5
<1>4. Sorted(f, rows)'
  BY <1>3 DEF Sorted
<1> QED BY <1>2, <1>4

\* A line just read begins where the connection was, or later: after those before it.
LEMMA ReadOn ==
  ASSUME TailInv, Kept, Once, NEW f \in File, NEW rows \in Seq(Line), NEW p \in Nat,
         Passed(f, rows, p), Sorted(f, rows),
         NEW e \in DOMAIN disk[f], e > p, disk[f][e][2] = 2,
         NEW row \in Parse(SubSeq(disk[f], p + 1, e)), NEW new,
         new = IF row = 0 THEN rows ELSE Append(rows, row)
  PROVE  Passed(f, new, e) /\ Sorted(f, new)
<1>0. /\ e \in Nat /\ e > 0 /\ disk[f] \in Seq(Cell) /\ Before(f) \in Nat
  <2>1. disk[f] \in Seq(Cell) /\ ever[f] \in Seq(Cell) /\ Len(disk[f]) <= Len(ever[f])
    BY DEF TailInv, LogInv, LogTypes, Kept
  <2> QED BY <2>1 DEF Before
<1>1. ASSUME NEW n \in DOMAIN rows
      PROVE  \E i \in Nat : BeginsAt(f, rows[n], i) /\ i < Before(f) + e
  <2>1. PICK i \in Nat : BeginsAt(f, rows[n], i) /\ i < Before(f) + p
    BY <1>1 DEF Passed
  <2> QED BY <1>0, <2>1
<1>2. CASE row = 0
  BY <1>0, <1>1, <1>2 DEF Passed
<1>3. CASE row # 0
  <2>1. row \in Line /\ \E m \in p + 1 .. e : row = disk[f][m][1]
    BY <1>0, <1>3, RowOfPiece
  <2>2. PICK q \in Nat : /\ BeginsAt(f, row, q)
                         /\ Before(f) + p <= q /\ q < Before(f) + e
    BY <2>1, BeginningOf
  <2>3. /\ DOMAIN new = 1 .. Len(rows) + 1 /\ \A n \in DOMAIN rows : new[n] = rows[n]
        /\ new[Len(rows) + 1] = row /\ DOMAIN rows = 1 .. Len(rows) /\ Len(rows) \in Nat
    BY <1>3, <2>1
  <2>4. ASSUME NEW n \in DOMAIN new
        PROVE  \E i \in Nat : BeginsAt(f, new[n], i) /\ i < Before(f) + e
    <3>1. CASE n \in DOMAIN rows
      BY <1>1, <2>3, <3>1
    <3>2. CASE n = Len(rows) + 1
      BY <2>2, <2>3, <3>2
    <3> QED BY <2>3, <3>1, <3>2
  <2>5. ASSUME NEW m \in DOMAIN new, NEW n \in DOMAIN new, NEW i \in Nat, NEW j \in Nat,
               m < n, BeginsAt(f, new[m], i), BeginsAt(f, new[n], j)
        PROVE  i < j
    <3>1. m \in DOMAIN rows /\ new[m] = rows[m]
      BY <2>3, <2>5
    <3>2. CASE n \in DOMAIN rows
      BY <2>3, <2>5, <3>1, <3>2 DEF Sorted
    <3>3. CASE n = Len(rows) + 1
      <4>1. PICK a \in Nat : BeginsAt(f, rows[m], a) /\ a < Before(f) + p
        BY <3>1 DEF Passed
      <4>2. a = i
        BY <2>5, <3>1, <4>1, PlaceIs
      <4>3. new[n] = row
        BY <2>3, <3>3
      <4>4. q = j
        BY <2>2, <2>5, <4>3, PlaceIs
      <4> QED BY <1>0, <2>2, <4>1, <4>2, <4>4
    <3> QED BY <2>3, <3>2, <3>3
  <2> QED BY <1>0, <2>4, <2>5 DEF Passed, Sorted
<1> QED BY <1>2, <1>3

\* Every step keeps the rows in order.
LEMMA OrderStill ==
  ASSUME TailInv, TailInv', Kept, Once, Once', [Next]_vars, Behind, InOrder
  PROVE  Behind' /\ InOrder'
<1> SUFFICES ASSUME Connected' PROVE Behind' /\ InOrder'
  BY DEF Behind, InOrder
<1>1. CASE FreshTab
  <2>1. Rows' = <<>> /\ DOMAIN Rows' = {}
    BY <1>1 DEF FreshTab
  <2> QED BY <2>1 DEF Behind, InOrder, Passed, Sorted
<1>2. CASE Connected /\ (SameTab \/ SentTab)
  <2>0. /\ sock \in Stream /\ Rows \in Seq(Line) /\ file[sock] \in File
        /\ pos[sock] \in Nat
    <3>1. sock \in Stream /\ Rows \in Seq(Line) /\ pc[sock] # "none"
      BY <1>2, RowsAre DEF TailInv, Connection
    <3>2. file[sock] \in File
      BY <3>1, BlockLogAssumption DEF TailInv, StreamInv, StreamTypes, File
    <3> QED BY <3>1, <3>2 DEF TailInv, TailTypes
  <2> PICK f \in File : f = file[sock]
    BY <2>0
  <2> PICK rows \in Seq(Line) : rows = Rows
    BY <2>0
  <2> PICK p \in Nat : p = pos[sock]
    BY <2>0
  <2>1. Passed(f, rows, p) /\ Sorted(f, rows) /\ file'[sock'] = f
    BY <1>2 DEF Behind, InOrder, SameTab, SentTab
  <2>2. CASE SameTab /\ LogStep
    <3>1. Passed(f, rows, p)' /\ Sorted(f, rows)'
      BY <2>1, <2>2, WrittenPast
    <3>2. Rows' = rows /\ pos'[sock'] = p
      BY <2>2 DEF SameTab
    <3>3. Behind'
      <4>1. Rows' # <<>> => pos'[sock'] > 0
        <5>1. rows # <<>> => p > 0
          BY <2>1 DEF Passed
        <5> QED BY <3>2, <5>1
      <4>2. \A n \in DOMAIN Rows' : \E i \in Nat :
              BeginsAt(f, Rows[n], i)' /\ i < Before(f)' + pos'[sock']
        <5>1. \A n \in DOMAIN rows : \E i \in Nat :
                BeginsAt(f, rows[n], i)' /\ i < Before(f)' + p
          BY <3>1 DEF Passed
        <5> QED BY <3>2, <5>1 DEF BeginsAt
      <4> QED BY <2>1, <4>1, <4>2 DEF Behind, Passed, BeginsAt, Before
    <3>4. InOrder'
      <4>1. \A m, n \in DOMAIN rows : \A i, j \in Nat :
              m < n /\ BeginsAt(f, rows[m], i)' /\ BeginsAt(f, rows[n], j)' => i < j
        BY <3>1 DEF Sorted
      <4>2. \A m, n \in DOMAIN Rows' : \A i, j \in Nat :
              m < n /\ BeginsAt(f, Rows[m], i)' /\ BeginsAt(f, Rows[n], j)' => i < j
        BY <3>2, <4>1 DEF BeginsAt
      <4> QED BY <2>1, <4>2 DEF InOrder, Sorted, BeginsAt
    <3> QED BY <3>3, <3>4
  <2>3. CASE SameTab /\ UNCHANGED <<disk, ever>>
    <3>1. Rows' = rows /\ pos'[sock'] = p
      BY <2>3 DEF SameTab
    <3>2. Behind'
      BY <2>1, <2>3, <3>1 DEF Behind, Passed, BeginsAt, Before
    <3>3. InOrder'
      <4>1. \A m, n \in DOMAIN rows : \A i, j \in Nat :
              m < n /\ BeginsAt(f, rows[m], i) /\ BeginsAt(f, rows[n], j) => i < j
        BY <2>1 DEF Sorted
      <4>2. \A m, n \in DOMAIN Rows' : \A i, j \in Nat :
              m < n /\ BeginsAt(f, Rows[m], i)' /\ BeginsAt(f, Rows[n], j)' => i < j
        BY <2>3, <3>1, <4>1 DEF BeginsAt
      <4> QED BY <2>1, <4>2 DEF InOrder, Sorted, BeginsAt
    <3> QED BY <3>2, <3>3
  <2>4. CASE SentTab /\ UNCHANGED <<disk, ever>>
    <3> PICK e \in DOMAIN disk[f] : e = LineEnd(sock) /\ e > p /\ disk[f][e][2] = 2
      BY <2>0, <2>4, LineEndIs DEF SentTab, TailInv, LogInv, LogTypes
    <3>1. PICK row \in Parse(SubSeq(disk[f], p + 1, e)) :
             Rows' = IF row = 0 THEN rows ELSE Append(rows, row)
      BY <2>4 DEF SentTab
    <3>2. Passed(f, Rows', e) /\ Sorted(f, Rows')
      BY <2>1, <3>1, ReadOn
    <3>3. pos'[sock'] = e
      BY <2>4 DEF SentTab
    <3>4. Behind'
      BY <2>1, <2>4, <3>2, <3>3 DEF Behind, Passed, BeginsAt, Before
    <3>5. InOrder'
      BY <2>1, <2>4, <3>2 DEF InOrder, Sorted, BeginsAt
    <3> QED BY <3>4, <3>5
  <2> QED BY <1>1, <1>2, <2>2, <2>3, <2>4, TabStep
<1>3. SameTab \/ SentTab => Connected
  BY DEF SameTab, SentTab, Connected
<1> QED BY <1>1, <1>2, <1>3, TabStep

-----------------------------------------------------------------------------
TableInv ==
  TailInv /\ Kept /\ Apart /\ Once /\ Reading /\ NothingSkipped /\ Behind /\ InOrder

\* The invariant holds at the start.
LEMMA TableInvInit == ASSUME Init PROVE TableInv
<1>1. Kept /\ Apart /\ Once
  BY DEF Init, LogInit, Kept, Apart, Once, Before
<1>2. Reading /\ NothingSkipped /\ Behind /\ InOrder
  BY DEF Init, Connected, Reading, NothingSkipped, Behind, InOrder
<1> QED BY <1>1, <1>2, TailInvInit DEF TableInv

\* Every step keeps it.
LEMMA TableInvKept == ASSUME TableInv, [Next]_vars PROVE TableInv'
<1> USE DEF TableInv
<1>1. TailInv' /\ LogInv /\ LogInv'
  BY TailInvKept DEF TailInv
<1>2. Kept' /\ Apart' /\ Once'
  <2>1. CASE LogStep
    BY <1>1, <2>1, KeptStill, ApartStill, OnceStill DEF TailInv
  <2>2. CASE ~LogStep
    BY <2>2, LogQuiet DEF log, Kept, Apart, Once, Before
  <2> QED BY <2>1, <2>2
<1>3. Reading' /\ NothingSkipped'
  BY <1>1, ReadingStill
<1>4. Behind' /\ InOrder'
  BY <1>1, <1>2, OrderStill
<1> QED BY <1>1, <1>2, <1>3, <1>4

\* The tab's table is in the order of the log, with no row twice: a connection only
\* goes forward in its file, what was written after a truncation comes after
\* everything that was read before it, and a new connection starts an empty table.
THEOREM TableInOrder == Spec => []Ordered
<1>1. TableInv => Ordered
  BY InOrderIs DEF TableInv
<1> QED BY <1>1, TableInvInit, TableInvKept, PTL DEF Spec

\* Of a file that was not truncated, every whole line that parses, from where the
\* connection began up to its position, is in the table or on its way: the position
\* is at the end of a line, so that the piece up to the next one is that line.
THEOREM NoLineSkipped == Spec => []NothingSkipped
<1>1. TableInv => NothingSkipped
  BY DEF TableInv
<1> QED BY <1>1, TableInvInit, TableInvKept, PTL DEF Spec

=============================================================================
