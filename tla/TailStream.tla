----------------------------- MODULE TailStream -----------------------------
(***************************************************************************)
(* The main page and the block log: the websocket that follows the log     *)
(* (tailHandler in cmd/ui/tailer.go), the watcher that wakes it, and the   *)
(* browser tab that shows what it sends (cmd/ui/static/main.js), while     *)
(* helpers write; and what a page without websockets is answered           *)
(* (tailLogHandler in cmd/ui/ui.go).                                       *)
(*                                                                         *)
(* A tab that closes its connection and opens another is served by another *)
(* handler; the old one goes on until it finds out.                        *)
(***************************************************************************)
EXTENDS BlockLog, SequencesExt

CONSTANTS Stream,      \* invocations of tailHandler: how many run at a time
          NoStream,    \* no connection
          Window,      \* maxLineLength, in cells
          MaxRows,     \* rows of the page without websockets
          Unparsable   \* lines parseLogEntry rejects: their URL has a space

ASSUME TailStreamAssumption ==
  /\ NoStream \notin Stream
  /\ Window \in Nat \ {0} /\ MaxRows \in Nat \ {0}
  /\ Unparsable \subseteq Line

VARIABLES
  pc,       \* per stream: none, watch, check, ping or wait
  file,     \* per stream: the file it has open, 0 if none
  pos,      \* per stream: how far it has read
  watched,  \* per stream: the file its watcher watches, 0 if none
  event,    \* per stream: an event is on its way to the watcher
  tick,     \* per stream: the contents of changeTick, of capacity one
  gone,     \* per stream: the client has gone
  wire,     \* per stream: rows sent and not yet received
  sock,     \* the stream the tab is connected to
  shown,    \* the rows of the tab's table, the newest first
  ever,     \* history, per file: all that was ever written to it
  start     \* history, per stream: where it began to read

stream == <<pc, file, pos, watched, event, tick, gone, wire, start>>
tab == <<sock, shown>>
vars == <<log, stream, tab, ever>>

Init ==
  /\ LogInit
  /\ pc = [k \in Stream |-> "none"]
  /\ file = [k \in Stream |-> 0]
  /\ pos = [k \in Stream |-> 0]
  /\ watched = [k \in Stream |-> 0]
  /\ event = [k \in Stream |-> FALSE]
  /\ tick = [k \in Stream |-> FALSE]
  /\ gone = [k \in Stream |-> FALSE]
  /\ wire = [k \in Stream |-> <<>>]
  /\ sock = NoStream /\ shown = <<>>
  /\ ever = [f \in File |-> <<>>]
  /\ start = [k \in Stream |-> 0]

At(k, label) == pc[k] = label
Goto(k, label) == pc' = [pc EXCEPT ![k] = label]

-----------------------------------------------------------------------------
(* Reading the log.                                                          *)

Ends(cells) == {i \in DOMAIN cells : cells[i][2] = 2}

\* A line that ends with a newline is there to be read at the position.
HasLine(k) == \E i \in Ends(disk[file[k]]) : i > pos[k]

LineEnd(k) ==
  CHOOSE i \in Ends(disk[file[k]]) :
    i > pos[k] /\ \A j \in Ends(disk[file[k]]) : j > pos[k] => i <= j

Complete(piece) == Len(piece) = 2 /\ piece[1][1] = piece[2][1] /\ piece[1][2] = 1

\* The lines a piece of the log may be taken for, 0 if for none.  The expression
\* is not anchored: of less or more than one line it may match the whole, a part
\* or nothing.
Parse(piece) ==
  LET lines == {piece[i][1] : i \in DOMAIN piece} \ Unparsable
  IN  IF Complete(piece) /\ lines # {} THEN lines ELSE
      IF Complete(piece) THEN {0} ELSE lines \cup {0}

\* Mutant: the position is computed, where Seek fails and returns 0.
Beginning_Unclamped(cells) == Len(cells) - Window

Beginning(cells) == IF Len(cells) > Window THEN Len(cells) - Window ELSE 0

-----------------------------------------------------------------------------
(* The handler.                                                              *)

\* A tab connects; the handler opens the log and seeks to its last few lines, then
\* the websocket opens, and the tab empties its table.  While no file has the name
\* the handler answers an error and the tab tries again.
Opened(k) ==
  /\ At(k, "none") /\ sock = NoStream /\ named # 0
  /\ Goto(k, "watch") /\ sock' = k
  /\ file' = [file EXCEPT ![k] = named]
  /\ pos' = [pos EXCEPT ![k] = Beginning(disk[named])]
  /\ start' = [start EXCEPT ![k] = pos'[k]]
  /\ tick' = [tick EXCEPT ![k] = TRUE]
  /\ UNCHANGED <<log, watched, event, gone, wire, ever>>

\* Mutant: onopen leaves the rows of the connection before.
Connect_KeepRows(k) == Opened(k) /\ UNCHANGED shown

Connect(k) == Opened(k) /\ shown' = <<>>

\* The watcher watches the file that has the name now.
Watch(k) ==
  /\ At(k, "watch") /\ Goto(k, "check")
  /\ named # 0
  /\ watched' = [watched EXCEPT ![k] = named]
  /\ UNCHANGED <<log, file, pos, event, tick, gone, wire, start, tab, ever>>

Forward(k, row) ==
  wire' = IF row = 0 \/ gone[k] THEN wire
          ELSE [wire EXCEPT ![k] = Append(@, row)]

\* Mutant: the position advances only after a line that parses.
SendLine_StuckOnBad(k) ==
  /\ At(k, "check") /\ HasLine(k)
  /\ \E row \in Parse(SubSeq(disk[file[k]], pos[k] + 1, LineEnd(k))) :
       /\ Forward(k, row)
       /\ pos' = IF row = 0 THEN pos ELSE [pos EXCEPT ![k] = LineEnd(k)]
  /\ UNCHANGED <<log, pc, file, watched, event, tick, gone, start, tab, ever>>

\* Mutant: the position is what the buffered reader has consumed of the file.
SendLine_Buffered(k) ==
  /\ At(k, "check") /\ HasLine(k)
  /\ \E row \in Parse(SubSeq(disk[file[k]], pos[k] + 1, LineEnd(k))) : Forward(k, row)
  /\ pos' = [pos EXCEPT ![k] = Len(disk[file[k]])]
  /\ UNCHANGED <<log, pc, file, watched, event, tick, gone, start, tab, ever>>

SendLine(k) ==
  /\ At(k, "check") /\ HasLine(k)
  /\ \E row \in Parse(SubSeq(disk[file[k]], pos[k] + 1, LineEnd(k))) : Forward(k, row)
  /\ pos' = [pos EXCEPT ![k] = LineEnd(k)]
  /\ UNCHANGED <<log, pc, file, watched, event, tick, gone, start, tab, ever>>

\* The end of the file, or a line still being written.
AtEnd(k) ==
  /\ At(k, "check") /\ ~HasLine(k) /\ Goto(k, "ping")
  /\ UNCHANGED <<log, file, pos, watched, event, tick, gone, wire, start, tab, ever>>

Ping(k) ==
  /\ At(k, "ping") /\ Goto(k, "wait")
  /\ UNCHANGED <<log, file, pos, watched, event, tick, gone, wire, start, tab, ever>>

TakeTick(k) ==
  /\ At(k, "wait") /\ tick[k] /\ Goto(k, "check")
  /\ tick' = [tick EXCEPT ![k] = FALSE]
  /\ UNCHANGED <<log, file, pos, watched, event, gone, wire, start, tab, ever>>

\* The handler returns: the connection and the watcher are closed.
End(k) ==
  /\ Goto(k, "none")
  /\ file' = [file EXCEPT ![k] = 0]
  /\ pos' = [pos EXCEPT ![k] = 0]
  /\ start' = [start EXCEPT ![k] = 0]
  /\ watched' = [watched EXCEPT ![k] = 0]
  /\ event' = [event EXCEPT ![k] = FALSE]
  /\ tick' = [tick EXCEPT ![k] = FALSE]
  /\ gone' = [gone EXCEPT ![k] = FALSE]
  /\ wire' = [wire EXCEPT ![k] = <<>>]
  /\ UNCHANGED <<log, tab, ever>>

\* The client has gone, and done says so or a write to it fails; the network may
\* take its time to tell.
Leave(k) == gone[k] /\ pc[k] \in {"check", "ping"} /\ End(k)

-----------------------------------------------------------------------------
(* The watcher: a tick for an event, or after ten seconds without one.  One  *)
(* that finds a tick pending drops its own.                                  *)

Watching(k) == watched[k] # 0

\* Mutant: changeTick has no buffer.
Event_Unbuffered(k) ==
  /\ Watching(k) /\ event[k]
  /\ event' = [event EXCEPT ![k] = FALSE]
  /\ tick' = [tick EXCEPT ![k] = @ \/ At(k, "wait")]
  /\ UNCHANGED <<log, pc, file, pos, watched, gone, wire, start, tab, ever>>

Event(k) ==
  /\ Watching(k) /\ event[k]
  /\ event' = [event EXCEPT ![k] = FALSE]
  /\ tick' = [tick EXCEPT ![k] = TRUE]
  /\ UNCHANGED <<log, pc, file, pos, watched, gone, wire, start, tab, ever>>

\* Mutant: without the case of ten seconds.
Timer_Never(k) == FALSE /\ UNCHANGED vars

Timer(k) ==
  /\ Watching(k) /\ ~tick[k]
  /\ tick' = [tick EXCEPT ![k] = TRUE]
  /\ UNCHANGED <<log, pc, file, pos, watched, event, gone, wire, start, tab, ever>>

-----------------------------------------------------------------------------
(* The tab and its connection.                                               *)

Deliver ==
  /\ sock # NoStream /\ wire[sock] # <<>>
  /\ shown' = <<Head(wire[sock])>> \o shown
  /\ wire' = [wire EXCEPT ![sock] = Tail(@)]
  /\ UNCHANGED <<log, pc, file, pos, watched, event, tick, gone, start, sock, ever>>

\* The tab is closed or paused, or the connection is lost; what is in flight goes.
Hangup ==
  /\ sock # NoStream /\ sock' = NoStream
  /\ gone' = [gone EXCEPT ![sock] = TRUE]
  /\ wire' = [wire EXCEPT ![sock] = <<>>]
  /\ UNCHANGED <<log, pc, file, pos, watched, event, tick, start, shown, ever>>

\* log.Fatalf ends the server, and with it every stream.
Fatal ==
  /\ pc' = [k \in Stream |-> "none"]
  /\ file' = [k \in Stream |-> 0]
  /\ pos' = [k \in Stream |-> 0]
  /\ start' = [k \in Stream |-> 0]
  /\ watched' = [k \in Stream |-> 0]
  /\ event' = [k \in Stream |-> FALSE]
  /\ tick' = [k \in Stream |-> FALSE]
  /\ gone' = [k \in Stream |-> FALSE]
  /\ wire' = [k \in Stream |-> <<>>]
  /\ sock' = NoStream
  /\ UNCHANGED <<log, shown, ever>>

\* The log cannot be watched: its name is gone since it was opened, or there are
\* more watchers than the system allows.
NoName(k) == At(k, "watch") /\ named = 0 /\ Fatal
NoWatcher(k) == At(k, "watch") /\ named # 0 /\ Fatal

\* A step of the log's writers; inotify reports a change of a file to whoever
\* watches it.
Touched(f) == disk'[f] # disk[f] \/ (f = named /\ named' # named)

LogStep ==
  /\ LogNext
  /\ event' = [k \in Stream |->
       event[k] \/ (watched[k] # 0 /\ Touched(watched[k]))]
  /\ ever' = [f \in File |->
       IF Len(disk'[f]) > Len(disk[f]) THEN Append(ever[f], Last(disk'[f])) ELSE ever[f]]
  /\ UNCHANGED <<pc, file, pos, watched, tick, gone, wire, start, tab>>

Handler(k) ==
  Watch(k) \/ NoName(k) \/ SendLine(k) \/ AtEnd(k) \/ Ping(k) \/ TakeTick(k)

Next ==
  \/ LogStep
  \/ \E k \in Stream :
       Connect(k) \/ Handler(k) \/ Leave(k) \/ Event(k) \/ Timer(k)
       \/ NoWatcher(k)
  \/ Deliver \/ Hangup

Spec == Init /\ [][Next]_vars

\* Goroutines run, ten seconds pass, the network delivers or reports an error.
\* Nothing makes a tab connect, a helper log, or a line be written whole.
FairSpec ==
  /\ Spec
  /\ \A k \in Stream :
       WF_vars(Handler(k)) /\ SF_vars(Leave(k)) /\ WF_vars(Event(k)) /\ WF_vars(Timer(k))
  /\ WF_vars(Deliver)

-----------------------------------------------------------------------------
(* The page without websockets.                                              *)

\* strings.Split at newlines: after the last one comes one more, empty piece.
Split(cells) ==
  LET ends == SetToSortSeq(Ends(cells), <)
      from(i) == IF i = 1 THEN 1 ELSE ends[i - 1] + 1
      to(i) == IF i > Len(ends) THEN Len(cells) ELSE ends[i]
  IN  [i \in 1 .. Len(ends) + 1 |-> SubSeq(cells, from(i), to(i))]

\* The loop swaps while i < j: of an odd number, the one in the middle is not copied.
reverse(s) ==
  [i \in 1 .. Len(s) |-> IF 2 * i = Len(s) + 1 THEN <<>> ELSE s[Len(s) + 1 - i]]

\* tailLogHandler: the pieces that are parsed for the page.
TailLog(cells) ==
  LET lines == reverse(Split(cells))
  IN  SubSeq(lines, 1, IF Len(lines) > MaxRows THEN MaxRows ELSE Len(lines))

-----------------------------------------------------------------------------
TypeOK ==
  /\ disk \in [File -> Seq(Cell)] /\ ever \in [File -> Seq(Cell)]
  /\ named \in 0 .. created /\ created \in 0 .. MaxFiles
  /\ flock \in [File -> HelperId \cup {Nobody}]
  /\ step \in [HelperId -> {"idle", "lock", "write", "rest", "unlock"}]
  /\ fd \in [HelperId -> 0 .. created]
  /\ logging \in [HelperId -> 0 .. logged] /\ logged \in 0 .. MaxLines
  /\ pc \in [Stream -> {"none", "watch", "check", "ping", "wait"}]
  /\ file \in [Stream -> 0 .. created] /\ watched \in [Stream -> 0 .. created]
  /\ pos \in [Stream -> Nat] /\ start \in [Stream -> Nat]
  /\ event \in [Stream -> BOOLEAN] /\ tick \in [Stream -> BOOLEAN]
  /\ gone \in [Stream -> BOOLEAN]
  /\ wire \in [Stream -> Seq(Line)]
  /\ sock \in Stream \cup {NoStream} /\ shown \in Seq(Line)

\* Helpers never write into each other's lines: the rest of a line directly
\* follows its beginning, whatever fails, rotates or is killed meanwhile.
LinesWhole ==
  \A f \in File : \A i \in DOMAIN ever[f] :
    ever[f][i][2] = 2 => i > 1 /\ ever[f][i - 1] = <<ever[f][i][1], 1>>

\* A handler that waits, or is about to, has read its file to the end, unless a
\* tick or an event is under way: dropped ticks and the gap between the end of
\* the file and the wait lose nothing, without help of the ten seconds.
SleepsOnlyAtEnd ==
  \A k \in Stream :
    /\ pc[k] \in {"ping", "wait"} /\ watched[k] = file[k]
    /\ ~tick[k] /\ ~event[k]
    => ~HasLine(k)

\* What the tab has been sent by its connection, the oldest first.
Rows == Reverse(shown) \o wire[sock]

Connected == sock # NoStream

Place(f, row) == CHOOSE i \in DOMAIN ever[f] : ever[f][i] = <<row, 1>>

\* The tab's table is in the order of the log, with no row twice, also after
\* reconnections, rotations and truncations.
Ordered ==
  Connected =>
    \A i, j \in DOMAIN Rows : i < j => Place(file[sock], Rows[i]) < Place(file[sock], Rows[j])

\* The line beginning at i of a file is written whole after a whole line.
WholeAt(f, i) ==
  /\ {i, i + 1} \subseteq DOMAIN disk[f] /\ Complete(SubSeq(disk[f], i, i + 1))
  /\ disk[f][i][1] \notin Unparsable
  /\ i = 1 \/ disk[f][i - 1][2] = 2

\* Nothing is skipped: of a file that was not truncated, every whole line from
\* where the stream began up to its position is in the table or on its way.
NothingSkipped ==
  Connected /\ disk[file[sock]] = ever[file[sock]] =>
    \A i \in start[sock] + 1 .. pos[sock] - 1 :
      WholeAt(file[sock], i) => disk[file[sock]][i][1] \in ToSet(Rows)

\* The line a reader is at is shown in the end, if the tab stays connected and the
\* file is not truncated; also if the file is rotated, and a watcher watches another.
Shows ==
  \A k \in Stream, l \in Line :
    /\ sock = k /\ pc[k] \notin {"none", "watch"}
    /\ disk[file[k]] = ever[file[k]]
    /\ \E i \in DOMAIN disk[file[k]] :
         i > pos[k] /\ WholeAt(file[k], i) /\ disk[file[k]][i][1] = l
    ~> l \in ToSet(shown) \/ sock # k \/ disk[file[k]] # ever[file[k]]

\* A handler whose client has gone ends, though nothing is logged any more.
Reaped == \A k \in Stream : gone[k] ~> pc[k] = "none"

\* "Latest blocked URLs": the page without websockets has the last line logged.
LatestShown ==
  named # 0 /\ Ends(disk[named]) # {} =>
    LET ends == Ends(disk[named])
        i == CHOOSE e \in ends : \A x \in ends : x <= e
    IN  WholeAt(named, i - 1) =>
          SubSeq(disk[named], i - 1, i) \in ToSet(TailLog(disk[named]))
=============================================================================
