------------------------------ MODULE BlockLog ------------------------------
(***************************************************************************)
(* The block log (logBlock in cmd/helper/helper.go): every helper appends  *)
(* a line for each request it blocks, under an advisory lock of the file   *)
(* that readers do not take.  The file may be rotated (renamed) or         *)
(* truncated at any time; helpers open it by name for every line.          *)
(*                                                                         *)
(* A line is two cells, <<line, 1>> and <<line, 2>>: the second ends with  *)
(* the newline.  A write becomes visible cell by cell.                     *)
(***************************************************************************)
EXTENDS Naturals, Sequences, FiniteSets

CONSTANTS HelperId,   \* the helper processes
          Nobody,     \* no helper
          MaxLines,   \* bound: lines logged
          MaxFiles    \* bound: files that have had the name

ASSUME BlockLogAssumption ==
  /\ Nobody \notin HelperId
  /\ MaxLines \in Nat /\ MaxFiles \in Nat

Line == 1 .. MaxLines
Cell == Line \X {1, 2}
File == 1 .. MaxFiles

VARIABLES
  disk,     \* per file: its contents
  named,    \* the file that has the name now, 0 if none has
  created,  \* files created so far
  flock,    \* per file: the helper that has locked it, or Nobody
  step,     \* per helper: where it is in logBlock
  fd,       \* per helper: the file it has open, 0 if none
  logging,  \* per helper: its line, 0 between lines
  logged    \* lines logged so far

log == <<disk, named, created, flock, step, fd, logging, logged>>

LogInit ==
  /\ disk = [f \in File |-> <<>>]
  /\ named = 0 /\ created = 0
  /\ flock = [f \in File |-> Nobody]
  /\ step = [h \in HelperId |-> "idle"]
  /\ fd = [h \in HelperId |-> 0]
  /\ logging = [h \in HelperId |-> 0]
  /\ logged = 0

To(h, label) == step' = [step EXCEPT ![h] = label]

Extend(f, cell) == disk' = [disk EXCEPT ![f] = Append(@, cell)]

-----------------------------------------------------------------------------
\* A request is blocked: the file is opened by name, and created if missing.
OpenLog(h) ==
  /\ step[h] = "idle" /\ logged < MaxLines
  /\ named = 0 => created < MaxFiles
  /\ logged' = logged + 1
  /\ logging' = [logging EXCEPT ![h] = logged']
  /\ created' = IF named = 0 THEN created + 1 ELSE created
  /\ named' = IF named = 0 THEN created' ELSE named
  /\ fd' = [fd EXCEPT ![h] = named']
  /\ To(h, "lock")
  /\ UNCHANGED <<disk, flock>>

\* Mutant: LOCK_EX with the result ignored and no wait.
Lock_NoWait(h) ==
  /\ step[h] = "lock" /\ To(h, "write")
  /\ flock' = [flock EXCEPT ![fd[h]] = h]
  /\ UNCHANGED <<disk, named, created, fd, logging, logged>>

Lock(h) ==
  /\ step[h] = "lock" /\ To(h, "write")
  /\ flock[fd[h]] = Nobody
  /\ flock' = [flock EXCEPT ![fd[h]] = h]
  /\ UNCHANGED <<disk, named, created, fd, logging, logged>>

Write(h) ==
  /\ \/ step[h] = "write" /\ To(h, "rest") /\ Extend(fd[h], <<logging[h], 1>>)
     \/ step[h] = "rest" /\ To(h, "unlock") /\ Extend(fd[h], <<logging[h], 2>>)
  /\ UNCHANGED <<named, created, flock, fd, logging, logged>>

\* The file system is full: what Fprintf returns is not looked at.
WriteFails(h) ==
  /\ step[h] \in {"write", "rest"} /\ To(h, "unlock")
  /\ UNCHANGED <<disk, named, created, flock, fd, logging, logged>>

\* The descriptor is closed, and a lock held through it released.
Release(h) ==
  /\ To(h, "idle")
  /\ flock' = [f \in File |-> IF flock[f] = h THEN Nobody ELSE flock[f]]
  /\ fd' = [fd EXCEPT ![h] = 0]
  /\ logging' = [logging EXCEPT ![h] = 0]
  /\ UNCHANGED <<disk, named, created, logged>>

Unlock(h) == step[h] = "unlock" /\ Release(h)

\* Squid stops the helper, or it crashes: the kernel closes its files.
Kill(h) == step[h] # "idle" /\ Release(h)

\* The file is renamed; whoever has it open keeps it.
Rotate ==
  /\ named # 0 /\ named' = 0
  /\ UNCHANGED <<disk, created, flock, step, fd, logging, logged>>

\* The file is emptied in place.
Truncate ==
  /\ named # 0 /\ disk[named] # <<>>
  /\ disk' = [disk EXCEPT ![named] = <<>>]
  /\ UNCHANGED <<named, created, flock, step, fd, logging, logged>>

HelperStep(h) == Lock(h) \/ Write(h) \/ WriteFails(h) \/ Unlock(h)

LogNext ==
  \/ \E h \in HelperId : OpenLog(h) \/ HelperStep(h) \/ Kill(h)
  \/ Rotate \/ Truncate
=============================================================================
