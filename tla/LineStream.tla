----------------------------- MODULE LineStream -----------------------------
(***************************************************************************)
(* What a tailer promises, without polling, read chunks, buffers or        *)
(* rotation checks: as long as the file that it has open is only appended  *)
(* to, its complete lines are handed over in file order, each exactly      *)
(* once, and a longer line in pieces of MaxLine bytes.  A file is begun at *)
(* its start or at its end.  What has been queued is published, except for *)
(* what a crash loses.                                                     *)
(***************************************************************************)
EXTENDS Naturals, Sequences

CONSTANTS
  MaxLine,       \* the longest message
  LinesOf(_),    \* the messages in a text: its complete lines
  Taken(_)       \* how many bytes of a text its complete lines take up

VARIABLES
  open,      \* a file is open
  file,      \* its content
  intact,    \* it has only been appended to since it was opened
  done,      \* how much of it has been handed over
  queued,    \* messages taken from it and not yet published
  sent       \* all messages published

vars == <<open, file, intact, done, queued, sent>>

Init ==
  /\ open = FALSE /\ file = <<>> /\ intact = TRUE /\ done = 0
  /\ queued = <<>> /\ sent = <<>>

\* Some file is opened, at its start or its end.
Open ==
  /\ ~open /\ open' = TRUE /\ intact' = TRUE
  /\ done' \in {0, Len(file')}
  /\ UNCHANGED <<queued, sent>>

IsExtension(s, t) == Len(s) <= Len(t) /\ SubSeq(t, 1, Len(s)) = s

\* The programs being logged append.
Grow ==
  /\ open /\ IsExtension(file, file')
  /\ UNCHANGED <<open, intact, done, queued, sent>>

\* The file is emptied in place: nothing more is promised of it.
Damage ==
  /\ open /\ intact' = FALSE
  /\ UNCHANGED <<open, done, queued, sent>>

\* The next n bytes to hand over.
Upcoming(n) == SubSeq(file, done + 1, done + n)

\* The complete lines of the next n bytes.
Deliver ==
  /\ open /\ intact /\ queued = <<>>
  /\ \E n \in 1..MaxLine :
       /\ done + n <= Len(file)
       /\ queued' = LinesOf(Upcoming(n))
       /\ done' = done + Taken(Upcoming(n))
  /\ UNCHANGED <<open, file, intact, sent>>

\* A piece of a text longer than a message may be.
Cut ==
  /\ open /\ intact /\ queued = <<>>
  /\ done + MaxLine < Len(file)
  /\ queued' = <<Upcoming(MaxLine)>>
  /\ done' = done + MaxLine
  /\ UNCHANGED <<open, file, intact, sent>>

\* Anything at all is taken from a damaged file.
Garble ==
  /\ open /\ ~intact /\ queued = <<>>
  /\ UNCHANGED <<open, file, intact, sent>>

Closed == open' = FALSE /\ file' = <<>> /\ intact' = TRUE /\ done' = 0

\* The file may be closed because of what happened while it was read.
Publish ==
  /\ sent' = sent \o queued /\ queued' = <<>>
  /\ UNCHANGED <<open, file, intact, done>> \/ Closed

Close ==
  /\ open /\ queued = <<>>
  /\ Closed
  /\ UNCHANGED <<queued, sent>>

\* Some of what was queued is lost, and all that the file still had to give.
Crash ==
  /\ Closed
  /\ \E n \in 0..Len(queued) : sent' = sent \o SubSeq(queued, 1, n)
  /\ queued' = <<>>

Next ==
  \/ Open \/ Grow \/ Damage \/ Deliver \/ Cut \/ Garble \/ Publish \/ Close \/ Crash

Spec == Init /\ [][Next]_vars
=============================================================================
