---------------------------- MODULE TailerStream ----------------------------
(***************************************************************************)
(* The tailer implements LineStream.  What has been handed over of the     *)
(* open file is what was read of it less what waits in lineBuffer; the     *)
(* message of an event is its text.                                        *)
(***************************************************************************)
EXTENDS Tailer

Texts(ms) == [j \in DOMAIN ms |-> ms[j].text]

IsOpen == fd # NoFile

Stream == INSTANCE LineStream WITH
  LinesOf <- Lines, Taken <- LastNewline,
  open <- IsOpen,
  file <- IF IsOpen THEN data[fd] ELSE <<>>,
  intact <- ~(IsOpen /\ truncated),
  done <- IF IsOpen THEN offset - Len(lineBuffer) ELSE 0,
  queued <- Texts(batch),
  sent <- Texts(sent)

\* Run, with its polls, chunks, rotation checks, error paths and restarts, hands over the
\* complete lines of each file in order and exactly once, and loses messages only in a
\* panic: every step of the tailer and of the file system is a step of LineStream.
ImplementsLineStream == Stream!Spec
=============================================================================
