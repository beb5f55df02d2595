--------------------------- MODULE EditTimeline ---------------------------
(***************************************************************************)
(* What undo and redo promise, without commands: a timeline of complete    *)
(* versions of a document and a position in it.  An edit forgets the       *)
(* versions after the position and adds one; undo and redo only move.      *)
(***************************************************************************)
EXTENDS Naturals, Sequences

CONSTANT Versions   \* the contents a document can have

VARIABLES
  timeline,         \* the versions that can be reached, oldest first
  position          \* the index of the one that is shown

timelineVars == <<timeline, position>>

\* A document opened with content v has no past and no future.
Open(v) ==
  /\ timeline' = <<v>>
  /\ position' = 1

Edit(v) ==
  /\ timeline' = Append(SubSeq(timeline, 1, position), v)
  /\ position' = position + 1

Back ==
  /\ position > 1
  /\ position' = position - 1
  /\ UNCHANGED timeline

Forward ==
  /\ position < Len(timeline)
  /\ position' = position + 1
  /\ UNCHANGED timeline

TimelineInit == \E v \in Versions : timeline = <<v>> /\ position = 1

TimelineNext ==
  \/ \E v \in Versions : Open(v) \/ Edit(v)
  \/ Back
  \/ Forward

TimelineSpec == TimelineInit /\ [][TimelineNext]_timelineVars
=============================================================================
