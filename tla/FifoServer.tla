----------------------------- MODULE FifoServer -----------------------------
(***************************************************************************)
(* What a task queue promises its users, with no thread, lock or condition *)
(* variable in sight: tasks are begun one at a time, in the order in which *)
(* they were accepted, until the server is closed; from then on accepted   *)
(* tasks may be thrown away, and none is begun.                            *)
(***************************************************************************)
EXTENDS Sequences

CONSTANTS Tasks, NoTask

VARIABLES
  queue,     \* accepted tasks that were not begun yet, oldest first
  current,   \* the task being handled, or NoTask
  closed     \* no task is accepted or begun any more

vars == <<queue, current, closed>>

Init ==
  /\ queue = <<>>
  /\ current = NoTask
  /\ closed = FALSE

Accept(t) ==
  /\ ~closed
  /\ queue' = Append(queue, t)
  /\ UNCHANGED <<current, closed>>

Begin ==
  /\ ~closed
  /\ current = NoTask
  /\ queue # <<>>
  /\ current' = Head(queue)
  /\ queue' = Tail(queue)
  /\ UNCHANGED closed

Finish ==
  /\ current # NoTask
  /\ current' = NoTask
  /\ UNCHANGED <<queue, closed>>

Close ==
  /\ closed' = TRUE
  /\ UNCHANGED <<queue, current>>

Discard ==
  /\ closed
  /\ queue' = <<>>
  /\ UNCHANGED <<current, closed>>

Next ==
  \/ \E t \in Tasks : Accept(t)
  \/ Begin
  \/ Finish
  \/ Close
  \/ Discard

Spec == Init /\ [][Next]_vars

=============================================================================
