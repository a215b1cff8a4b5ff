----------------------------- MODULE CloseQueue -----------------------------
(***************************************************************************)
(* What the background close queue of the client promises to the rest of   *)
(* the file system: paths handed to it by client_release are sent to the   *)
(* server one at a time, in the order in which they were accepted, each at *)
(* most once.  Closing the queue may discard what was not sent yet.        *)
(*                                                                         *)
(* This is the abstract side of a refinement; CloseBuffer is the detailed  *)
(* side and holds the ring buffer, the mutex and the condition variables.  *)
(***************************************************************************)
EXTENDS Naturals, Sequences

CONSTANTS
  Paths,     \* file paths that client_release may submit
  Capacity   \* slots of the queue

VARIABLES
  queue,      \* accepted paths, oldest first
  inflight,   \* the path the sender works on, as a sequence of length 0 or 1
  sent,       \* every path sent so far, in order
  accepting   \* FALSE once the queue is being closed

vars == <<queue, inflight, sent, accepting>>

Init ==
  /\ queue = <<>>
  /\ inflight = <<>>
  /\ sent = <<>>
  /\ accepting = TRUE

Submit(path) ==
  /\ accepting
  /\ Len(queue) < Capacity
  /\ queue' = Append(queue, path)
  /\ UNCHANGED <<inflight, sent, accepting>>

Take ==
  /\ accepting
  /\ queue # <<>>
  /\ inflight = <<>>
  /\ inflight' = <<Head(queue)>>
  /\ queue' = Tail(queue)
  /\ UNCHANGED <<sent, accepting>>

Send ==
  /\ inflight # <<>>
  /\ sent' = sent \o inflight
  /\ inflight' = <<>>
  /\ UNCHANGED <<queue, accepting>>

Close ==
  /\ accepting' = FALSE
  /\ UNCHANGED <<queue, inflight, sent>>

Discard ==
  /\ ~accepting
  /\ inflight' = <<>>
  /\ UNCHANGED <<queue, sent, accepting>>

Next ==
  \/ \E path \in Paths : Submit(path)
  \/ Take
  \/ Send
  \/ Close
  \/ Discard

Spec == Init /\ [][Next]_vars
=============================================================================
