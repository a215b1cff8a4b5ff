----------------------------- MODULE AtomicTree -----------------------------
(***************************************************************************)
(* What the calls on names promise of the server's tree: it changes only   *)
(* by a call that somebody is waiting for, or by an attempt that its       *)
(* caller has given up, once; as a whole; and never by the same call twice *)
(* in a row, however often the request was sent.                           *)
(***************************************************************************)
EXTENDS FileTree

CONSTANTS
  Callers,
  Files,      \* the contents that calls bring; they tell calls apart
  Attempts,
  Idle,       \* no call
  First       \* the tree at first

VARIABLES
  tree,
  pending,    \* pending[c]: the call of c with its file, or Idle
  given,      \* the attempts that were given up and may still take effect
  last        \* the file of the call that has changed the tree last

vars == <<tree, pending, given, last>>

Init ==
  /\ tree = First
  /\ pending = [c \in Callers |-> Idle]
  /\ given = {}
  /\ last = None

Call(c) ==
  /\ pending[c] = Idle
  /\ pending'[c] \in Operations \X (Files \ {last})
  /\ \A other \in Callers \ {c} : pending'[other] = pending[other]
  /\ UNCHANGED <<tree, given, last>>

\* op is carried out, and not as the repetition of what came just before it.
Takes(op, file) ==
  /\ last # file
  /\ Can(tree, op)
  /\ tree' = Effect(tree, op, file)
  /\ last' = file

Change(c) ==
  /\ pending[c] # Idle
  /\ Takes(pending[c][1], pending[c][2])
  /\ UNCHANGED <<pending, given>>

GiveUp(c) ==
  /\ pending[c] # Idle
  /\ \E n \in Attempts : given' = given \cup {<<pending[c][1], pending[c][2], n>>}
  /\ UNCHANGED <<tree, pending, last>>

ChangeLate(g) ==
  /\ Takes(g[1], g[2])
  /\ given' = given \ {g}
  /\ UNCHANGED pending

Forget(G) ==
  /\ given' = given \ G
  /\ UNCHANGED <<tree, pending, last>>

Return(c) ==
  /\ pending[c] # Idle
  /\ pending' = [pending EXCEPT ![c] = Idle]
  /\ UNCHANGED <<tree, given, last>>

Next ==
  \/ \E c \in Callers : Call(c) \/ Change(c) \/ GiveUp(c) \/ Return(c)
  \/ \E g \in given : ChangeLate(g)
  \/ \E G \in SUBSET given : Forget(G)

Spec == Init /\ [][Next]_vars
=============================================================================
