--------------------------- MODULE WholeFileStore ---------------------------
(***************************************************************************)
(* What rpc_putFile and rpc_getFile promise of one file: a put stores a    *)
(* whole file, at one instant or, if the server crashed meanwhile, at      *)
(* several, all of them before it returns; a put that returns true has     *)
(* stored its file; a get caches a file as it was on the server at one     *)
(* instant during the call.                                                *)
(***************************************************************************)
CONSTANTS
  Puts, Gets,   \* calls of rpc_putFile and of rpc_getFile
  File,         \* File[p]: the content that put p sends
  NoContent,    \* there is no file
  First         \* what the server may have at first

VARIABLES
  store,        \* the content of the file on the server
  cached,       \* the content of the file in the client's cache
  putting,      \* putting[p]: "idle", "pending", or what it has returned
  done,         \* the puts that have stored their file
  view          \* view[g]: the content a pending get has looked at

vars == <<store, cached, putting, done, view>>

Init ==
  /\ store \in First
  /\ putting = [p \in Puts |-> "idle"]
  /\ done = {}
  /\ cached = NoContent
  /\ view = [g \in Gets |-> NoContent]

Begin(p) ==
  /\ putting[p] = "idle"
  /\ putting' = [putting EXCEPT ![p] = "pending"]
  /\ UNCHANGED <<store, cached, done, view>>

Apply(p) ==
  /\ putting[p] = "pending"
  /\ store' = File[p]
  /\ done' = done \cup {p}
  /\ UNCHANGED <<cached, putting, view>>

Return(p, answer) ==
  /\ putting[p] = "pending"
  /\ (answer = "true") => p \in done
  /\ putting' = [putting EXCEPT ![p] = answer]
  /\ UNCHANGED <<store, cached, done, view>>

Look(g) ==
  /\ store # NoContent
  /\ view' = [view EXCEPT ![g] = store]
  /\ UNCHANGED <<store, cached, putting, done>>

Install(g) ==
  /\ view[g] # NoContent
  /\ cached' = view[g]
  /\ view' = [view EXCEPT ![g] = NoContent]
  /\ UNCHANGED <<store, putting, done>>

Abandon(G) ==
  /\ view' = [g \in Gets |-> IF g \in G THEN NoContent ELSE view[g]]
  /\ UNCHANGED <<store, cached, putting, done>>

Next ==
  \/ \E p \in Puts :
       Begin(p) \/ Apply(p) \/ \E answer \in {"true", "false"} : Return(p, answer)
  \/ \E g \in Gets : Look(g) \/ Install(g)
  \/ \E G \in SUBSET Gets : Abandon(G)

Spec == Init /\ [][Next]_vars
=============================================================================
