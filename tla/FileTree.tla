------------------------------ MODULE FileTree ------------------------------
(***************************************************************************)
(* Trees of files and what the calls of afsfuse_server.cc on names make of *)
(* them.  The server's folder and a client's cache are such trees; the     *)
(* client makes the same system calls on its cache.                        *)
(*                                                                         *)
(* A path is the sequence of its components, and a tree says what each     *)
(* path leads to: nothing, a directory, or a file, a number above Dir that *)
(* stands for its content.                                                 *)
(***************************************************************************)
EXTENDS Naturals, Sequences

CONSTANT Paths   \* the paths below the root, with those of their directories

ASSUME PathsAssumption ==
  \A p \in Paths : p \in Seq(STRING) /\ p # <<>> /\ \A n \in 1 .. Len(p) : SubSeq(p, 1, n) \in Paths

None == 0
Dir  == 1
IsFile(entry) == entry > Dir

Parent(p) == SubSeq(p, 1, Len(p) - 1)
Under(q, p) == Len(q) > Len(p) /\ SubSeq(q, 1, Len(p)) = p
\* q is p, or in the directory p.
Within(q, p) == q = p \/ Under(q, p)
InDirectory(tree, p) == Len(p) = 1 \/ \E d \in Paths : d = Parent(p) /\ tree[d] = Dir
Empty(tree, p) == \A q \in Paths : Under(q, p) => tree[q] = None

-----------------------------------------------------------------------------
(* A call: what it does, its path, and for a rename the new one; for a put *)
(* the path under which the client has the file.                           *)

Kinds == {"mkdir", "mknod", "create", "put", "rmdir", "unlink", "rename",
          "renameFlags", "utimens", "getattr", "open"}
Operations ==
  {op \in [kind : Kinds, path : Paths, to : Paths] :
     op.kind \notin {"rename", "renameFlags", "put"} => op.to = op.path}

\* The path of q when the directory or file from has been renamed to.
Moved(q, from, to) == to \o SubSeq(q, Len(from) + 1, Len(q))

\* Names that leave Paths are taken as too long.
Fits(tree, from, to) ==
  \A q \in Paths : Under(q, from) /\ tree[q] # None => Moved(q, from, to) \in Paths

CanRename(tree, from, to) ==
  /\ tree[from] # None
  /\ InDirectory(tree, to)
  /\ ~Under(to, from)
  /\ \/ from = to
     \/ tree[to] = None
     \/ IsFile(tree[to]) /\ IsFile(tree[from])
     \/ tree[to] = Dir /\ tree[from] = Dir /\ Empty(tree, to)
  /\ Fits(tree, from, to)

\* mkdir -p makes missing directories, unless a file is in the way.
NoFileAbove(tree, p) == \A q \in Paths : Under(p, q) => ~IsFile(tree[q])

\* Does the call succeed?  A rename with flags is refused.
Can(tree, op) ==
  CASE op.kind \in {"mkdir", "mknod"}  -> tree[op.path] = None /\ InDirectory(tree, op.path)
    [] op.kind \in {"create", "put"}   -> tree[op.path] # Dir /\ NoFileAbove(tree, op.path)
    [] op.kind = "rmdir"               -> tree[op.path] = Dir /\ Empty(tree, op.path)
    [] op.kind \in {"unlink", "open"}  -> IsFile(tree[op.path])
    [] op.kind = "rename"              -> CanRename(tree, op.path, op.to)
    [] op.kind = "renameFlags"         -> FALSE
    [] OTHER                           -> tree[op.path] # None

\* VARIANT: the two names are exchanged (the flags are passed on).
RenamedByExchange(tree, from, to) ==
  LET At(q) == IF q \in Paths THEN tree[q] ELSE None IN
  [q \in Paths |->
     IF q = from \/ Under(q, from) THEN At(Moved(q, from, to))
     ELSE IF q = to \/ Under(q, to) THEN At(Moved(q, to, from)) ELSE tree[q]]

Renamed(tree, from, to) ==
  IF from = to THEN tree
  ELSE [q \in Paths |->
          IF q = from \/ Under(q, from) THEN None
          ELSE IF q = to \/ Under(q, to)
               THEN LET s == Moved(q, to, from) IN IF s \in Paths THEN tree[s] ELSE None
               ELSE tree[q]]

\* The file p with its directories.
Placed(tree, p, entry) ==
  [q \in Paths |-> IF q = p THEN entry ELSE IF Under(p, q) THEN Dir ELSE tree[q]]

\* What a call that succeeds makes of the tree; file is the content it brings.
Effect(tree, op, file) ==
  CASE op.kind = "mkdir"               -> [tree EXCEPT ![op.path] = Dir]
    [] op.kind = "mknod"               -> [tree EXCEPT ![op.path] = file]
    [] op.kind = "create"              ->
         Placed(tree, op.path, IF tree[op.path] = None THEN file ELSE tree[op.path])
    [] op.kind = "put"                 -> Placed(tree, op.path, file)
    [] op.kind \in {"rmdir", "unlink"} -> [tree EXCEPT ![op.path] = None]
    [] op.kind = "rename"              -> Renamed(tree, op.path, op.to)
    [] OTHER                           -> tree

Do(tree, op, file) == IF Can(tree, op) THEN Effect(tree, op, file) ELSE tree

-----------------------------------------------------------------------------
Trees == [Paths -> Nat]

\* What is above something in a tree is a directory.
Rooted(tree) == \A p, q \in Paths : tree[p] # None /\ Under(p, q) => tree[q] = Dir
=============================================================================
