-------------------------- MODULE FileTree_proofs --------------------------
(***************************************************************************)
(* What repeating a call makes of a tree, that directories stay above what *)
(* is in it, and what a call makes of a part of a tree; for any set of     *)
(* paths.                                                                  *)
(***************************************************************************)
EXTENDS FileTree, SequenceTheorems, TLAPS

\* A call leaves a tree.
LEMMA EffectIsTree ==
  ASSUME NEW tree \in Trees, NEW op \in Operations, NEW file \in Nat
  PROVE  Effect(tree, op, file) \in Trees
<1>1. op.path \in Paths /\ op.to \in Paths BY DEF Operations
<1>2. \A p \in Paths, e \in Nat : [tree EXCEPT ![p] = e] \in Trees BY DEF Trees
<1>3. \A p \in Paths, e \in Nat : Placed(tree, p, e) \in Trees BY DEF Trees, Placed, Dir
<1>4. Renamed(tree, op.path, op.to) \in Trees BY DEF Trees, Renamed, None
<1>5. tree[op.path] \in Nat BY <1>1 DEF Trees
<1>6. None \in Nat /\ Dir \in Nat BY DEF None, Dir
<1> QED BY <1>1, <1>2, <1>3, <1>4, <1>5, <1>6 DEF Effect

LEMMA DoIsTree ==
  ASSUME NEW tree \in Trees, NEW op \in Operations, NEW file \in Nat
  PROVE  Do(tree, op, file) \in Trees
BY EffectIsTree DEF Do

LEMMA CanIsBoolean ==
  ASSUME NEW tree, NEW op \in Operations
  PROVE  Can(tree, op) \in BOOLEAN
<1>1. op.kind \in Kinds BY DEF Operations
<1>2. (tree[op.path] = None /\ InDirectory(tree, op.path)) \in BOOLEAN OBVIOUS
<1>3. (tree[op.path] # Dir /\ NoFileAbove(tree, op.path)) \in BOOLEAN OBVIOUS
<1>4. (tree[op.path] = Dir /\ Empty(tree, op.path)) \in BOOLEAN OBVIOUS
<1>5. IsFile(tree[op.path]) \in BOOLEAN BY DEF IsFile
<1>6. CanRename(tree, op.path, op.to) \in BOOLEAN BY DEF CanRename
<1> QED BY <1>1, <1>2, <1>3, <1>4, <1>5, <1>6 DEF Can, Kinds

\* The file is where it has been placed, and placing it again changes nothing.
LEMMA PlacedTwice ==
  ASSUME NEW tree \in Trees, NEW p \in Paths, NEW e \in Nat
  PROVE  /\ Placed(tree, p, e)[p] = e
         /\ Placed(Placed(tree, p, e), p, e) = Placed(tree, p, e)
BY DEF Placed

LEMMA NothingAtOldName ==
  ASSUME NEW tree \in Trees, NEW from \in Paths, NEW to \in Paths, from # to
  PROVE  Renamed(tree, from, to)[from] = None
BY DEF Renamed

\* A call on a name that is carried out twice in a row is carried out once: its
\* repetition fails or changes nothing, whatever the operation (what retries rely on).
THEOREM RepetitionChangesNothing ==
  ASSUME NEW tree \in Trees, NEW op \in Operations, NEW file \in Nat, IsFile(file)
  PROVE  Do(Do(tree, op, file), op, file) = Do(tree, op, file)
<1> DEFINE after == Effect(tree, op, file)
<1> USE DEF None, Dir, IsFile
<1>1. CASE ~Can(tree, op)
  BY <1>1 DEF Do
<1>2. CASE Can(tree, op)
  <2> SUFFICES Do(after, op, file) = after
    BY <1>2 DEF Do
  <2> SUFFICES ASSUME Can(after, op) PROVE Effect(after, op, file) = after
    BY DEF Do
  <2>1. op.path \in Paths /\ op.to \in Paths /\ op.kind \in Kinds BY DEF Operations
  <2>2. CASE op.kind = "mkdir"
    <3>1. after[op.path] = Dir BY <2>1, <2>2 DEF Effect, Trees
    <3> QED BY <3>1, <2>2 DEF Can
  <2>3. CASE op.kind = "mknod"
    <3>1. after[op.path] = file BY <2>1, <2>3 DEF Effect, Trees
    <3> QED BY <3>1, <2>3 DEF Can
  <2>4. CASE op.kind = "create"
    <3> DEFINE e == IF tree[op.path] = None THEN file ELSE tree[op.path]
    <3>1. e \in Nat /\ e # None BY <2>1 DEF Trees
    <3>2. after = Placed(tree, op.path, e) BY <2>4 DEF Effect
    <3>3. after[op.path] = e /\ Placed(after, op.path, e) = after
      BY <3>1, <3>2, <2>1, PlacedTwice
    <3> QED BY <3>1, <3>3, <2>4 DEF Effect
  <2>5. CASE op.kind = "put"
    <3>1. after = Placed(tree, op.path, file) BY <2>5 DEF Effect
    <3>2. Placed(after, op.path, file) = after BY <3>1, <2>1, PlacedTwice
    <3> QED BY <3>2, <2>5 DEF Effect
  <2>6. CASE op.kind \in {"rmdir", "unlink"}
    <3>1. after[op.path] = None BY <2>1, <2>6 DEF Effect, Trees
    <3> QED BY <3>1, <2>6 DEF Can
  <2>7. CASE op.kind = "rename"
    <3>1. after = Renamed(tree, op.path, op.to) BY <2>7 DEF Effect
    <3>2. CASE op.path = op.to
      <4>1. after = tree BY <3>1, <3>2 DEF Renamed
      <4> QED BY <4>1
    <3>3. CASE op.path # op.to
      <4>1. after[op.path] = None BY <3>1, <3>3, <2>1, NothingAtOldName
      <4> QED BY <4>1, <2>7 DEF Can, CanRename
    <3> QED BY <3>2, <3>3
  <2>8. CASE op.kind \in {"renameFlags", "utimens", "getattr", "open"}
    <3>1. after = tree BY <2>8 DEF Effect
    <3> QED BY <3>1
  <2> QED BY <2>1, <2>2, <2>3, <2>4, <2>5, <2>6, <2>7, <2>8 DEF Kinds
<1> QED BY <1>1, <1>2

-----------------------------------------------------------------------------
(* Prefixes.                                                               *)

LEMMA PathTypes ==
  ASSUME NEW p \in Paths
  PROVE  /\ p \in Seq(STRING) /\ Len(p) \in Nat /\ Len(p) > 0
         /\ \A n \in 1 .. Len(p) : SubSeq(p, 1, n) \in Paths
<1>1. p \in Seq(STRING) /\ p # <<>> /\ \A n \in 1 .. Len(p) : SubSeq(p, 1, n) \in Paths
  BY PathsAssumption
<1>2. Len(p) \in Nat /\ Len(p) # 0 BY <1>1, EmptySeq
<1> QED BY <1>1, <1>2

\* A path is under another if it is longer and begins with its components.
LEMMA UnderEach ==
  ASSUME NEW p \in Paths, NEW q \in Paths
  PROVE  Under(q, p) <=> Len(q) > Len(p) /\ \A i \in 1 .. Len(p) : q[i] = p[i]
<1>1. /\ p \in Seq(STRING) /\ Len(p) \in Nat /\ Len(p) > 0
      /\ q \in Seq(STRING) /\ Len(q) \in Nat
  BY PathTypes
<1>2. CASE Len(q) > Len(p)
  <2> DEFINE s == SubSeq(q, 1, Len(p))
  <2>1. /\ s \in Seq(STRING) /\ Len(s) = Len(p)
        /\ \A i \in 1 .. Len(p) : s[i] = q[i]
    BY <1>1, <1>2, SubSeqProperties
  <2>2. s = p <=> \A i \in 1 .. Len(p) : s[i] = p[i]
    BY <1>1, <2>1, SeqEqual
  <2> QED BY <1>2, <2>1, <2>2 DEF Under
<1>3. CASE ~(Len(q) > Len(p)) BY <1>3 DEF Under
<1> QED BY <1>2, <1>3

LEMMA UnderTransitive ==
  ASSUME NEW p \in Paths, NEW q \in Paths, NEW r \in Paths, Under(r, q), Under(q, p)
  PROVE  Under(r, p)
<1>1. Len(p) \in Nat /\ Len(q) \in Nat /\ Len(r) \in Nat BY PathTypes
<1>2. Len(r) > Len(q) /\ Len(q) > Len(p) BY UnderEach
<1>3. \A i \in 1 .. Len(q) : r[i] = q[i] BY UnderEach
<1>4. \A i \in 1 .. Len(p) : q[i] = p[i] BY UnderEach
<1>5. \A i \in 1 .. Len(p) : r[i] = p[i] BY <1>1, <1>2, <1>3, <1>4
<1> QED BY <1>1, <1>2, <1>5, UnderEach

\* Of two paths above a third one, one is above the other.
LEMMA AboveOneAnother ==
  ASSUME NEW p \in Paths, NEW q \in Paths, NEW r \in Paths,
         Under(r, p) \/ r = p, Under(r, q) \/ r = q
  PROVE  p = q \/ Under(p, q) \/ Under(q, p)
<1>1. Len(p) \in Nat /\ Len(q) \in Nat /\ p \in Seq(STRING) /\ q \in Seq(STRING) BY PathTypes
<1>2. \A i \in 1 .. Len(p) : r[i] = p[i] BY UnderEach
<1>3. \A i \in 1 .. Len(q) : r[i] = q[i] BY UnderEach
<1>4. CASE Len(p) = Len(q) BY <1>1, <1>2, <1>3, <1>4, SeqEqual
<1>5. CASE Len(p) > Len(q)
  <2>1. \A i \in 1 .. Len(q) : p[i] = q[i] BY <1>1, <1>2, <1>3, <1>5
  <2> QED BY <1>5, <2>1, UnderEach
<1>6. CASE Len(q) > Len(p)
  <2>1. \A i \in 1 .. Len(p) : q[i] = p[i] BY <1>1, <1>2, <1>3, <1>6
  <2> QED BY <1>6, <2>1, UnderEach
<1> QED BY <1>1, <1>4, <1>5, <1>6

LEMMA UnderNotItself ==
  ASSUME NEW p \in Paths, NEW q \in Paths, Under(p, q)
  PROVE  p # q /\ ~Under(q, p) /\ Len(p) > 1
<1>1. Len(p) \in Nat /\ Len(q) \in Nat /\ Len(q) > 0 /\ Len(p) > Len(q) BY PathTypes DEF Under
<1> QED BY <1>1 DEF Under

\* The directory of a path is the last one above it.
LEMMA ParentFacts ==
  ASSUME NEW p \in Paths, Len(p) > 1
  PROVE  /\ Parent(p) \in Paths /\ Under(p, Parent(p))
         /\ \A q \in Paths : Under(p, q) => q = Parent(p) \/ Under(Parent(p), q)
<1>1. p \in Seq(STRING) /\ Len(p) \in Nat BY PathTypes
<1>2. Len(p) - 1 \in 1 .. Len(p) BY <1>1
<1>3. Parent(p) \in Paths BY <1>2, PathTypes DEF Parent
<1>4. Len(Parent(p)) = Len(p) - 1 BY <1>1, <1>2, SubSeqProperties DEF Parent
<1>5. Under(p, Parent(p))
  <2>1. SubSeq(p, 1, Len(Parent(p))) = Parent(p) BY <1>4 DEF Parent
  <2> QED BY <1>1, <1>4, <2>1 DEF Under
<1>6. ASSUME NEW q \in Paths, Under(p, q) PROVE q = Parent(p) \/ Under(Parent(p), q)
  <2>1. Len(q) \in Nat /\ Len(p) > Len(q) BY <1>6, PathTypes DEF Under
  <2>2. ~Under(q, Parent(p)) BY <1>1, <1>4, <2>1 DEF Under
  <2> QED BY <1>3, <1>5, <1>6, <2>2, AboveOneAnother
<1> QED BY <1>3, <1>5, <1>6

-----------------------------------------------------------------------------
(* Moving.                                                                 *)

LEMMA MovedEach ==
  ASSUME NEW from \in Paths, NEW to \in Paths, NEW q \in Paths, Within(q, to)
  PROVE  LET s == Moved(q, to, from) IN
         /\ s \in Seq(STRING) /\ Len(s) = Len(from) + Len(q) - Len(to)
         /\ \A i \in 1 .. Len(s) : s[i] = IF i <= Len(from) THEN from[i]
                                          ELSE q[i - Len(from) + Len(to)]
<1>1. /\ from \in Seq(STRING) /\ Len(from) \in Nat /\ to \in Seq(STRING) /\ Len(to) \in Nat
      /\ q \in Seq(STRING) /\ Len(q) \in Nat
  BY PathTypes
<1>2. Len(q) >= Len(to) BY <1>1 DEF Within, Under
<1> DEFINE t == SubSeq(q, Len(to) + 1, Len(q))
<1>3. /\ t \in Seq(STRING) /\ Len(t) = Len(q) - Len(to)
      /\ \A i \in 1 .. Len(q) - Len(to) : t[i] = q[Len(to) + i]
  <2>1. Len(to) + 1 \in 1 .. Len(q) + 1 BY <1>1, <1>2
  <2>2. \A i \in Len(to) + 1 .. Len(q) : i \in 1 .. Len(q) BY <1>1
  <2>3. /\ t \in Seq(STRING)
        /\ Len(t) = IF Len(to) + 1 <= Len(q) THEN Len(q) - (Len(to) + 1) + 1 ELSE 0
        /\ \A i \in 1 .. Len(q) - (Len(to) + 1) + 1 : t[i] = q[Len(to) + 1 + i - 1]
    BY <1>1, <2>1, <2>2, SubSeqProperties
  <2> HIDE DEF t
  <2> QED BY <1>1, <1>2, <2>3
<1> DEFINE s == from \o t
<1>4. s = Moved(q, to, from) BY DEF Moved
<1> HIDE DEF t
<1>5. /\ s \in Seq(STRING) /\ Len(s) = Len(from) + Len(t)
      /\ \A i \in 1 .. Len(from) + Len(t) : s[i] = IF i <= Len(from) THEN from[i] ELSE t[i - Len(from)]
  BY <1>1, <1>3, ConcatProperties
<1> HIDE DEF s
<1>6. Len(s) = Len(from) + Len(q) - Len(to) BY <1>1, <1>3, <1>5
<1>7. ASSUME NEW i \in 1 .. Len(s)
      PROVE  s[i] = IF i <= Len(from) THEN from[i] ELSE q[i - Len(from) + Len(to)]
  <2>1. CASE i <= Len(from) BY <1>1, <1>5, <1>6, <1>3, <2>1
  <2>2. CASE ~(i <= Len(from))
    <3>1. i - Len(from) \in 1 .. Len(q) - Len(to) BY <1>1, <1>6, <2>2
    <3>2. s[i] = t[i - Len(from)] BY <1>1, <1>3, <1>5, <1>6, <2>2
    <3>3. t[i - Len(from)] = q[Len(to) + (i - Len(from))] BY <3>1, <1>3
    <3>4. Len(to) + (i - Len(from)) = i - Len(from) + Len(to) BY <1>1, <3>1
    <3> QED BY <2>2, <3>2, <3>3, <3>4
  <2> QED BY <2>1, <2>2
<1> QED BY <1>4, <1>5, <1>6, <1>7

\* What is above a path at the new name came from above where that path came from.
LEMMA MovedUnder ==
  ASSUME NEW from \in Paths, NEW to \in Paths, NEW q \in Paths, NEW r \in Paths,
         Within(q, to), Under(r, q), Moved(r, to, from) \in Paths
  PROVE  /\ Moved(q, to, from) \in Paths
         /\ Under(Moved(r, to, from), Moved(q, to, from))
<1> DEFINE s == Moved(r, to, from)
           t == Moved(q, to, from)
<1>1. /\ Len(from) \in Nat /\ Len(from) > 0 /\ Len(to) \in Nat /\ Len(q) \in Nat /\ Len(r) \in Nat
      /\ s \in Seq(STRING) /\ Len(s) \in Nat /\ \A n \in 1 .. Len(s) : SubSeq(s, 1, n) \in Paths
  BY PathTypes
<1>2. Within(r, to) BY UnderTransitive DEF Within
<1>3. Len(q) >= Len(to) BY <1>1 DEF Within, Under
<1>4. Len(r) > Len(q) /\ \A i \in 1 .. Len(q) : r[i] = q[i] BY UnderEach
<1>5. /\ Len(s) = Len(from) + Len(r) - Len(to)
      /\ \A i \in 1 .. Len(s) : s[i] = IF i <= Len(from) THEN from[i]
                                       ELSE r[i - Len(from) + Len(to)]
  BY <1>2, MovedEach
<1>6. /\ t \in Seq(STRING) /\ Len(t) = Len(from) + Len(q) - Len(to)
      /\ \A i \in 1 .. Len(t) : t[i] = IF i <= Len(from) THEN from[i]
                                       ELSE q[i - Len(from) + Len(to)]
  BY MovedEach
<1> HIDE DEF s, t
<1>7. Len(t) \in 1 .. Len(s) /\ Len(s) > Len(t) BY <1>1, <1>3, <1>4, <1>5, <1>6
<1> DEFINE u == SubSeq(s, 1, Len(t))
<1>8. /\ u \in Seq(STRING) /\ Len(u) = Len(t) /\ \A i \in 1 .. Len(t) : u[i] = s[i]
  BY <1>1, <1>7, SubSeqProperties
<1>9. u \in Paths BY <1>1, <1>7
<1> HIDE DEF u
<1>10. ASSUME NEW i \in 1 .. Len(t) PROVE u[i] = t[i]
  <2>1. u[i] = s[i] /\ i \in 1 .. Len(s) BY <1>7, <1>8, <1>1
  <2>2. CASE i <= Len(from) BY <2>1, <2>2, <1>5, <1>6
  <2>3. CASE ~(i <= Len(from))
    <3>1. i - Len(from) + Len(to) \in 1 .. Len(q) BY <1>1, <1>3, <1>6, <2>3
    <3>2. s[i] = r[i - Len(from) + Len(to)] BY <2>1, <2>3, <1>5
    <3>3. t[i] = q[i - Len(from) + Len(to)] BY <2>3, <1>6
    <3> QED BY <2>1, <3>1, <3>2, <3>3, <1>4
  <2> QED BY <2>2, <2>3
<1>11. u = t BY <1>6, <1>8, <1>10, SeqEqual
<1>12. t \in Paths /\ Under(s, t) BY <1>7, <1>9, <1>11 DEF Under, u
<1> QED BY <1>12 DEF s, t

-----------------------------------------------------------------------------
(* Directories.                                                            *)

LEMMA AboveInDirectory ==
  ASSUME NEW tree, Rooted(tree), NEW p \in Paths, InDirectory(tree, p), NEW q \in Paths, Under(p, q)
  PROVE  tree[q] = Dir
<1>1. Len(p) > 1 /\ Len(p) \in Nat BY UnderNotItself, PathTypes
<1>2. tree[Parent(p)] = Dir
  <2>1. PICK n \in Nat : n = Len(p) BY <1>1
  <2>2. n # 1 BY <1>1, <2>1
  <2> QED BY <2>1, <2>2 DEF InDirectory
<1>3. Parent(p) \in Paths /\ (q = Parent(p) \/ Under(Parent(p), q)) BY <1>1, ParentFacts
<1> QED BY <1>2, <1>3 DEF Rooted, None, Dir

LEMMA RenamedAway ==
  ASSUME NEW tree \in Trees, Rooted(tree), NEW from \in Paths, NEW to \in Paths,
         CanRename(tree, from, to), from # to
  PROVE  /\ ~Under(to, from) /\ ~Under(from, to)
         /\ \A q \in Paths : ~(Within(q, from) /\ Within(q, to))
<1>1. ~Under(to, from) BY DEF CanRename
<1>2. ~Under(from, to)
  <2> SUFFICES ASSUME Under(from, to) PROVE FALSE OBVIOUS
  <2>1. tree[to] = Dir /\ tree[from] # None BY DEF Rooted, CanRename
  <2>2. Empty(tree, to) BY <2>1 DEF CanRename, None, Dir, IsFile
  <2> QED BY <2>1, <2>2 DEF Empty
<1> QED BY <1>1, <1>2, AboveOneAnother DEF Within

LEMMA RenamedRooted ==
  ASSUME NEW tree \in Trees, Rooted(tree), NEW from \in Paths, NEW to \in Paths,
         CanRename(tree, from, to)
  PROVE  Rooted(Renamed(tree, from, to))
<1> DEFINE after == Renamed(tree, from, to)
<1>1. CASE from = to BY <1>1 DEF Renamed
<1>2. CASE from # to
  <2> SUFFICES ASSUME NEW r \in Paths, NEW q \in Paths, after[r] # None, Under(r, q)
               PROVE  after[q] = Dir
    BY DEF Rooted
  <2>1. \A p \in Paths : ~(Within(p, from) /\ Within(p, to)) BY <1>2, RenamedAway
  <2>2. \A p \in Paths : after[p] = IF Within(p, from) THEN None
                                    ELSE IF Within(p, to)
                                    THEN LET s == Moved(p, to, from) IN IF s \in Paths THEN tree[s] ELSE None
                                    ELSE tree[p]
    BY <1>2 DEF Renamed, Within
  <2> HIDE DEF after
  <2>3. ~Within(r, from) BY <2>2
  <2>4. ~Within(q, from) BY <2>3, UnderTransitive DEF Within
  <2>5. CASE Within(q, to)
    <3>1. Within(r, to) BY <2>5, UnderTransitive DEF Within
    <3>2. Moved(r, to, from) \in Paths /\ tree[Moved(r, to, from)] # None BY <2>2, <2>3, <3>1
    <3>3. Moved(q, to, from) \in Paths /\ Under(Moved(r, to, from), Moved(q, to, from))
      BY <2>5, <3>2, MovedUnder
    <3>4. tree[Moved(q, to, from)] = Dir BY <3>2, <3>3 DEF Rooted
    <3> QED BY <2>2, <2>4, <2>5, <3>3, <3>4
  <2>6. CASE ~Within(q, to) /\ Within(r, to)
    <3>1. Under(to, q) BY <2>6, AboveOneAnother DEF Within
    <3>2. InDirectory(tree, to) BY DEF CanRename
    <3>3. tree[q] = Dir BY <3>1, <3>2, AboveInDirectory
    <3> QED BY <2>2, <2>4, <2>6, <3>3
  <2>7. CASE ~Within(q, to) /\ ~Within(r, to)
    <3>1. tree[q] = Dir BY <2>2, <2>3, <2>7 DEF Rooted
    <3> QED BY <2>2, <2>4, <2>7, <3>1
  <2> QED BY <2>5, <2>6, <2>7
<1> QED BY <1>1, <1>2

LEMMA PlacedRooted ==
  ASSUME NEW tree \in Trees, Rooted(tree), NEW p \in Paths, tree[p] # Dir, NEW e
  PROVE  Rooted(Placed(tree, p, e))
<1> DEFINE after == Placed(tree, p, e)
<1>1. \A q \in Paths : after[q] = IF q = p THEN e ELSE IF Under(p, q) THEN Dir ELSE tree[q]
  BY DEF Placed
<1> HIDE DEF after
<1> SUFFICES ASSUME NEW r \in Paths, NEW q \in Paths, after[r] # None, Under(r, q)
             PROVE  after[q] = Dir
  BY DEF Rooted, after
<1>2. CASE Within(p, r)
  <2>1. Under(p, q) BY <1>2, UnderTransitive DEF Within
  <2>2. q # p BY <2>1, UnderNotItself
  <2> QED BY <1>1, <2>1, <2>2
<1>3. CASE ~Within(p, r)
  <2>1. tree[q] = Dir BY <1>1, <1>3 DEF Within, Rooted
  <2> QED BY <1>1, <2>1
<1> QED BY <1>2, <1>3

LEMMA AddedRooted ==
  ASSUME NEW tree \in Trees, Rooted(tree), NEW p \in Paths, tree[p] = None, InDirectory(tree, p), NEW e
  PROVE  Rooted([tree EXCEPT ![p] = e])
<1> DEFINE after == [tree EXCEPT ![p] = e]
<1>1. \A q \in Paths : after[q] = IF q = p THEN e ELSE tree[q] BY DEF Trees
<1> HIDE DEF after
<1> SUFFICES ASSUME NEW r \in Paths, NEW q \in Paths, after[r] # None, Under(r, q)
             PROVE  after[q] = Dir
  BY DEF Rooted, after
<1>2. tree[q] = Dir BY <1>1, AboveInDirectory DEF Rooted
<1>3. q # p BY <1>2 DEF None, Dir
<1> QED BY <1>1, <1>2, <1>3

LEMMA RemovedRooted ==
  ASSUME NEW tree \in Trees, Rooted(tree), NEW p \in Paths, tree[p] # Dir \/ Empty(tree, p)
  PROVE  Rooted([tree EXCEPT ![p] = None])
<1> DEFINE after == [tree EXCEPT ![p] = None]
<1>1. \A q \in Paths : after[q] = IF q = p THEN None ELSE tree[q] BY DEF Trees
<1> HIDE DEF after
<1> SUFFICES ASSUME NEW r \in Paths, NEW q \in Paths, after[r] # None, Under(r, q)
             PROVE  after[q] = Dir
  BY DEF Rooted, after
<1>2. tree[r] # None /\ tree[q] = Dir BY <1>1 DEF Rooted
<1>3. q # p BY <1>2 DEF Empty
<1> QED BY <1>1, <1>2, <1>3

\* Whatever a call does, what is above something in the tree remains a directory.
THEOREM CallsKeepDirectories ==
  ASSUME NEW tree \in Trees, Rooted(tree), NEW op \in Operations, NEW file
  PROVE  Rooted(Do(tree, op, file))
<1>1. op.path \in Paths /\ op.to \in Paths /\ op.kind \in Kinds BY DEF Operations
<1>2. CASE ~Can(tree, op) BY <1>2 DEF Do
<1>3. CASE Can(tree, op)
  <2> SUFFICES Rooted(Effect(tree, op, file)) BY <1>3 DEF Do
  <2>1. CASE op.kind = "mkdir"
    BY <1>1, <1>3, <2>1, AddedRooted DEF Can, Effect
  <2>2. CASE op.kind = "mknod"
    BY <1>1, <1>3, <2>2, AddedRooted DEF Can, Effect
  <2>3. CASE op.kind = "create"
    <3>1. tree[op.path] # Dir BY <1>3, <2>3 DEF Can
    <3> QED BY <1>1, <3>1, <2>3, PlacedRooted DEF Effect
  <2>4. CASE op.kind = "put"
    <3>1. tree[op.path] # Dir BY <1>3, <2>4 DEF Can
    <3> QED BY <1>1, <3>1, <2>4, PlacedRooted DEF Effect
  <2>5. CASE op.kind = "rmdir"
    BY <1>1, <1>3, <2>5, RemovedRooted DEF Can, Effect
  <2>6. CASE op.kind = "unlink"
    BY <1>1, <1>3, <2>6, RemovedRooted DEF Can, Effect, IsFile, Dir
  <2>7. CASE op.kind = "rename"
    BY <1>1, <1>3, <2>7, RenamedRooted DEF Can, Effect
  <2>8. CASE op.kind \in {"renameFlags", "utimens", "getattr", "open"}
    BY <2>8 DEF Effect
  <2> QED BY <1>1, <2>1, <2>2, <2>3, <2>4, <2>5, <2>6, <2>7, <2>8 DEF Kinds
<1> QED BY <1>2, <1>3

-----------------------------------------------------------------------------
(* Two trees, of which one is a part of the other.                         *)

\* What the one has, the other has too.
Agrees(mine, theirs) == \A p \in Paths : mine[p] # None => mine[p] = theirs[p]

\* A call that works on both keeps the part a part.
LEMMA EffectAgrees ==
  ASSUME NEW mine \in Trees, NEW theirs \in Trees, Agrees(mine, theirs),
         NEW op \in Operations, NEW file, op.kind \notin {"create", "put"}
  PROVE  Agrees(Effect(mine, op, file), Effect(theirs, op, file))
<1>1. op.path \in Paths /\ op.to \in Paths /\ op.kind \in Kinds BY DEF Operations
<1>2. \A p \in Paths : \A e : Agrees([mine EXCEPT ![p] = e], [theirs EXCEPT ![p] = e])
  BY DEF Agrees, Trees
<1>3. Agrees(Renamed(mine, op.path, op.to), Renamed(theirs, op.path, op.to))
  BY DEF Agrees, Renamed
<1>4. CASE op.kind = "mkdir" BY <1>1, <1>2, <1>4 DEF Effect
<1>5. CASE op.kind = "mknod" BY <1>1, <1>2, <1>5 DEF Effect
<1>6. CASE op.kind \in {"rmdir", "unlink"} BY <1>1, <1>2, <1>6 DEF Effect
<1>7. CASE op.kind = "rename" BY <1>3, <1>7 DEF Effect
<1>8. CASE op.kind \in {"renameFlags", "utimens", "getattr", "open"} BY <1>8 DEF Effect
<1> QED BY <1>1, <1>4, <1>5, <1>6, <1>7, <1>8 DEF Kinds

\* A file is placed in a tree that agrees but for it, and has its directories or lacks
\* them.
LEMMA PlacedAgrees ==
  ASSUME NEW mine \in Trees, NEW theirs \in Trees, NEW p \in Paths, NEW e,
         NoFileAbove(theirs, p), mine[p] # None => mine[p] = e,
         \A q \in Paths \ {p} : mine[q] # None => mine[q] = theirs[q] \/ (Under(p, q) /\ mine[q] = Dir)
  PROVE  /\ Agrees(mine, Placed(theirs, p, e))
         /\ Agrees(Placed(mine, p, e), Placed(theirs, p, e))
<1>1. \A q \in Paths \ {p} : Under(p, q) /\ mine[q] # None => mine[q] = Dir
  BY DEF NoFileAbove, Trees, IsFile, None, Dir
<1> QED BY <1>1 DEF Agrees, Placed
=============================================================================
