--------------------------- MODULE Transfer_proofs ---------------------------
(***************************************************************************)
(* Invariants of Transfer and its refinement of WholeFileStore, for any    *)
(* files, callers, numbers of attempts and faults.                         *)
(***************************************************************************)
EXTENDS Transfer, SequenceTheorems, TLAPS

USE DEF history

-----------------------------------------------------------------------------
(* Disks.                                                                  *)

LEMMA DiskType ==
  ASSUME NEW disk, DiskOK(disk)
  PROVE  /\ disk.file \in Nat /\ disk.temp \in [Suffixes -> Nat]
         /\ disk.nodes \in Seq(Seq(Chunks)) /\ Len(disk.nodes) \in Nat
         /\ disk = [file |-> disk.file, temp |-> disk.temp, nodes |-> disk.nodes]
BY DEF DiskOK, Disk

\* The same names for as many inodes.
LEMMA DiskSame ==
  ASSUME NEW disk, DiskOK(disk), NEW new, new \in Disk,
         new.file = disk.file, new.temp = disk.temp, Len(new.nodes) = Len(disk.nodes)
  PROVE  DiskOK(new)
<1>1. new.file \in 0 .. Len(new.nodes) BY DEF DiskOK
<1>2. ASSUME NEW s \in Suffixes
      PROVE  /\ new.temp[s] \in 0 .. Len(new.nodes)
             /\ new.temp[s] # NoNode =>
                  new.temp[s] # new.file /\ \A t \in Suffixes \ {s} : new.temp[t] # new.temp[s]
  BY Zenon DEF DiskOK
<1> QED BY <1>1, <1>2 DEF DiskOK

LEMMA ChunksOfPuts == \A v \in Versions : v \in Chunks /\ v # Hole /\ v # NoChunk
BY VersionsAssumption DEF Chunks

\* A data is written at a position.
LEMMA WriteAtType ==
  ASSUME NEW data \in Seq(Chunks), NEW k \in Nat \ {0}, NEW v \in Chunks
  PROVE  /\ WriteAt(data, k, v) \in Seq(Chunks)
         /\ Len(WriteAt(data, k, v)) = IF k > Len(data) THEN k ELSE Len(data)
<1> DEFINE n == IF k > Len(data) THEN k ELSE Len(data)
           f == [i \in 1 .. n |-> IF i = k THEN v ELSE IF i <= Len(data) THEN data[i] ELSE Hole]
<1>1. n \in Nat OBVIOUS
<1>2. \A i \in 1 .. n : f[i] \in Chunks
  <2> SUFFICES ASSUME NEW i \in 1 .. n PROVE f[i] \in Chunks OBVIOUS
  <2>1. i <= Len(data) => data[i] \in Chunks OBVIOUS
  <2>2. Hole \in Chunks BY DEF Chunks
  <2> QED BY <2>1, <2>2
<1>3. f \in Seq(Chunks) /\ Len(f) = n
  <2>1. f \in [1 .. n -> Chunks] BY <1>2
  <2> HIDE DEF f, n
  <2> QED BY <1>1, <2>1
<1> QED BY <1>3 DEF WriteAt

\* The inode s leads to is the old one, emptied, or a new one.
LEMMA OpenedFacts ==
  ASSUME NEW disk, DiskOK(disk), NEW s \in Suffixes
  PROVE  LET open == Opened(disk, s) IN
         /\ DiskOK(open)
         /\ open.file = disk.file /\ Len(open.nodes) >= Len(disk.nodes)
         /\ open.temp[s] \in 1 .. Len(open.nodes) /\ open.temp[s] # disk.file
         /\ open.nodes[open.temp[s]] = <<>>
         /\ \A t \in Suffixes \ {s} : open.temp[t] = disk.temp[t] /\ open.temp[t] # open.temp[s]
         /\ \A i \in 1 .. Len(disk.nodes) : i # open.temp[s] => open.nodes[i] = disk.nodes[i]
         /\ \A i \in 1 .. Len(disk.nodes) : i = open.temp[s] => i = disk.temp[s]
         /\ \A i \in 1 .. Len(open.nodes) : i # open.temp[s] => i \in 1 .. Len(disk.nodes)
<1> DEFINE open == Opened(disk, s)
<1>0. disk.nodes \in Seq(Seq(Chunks)) /\ disk.temp \in [Suffixes -> Nat] /\ disk.file \in Nat
      /\ Len(disk.nodes) \in Nat
  BY DiskType
<1>1. CASE disk.temp[s] # NoNode
  <2>1. open = [file |-> disk.file, temp |-> disk.temp,
                nodes |-> [disk.nodes EXCEPT ![disk.temp[s]] = <<>>]]
    <3>1. open = [disk EXCEPT !.nodes = [disk.nodes EXCEPT ![disk.temp[s]] = <<>>]]
      BY <1>1 DEF Opened
    <3> QED BY <3>1, DiskType
  <2>2. disk.temp[s] \in 1 .. Len(disk.nodes) BY <1>0, <1>1 DEF DiskOK, NoNode
  <2> DEFINE nodes == [disk.nodes EXCEPT ![disk.temp[s]] = <<>>]
  <2>3. <<>> \in Seq(Chunks) OBVIOUS
  <2>4. nodes \in Seq(Seq(Chunks)) /\ Len(nodes) = Len(disk.nodes)
        /\ nodes[disk.temp[s]] = <<>>
        /\ \A i \in 1 .. Len(disk.nodes) : i # disk.temp[s] => nodes[i] = disk.nodes[i]
    BY <1>0, <2>2, <2>3
  <2> HIDE DEF nodes
  <2>5. open = [file |-> disk.file, temp |-> disk.temp, nodes |-> nodes] BY <2>1 DEF nodes
  <2>6. open.file = disk.file /\ open.temp = disk.temp /\ open.nodes = nodes BY <2>5
  <2>7. DiskOK(open)
    <3>1. open \in Disk BY <1>0, <2>4, <2>5 DEF Disk
    <3>2. Len(open.nodes) = Len(disk.nodes) BY <2>4, <2>6
    <3> HIDE DEF open
    <3> QED BY <3>1, <3>2, <2>6, DiskSame
  <2>8. disk.temp[s] # disk.file /\ \A t \in Suffixes \ {s} : disk.temp[t] # disk.temp[s]
    BY <1>1 DEF DiskOK
  <2> HIDE DEF open
  <2>9. /\ Len(open.nodes) = Len(disk.nodes) /\ open.temp[s] \in 1 .. Len(open.nodes)
        /\ open.nodes[open.temp[s]] = <<>> /\ open.temp[s] # disk.file
    BY <2>2, <2>4, <2>6, <2>8
  <2>10. \A t \in Suffixes \ {s} : open.temp[t] = disk.temp[t] /\ open.temp[t] # open.temp[s]
    BY <2>6, <2>8
  <2>11. \A i \in 1 .. Len(disk.nodes) :
           /\ i # open.temp[s] => open.nodes[i] = disk.nodes[i]
           /\ i = open.temp[s] => i = disk.temp[s]
    BY <2>4, <2>6
  <2>12. Len(open.nodes) >= Len(disk.nodes) /\ open.file = disk.file BY <1>0, <2>6, <2>9
  <2> QED BY <2>7, <2>9, <2>10, <2>11, <2>12 DEF open
<1>2. CASE disk.temp[s] = NoNode
  <2> DEFINE nodes == Append(disk.nodes, <<>>)
             temp == [disk.temp EXCEPT ![s] = Len(disk.nodes) + 1]
  <2>1. open = [file |-> disk.file, temp |-> temp, nodes |-> nodes]
    BY <1>2 DEF Opened
  <2>2. nodes \in Seq(Seq(Chunks)) /\ Len(nodes) = Len(disk.nodes) + 1
        /\ nodes[Len(disk.nodes) + 1] = <<>>
        /\ \A i \in 1 .. Len(disk.nodes) : nodes[i] = disk.nodes[i]
    BY <1>0
  <2>3. temp \in [Suffixes -> Nat] /\ temp[s] = Len(disk.nodes) + 1
        /\ \A t \in Suffixes \ {s} : temp[t] = disk.temp[t]
    BY <1>0
  <2> HIDE DEF nodes, temp
  <2>4. open.file = disk.file /\ open.temp = temp /\ open.nodes = nodes BY <2>1
  <2>5. disk.file \in 0 .. Len(disk.nodes)
        /\ \A t \in Suffixes : disk.temp[t] \in 0 .. Len(disk.nodes)
    BY DEF DiskOK
  <2>6. DiskOK(open)
    <3>1. open \in Disk BY <1>0, <2>1, <2>2, <2>3 DEF Disk
    <3>2. open.file \in 0 .. Len(open.nodes) BY <1>0, <2>2, <2>4, <2>5
    <3>3. \A t \in Suffixes :
            /\ temp[t] \in 0 .. Len(nodes)
            /\ temp[t] # NoNode =>
                 temp[t] # disk.file /\ \A u \in Suffixes \ {t} : temp[u] # temp[t]
      <4> SUFFICES ASSUME NEW t \in Suffixes
                   PROVE  /\ temp[t] \in 0 .. Len(nodes)
                          /\ temp[t] # NoNode =>
                               temp[t] # disk.file /\ \A u \in Suffixes \ {t} : temp[u] # temp[t]
        OBVIOUS
      <4>1. CASE t = s BY <4>1, <1>0, <2>2, <2>3, <2>5
      <4>2. CASE t # s
        <5>1. temp[t] = disk.temp[t] BY <4>2, <2>3
        <5>2. temp[t] # NoNode => \A u \in Suffixes \ {t} : temp[u] # temp[t]
          BY <5>1, <1>0, <2>3, <2>5 DEF DiskOK
        <5> QED BY <5>1, <5>2, <1>0, <2>2, <2>5 DEF DiskOK
      <4> QED BY <4>1, <4>2
    <3> QED BY <3>1, <3>2, <3>3, <2>4 DEF DiskOK
  <2>7. \A i \in 1 .. Len(nodes) : i # temp[s] => i \in 1 .. Len(disk.nodes)
    BY <1>0, <2>2, <2>3
  <2> HIDE DEF open
  <2>8. /\ Len(open.nodes) = Len(disk.nodes) + 1 /\ open.temp[s] = Len(disk.nodes) + 1
        /\ open.nodes[open.temp[s]] = <<>> /\ open.temp[s] # disk.file
    BY <1>0, <2>2, <2>3, <2>4, <2>5
  <2>9. \A t \in Suffixes \ {s} : open.temp[t] = disk.temp[t] /\ open.temp[t] # open.temp[s]
    BY <1>0, <2>3, <2>4, <2>5
  <2>10. \A i \in 1 .. Len(disk.nodes) : i # open.temp[s] /\ open.nodes[i] = disk.nodes[i]
    BY <1>0, <2>2, <2>4, <2>8
  <2>11. \A i \in 1 .. Len(open.nodes) : i # open.temp[s] => i \in 1 .. Len(disk.nodes)
    BY <2>4, <2>7
  <2>12. /\ Len(open.nodes) >= Len(disk.nodes) /\ open.temp[s] \in 1 .. Len(open.nodes)
         /\ open.file = disk.file
    BY <1>0, <2>4, <2>8
  <2> QED BY <2>6, <2>8, <2>9, <2>10, <2>11, <2>12 DEF open
<1> QED BY <1>1, <1>2

\* Only the data of inode i changes.
LEMMA WroteFacts ==
  ASSUME NEW disk, DiskOK(disk), NEW i \in 1 .. Len(disk.nodes), NEW k \in Nat \ {0}, NEW v \in Chunks
  PROVE  LET new == Wrote(disk, i, k, v) IN
         /\ DiskOK(new)
         /\ new.file = disk.file /\ new.temp = disk.temp /\ Len(new.nodes) = Len(disk.nodes)
         /\ new.nodes[i] = WriteAt(disk.nodes[i], k, v)
         /\ \A j \in 1 .. Len(disk.nodes) \ {i} : new.nodes[j] = disk.nodes[j]
<1> DEFINE new == Wrote(disk, i, k, v)
           nodes == [disk.nodes EXCEPT ![i] = WriteAt(disk.nodes[i], k, v)]
<1>1. disk.nodes \in Seq(Seq(Chunks)) /\ disk.temp \in [Suffixes -> Nat] /\ disk.file \in Nat
  BY DiskType
<1>2. disk.nodes[i] \in Seq(Chunks) BY <1>1
<1>3. WriteAt(disk.nodes[i], k, v) \in Seq(Chunks) BY <1>2, WriteAtType
<1>4. nodes \in Seq(Seq(Chunks)) /\ Len(nodes) = Len(disk.nodes)
      /\ nodes[i] = WriteAt(disk.nodes[i], k, v)
      /\ \A j \in 1 .. Len(disk.nodes) \ {i} : nodes[j] = disk.nodes[j]
  BY <1>1, <1>3
<1>5. new = [file |-> disk.file, temp |-> disk.temp, nodes |-> nodes]
  <2>1. new = [disk EXCEPT !.nodes = nodes] BY DEF Wrote
  <2>2. disk = [file |-> disk.file, temp |-> disk.temp, nodes |-> disk.nodes] BY DiskType
  <2> HIDE DEF nodes, new
  <2> QED BY <2>1, <2>2
<1> HIDE DEF nodes, new
<1>6. new.file = disk.file /\ new.temp = disk.temp /\ new.nodes = nodes BY <1>5
<1>7. new \in Disk BY <1>1, <1>4, <1>5 DEF Disk
<1>8. DiskOK(new)
  <2>1. Len(new.nodes) = Len(disk.nodes) BY <1>4, <1>6
  <2> QED BY <1>6, <1>7, <2>1, DiskSame
<1> QED BY <1>4, <1>6, <1>8 DEF new

LEMMA PlacedFacts ==
  ASSUME NEW disk, DiskOK(disk), NEW s \in Suffixes
  PROVE  LET new == Placed(disk, s) IN
         /\ DiskOK(new) /\ new.nodes = disk.nodes
         /\ new.file = IF disk.temp[s] # NoNode THEN disk.temp[s] ELSE disk.file
         /\ new.temp[s] = NoNode
         /\ \A t \in Suffixes \ {s} : new.temp[t] = disk.temp[t]
<1> DEFINE new == Placed(disk, s)
           temp == [disk.temp EXCEPT ![s] = NoNode]
<1>1. disk.nodes \in Seq(Seq(Chunks)) /\ disk.temp \in [Suffixes -> Nat] /\ disk.file \in Nat
  BY DiskType
<1>2. CASE disk.temp[s] # NoNode
  <2>1. new = [file |-> disk.temp[s], temp |-> temp, nodes |-> disk.nodes]
    BY <1>2 DEF Placed
  <2>2. temp \in [Suffixes -> Nat] /\ temp[s] = NoNode
        /\ \A t \in Suffixes \ {s} : temp[t] = disk.temp[t]
    BY <1>1 DEF NoNode
  <2> HIDE DEF temp, new
  <2>3. new.file = disk.temp[s] /\ new.temp = temp /\ new.nodes = disk.nodes BY <2>1
  <2>4. new \in Disk BY <1>1, <2>1, <2>2 DEF Disk
  <2>5. \A t \in Suffixes : temp[t] # NoNode => t # s /\ temp[t] = disk.temp[t] BY <2>2
  <2>6. \A t \in Suffixes :
          /\ temp[t] \in 0 .. Len(disk.nodes)
          /\ temp[t] # NoNode =>
               temp[t] # disk.temp[s] /\ \A u \in Suffixes \ {t} : temp[u] # temp[t]
    <3> SUFFICES ASSUME NEW t \in Suffixes
                 PROVE  /\ temp[t] \in 0 .. Len(disk.nodes)
                        /\ temp[t] # NoNode =>
                             temp[t] # disk.temp[s] /\ \A u \in Suffixes \ {t} : temp[u] # temp[t]
      OBVIOUS
    <3>1. CASE temp[t] = NoNode BY <3>1, <1>1 DEF NoNode
    <3>2. CASE temp[t] # NoNode
      BY <3>2, <2>2, <2>5 DEF DiskOK
    <3> QED BY <3>1, <3>2
  <2>7. DiskOK(new)
    BY <2>3, <2>4, <2>6 DEF DiskOK
  <2> QED BY <1>2, <2>2, <2>3, <2>7 DEF new
<1>3. CASE disk.temp[s] = NoNode
  BY <1>3 DEF Placed
<1> QED BY <1>2, <1>3

\* A temporary file is removed.
LEMMA RemovedFacts ==
  ASSUME NEW disk, DiskOK(disk), NEW s \in Suffixes
  PROVE  LET new == Removed(disk, s) IN
         /\ DiskOK(new) /\ new.nodes = disk.nodes /\ new.file = disk.file
         /\ new.temp[s] = NoNode
         /\ \A t \in Suffixes \ {s} : new.temp[t] = disk.temp[t]
<1> DEFINE new == Removed(disk, s)
           temp == [disk.temp EXCEPT ![s] = NoNode]
<1>1. disk.nodes \in Seq(Seq(Chunks)) /\ disk.temp \in [Suffixes -> Nat] /\ disk.file \in Nat
  BY DiskType
<1>2. new = [file |-> disk.file, temp |-> temp, nodes |-> disk.nodes]
  <2>1. new = [disk EXCEPT !.temp = temp] BY DEF Removed
  <2> QED BY <2>1, DiskType
<1>3. temp \in [Suffixes -> Nat] /\ temp[s] = NoNode
      /\ \A t \in Suffixes \ {s} : temp[t] = disk.temp[t]
  BY <1>1 DEF NoNode
<1> HIDE DEF new, temp
<1>4. new.file = disk.file /\ new.temp = temp /\ new.nodes = disk.nodes BY <1>2
<1>5. new \in Disk BY <1>1, <1>2, <1>3 DEF Disk
<1>6. \A t \in Suffixes : temp[t] # NoNode => t # s /\ temp[t] = disk.temp[t] BY <1>3
<1>7. DiskOK(new) BY <1>1, <1>3, <1>4, <1>5, <1>6 DEF DiskOK, NoNode
<1> QED BY <1>3, <1>4, <1>7 DEF new

-----------------------------------------------------------------------------
(* A chunk arrives.                                                        *)

\* What is done to a disk when chunk k of version v arrives: the inode is a new or
\* emptied one at first, and the other data stay.
Reception(disk, new, node, s, i, k, v) ==
  /\ DiskOK(new)
  /\ new.file = disk.file /\ Len(new.nodes) >= Len(disk.nodes)
  /\ node \in 1 .. Len(new.nodes)
  /\ \A t \in Suffixes \ {s} : new.temp[t] = disk.temp[t]
  /\ k # 1 => node = i /\ new.temp = disk.temp
  /\ k = 1 => /\ new.temp[s] = node /\ node # disk.file
              /\ \A j \in 1 .. Len(disk.nodes) : j = node => j = disk.temp[s]
  /\ \A j \in 1 .. Len(disk.nodes) : j # node => new.nodes[j] = disk.nodes[j]
  /\ \A j \in 1 .. Len(new.nodes) : j # node => j \in 1 .. Len(disk.nodes)
  /\ LET old == IF k = 1 THEN <<>> ELSE disk.nodes[i] IN
     new.nodes[node] = IF v = NoChunk \/ InBuffer(v, k) THEN old ELSE WriteAt(old, k, v)

LEMMA ReceivedFacts ==
  ASSUME NEW disk, DiskOK(disk), NEW s \in Suffixes, NEW i \in Nat, NEW k \in Nat \ {0},
         NEW v \in Chunks \cup {NoChunk}, k # 1 => i \in 1 .. Len(disk.nodes)
  PROVE  Reception(disk, Received(disk, s, i, k, v), NodeOf(disk, s, i, k), s, i, k, v)
<1> DEFINE open == IF k = 1 THEN Opened(disk, s) ELSE disk
           node == NodeOf(disk, s, i, k)
           new == Received(disk, s, i, k, v)
           old == IF k = 1 THEN <<>> ELSE disk.nodes[i]
<1>1. /\ DiskOK(open) /\ open.file = disk.file /\ Len(open.nodes) >= Len(disk.nodes)
      /\ node \in 1 .. Len(open.nodes) /\ open.nodes[node] = old
      /\ \A t \in Suffixes \ {s} : open.temp[t] = disk.temp[t]
      /\ k # 1 => node = i /\ open.temp = disk.temp
      /\ k = 1 => /\ open.temp[s] = node /\ node # disk.file
                  /\ \A j \in 1 .. Len(disk.nodes) : j = node => j = disk.temp[s]
      /\ \A j \in 1 .. Len(disk.nodes) : j # node => open.nodes[j] = disk.nodes[j]
      /\ \A j \in 1 .. Len(open.nodes) : j # node => j \in 1 .. Len(disk.nodes)
  <2>1. CASE k = 1 BY <2>1, OpenedFacts DEF NodeOf
  <2>2. CASE k # 1 BY <2>2, DiskType DEF NodeOf
  <2> QED BY <2>1, <2>2
<1>2. CASE v = NoChunk \/ InBuffer(v, k)
  <2>1. new = open BY <1>2 DEF Received
  <2> QED BY <1>1, <1>2, <2>1 DEF Reception
<1>3. CASE ~(v = NoChunk \/ InBuffer(v, k))
  <2>1. new = Wrote(open, node, k, v) /\ v \in Chunks BY <1>3 DEF Received, NodeOf
  <2> HIDE DEF open, node, new, old
  <2>2. /\ DiskOK(new) /\ new.file = open.file /\ new.temp = open.temp
        /\ Len(new.nodes) = Len(open.nodes)
        /\ new.nodes[node] = WriteAt(open.nodes[node], k, v)
        /\ \A j \in 1 .. Len(open.nodes) \ {node} : new.nodes[j] = open.nodes[j]
    BY <1>1, <2>1, WroteFacts
  <2>3. Len(open.nodes) \in Nat /\ Len(disk.nodes) \in Nat BY <1>1, DiskType
  <2> QED BY <1>1, <1>3, <2>2, <2>3 DEF new, node, old, Reception
<1> QED BY <1>2, <1>3
-----------------------------------------------------------------------------
(* Type correctness.                                                       *)

\* An inode without a temporary name does not shrink and never gets one again.
Grows(d, e) ==
  /\ Len(d.nodes) <= Len(e.nodes)
  /\ \A i \in 1 .. Len(d.nodes) :
       (\A s \in Suffixes : d.temp[s] # i)
       => Len(d.nodes[i]) <= Len(e.nodes[i]) /\ \A s \in Suffixes : e.temp[s] # i

LEMMA GrowsSame == ASSUME NEW d, DiskOK(d) PROVE Grows(d, d)
<1>1. Len(d.nodes) \in Nat /\ \A i \in 1 .. Len(d.nodes) : Len(d.nodes[i]) \in Nat
  BY DiskType
<1> QED BY <1>1 DEF Grows

LEMMA ReceivedGrows ==
  ASSUME NEW disk, DiskOK(disk), NEW s \in Suffixes, NEW i \in Nat, NEW k \in Nat \ {0},
         NEW v \in Chunks \cup {NoChunk}, k # 1 => i \in 1 .. Len(disk.nodes)
  PROVE  Grows(disk, Received(disk, s, i, k, v))
<1> DEFINE new == Received(disk, s, i, k, v)
           node == NodeOf(disk, s, i, k)
<1>1. disk.nodes \in Seq(Seq(Chunks)) /\ Len(disk.nodes) \in Nat BY DiskType
<1>2. /\ Len(new.nodes) >= Len(disk.nodes) /\ node \in 1 .. Len(new.nodes)
      /\ \A t \in Suffixes \ {s} : new.temp[t] = disk.temp[t]
      /\ k # 1 => node = i /\ new.temp = disk.temp
      /\ k = 1 => /\ new.temp[s] = node
                  /\ \A j \in 1 .. Len(disk.nodes) : j = node => j = disk.temp[s]
      /\ \A j \in 1 .. Len(disk.nodes) : j # node => new.nodes[j] = disk.nodes[j]
      /\ LET old == IF k = 1 THEN <<>> ELSE disk.nodes[i] IN
         new.nodes[node] = IF v = NoChunk \/ InBuffer(v, k) THEN old ELSE WriteAt(old, k, v)
      /\ DiskOK(new)
  <2>1. Reception(disk, new, node, s, i, k, v) BY ReceivedFacts
  <2> HIDE DEF new, node
  <2> QED BY <2>1 DEF Reception
<1> HIDE DEF new, node
<1>3. ASSUME NEW j \in 1 .. Len(disk.nodes), \A t \in Suffixes : disk.temp[t] # j
      PROVE  Len(disk.nodes[j]) <= Len(new.nodes[j]) /\ \A t \in Suffixes : new.temp[t] # j
  <2>1. disk.nodes[j] \in Seq(Chunks) /\ Len(disk.nodes[j]) \in Nat BY <1>1
  <2>2. CASE j # node
    BY <1>2, <1>3, <2>1, <2>2
  <2>3. CASE j = node
    <3>1. k # 1 /\ node = i /\ new.temp = disk.temp BY <1>2, <1>3, <2>3
    <3>2. CASE v = NoChunk \/ InBuffer(v, k)
      BY <1>2, <1>3, <2>1, <2>3, <3>1, <3>2
    <3>3. CASE ~(v = NoChunk \/ InBuffer(v, k))
      <4>1. new.nodes[j] = WriteAt(disk.nodes[j], k, v) /\ v \in Chunks BY <1>2, <2>3, <3>1, <3>3
      <4>2. Len(WriteAt(disk.nodes[j], k, v)) >= Len(disk.nodes[j]) BY <2>1, <4>1, WriteAtType
      <4> QED BY <1>3, <2>1, <3>1, <4>1, <4>2
    <3> QED BY <3>2, <3>3
  <2> QED BY <2>2, <2>3
<1>4. Len(disk.nodes) <= Len(new.nodes) BY <1>1, <1>2
<1> QED BY <1>3, <1>4 DEF Grows, new

LEMMA PlacedGrows ==
  ASSUME NEW disk, DiskOK(disk), NEW s \in Suffixes
  PROVE  Grows(disk, Placed(disk, s)) /\ Grows(disk, Removed(disk, s))
<1>1. Len(disk.nodes) \in Nat /\ \A i \in 1 .. Len(disk.nodes) : Len(disk.nodes[i]) \in Nat
  BY DiskType
<1>2. ASSUME NEW new, new.nodes = disk.nodes, new.temp[s] = NoNode,
             \A t \in Suffixes \ {s} : new.temp[t] = disk.temp[t]
      PROVE  Grows(disk, new)
  BY <1>1, <1>2 DEF Grows, NoNode
<1> QED BY <1>2, PlacedFacts, RemovedFacts

LEMMA WroteGrows ==
  ASSUME NEW disk, DiskOK(disk), NEW i \in 1 .. Len(disk.nodes), NEW k \in Nat \ {0}, NEW v \in Chunks
  PROVE  Grows(disk, Wrote(disk, i, k, v))
<1> DEFINE new == Wrote(disk, i, k, v)
<1>1. disk.nodes \in Seq(Seq(Chunks)) /\ Len(disk.nodes) \in Nat BY DiskType
<1>2. /\ new.temp = disk.temp /\ Len(new.nodes) = Len(disk.nodes)
      /\ new.nodes[i] = WriteAt(disk.nodes[i], k, v)
      /\ \A j \in 1 .. Len(disk.nodes) \ {i} : new.nodes[j] = disk.nodes[j]
  BY WroteFacts
<1> HIDE DEF new
<1>3. ASSUME NEW j \in 1 .. Len(disk.nodes) PROVE Len(disk.nodes[j]) <= Len(new.nodes[j])
  <2>1. disk.nodes[j] \in Seq(Chunks) /\ Len(disk.nodes[j]) \in Nat BY <1>1
  <2>2. Len(WriteAt(disk.nodes[j], k, v)) >= Len(disk.nodes[j]) BY <2>1, WriteAtType
  <2> QED BY <1>2, <2>1, <2>2
<1> QED BY <1>1, <1>2, <1>3 DEF Grows, new

\* What the numbers and inodes of handlers and calls refer to.
HandlerFits(h, disk) == h.got > 0 => h.ino \in 1 .. Len(disk.nodes) /\ h.suf \in Suffixes
PutFits(r) == r.pc \in {"idle", "streaming"} => r.left >= 1
GetFits(r, d, c) ==
  /\ r.pc \in {"idle", "again", "stream"} => r.left >= 1
  /\ r.pc = "stream" => /\ r.src \in 1 .. Len(d.nodes) /\ r.size <= Len(d.nodes[r.src])
                        /\ \A s \in Suffixes : d.temp[s] # r.src
  /\ r.pc = "flush" => r.got > 0
  /\ r.got > 0 => r.ino \in 1 .. Len(c.nodes) /\ r.suf \in Suffixes

AllPuts(ps) == ps \in [Puts -> PutState] /\ \A p \in Puts : PutFits(ps[p])
AllHandlers(hs, disk) ==
  /\ hs \in [Puts -> [Attempts -> HandState]]
  /\ \A p \in Puts, a \in Attempts : HandlerFits(hs[p][a], disk)
AllGets(gs, d, c) == gs \in [Gets -> GetState] /\ \A g \in Gets : GetFits(gs[g], d, c)
Counted ==
  /\ seen \subseteq Faults /\ faults \in 0 .. MaxFaults
  /\ applied \subseteq Puts /\ replaced \subseteq Puts

TypeInv ==
  /\ DiskOK(srv) /\ DiskOK(cli)
  /\ AllPuts(put) /\ AllHandlers(hand, srv) /\ AllGets(get, srv, cli)
  /\ Counted

LEMMA InvIsTyped == TypeInv => TypeOK
BY DEF TypeInv, TypeOK, AllPuts, AllHandlers, AllGets, Counted

LEMMA HandlersStay ==
  ASSUME NEW hs, NEW d, NEW e, AllHandlers(hs, d), DiskOK(d), DiskOK(e), Grows(d, e)
  PROVE  AllHandlers(hs, e)
<1>1. Len(d.nodes) \in Nat /\ Len(e.nodes) \in Nat /\ Len(d.nodes) <= Len(e.nodes)
  BY DiskType DEF Grows
<1> QED BY <1>1 DEF AllHandlers, HandlerFits, HandState

LEMMA HandlerSet ==
  ASSUME NEW hs, NEW disk, AllHandlers(hs, disk), NEW p \in Puts, NEW a \in Attempts,
         NEW h \in HandState, HandlerFits(h, disk)
  PROVE  LET new == [hs EXCEPT ![p][a] = h] IN
         /\ AllHandlers(new, disk) /\ new[p][a] = h
         /\ \A q \in Puts, b \in Attempts : ~(q = p /\ b = a) => new[q][b] = hs[q][b]
<1> DEFINE new == [hs EXCEPT ![p][a] = h]
<1>1. hs \in [Puts -> [Attempts -> HandState]] BY DEF AllHandlers
<1> HIDE DEF HandState
<1>2. /\ new \in [Puts -> [Attempts -> HandState]] /\ new[p][a] = h
      /\ \A q \in Puts, b \in Attempts : ~(q = p /\ b = a) => new[q][b] = hs[q][b]
  BY <1>1
<1> HIDE DEF new
<1>3. \A q \in Puts, b \in Attempts : HandlerFits(new[q][b], disk)
  <2> SUFFICES ASSUME NEW q \in Puts, NEW b \in Attempts PROVE HandlerFits(new[q][b], disk)
    OBVIOUS
  <2>1. CASE q = p /\ b = a BY <1>2, <2>1
  <2>2. CASE ~(q = p /\ b = a) BY <1>2, <2>2 DEF AllHandlers
  <2> QED BY <2>1, <2>2
<1> QED BY <1>2, <1>3 DEF AllHandlers, new

LEMMA GetsStay ==
  ASSUME NEW gs, NEW d, NEW e, NEW c, NEW b, AllGets(gs, d, c),
         DiskOK(d), DiskOK(e), DiskOK(c), DiskOK(b), Grows(d, e), Grows(c, b)
  PROVE  AllGets(gs, e, b)
<1>1. /\ Len(d.nodes) \in Nat /\ Len(e.nodes) \in Nat /\ Len(d.nodes) <= Len(e.nodes)
      /\ Len(c.nodes) \in Nat /\ Len(b.nodes) \in Nat /\ Len(c.nodes) <= Len(b.nodes)
  BY DiskType DEF Grows
<1>2. ASSUME NEW g \in Gets PROVE GetFits(gs[g], e, b)
  <2>1. GetFits(gs[g], d, c) /\ gs[g] \in GetState BY DEF AllGets
  <2>2. gs[g].size \in Nat /\ gs[g].ino \in Nat BY <2>1 DEF GetState
  <2>3. gs[g].got > 0 => gs[g].ino \in 1 .. Len(b.nodes) /\ gs[g].suf \in Suffixes
    BY <1>1, <2>1, <2>2 DEF GetFits
  <2>4. ASSUME gs[g].pc = "stream"
        PROVE  /\ gs[g].src \in 1 .. Len(e.nodes) /\ gs[g].size <= Len(e.nodes[gs[g].src])
               /\ \A s \in Suffixes : e.temp[s] # gs[g].src
    <3>1. /\ gs[g].src \in 1 .. Len(d.nodes) /\ gs[g].size <= Len(d.nodes[gs[g].src])
          /\ \A s \in Suffixes : d.temp[s] # gs[g].src
      BY <2>1, <2>4 DEF GetFits
    <3>2. /\ Len(d.nodes[gs[g].src]) <= Len(e.nodes[gs[g].src])
          /\ \A s \in Suffixes : e.temp[s] # gs[g].src
      BY <3>1 DEF Grows
    <3>3. gs[g].src \in 1 .. Len(e.nodes) BY <1>1, <3>1
    <3> DEFINE i == gs[g].src
    <3>a. i \in 1 .. Len(d.nodes) /\ i \in 1 .. Len(e.nodes) BY <3>1, <3>3
    <3> HIDE DEF i
    <3>4. d.nodes[i] \in Seq(Chunks) /\ e.nodes[i] \in Seq(Chunks)
      <4>1. d.nodes \in Seq(Seq(Chunks)) /\ e.nodes \in Seq(Seq(Chunks)) BY DiskType
      <4> QED BY <3>a, <4>1
    <3>5. Len(d.nodes[i]) \in Nat /\ Len(e.nodes[i]) \in Nat BY <3>4
    <3>6. gs[g].size <= Len(e.nodes[gs[g].src])
      <4>1. gs[g].size <= Len(d.nodes[i]) /\ Len(d.nodes[i]) <= Len(e.nodes[i])
        BY <3>1, <3>2 DEF i
      <4>2. gs[g].size <= Len(e.nodes[i]) BY <2>2, <3>5, <4>1
      <4> QED BY <4>2 DEF i
    <3> QED BY <3>2, <3>3, <3>6
  <2> QED BY <2>1, <2>3, <2>4 DEF GetFits
<1> QED BY <1>2 DEF AllGets

LEMMA GetSet ==
  ASSUME NEW gs, NEW d, NEW c, AllGets(gs, d, c), NEW g \in Gets,
         NEW r \in GetState, GetFits(r, d, c)
  PROVE  AllGets([gs EXCEPT ![g] = r], d, c)
<1>1. gs \in [Gets -> GetState] /\ \A x \in Gets : GetFits(gs[x], d, c) BY DEF AllGets
<1> HIDE DEF GetState, GetFits
<1> QED BY <1>1 DEF AllGets

LEMMA NewHandlerOK ==
  \A disk : NewHandler \in HandState /\ NoHandler \in HandState
            /\ HandlerFits(NewHandler, disk) /\ HandlerFits(NoHandler, disk)
BY DEF NewHandler, NoHandler, HandState, HandlerFits, Running, NoNode

LEMMA EndedOK ==
  ASSUME NEW h \in HandState, NEW pc \in Running \cup {"none", "gone"}
  PROVE  /\ Ended(h, pc) \in HandState /\ Ended(Lose(h), pc) \in HandState
         /\ Lose(h) \in HandState
         /\ Lose(h).pc = h.pc /\ Lose(h).got = h.got /\ Lose(h).suf = h.suf /\ Lose(h).ino = h.ino
         /\ Lose(h).link = "down"
         /\ Ended(h, pc).pc = pc /\ Ended(h, pc).got = 0 /\ Ended(h, pc).link = h.link
         /\ Ended(Lose(h), pc).pc = pc /\ Ended(Lose(h), pc).got = 0
         /\ Ended(Lose(h), pc).link = "down"
<1> USE DEF HandState, NoHandler, NoNode
<1>1. Lose(h) = [pc |-> h.pc, got |-> h.got, link |-> "down", suf |-> h.suf, ino |-> h.ino]
  BY DEF Lose
<1>2. Ended(h, pc) = [pc |-> pc, got |-> 0, link |-> h.link, suf |-> NoSuffix, ino |-> 0]
  BY DEF Ended
<1>3. Ended(Lose(h), pc) = [pc |-> pc, got |-> 0, link |-> "down", suf |-> NoSuffix, ino |-> 0]
  BY <1>1 DEF Ended
<1> QED BY <1>1, <1>2, <1>3

LEMMA EndedGetOK ==
  ASSUME NEW r \in GetState, NEW pc \in {"again", "true", "false"}
  PROVE  /\ EndedGet(r, pc) =
              [pc |-> pc, left |-> r.left, src |-> 0, size |-> 0, got |-> 0,
               suf |-> NoSuffix, ino |-> 0, last |-> NoChunk]
         /\ EndedGet(r, pc) \in GetState
         /\ \A d, c : (pc = "again" => r.left >= 1) => GetFits(EndedGet(r, pc), d, c)
<1>1. EndedGet(r, pc) =
        [pc |-> pc, left |-> r.left, src |-> 0, size |-> 0, got |-> 0,
         suf |-> NoSuffix, ino |-> 0, last |-> NoChunk]
  BY DEF EndedGet, NewGet, NoNode
<1>2. EndedGet(r, pc) \in GetState BY <1>1 DEF GetState
<1> HIDE DEF GetState
<1>3. \A d, c : (pc = "again" => r.left >= 1) => GetFits(EndedGet(r, pc), d, c)
  BY <1>1 DEF GetFits
<1> QED BY <1>1, <1>2, <1>3

LEMMA InitFits == Init => TypeInv
<1> SUFFICES ASSUME Init PROVE TypeInv OBVIOUS
<1> USE DEF Init
<1>1. WholeFile(Initial) \in Seq(Chunks)
  <2>1. Length[Initial] \in Nat /\ Initial \in Chunks BY VersionsAssumption DEF Versions, Chunks
  <2> DEFINE n == Length[Initial]
             f == [k \in 1 .. n |-> Initial]
  <2>2. f \in [1 .. n -> Chunks] BY <2>1
  <2> HIDE DEF f, n
  <2>3. n \in Nat BY <2>1 DEF n
  <2>4. f \in Seq(Chunks) BY <2>2, <2>3
  <2> QED BY <2>4 DEF f, n, WholeFile
<1>2. ASSUME NEW nodes \in {<<>>, <<WholeFile(Initial)>>}
      PROVE  DiskOK([file |-> Len(nodes), temp |-> [s \in Suffixes |-> NoNode], nodes |-> nodes])
  <2> DEFINE data == WholeFile(Initial)
  <2> HIDE DEF data
  <2>0. data \in Seq(Chunks) /\ nodes \in {<<>>, <<data>>} BY <1>1, <1>2 DEF data
  <2>1. nodes \in Seq(Seq(Chunks)) /\ Len(nodes) \in Nat
    <3>1. CASE nodes = <<>> BY <3>1
    <3>2. CASE nodes = <<data>>
      <4> DEFINE S == Seq(Chunks)
      <4>1. data \in S BY <2>0
      <4> HIDE DEF S
      <4>2. <<data>> \in Seq(S) /\ Len(<<data>>) = 1 BY <4>1
      <4> QED BY <3>2, <4>2 DEF S
    <3> QED BY <2>0, <3>1, <3>2
  <2> QED BY <2>1 DEF DiskOK, Disk, NoNode
<1>3. DiskOK(srv) BY <1>2
<1>4. DiskOK(cli)
  <2>1. <<>> \in Seq(Seq(Chunks)) /\ Len(<<>>) = 0 OBVIOUS
  <2> QED BY <2>1 DEF DiskOK, Disk, NoNode
<1>5. AllPuts(put)
  BY AttemptsAssumption DEF AllPuts, PutState, PutFits
<1>6. AllHandlers(hand, srv) BY NewHandlerOK DEF AllHandlers
<1>7. AllGets(get, srv, cli)
  <2>1. NewGet \in GetState /\ GetFits(NewGet, srv, cli)
    BY AttemptsAssumption DEF NewGet, GetState, GetFits, NoNode
  <2> QED BY <2>1 DEF AllGets
<1>8. Counted BY FaultsAssumption DEF Counted
<1> QED BY <1>3, <1>4, <1>5, <1>6, <1>7, <1>8 DEF TypeInv

LEMMA FaultCounts == ASSUME Counted, NEW kind, Fault(kind), UNCHANGED history PROVE Counted'
BY FaultsAssumption DEF Counted, Fault

LEMMA PutsSet ==
  ASSUME NEW ps, AllPuts(ps), NEW p \in Puts, NEW r \in PutState, PutFits(r)
  PROVE  AllPuts([ps EXCEPT ![p] = r])
BY DEF AllPuts

\* The attempts of a put have handlers.
LEMMA CurrentIsAttempt ==
  ASSUME TypeInv, NEW p \in Puts, put[p].pc = "streaming"
  PROVE  /\ Current(p) \in Attempts /\ put[p].left \in 1 .. PutAttempts
         /\ put[p].left - 1 > 0 => Current(p) + 1 \in Attempts
<1>1. put[p] \in PutState /\ PutFits(put[p]) BY DEF TypeInv, AllPuts
<1>2. put[p].left \in 1 .. PutAttempts BY <1>1, AttemptsAssumption DEF PutState, PutFits
<1> QED BY <1>2, AttemptsAssumption DEF Current, Attempts

LEMMA BeginFits == ASSUME TypeInv, NEW p \in Puts, Begin(p) PROVE TypeInv'
<1>1. /\ UNCHANGED <<srv, cli, get, noFault, history>>
      /\ put' = [put EXCEPT ![p].pc = "streaming"]
      /\ hand' = [hand EXCEPT ![p][1] = NewHandler]
  BY DEF Begin
<1>2. put \in [Puts -> PutState] /\ put[p] \in PutState /\ PutFits(put[p])
  BY DEF TypeInv, AllPuts
<1>3. AllPuts(put')
  <2>1. [put[p] EXCEPT !.pc = "streaming"] \in PutState
        /\ PutFits([put[p] EXCEPT !.pc = "streaming"])
    BY <1>2 DEF PutState, PutFits, Begin
  <2>2. put' = [put EXCEPT ![p] = [put[p] EXCEPT !.pc = "streaming"]] BY <1>1, <1>2
  <2> QED BY <2>1, <2>2, PutsSet DEF TypeInv
<1>4. AllHandlers(hand', srv')
  <2>1. 1 \in Attempts BY AttemptsAssumption DEF Attempts
  <2> QED BY <1>1, <2>1, HandlerSet, NewHandlerOK DEF TypeInv
<1> QED BY <1>1, <1>3, <1>4 DEF TypeInv, Counted, noFault

LEMMA AttemptEndsFits == ASSUME TypeInv, NEW p \in Puts, AttemptEnds(p) PROVE TypeInv'
<1> DEFINE left == put[p].left - 1
<1>0. put[p].pc = "streaming" /\ UNCHANGED <<srv, cli, get, noFault, history>>
  BY DEF AttemptEnds
<1>1. /\ Current(p) \in Attempts /\ left \in 0 .. PutAttempts
      /\ left > 0 => Current(p) + 1 \in Attempts
  BY <1>0, CurrentIsAttempt, AttemptsAssumption
<1>2. put[p] \in PutState BY DEF TypeInv, AllPuts
<1>3. CASE /\ left > 0
           /\ put' = [put EXCEPT ![p].left = left]
           /\ hand' = [hand EXCEPT ![p][Current(p) + 1] = NewHandler]
  <2>1. put' = [put EXCEPT ![p] = [put[p] EXCEPT !.left = left]]
    BY <1>3, <1>2 DEF TypeInv, AllPuts
  <2>2. [put[p] EXCEPT !.left = left] \in PutState /\ PutFits([put[p] EXCEPT !.left = left])
    BY <1>1, <1>2, <1>3 DEF PutState, PutFits
  <2>3. AllPuts(put') BY <2>1, <2>2, PutsSet DEF TypeInv
  <2>4. AllHandlers(hand', srv) BY <1>1, <1>3, HandlerSet, NewHandlerOK DEF TypeInv
  <2> QED BY <1>0, <2>3, <2>4 DEF TypeInv, Counted, noFault
<1>4. ASSUME NEW pc \in {"true", "false"},
             put' = [put EXCEPT ![p] = [pc |-> pc, left |-> left]], hand' = hand
      PROVE  TypeInv'
  <2>1. [pc |-> pc, left |-> left] \in PutState /\ PutFits([pc |-> pc, left |-> left])
    BY <1>1 DEF PutState, PutFits
  <2>2. AllPuts(put') BY <1>4, <2>1, PutsSet DEF TypeInv
  <2> QED BY <1>0, <1>4, <2>2 DEF TypeInv, Counted, noFault
<1> QED BY <1>3, <1>4 DEF AttemptEnds

\* Only the server's disk, one handler and the puts that have been in place change.
LEMMA ServerStepFits ==
  ASSUME TypeInv, NEW p \in Puts, NEW a \in Attempts, NEW h \in HandState,
         HandlerFits(h, srv'), hand' = [hand EXCEPT ![p][a] = h],
         DiskOK(srv'), Grows(srv, srv'), UNCHANGED <<cli, put, get>>, Counted'
  PROVE  TypeInv'
<1>1. AllHandlers(hand', srv')
  <2>1. AllHandlers(hand, srv') BY HandlersStay DEF TypeInv
  <2> QED BY <2>1, HandlerSet
<1>2. AllGets(get', srv', cli')
  <2>1. Grows(cli, cli) BY GrowsSame DEF TypeInv
  <2>2. AllGets(get, srv', cli) BY <2>1, GetsStay DEF TypeInv
  <2> QED BY <2>2
<1> QED BY <1>1, <1>2 DEF TypeInv

\* The inode and the number of a handler that has received something.
LEMMA HandlerHas ==
  ASSUME TypeInv, NEW p \in Puts, NEW a \in Attempts
  PROVE  LET h == hand[p][a] IN
         /\ h \in HandState /\ h.got \in Nat /\ h.ino \in Nat
         /\ h.got > 0 => h.ino \in 1 .. Len(srv.nodes) /\ h.suf \in Suffixes
         /\ h = [pc |-> h.pc, got |-> h.got, link |-> h.link, suf |-> h.suf, ino |-> h.ino]
BY DEF TypeInv, AllHandlers, HandlerFits, HandState

LEMMA ReceiveFits ==
  ASSUME TypeInv, NEW p \in Puts, NEW a \in Attempts, NEW s \in Suffixes, Receive(p, a, s)
  PROVE  TypeInv'
<1> DEFINE h == hand[p][a]
           k == h.got + 1
           v == IF Length[p] = 0 THEN NoChunk ELSE p
           node == NodeOf(srv, s, h.ino, k)
           new == [h EXCEPT !.got = k, !.suf = s, !.ino = node]
<1>1. /\ srv' = Received(srv, s, h.ino, k, v)
      /\ hand' = [hand EXCEPT ![p][a] = new]
      /\ UNCHANGED <<cli, put, get, noFault, history>>
  BY DEF Receive
<1>2. h \in HandState /\ h.ino \in Nat /\ k \in Nat \ {0}
      /\ (k # 1 => h.ino \in 1 .. Len(srv.nodes))
  <2>1. /\ h \in HandState /\ h.got \in Nat /\ h.ino \in Nat
        /\ (h.got > 0 => h.ino \in 1 .. Len(srv.nodes))
    BY HandlerHas
  <2> HIDE DEF h
  <2> QED BY <2>1
<1>3. v \in Chunks \cup {NoChunk} BY ChunksOfPuts DEF Versions
<1> HIDE DEF h, k, v
<1>4. Reception(srv, srv', node, s, h.ino, k, v) BY <1>1, <1>2, <1>3, ReceivedFacts DEF TypeInv
<1>5. Grows(srv, srv') BY <1>1, <1>2, <1>3, ReceivedGrows DEF TypeInv
<1> HIDE DEF node
<1>6. node \in 1 .. Len(srv'.nodes) /\ DiskOK(srv') BY <1>4 DEF Reception
<1>7. node \in Nat BY <1>6, DiskType
<1>8. new \in HandState /\ HandlerFits(new, srv')
  BY <1>2, <1>6, <1>7 DEF HandState, HandlerFits
<1> HIDE DEF new
<1>9. Counted' BY <1>1 DEF TypeInv, Counted, noFault
<1> QED BY <1>1, <1>5, <1>6, <1>8, <1>9, ServerStepFits

LEMMA RenameFits ==
  ASSUME TypeInv, NEW p \in Puts, NEW a \in Attempts, Rename(p, a)
  PROVE  TypeInv'
<1> DEFINE h == hand[p][a]
           new == [h EXCEPT !.pc = "flush"]
<1>1. /\ srv' = IF h.got > 0 THEN Placed(srv, h.suf) ELSE srv
      /\ hand' = [hand EXCEPT ![p][a].pc = "flush"]
      /\ UNCHANGED <<cli, put, get, noFault>>
      /\ applied' = applied \cup {p} \/ applied' = applied
      /\ replaced' = replaced \cup Unfinished \/ replaced' = replaced
  BY DEF Rename, StreamEnded
<1>2. h \in HandState /\ (h.got > 0 => h.ino \in 1 .. Len(srv.nodes) /\ h.suf \in Suffixes)
  BY HandlerHas
<1>3. hand' = [hand EXCEPT ![p][a] = new] BY <1>1 DEF TypeInv, AllHandlers
<1> HIDE DEF h
<1>4. DiskOK(srv') /\ Grows(srv, srv') /\ Len(srv'.nodes) = Len(srv.nodes)
  BY <1>1, <1>2, PlacedFacts, PlacedGrows, GrowsSame DEF TypeInv
<1>5. new \in HandState /\ HandlerFits(new, srv')
  BY <1>2, <1>4 DEF HandState, HandlerFits, Running
<1> HIDE DEF new
<1>6. Counted'
  <2>1. Unfinished \subseteq Puts BY DEF Unfinished
  <2> QED BY <1>1, <2>1 DEF TypeInv, Counted, noFault
<1> QED BY <1>1, <1>3, <1>4, <1>5, <1>6, ServerStepFits

LEMMA RenameFailsFits ==
  ASSUME TypeInv, NEW p \in Puts, NEW a \in Attempts, RenameFails(p, a)
  PROVE  TypeInv'
<1> DEFINE h == hand[p][a]
           new == [h EXCEPT !.pc = "unplaced"]
<1>1. /\ srv' = srv /\ hand' = [hand EXCEPT ![p][a].pc = "unplaced"]
      /\ UNCHANGED <<cli, put, get, history>> /\ Fault("rename")
  BY DEF RenameFails
<1>2. h \in HandState /\ (h.got > 0 => h.ino \in 1 .. Len(srv.nodes) /\ h.suf \in Suffixes)
  BY HandlerHas
<1>3. hand' = [hand EXCEPT ![p][a] = new] BY <1>1 DEF TypeInv, AllHandlers
<1> HIDE DEF h
<1>4. DiskOK(srv') /\ Grows(srv, srv') BY <1>1, GrowsSame DEF TypeInv
<1>5. new \in HandState /\ HandlerFits(new, srv')
  BY <1>1, <1>2 DEF HandState, HandlerFits, Running
<1> HIDE DEF new
<1>6. Counted' BY <1>1, FaultCounts DEF TypeInv
<1> QED BY <1>1, <1>3, <1>4, <1>5, <1>6, ServerStepFits

LEMMA EndedFits ==
  ASSUME NEW h \in HandState, NEW pc \in Running \cup {"none", "gone"}, NEW disk
  PROVE  Ended(h, pc) \in HandState /\ HandlerFits(Ended(h, pc), disk)
BY EndedOK DEF HandlerFits

LEMMA FlushFits ==
  ASSUME TypeInv, NEW p \in Puts, NEW a \in Attempts, Flush(p, a)
  PROVE  TypeInv'
<1> DEFINE h == hand[p][a]
           new == Ended(h, "reply")
<1>1. /\ hand' = [hand EXCEPT ![p][a] = new]
      /\ UNCHANGED <<cli, put, get>>
      /\ srv' = srv \/ srv' = IF InBuffer(p, h.got) THEN Wrote(srv, h.ino, h.got, p) ELSE srv
  BY DEF Flush
<1>2. /\ h \in HandState /\ h.got \in Nat
      /\ (h.got > 0 => h.ino \in 1 .. Len(srv.nodes) /\ h.suf \in Suffixes)
  BY HandlerHas
<1>3. Counted'
  <2>1. CASE Fault("tail") /\ UNCHANGED history BY <2>1, FaultCounts DEF TypeInv
  <2>2. CASE UNCHANGED <<noFault, replaced>> /\ applied' \subseteq applied \cup {p}
    BY <2>2 DEF TypeInv, Counted, noFault
  <2> QED BY <2>1, <2>2 DEF Flush
<1> HIDE DEF h
<1>4. DiskOK(srv') /\ Grows(srv, srv')
  <2>1. CASE srv' = srv BY <2>1, GrowsSame DEF TypeInv
  <2>2. CASE InBuffer(p, h.got) /\ srv' = Wrote(srv, h.ino, h.got, p)
    <3>1. p \in Versions /\ Length[p] > 0 /\ h.got = Length[p]
      BY <2>2, VersionsAssumption DEF InBuffer
    <3>2. h.got \in Nat \ {0} /\ h.ino \in 1 .. Len(srv.nodes) /\ p \in Chunks
      BY <1>2, <3>1, ChunksOfPuts
    <3> QED BY <2>2, <3>2, WroteFacts, WroteGrows DEF TypeInv
  <2> QED BY <1>1, <2>1, <2>2
<1>5. new \in HandState /\ HandlerFits(new, srv') BY <1>2, EndedFits DEF Running
<1> HIDE DEF new
<1> QED BY <1>1, <1>3, <1>4, <1>5, ServerStepFits

LEMMA RefuseFits ==
  ASSUME TypeInv, NEW p \in Puts, NEW a \in Attempts, Refuse(p, a)
  PROVE  TypeInv'
<1> DEFINE h == hand[p][a]
           new == Ended(h, "refused")
<1>1. /\ hand' = [hand EXCEPT ![p][a] = new]
      /\ srv' = IF h.got > 0 THEN Removed(srv, h.suf) ELSE srv
      /\ Fault("disk") /\ UNCHANGED <<cli, put, get, history>>
  BY DEF Refuse
<1>2. /\ h \in HandState
      /\ (h.got > 0 => h.ino \in 1 .. Len(srv.nodes) /\ h.suf \in Suffixes)
  BY HandlerHas
<1>3. Counted' BY <1>1, FaultCounts DEF TypeInv
<1> HIDE DEF h
<1>4. DiskOK(srv') /\ Grows(srv, srv')
  BY <1>1, <1>2, RemovedFacts, PlacedGrows, GrowsSame DEF TypeInv
<1>5. new \in HandState /\ HandlerFits(new, srv') BY <1>2, EndedFits DEF Running
<1> HIDE DEF new
<1> QED BY <1>1, <1>3, <1>4, <1>5, ServerStepFits

\* Only the disk of the getters' client and one call change.
LEMMA ClientStepFits ==
  ASSUME TypeInv, NEW g \in Gets, NEW r \in GetState, GetFits(r, srv, cli'),
         get' = [get EXCEPT ![g] = r], DiskOK(cli'), Grows(cli, cli'),
         UNCHANGED <<srv, put, hand>>, Counted'
  PROVE  TypeInv'
<1>1. AllGets(get', srv', cli')
  <2>1. Grows(srv, srv) BY GrowsSame DEF TypeInv
  <2>2. AllGets(get, srv, cli') BY <2>1, GetsStay DEF TypeInv
  <2> QED BY <2>2, GetSet
<1> QED BY <1>1 DEF TypeInv

LEMMA GetHas ==
  ASSUME TypeInv, NEW g \in Gets
  PROVE  LET r == get[g] IN
         /\ r \in GetState /\ GetFits(r, srv, cli) /\ r.got \in Nat /\ r.ino \in Nat
         /\ r.left \in 0 .. GetAttempts /\ r.size \in Nat
BY DEF TypeInv, AllGets, GetState

LEMMA OpenFits == ASSUME TypeInv, NEW g \in Gets, Open(g) PROVE TypeInv'
<1> DEFINE r == get[g]
           new == [r EXCEPT !.pc = "stream", !.src = srv.file, !.got = 0,
                            !.size = Len(srv.nodes[srv.file])]
<1>1. /\ r.pc \in {"idle", "again"}
      /\ get' = [get EXCEPT ![g] = IF srv.file = NoNode THEN EndedGet(r, "false") ELSE new]
      /\ UNCHANGED <<srv, cli, put, hand, noFault, history>>
  BY DEF Open
<1>2. r \in GetState /\ GetFits(r, srv, cli) BY GetHas
<1> HIDE DEF r
<1>3. ASSUME srv.file # NoNode PROVE new \in GetState /\ GetFits(new, srv, cli)
  <2>1. srv.file \in 1 .. Len(srv.nodes) /\ (\A s \in Suffixes : srv.temp[s] # srv.file)
        /\ srv.nodes \in Seq(Seq(Chunks))
    <3>1. srv.file \in Nat /\ Len(srv.nodes) \in Nat /\ srv.nodes \in Seq(Seq(Chunks))
      BY DiskType DEF TypeInv
    <3>2. srv.file \in 0 .. Len(srv.nodes) /\ \A s \in Suffixes : srv.temp[s] # srv.file
      BY <1>3 DEF TypeInv, DiskOK
    <3> QED BY <1>3, <3>1, <3>2 DEF NoNode
  <2>2. srv.nodes[srv.file] \in Seq(Chunks) BY <2>1
  <2> DEFINE n == Len(srv.nodes[srv.file])
  <2>3. n \in Nat /\ srv.file \in Nat BY <2>1, <2>2
  <2> HIDE DEF n
  <2>4. new = [r EXCEPT !.pc = "stream", !.src = srv.file, !.got = 0, !.size = n] BY DEF n
  <2>5. new \in GetState BY <1>2, <2>3, <2>4 DEF GetState
  <2>6. r.left >= 1 BY <1>1, <1>2 DEF GetFits
  <2>7. new.pc = "stream" /\ new.left = r.left /\ new.src = srv.file /\ new.got = 0 /\ new.size = n
    BY <1>2, <2>4 DEF GetState
  <2> HIDE DEF new
  <2>8. GetFits(new, srv, cli) BY <2>1, <2>3, <2>6, <2>7 DEF GetFits, n
  <2> QED BY <2>5, <2>8
<1>4. EndedGet(r, "false") \in GetState /\ GetFits(EndedGet(r, "false"), srv, cli)
  BY <1>2, EndedGetOK
<1> HIDE DEF new
<1>5. Counted' BY <1>1 DEF TypeInv, Counted, noFault
<1>6. DiskOK(cli) /\ Grows(cli, cli) BY GrowsSame DEF TypeInv
<1>7. CASE srv.file = NoNode
  <2>1. get' = [get EXCEPT ![g] = EndedGet(r, "false")] BY <1>1, <1>7
  <2> QED BY <1>1, <1>4, <1>5, <1>6, <2>1, ClientStepFits
<1>8. CASE srv.file # NoNode
  <2>1. get' = [get EXCEPT ![g] = new] BY <1>1, <1>8
  <2> QED BY <1>1, <1>3, <1>5, <1>6, <1>8, <2>1, ClientStepFits
<1> QED BY <1>7, <1>8

\* The chunk that is read is one of the mapped data.
LEMMA ChunkRead ==
  ASSUME TypeInv, NEW g \in Gets, get[g].pc = "stream", get[g].got < Messages(get[g].size)
  PROVE  LET r == get[g]
             k == r.got + 1
             v == IF r.size = 0 THEN NoChunk ELSE srv.nodes[r.src][k]
         IN /\ v \in Chunks \cup {NoChunk}
            /\ r.size # 0 => k \in 1 .. r.size /\ k \in 1 .. Len(srv.nodes[r.src])
<1> DEFINE r == get[g]
           k == r.got + 1
           data == srv.nodes[r.src]
<1>1. GetFits(r, srv, cli) /\ r.got \in Nat /\ r.size \in Nat BY GetHas
<1>2. r.src \in 1 .. Len(srv.nodes) /\ r.size <= Len(data) BY <1>1 DEF GetFits
<1>3. data \in Seq(Chunks)
  <2>1. srv.nodes \in Seq(Seq(Chunks)) BY DiskType DEF TypeInv
  <2> QED BY <1>2, <2>1
<1>4. r.size # 0 => k \in 1 .. r.size BY <1>1 DEF Messages
<1> HIDE DEF r, data
<1>5. r.size # 0 => k \in 1 .. Len(data)
  <2>1. Len(data) \in Nat BY <1>3
  <2> QED BY <1>1, <1>2, <1>4, <2>1
<1> QED BY <1>3, <1>4, <1>5 DEF r, data

LEMMA ChunkFits ==
  ASSUME TypeInv, NEW g \in Gets, NEW s \in Suffixes, Chunk(g, s)
  PROVE  TypeInv'
<1> DEFINE r == get[g]
           k == r.got + 1
           v == IF r.size = 0 THEN NoChunk ELSE srv.nodes[r.src][k]
           node == NodeOf(cli, s, r.ino, k)
           new == [r EXCEPT !.got = k, !.suf = s, !.ino = node, !.last = v]
<1>1. /\ cli' = Received(cli, s, r.ino, k, v)
      /\ get' = [get EXCEPT ![g] = new]
      /\ UNCHANGED <<srv, put, hand, noFault, history>>
      /\ r.pc = "stream"
  BY DEF Chunk
<1>2. /\ r \in GetState /\ GetFits(r, srv, cli) /\ r.ino \in Nat /\ k \in Nat \ {0}
      /\ (k # 1 => r.ino \in 1 .. Len(cli.nodes))
  BY GetHas DEF GetFits
<1>3. v \in Chunks \cup {NoChunk} BY ChunkRead DEF Chunk
<1> HIDE DEF r, k, v
<1>4. Reception(cli, cli', node, s, r.ino, k, v) BY <1>1, <1>2, <1>3, ReceivedFacts DEF TypeInv
<1>5. Grows(cli, cli') BY <1>1, <1>2, <1>3, ReceivedGrows DEF TypeInv
<1> HIDE DEF node
<1>6. node \in 1 .. Len(cli'.nodes) /\ DiskOK(cli') BY <1>4 DEF Reception
<1>7. node \in Nat BY <1>6, DiskType
<1>8. new \in GetState /\ GetFits(new, srv, cli')
  <2>1. new \in GetState BY <1>2, <1>3, <1>7 DEF GetState
  <2>2. /\ new.pc = "stream" /\ new.left = r.left /\ new.src = r.src /\ new.size = r.size
        /\ new.got = k /\ new.suf = s /\ new.ino = node /\ new.last = v
    BY <1>1, <1>2 DEF GetState
  <2> HIDE DEF new
  <2>3. GetFits(new, srv, cli') BY <1>1, <1>2, <1>6, <2>2 DEF GetFits
  <2> QED BY <2>1, <2>3
<1> HIDE DEF new
<1>9. Counted' BY <1>1 DEF TypeInv, Counted, noFault
<1> QED BY <1>1, <1>5, <1>6, <1>8, <1>9, ClientStepFits

LEMMA InstallFits == ASSUME TypeInv, NEW g \in Gets, Install(g) PROVE TypeInv'
<1> DEFINE r == get[g]
           new == [r EXCEPT !.pc = "flush"]
<1>1. /\ r.pc = "stream" /\ r.got = Messages(r.size)
      /\ cli' = Placed(cli, r.suf)
      /\ get' = [get EXCEPT ![g].pc = "flush"]
      /\ UNCHANGED <<srv, put, hand, noFault, history>>
  BY DEF Install
<1>2. r \in GetState /\ GetFits(r, srv, cli) /\ r.got \in Nat /\ r.size \in Nat BY GetHas
<1>3. get' = [get EXCEPT ![g] = new] BY <1>1 DEF TypeInv, AllGets
<1> HIDE DEF r
<1>4. r.got > 0 BY <1>1, <1>2 DEF Messages
<1>5. r.suf \in Suffixes /\ r.ino \in 1 .. Len(cli.nodes) BY <1>2, <1>4 DEF GetFits
<1>6. DiskOK(cli') /\ Grows(cli, cli') /\ Len(cli'.nodes) = Len(cli.nodes)
  BY <1>1, <1>5, PlacedFacts, PlacedGrows DEF TypeInv
<1>7. new \in GetState /\ new.pc = "flush" /\ new.got = r.got /\ new.suf = r.suf
      /\ new.ino = r.ino
  BY <1>2 DEF GetState
<1> HIDE DEF new
<1>8. GetFits(new, srv, cli') BY <1>4, <1>5, <1>6, <1>7 DEF GetFits
<1>9. Counted' BY <1>1 DEF TypeInv, Counted, noFault
<1> QED BY <1>1, <1>3, <1>6, <1>7, <1>8, <1>9, ClientStepFits

\* What is in the buffer of the ofstream when a get flushes.
LEMMA FlushedByGet ==
  ASSUME TypeInv, NEW g \in Gets, get[g].pc = "flush"
  PROVE  LET r == get[g] IN
         /\ r.got \in Nat \ {0} /\ r.ino \in 1 .. Len(cli.nodes)
         /\ InBuffer(r.last, r.got) => r.last \in Chunks
<1>1. GetFits(get[g], srv, cli) /\ get[g].got \in Nat BY GetHas
<1>2. get[g].last \in Chunks \cup {NoChunk} BY DEF TypeInv, AllGets, GetState
<1>3. InBuffer(get[g].last, get[g].got) => get[g].last \in Versions
  BY VersionsAssumption DEF InBuffer
<1> QED BY <1>1, <1>2, <1>3, ChunksOfPuts DEF GetFits

LEMMA FlushGetFits == ASSUME TypeInv, NEW g \in Gets, FlushGet(g) PROVE TypeInv'
<1> DEFINE r == get[g]
           new == EndedGet(r, "true")
<1>1. /\ r.pc = "flush"
      /\ cli' = IF InBuffer(r.last, r.got) THEN Wrote(cli, r.ino, r.got, r.last) ELSE cli
      /\ get' = [get EXCEPT ![g] = new]
      /\ UNCHANGED <<srv, put, hand, noFault, history>>
  BY DEF FlushGet
<1>2. r \in GetState /\ new \in GetState /\ GetFits(new, srv, cli') BY GetHas, EndedGetOK
<1>3. /\ r.got \in Nat \ {0} /\ r.ino \in 1 .. Len(cli.nodes)
      /\ InBuffer(r.last, r.got) => r.last \in Chunks
  BY <1>1, FlushedByGet
<1> HIDE DEF r, new
<1>4. DiskOK(cli') /\ Grows(cli, cli')
  BY <1>1, <1>3, WroteFacts, WroteGrows, GrowsSame DEF TypeInv
<1>5. Counted' BY <1>1 DEF TypeInv, Counted, noFault
<1> QED BY <1>1, <1>2, <1>4, <1>5, ClientStepFits

LEMMA CrashFits == ASSUME TypeInv, Crash PROVE TypeInv'
<1>1. AllHandlers(hand', srv)
  <2> DEFINE new(p, a) == IF hand[p][a].pc \in Running
                          THEN Ended(Lose(hand[p][a]), "gone") ELSE hand[p][a]
  <2>1. hand' = [p \in Puts |-> [a \in Attempts |-> new(p, a)]] BY DEF Crash
  <2>2. ASSUME NEW p \in Puts, NEW a \in Attempts
        PROVE  new(p, a) \in HandState /\ HandlerFits(new(p, a), srv)
    <3>1. hand[p][a] \in HandState /\ HandlerFits(hand[p][a], srv) BY DEF TypeInv, AllHandlers
    <3>2. Ended(Lose(hand[p][a]), "gone") \in HandState
          /\ HandlerFits(Ended(Lose(hand[p][a]), "gone"), srv)
      BY <3>1, EndedOK DEF HandlerFits
    <3> QED BY <3>1, <3>2
  <2> HIDE DEF new
  <2> QED BY <2>1, <2>2 DEF AllHandlers
<1>2. AllGets(get', srv, cli)
  <2> DEFINE new(g) == IF get[g].pc = "stream" THEN EndedGet(get[g], "false") ELSE get[g]
  <2>1. get' = [g \in Gets |-> new(g)] BY DEF Crash
  <2>2. ASSUME NEW g \in Gets PROVE new(g) \in GetState /\ GetFits(new(g), srv, cli)
    BY EndedGetOK DEF TypeInv, AllGets
  <2> HIDE DEF new
  <2> QED BY <2>1, <2>2 DEF AllGets
<1>3. Counted' BY FaultCounts DEF Crash, TypeInv
<1> QED BY <1>1, <1>2, <1>3 DEF Crash, TypeInv

LEMMA LoseFits ==
  ASSUME TypeInv, NEW p \in Puts, NEW a \in Attempts,
         hand' = [hand EXCEPT ![p][a] = Lose(hand[p][a])]
  PROVE  AllHandlers(hand', srv)
<1>1. hand[p][a] \in HandState /\ HandlerFits(hand[p][a], srv) BY DEF TypeInv, AllHandlers
<1>2. Lose(hand[p][a]) \in HandState /\ HandlerFits(Lose(hand[p][a]), srv)
  BY <1>1, EndedOK DEF HandlerFits
<1> QED BY <1>2, HandlerSet DEF TypeInv

LEMMA BreakPutFits == ASSUME TypeInv, NEW p \in Puts, BreakPut(p) PROVE TypeInv'
<1>1. Current(p) \in Attempts BY CurrentIsAttempt DEF BreakPut
<1>2. AllHandlers(hand', srv) BY <1>1, LoseFits DEF BreakPut
<1>3. Counted' BY FaultCounts DEF BreakPut, TypeInv
<1> QED BY <1>2, <1>3 DEF BreakPut, TypeInv

LEMMA DieFits == ASSUME TypeInv, NEW p \in Puts, Die(p) PROVE TypeInv'
<1>1. Current(p) \in Attempts BY CurrentIsAttempt DEF Die
<1>2. AllHandlers(hand', srv) BY <1>1, LoseFits DEF Die
<1>3. AllPuts(put')
  <2>1. put[p] \in PutState /\ put \in [Puts -> PutState] BY DEF TypeInv, AllPuts
  <2>2. [put[p] EXCEPT !.pc = "dead"] \in PutState /\ PutFits([put[p] EXCEPT !.pc = "dead"])
    BY <2>1 DEF PutState, PutFits
  <2>3. put' = [put EXCEPT ![p] = [put[p] EXCEPT !.pc = "dead"]] BY <2>1 DEF Die
  <2> QED BY <2>2, <2>3, PutsSet DEF TypeInv
<1>4. Counted' BY FaultCounts DEF Die, TypeInv
<1> QED BY <1>2, <1>3, <1>4 DEF Die, TypeInv

LEMMA BreakGetFits == ASSUME TypeInv, NEW g \in Gets, BreakGet(g) PROVE TypeInv'
<1>1. PICK deadline \in BOOLEAN :
        LET pc == IF deadline /\ get[g].left > 1 THEN "again" ELSE "false" IN
        get' = [get EXCEPT ![g] = [EndedGet(get[g], pc) EXCEPT !.left = get[g].left - 1]]
  BY DEF BreakGet
<1> DEFINE r == get[g]
           pc == IF deadline /\ r.left > 1 THEN "again" ELSE "false"
           ended == EndedGet(r, pc)
           new == [ended EXCEPT !.left = r.left - 1]
<1>2. r.pc = "stream" /\ r \in GetState /\ r.left \in 0 .. GetAttempts /\ GetFits(r, srv, cli)
  BY GetHas DEF BreakGet
<1>3. get' = [get EXCEPT ![g] = new] BY <1>1
<1>4. pc \in {"again", "false"} /\ (pc = "again" => r.left > 1) OBVIOUS
<1> HIDE DEF r, pc
<1>5. r.left >= 1 BY <1>2 DEF GetFits
<1>6. r.left - 1 \in 0 .. GetAttempts BY <1>2, <1>5, AttemptsAssumption
<1>7. ended \in GetState
      /\ ended = [pc |-> pc, left |-> r.left, src |-> 0, size |-> 0, got |-> 0,
                  suf |-> NoSuffix, ino |-> 0, last |-> NoChunk]
  BY <1>2, <1>4, EndedGetOK
<1>8. new.pc = pc /\ new.left = r.left - 1 /\ new.got = 0 BY <1>7
<1> HIDE DEF ended
<1>9. new \in GetState BY <1>6, <1>7 DEF GetState
<1> HIDE DEF new
<1>10. GetFits(new, srv, cli) BY <1>2, <1>4, <1>8, AttemptsAssumption DEF GetFits
<1>11. Counted' /\ UNCHANGED <<srv, cli, put, hand>> BY FaultCounts DEF BreakGet, TypeInv
<1> QED BY <1>3, <1>9, <1>10, <1>11, GrowsSame, ClientStepFits DEF TypeInv

LEMMA NextFits == TypeInv /\ [Next]_vars => TypeInv'
<1> SUFFICES ASSUME TypeInv, [Next]_vars PROVE TypeInv' OBVIOUS
<1>1. CASE UNCHANGED vars
  BY <1>1 DEF vars, TypeInv, Counted
<1>2. ASSUME NEW p \in Puts, NEW a \in Attempts, Serve(p, a) \/ Refuse(p, a) \/ RenameFails(p, a)
      PROVE  TypeInv'
  BY <1>2, ReceiveFits, RenameFits, RenameFailsFits, FlushFits, RefuseFits DEF Serve
<1>3. ASSUME NEW p \in Puts, Begin(p) \/ AttemptEnds(p) \/ BreakPut(p) \/ Die(p) PROVE TypeInv'
  BY <1>3, BeginFits, AttemptEndsFits, BreakPutFits, DieFits
<1>4. ASSUME NEW g \in Gets, Open(g) \/ GetStep(g) \/ BreakGet(g) PROVE TypeInv'
  BY <1>4, OpenFits, ChunkFits, InstallFits, FlushGetFits, BreakGetFits DEF GetStep
<1> QED BY <1>1, <1>2, <1>3, <1>4, CrashFits DEF Next

\* Disks, calls and handlers keep their types, whatever breaks: every name leads to
\* an inode of its own, and a position that is written or read exists
\* (afsfuse_putFile, rpc_putFile, afsfuse_getFile, rpc_getFile).
THEOREM TypeCorrect == Spec => []TypeOK
<1>1. Spec => []TypeInv BY InitFits, NextFits, PTL DEF Spec
<1> QED BY <1>1, InvIsTyped, PTL

-----------------------------------------------------------------------------
(* One version in a file.  Whoever writes a file has it to itself.         *)

\* How many chunks are in the file when chunk k of version v has arrived.
Written(v, k) == IF v = NoChunk THEN 0 ELSE IF InBuffer(v, k) THEN k - 1 ELSE k

\* A writer that has received chunk k of version v: what its inode holds, and whether
\* that still has its temporary name.
Holds(disk, s, i, named, v, k) ==
  /\ i \in 1 .. Len(disk.nodes) /\ k \in Nat \ {0}
  /\ Len(disk.nodes[i]) = Written(v, k)
  /\ \A j \in 1 .. Written(v, k) : disk.nodes[i][j] = v
  /\ IF v = NoChunk THEN k = 1 ELSE v \in Versions /\ k <= Length[v]
  /\ IF named THEN s \in Suffixes /\ disk.temp[s] = i ELSE \A t \in Suffixes : disk.temp[t] # i

Beginnings(disk) == \A i \in 1 .. Len(disk.nodes) : Beginning(disk.nodes[i])

LEMMA RunIsBeginning ==
  ASSUME NEW data \in Seq(Chunks), NEW v \in Versions \cup {NoChunk},
         v = NoChunk => Len(data) = 0, v # NoChunk => Len(data) <= Length[v],
         \A j \in 1 .. Len(data) : data[j] = v
  PROVE  Beginning(data)
<1>1. CASE v # NoChunk
  <2>1. v \in Versions BY <1>1
  <2> QED BY <1>1, <2>1 DEF Beginning
<1>2. CASE v = NoChunk
  <2>1. Initial \in Versions /\ 0 <= Length[Initial] BY VersionsAssumption DEF Versions
  <2>2. Len(data) = 0 BY <1>2
  <2>3. \A j \in DOMAIN data : data[j] = Initial BY <2>2
  <2> QED BY <2>1, <2>2, <2>3 DEF Beginning
<1> QED BY <1>1, <1>2

LEMMA WriteAtEnd ==
  ASSUME NEW data \in Seq(Chunks), NEW k \in Nat \ {0}, Len(data) = k - 1, NEW v \in Chunks
  PROVE  LET new == WriteAt(data, k, v) IN
         /\ new \in Seq(Chunks) /\ Len(new) = k /\ new[k] = v
         /\ \A j \in 1 .. k - 1 : new[j] = data[j]
<1> DEFINE new == WriteAt(data, k, v)
<1>1. new \in Seq(Chunks) /\ Len(new) = k BY WriteAtType
<1>2. ASSUME NEW j \in 1 .. k PROVE new[j] = IF j = k THEN v ELSE data[j]
  <2>1. new = [i \in 1 .. k |-> IF i = k THEN v ELSE IF i <= k - 1 THEN data[i] ELSE Hole]
    BY DEF WriteAt
  <2> HIDE DEF new
  <2>2. j = k \/ j <= k - 1 OBVIOUS
  <2> QED BY <2>1, <2>2
<1> HIDE DEF new
<1> QED BY <1>1, <1>2 DEF new

\* The buffer is used for the last chunk only.
LEMMA InBufferIsLast ==
  ASSUME NEW v \in Versions, NEW k \in Nat \ {0}, k < Length[v]
  PROVE  ~InBuffer(v, k) /\ Written(v, k) = k
BY ChunksOfPuts, VersionsAssumption DEF InBuffer, Written

\* The writer that receives a chunk.
LEMMA ReceiverHolds ==
  ASSUME NEW disk, DiskOK(disk), Beginnings(disk),
         NEW s \in Suffixes, NEW i \in Nat, NEW k \in Nat \ {0}, NEW v \in Versions \cup {NoChunk},
         IF v = NoChunk THEN k = 1 ELSE k <= Length[v],
         k # 1 => Holds(disk, s, i, TRUE, v, k - 1),
         NEW new, NEW node, Reception(disk, new, node, s, i, k, v)
  PROVE  Holds(new, s, node, TRUE, v, k) /\ Beginnings(new)
<1> DEFINE old == IF k = 1 THEN <<>> ELSE disk.nodes[i]
<1>1. disk.nodes \in Seq(Seq(Chunks)) /\ DiskOK(new) /\ new.nodes \in Seq(Seq(Chunks))
      /\ Len(disk.nodes) \in Nat /\ Len(new.nodes) \in Nat
  BY DiskType DEF Reception
<1>2. v # NoChunk => v \in Versions /\ v \in Chunks /\ Length[v] \in Nat
  BY ChunksOfPuts, VersionsAssumption
<1>3. old \in Seq(Chunks) /\ Len(old) = k - 1 /\ \A j \in 1 .. k - 1 : old[j] = v
  <2>1. CASE k = 1 BY <2>1
  <2>2. CASE k # 1
    <3>1. v # NoChunk /\ i \in 1 .. Len(disk.nodes) /\ k - 1 \in Nat \ {0}
      BY <2>2 DEF Holds
    <3>2. Written(v, k - 1) = k - 1
      <4>1. k - 1 < Length[v] BY <1>2, <3>1
      <4> QED BY <1>2, <3>1, <4>1, InBufferIsLast
    <3>3. disk.nodes[i] \in Seq(Chunks) BY <1>1, <3>1
    <3> QED BY <2>2, <3>2, <3>3 DEF Holds
  <2> QED BY <2>1, <2>2
<1>4. /\ new.nodes[node] = IF v = NoChunk \/ InBuffer(v, k) THEN old ELSE WriteAt(old, k, v)
      /\ node \in 1 .. Len(new.nodes) /\ new.temp[s] = node
  <2>1. k # 1 => disk.temp[s] = i BY DEF Holds
  <2> QED BY <2>1 DEF Reception
<1> HIDE DEF old
<1>5. /\ new.nodes[node] \in Seq(Chunks) /\ Len(new.nodes[node]) = Written(v, k)
      /\ \A j \in 1 .. Written(v, k) : new.nodes[node][j] = v
      /\ v = NoChunk => Len(new.nodes[node]) = 0
      /\ v # NoChunk => Len(new.nodes[node]) <= Length[v]
  <2>1. CASE v = NoChunk BY <1>3, <1>4, <2>1 DEF Written
  <2>2. CASE v # NoChunk /\ InBuffer(v, k) BY <1>2, <1>3, <1>4, <2>2 DEF Written
  <2>3. CASE v # NoChunk /\ ~InBuffer(v, k)
    <3>1. new.nodes[node] = WriteAt(old, k, v) /\ Written(v, k) = k BY <1>4, <2>3 DEF Written
    <3>2. new.nodes[node] \in Seq(Chunks) /\ Len(new.nodes[node]) = k
          /\ new.nodes[node][k] = v /\ \A j \in 1 .. k - 1 : new.nodes[node][j] = old[j]
      <4>1. old \in Seq(Chunks) /\ Len(old) = k - 1 /\ k \in Nat \ {0} /\ v \in Chunks
        BY <1>2, <1>3, <2>3
      <4>2. new.nodes[node] = WriteAt(old, k, v) BY <3>1
      <4> QED BY ONLY <4>1, <4>2, WriteAtEnd
    <3>3. \A j \in 1 .. k : j = k \/ j \in 1 .. k - 1 OBVIOUS
    <3>4. \A j \in 1 .. k : new.nodes[node][j] = v BY <1>3, <3>2, <3>3
    <3>5. k <= Length[v] BY <2>3 DEF Holds
    <3> QED BY <2>3, <3>1, <3>2, <3>4, <3>5
  <2> QED BY <2>1, <2>2, <2>3
<1>6. Holds(new, s, node, TRUE, v, k) BY <1>2, <1>4, <1>5 DEF Holds
<1>7. Beginnings(new)
  <2> SUFFICES ASSUME NEW j \in 1 .. Len(new.nodes) PROVE Beginning(new.nodes[j])
    BY DEF Beginnings
  <2>1. CASE j = node BY <1>5, <2>1, RunIsBeginning
  <2>2. CASE j # node
    BY <2>2 DEF Reception, Beginnings
  <2> QED BY <2>1, <2>2
<1> QED BY <1>6, <1>7

\* The other writers.
LEMMA OthersHold ==
  ASSUME NEW disk, DiskOK(disk), NEW s \in Suffixes, NEW i \in Nat, NEW k \in Nat \ {0}, NEW v,
         NEW new, NEW node, Reception(disk, new, node, s, i, k, v),
         NEW t, NEW j, NEW named \in BOOLEAN, NEW w, NEW l, Holds(disk, t, j, named, w, l),
         named => t # s, k # 1 => j # i
  PROVE  Holds(new, t, j, named, w, l) /\ j # node
<1>1. Len(disk.nodes) \in Nat /\ Len(new.nodes) \in Nat /\ Len(new.nodes) >= Len(disk.nodes)
      /\ DiskOK(new)
  BY DiskType DEF Reception
<1>2. j \in 1 .. Len(disk.nodes) /\ j \in 1 .. Len(new.nodes) BY <1>1 DEF Holds
<1>3. j # node
  <2>1. CASE k # 1 BY <2>1 DEF Reception
  <2>2. CASE k = 1
    <3>1. SUFFICES ASSUME j = disk.temp[s] PROVE FALSE BY <1>2, <2>2 DEF Reception
    <3>2. CASE named
      <4>1. t \in Suffixes \ {s} /\ disk.temp[t] = j BY <3>2 DEF Holds
      <4>2. disk.temp[t] # NoNode BY <1>1, <1>2, <4>1 DEF NoNode
      <4> QED BY <3>1, <4>1, <4>2 DEF DiskOK
    <3>3. CASE ~named BY <3>1, <3>3 DEF Holds
    <3> QED BY <3>2, <3>3
  <2> QED BY <2>1, <2>2
<1>4. new.nodes[j] = disk.nodes[j] BY <1>2, <1>3 DEF Reception
<1>5. IF named THEN t \in Suffixes /\ new.temp[t] = j ELSE \A u \in Suffixes : new.temp[u] # j
  <2>1. CASE named BY <2>1 DEF Holds, Reception
  <2>2. CASE ~named
    <3> SUFFICES ASSUME NEW u \in Suffixes PROVE new.temp[u] # j BY <2>2
    <3>1. disk.temp[u] # j BY <2>2 DEF Holds
    <3>2. CASE u # s BY <3>1, <3>2 DEF Reception
    <3>3. CASE u = s BY <1>3, <3>1, <3>3 DEF Reception
    <3> QED BY <3>2, <3>3
  <2> QED BY <2>1, <2>2
<1> QED BY <1>2, <1>3, <1>4, <1>5 DEF Holds

\* A name goes: that of the writer that renames it, or of another.
LEMMA UnnamedHolds ==
  ASSUME NEW disk, DiskOK(disk), NEW s \in Suffixes,
         NEW new, new.nodes = disk.nodes, new.temp[s] = NoNode,
         \A u \in Suffixes \ {s} : new.temp[u] = disk.temp[u]
  PROVE  /\ \A i, v, k : Holds(disk, s, i, TRUE, v, k) => Holds(new, s, i, FALSE, v, k)
         /\ \A t, i, v, k : t # s /\ Holds(disk, t, i, TRUE, v, k) => Holds(new, t, i, TRUE, v, k)
         /\ \A t, i, v, k : Holds(disk, t, i, FALSE, v, k) => Holds(new, t, i, FALSE, v, k)
         /\ Beginnings(disk) => Beginnings(new)
<1>1. Len(disk.nodes) \in Nat BY DiskType
<1>2. ASSUME NEW i, NEW v, NEW k, Holds(disk, s, i, TRUE, v, k)
      PROVE  Holds(new, s, i, FALSE, v, k)
  <2>1. disk.temp[s] = i /\ i # NoNode /\ i \in 1 .. Len(disk.nodes) BY <1>1, <1>2 DEF Holds, NoNode
  <2>2. \A u \in Suffixes : new.temp[u] # i
    <3> SUFFICES ASSUME NEW u \in Suffixes PROVE new.temp[u] # i OBVIOUS
    <3>1. CASE u = s BY <2>1, <3>1
    <3>2. CASE u # s BY <2>1, <3>2 DEF DiskOK
    <3> QED BY <3>1, <3>2
  <2> QED BY <1>2, <2>2 DEF Holds
<1>3. ASSUME NEW t, NEW i, NEW v, NEW k, t # s, Holds(disk, t, i, TRUE, v, k)
      PROVE  Holds(new, t, i, TRUE, v, k)
  BY <1>3 DEF Holds
<1>4. ASSUME NEW t, NEW i, NEW v, NEW k, Holds(disk, t, i, FALSE, v, k)
      PROVE  Holds(new, t, i, FALSE, v, k)
  <2>1. i # NoNode BY <1>1, <1>4 DEF Holds, NoNode
  <2>2. \A u \in Suffixes : new.temp[u] # i
    <3> SUFFICES ASSUME NEW u \in Suffixes PROVE new.temp[u] # i OBVIOUS
    <3>1. CASE u = s BY <2>1, <3>1
    <3>2. CASE u # s BY <1>4, <3>2 DEF Holds
    <3> QED BY <3>1, <3>2
  <2> QED BY <1>4, <2>2 DEF Holds
<1> QED BY <1>2, <1>3, <1>4 DEF Beginnings

\* What a get has mapped keeps its first chunk.
FirstKept(d, e) ==
  \A i \in 1 .. Len(d.nodes) :
    (\A s \in Suffixes : d.temp[s] # i) /\ Len(d.nodes[i]) >= 1 => e.nodes[i][1] = d.nodes[i][1]

\* The rest in the buffer of a writer is written; the other writers have other inodes.
LEMMA FlushHolds ==
  ASSUME NEW disk, DiskOK(disk), Beginnings(disk), NEW s, NEW i, NEW named \in BOOLEAN,
         NEW v, NEW k, Holds(disk, s, i, named, v, k), InBuffer(v, k)
  PROVE  LET new == Wrote(disk, i, k, v) IN
         /\ Beginnings(new)
         /\ \A t, j, w, l : \A nm \in BOOLEAN :
              j # i /\ Holds(disk, t, j, nm, w, l) => Holds(new, t, j, nm, w, l)
         /\ FirstKept(disk, new)
<1> DEFINE new == Wrote(disk, i, k, v)
<1>1. /\ i \in 1 .. Len(disk.nodes) /\ k \in Nat \ {0} /\ disk.nodes \in Seq(Seq(Chunks))
      /\ v \in Versions /\ v # NoChunk /\ k = Length[v] /\ v \in Chunks
  BY DiskType, ChunksOfPuts, VersionsAssumption DEF Holds, InBuffer
<1>2. /\ Len(disk.nodes[i]) = k - 1 /\ disk.nodes[i] \in Seq(Chunks)
      /\ \A j \in 1 .. k - 1 : disk.nodes[i][j] = v
  BY <1>1 DEF Holds, Written
<1>3. /\ new.temp = disk.temp /\ Len(new.nodes) = Len(disk.nodes)
      /\ new.nodes[i] = WriteAt(disk.nodes[i], k, v)
      /\ \A j \in 1 .. Len(disk.nodes) \ {i} : new.nodes[j] = disk.nodes[j]
  <2>1. i \in 1 .. Len(disk.nodes) /\ k \in Nat \ {0} /\ v \in Chunks BY <1>1
  <2>2. LET n == new IN
        /\ DiskOK(n)
        /\ n.file = disk.file /\ n.temp = disk.temp /\ Len(n.nodes) = Len(disk.nodes)
        /\ n.nodes[i] = WriteAt(disk.nodes[i], k, v)
        /\ \A j \in 1 .. Len(disk.nodes) \ {i} : n.nodes[j] = disk.nodes[j]
    BY <2>1, WroteFacts
  <2> QED BY <2>2
<1> HIDE DEF new
<1>4. /\ new.nodes[i] \in Seq(Chunks) /\ Len(new.nodes[i]) = k
      /\ new.nodes[i][k] = v /\ \A j \in 1 .. k - 1 : new.nodes[i][j] = disk.nodes[i][j]
  <2> DEFINE old == disk.nodes[i]
  <2>1. old \in Seq(Chunks) /\ Len(old) = k - 1 /\ k \in Nat \ {0} /\ v \in Chunks
    BY <1>1, <1>2
  <2>2. new.nodes[i] = WriteAt(old, k, v) BY <1>3
  <2> HIDE DEF old
  <2>3. /\ new.nodes[i] \in Seq(Chunks) /\ Len(new.nodes[i]) = k
        /\ new.nodes[i][k] = v /\ \A j \in 1 .. k - 1 : new.nodes[i][j] = old[j]
    BY <2>1, <2>2, WriteAtEnd
  <2> QED BY <2>3 DEF old
<1>5. Beginning(new.nodes[i])
  <2>1. \A j \in 1 .. k : j = k \/ j \in 1 .. k - 1 BY <1>1
  <2>2. \A j \in 1 .. k : new.nodes[i][j] = v BY <1>2, <1>4, <2>1
  <2>3. k <= Length[v] BY <1>1
  <2> QED BY <1>1, <1>4, <2>2, <2>3, RunIsBeginning
<1>6. Beginnings(new) BY <1>3, <1>5 DEF Beginnings
<1>7. ASSUME NEW t, NEW j, NEW w, NEW l, NEW nm \in BOOLEAN, j # i, Holds(disk, t, j, nm, w, l)
      PROVE  Holds(new, t, j, nm, w, l)
  <2>1. j \in 1 .. Len(disk.nodes) \ {i} BY <1>7 DEF Holds
  <2>2. new.nodes[j] = disk.nodes[j] /\ j \in 1 .. Len(new.nodes) BY <1>3, <2>1
  <2> QED BY <1>3, <1>7, <2>2 DEF Holds
<1>8. FirstKept(disk, new)
  <2> SUFFICES ASSUME NEW j \in 1 .. Len(disk.nodes), Len(disk.nodes[j]) >= 1
               PROVE  new.nodes[j][1] = disk.nodes[j][1]
    BY DEF FirstKept
  <2>1. CASE j = i
    <3>1. 1 \in 1 .. k - 1 BY <1>1, <1>2, <2>1
    <3> QED BY <1>4, <2>1, <3>1
  <2>2. CASE j # i BY <1>3, <2>2
  <2> QED BY <2>1, <2>2
<1> QED BY <1>6, <1>7, <1>8 DEF new

-----------------------------------------------------------------------------
\* What the chunks of a put are.
SentBy(p) == IF Length[p] = 0 THEN NoChunk ELSE p

\* A handler or a call that has a file open for writing.
Writes(h) == h.pc \in {"receive", "flush", "unplaced"} /\ h.got > 0
WritesHere(r) == r.pc \in {"stream", "flush"} /\ r.got > 0

HandlersWrite(hs, disk) ==
  /\ \A p \in Puts, a \in Attempts :
       LET h == hs[p][a] IN
       Writes(h) => Holds(disk, h.suf, h.ino, HasTemp(h), SentBy(p), h.got)
  /\ \A p, q \in Puts, a, b \in Attempts :
       /\ ~(p = q /\ a = b) /\ Writes(hs[p][a]) /\ Writes(hs[q][b])
       => hs[p][a].ino # hs[q][b].ino

\* The version that a get reads is the one its file has.
Reads(r, disk) ==
  r.pc = "stream" /\ r.got > 0
  => IF r.size = 0 THEN r.last = NoChunk ELSE r.last = disk.nodes[r.src][1]

GetsWrite(gs, d, c) ==
  /\ \A g \in Gets :
       LET r == gs[g] IN
       /\ WritesHere(r) => Holds(c, r.suf, r.ino, r.pc = "stream", r.last, r.got)
       /\ Reads(r, d)
  /\ \A g, f \in Gets :
       g # f /\ WritesHere(gs[g]) /\ WritesHere(gs[f]) => gs[g].ino # gs[f].ino

OneInv ==
  /\ Beginnings(srv) /\ Beginnings(cli)
  /\ HandlersWrite(hand, srv)
  /\ GetsWrite(get, srv, cli)

LEMMA InvIsOneVersion == TypeInv /\ OneInv => OneVersion
<1> SUFFICES ASSUME TypeInv, OneInv PROVE OneVersion OBVIOUS
<1>1. ASSUME NEW disk, DiskOK(disk), Beginnings(disk), NEW i \in Linked(disk)
      PROVE  Beginning(disk.nodes[i])
  <2>1. i \in 0 .. Len(disk.nodes) /\ i # 0 /\ Len(disk.nodes) \in Nat
    BY <1>1, DiskType DEF Linked, DiskOK, NoNode
  <2>2. i \in 1 .. Len(disk.nodes) BY <2>1
  <2> QED BY <1>1, <2>2 DEF Beginnings
<1> QED BY <1>1 DEF OneVersion, TypeInv, OneInv

LEMMA InitOne == Init => OneInv
<1> SUFFICES ASSUME Init PROVE OneInv OBVIOUS
<1>1. Beginning(WholeFile(Initial))
  <2>1. Length[Initial] \in Nat /\ Initial \in Versions BY VersionsAssumption DEF Versions
  <2> DEFINE n == Length[Initial]
             f == [k \in 1 .. n |-> Initial]
  <2>2. n \in Nat /\ f \in [1 .. n -> Chunks] BY <2>1, ChunksOfPuts
  <2> HIDE DEF n
  <2>3. f \in Seq(Chunks) /\ Len(f) = n /\ \A j \in 1 .. n : f[j] = Initial
    <3>1. \A j \in 1 .. n : f[j] = Initial OBVIOUS
    <3> HIDE DEF f
    <3> QED BY <2>2, <3>1
  <2>4. f = WholeFile(Initial) BY DEF WholeFile, n
  <2> HIDE DEF f
  <2>5. n <= Length[Initial] BY <2>1 DEF n
  <2>6. Beginning(f) BY <2>1, <2>3, <2>5, RunIsBeginning, ChunksOfPuts
  <2> QED BY <2>4, <2>6
<1>2. Beginnings(srv)
  <2> DEFINE data == WholeFile(Initial)
  <2>1. srv.nodes = <<>> \/ srv.nodes = <<data>> BY DEF Init
  <2> HIDE DEF data
  <2>2. \A i \in 1 .. Len(srv.nodes) : srv.nodes[i] = data BY <2>1
  <2> QED BY <1>1, <2>2 DEF Beginnings, data
<1>3. Beginnings(cli)
  <2>1. cli.nodes = <<>> BY DEF Init
  <2> QED BY <2>1 DEF Beginnings
<1>4. HandlersWrite(hand, srv)
  <2>1. \A p \in Puts, a \in Attempts : hand[p][a].got = 0 BY DEF Init, NoHandler
  <2> QED BY <2>1 DEF HandlersWrite, Writes
<1>5. GetsWrite(get, srv, cli)
  <2>1. \A g \in Gets : get[g].got = 0 BY DEF Init, NewGet
  <2> QED BY <2>1 DEF GetsWrite, WritesHere, Reads
<1> QED BY <1>2, <1>3, <1>4, <1>5 DEF OneInv

LEMMA ReadsStay ==
  ASSUME TypeInv, NEW e, FirstKept(srv, e), NEW c, GetsWrite(get, srv, c)
  PROVE  GetsWrite(get, e, c)
<1>1. ASSUME NEW g \in Gets PROVE Reads(get[g], e)
  <2> SUFFICES ASSUME get[g].pc = "stream", get[g].got > 0, get[g].size # 0
               PROVE  get[g].last = e.nodes[get[g].src][1]
    BY DEF Reads, GetsWrite
  <2>1. /\ get[g].src \in 1 .. Len(srv.nodes) /\ get[g].size <= Len(srv.nodes[get[g].src])
        /\ \A s \in Suffixes : srv.temp[s] # get[g].src
        /\ get[g].size \in Nat
    BY GetHas DEF GetFits
  <2> DEFINE i == get[g].src
  <2>2. srv.nodes[i] \in Seq(Chunks)
    <3>1. srv.nodes \in Seq(Seq(Chunks)) BY DiskType DEF TypeInv
    <3> QED BY <2>1, <3>1
  <2>3. Len(srv.nodes[i]) >= 1
    <3> HIDE DEF i
    <3>1. Len(srv.nodes[i]) \in Nat BY <2>2
    <3> QED BY <2>1, <3>1 DEF i
  <2>4. get[g].last = srv.nodes[i][1] BY DEF GetsWrite, Reads
  <2> QED BY <2>1, <2>3, <2>4 DEF FirstKept
<1> QED BY <1>1 DEF GetsWrite

\* Handler a of put p becomes h; the others keep their inodes and what is in them.
AllWrite(disk, p, a, h) ==
  /\ Writes(h) => Holds(disk, h.suf, h.ino, HasTemp(h), SentBy(p), h.got)
  /\ \A q \in Puts, b \in Attempts :
       LET o == hand[q][b] IN
       ~(q = p /\ b = a) /\ Writes(o)
       => /\ Holds(disk, o.suf, o.ino, HasTemp(o), SentBy(q), o.got)
          /\ Writes(h) => o.ino # h.ino

LEMMA ServerStepOne ==
  ASSUME TypeInv, OneInv, NEW p \in Puts, NEW a \in Attempts, NEW h \in HandState,
         hand' = [hand EXCEPT ![p][a] = h],
         AllWrite(srv', p, a, h), Beginnings(srv'), FirstKept(srv, srv'), UNCHANGED <<cli, get>>
  PROVE  OneInv'
<1>1. /\ hand'[p][a] = h
      /\ \A q \in Puts, b \in Attempts : ~(q = p /\ b = a) => hand'[q][b] = hand[q][b]
  BY DEF TypeInv, AllHandlers
<1>2. HandlersWrite(hand', srv')
  <2> USE DEF AllWrite
  <2>1. ASSUME NEW q \in Puts, NEW b \in Attempts, Writes(hand'[q][b])
        PROVE  LET o == hand'[q][b] IN
               Holds(srv', o.suf, o.ino, HasTemp(o), SentBy(q), o.got)
    <3>1. CASE q = p /\ b = a BY <1>1, <2>1, <3>1
    <3>2. CASE ~(q = p /\ b = a) BY <1>1, <2>1, <3>2
    <3> QED BY <3>1, <3>2
  <2>2. ASSUME NEW q \in Puts, NEW b \in Attempts, NEW r \in Puts, NEW c \in Attempts,
               ~(q = r /\ b = c), Writes(hand'[q][b]), Writes(hand'[r][c])
        PROVE  hand'[q][b].ino # hand'[r][c].ino
    <3>1. CASE q = p /\ b = a
      <4>1. hand'[q][b] = h /\ hand'[r][c] = hand[r][c] /\ ~(r = p /\ c = a) BY <1>1, <2>2, <3>1
      <4> QED BY <2>2, <4>1
    <3>2. CASE r = p /\ c = a
      <4>1. hand'[r][c] = h /\ hand'[q][b] = hand[q][b] /\ ~(q = p /\ b = a) BY <1>1, <2>2, <3>2
      <4> QED BY <2>2, <4>1
    <3>3. CASE ~(q = p /\ b = a) /\ ~(r = p /\ c = a)
      <4>1. hand'[r][c] = hand[r][c] /\ hand'[q][b] = hand[q][b] BY <1>1, <3>3
      <4> QED BY <2>2, <4>1 DEF OneInv, HandlersWrite
    <3> QED BY <3>1, <3>2, <3>3
  <2> QED BY <2>1, <2>2 DEF HandlersWrite
<1>3. GetsWrite(get', srv', cli') BY ReadsStay DEF OneInv
<1> QED BY <1>2, <1>3 DEF OneInv

LEMMA FirstSame ==
  \A d, e : e.nodes = d.nodes => FirstKept(d, e)
BY DEF FirstKept

\* A handler that has no file open changes nothing of the others.
LEMMA IdleStepOne ==
  ASSUME TypeInv, OneInv, NEW p \in Puts, NEW a \in Attempts, NEW h \in HandState,
         hand' = [hand EXCEPT ![p][a] = h], ~Writes(h), UNCHANGED <<srv, cli, get>>
  PROVE  OneInv'
<1>1. FirstKept(srv, srv') BY FirstSame
<1>2. AllWrite(srv', p, a, h) /\ Beginnings(srv') BY DEF OneInv, HandlersWrite, AllWrite
<1> QED BY <1>1, <1>2, ServerStepOne

\* A handler that loses its stream goes on.
LEMMA LoseOne ==
  ASSUME TypeInv, OneInv, NEW p \in Puts, NEW a \in Attempts,
         hand' = [hand EXCEPT ![p][a] = Lose(hand[p][a])], UNCHANGED <<srv, cli, get>>
  PROVE  OneInv'
<1> DEFINE old == hand[p][a]
           h == Lose(old)
<1>1. h \in HandState /\ h.pc = old.pc /\ h.got = old.got /\ h.suf = old.suf /\ h.ino = old.ino
  BY EndedOK DEF TypeInv, AllHandlers, Running
<1> HIDE DEF h
<1>2. Writes(h) = Writes(old) /\ HasTemp(h) = HasTemp(old) BY <1>1 DEF Writes, HasTemp
<1>3. AllWrite(srv', p, a, h) /\ Beginnings(srv')
  BY <1>1, <1>2 DEF OneInv, HandlersWrite, AllWrite
<1>4. hand' = [hand EXCEPT ![p][a] = h] BY DEF h
<1>5. FirstKept(srv, srv') BY FirstSame
<1> QED BY <1>1, <1>3, <1>4, <1>5, ServerStepOne

\* What other handlers hold of the server's disk.
LEMMA Others ==
  ASSUME TypeInv, OneInv, NEW p \in Puts, NEW a \in Attempts,
         NEW q \in Puts, NEW b \in Attempts, ~(q = p /\ b = a), Writes(hand[q][b])
  PROVE  LET o == hand[q][b] IN
         /\ Holds(srv, o.suf, o.ino, HasTemp(o), SentBy(q), o.got)
         /\ Writes(hand[p][a]) => o.ino # hand[p][a].ino
         /\ /\ Writes(hand[p][a]) /\ HasTemp(hand[p][a]) /\ HasTemp(o)
            => o.suf # hand[p][a].suf
<1> DEFINE o == hand[q][b]
           h == hand[p][a]
<1>1. Holds(srv, o.suf, o.ino, HasTemp(o), SentBy(q), o.got)
      /\ (Writes(h) => o.ino # h.ino)
  BY DEF OneInv, HandlersWrite
<1>2. Writes(h) => Holds(srv, h.suf, h.ino, HasTemp(h), SentBy(p), h.got)
  BY DEF OneInv, HandlersWrite
<1> HIDE DEF o, h
<1>3. HasTemp(o) => srv.temp[o.suf] = o.ino BY <1>1 DEF Holds
<1>4. Writes(h) /\ HasTemp(h) => srv.temp[h.suf] = h.ino BY <1>2 DEF Holds
<1> QED BY <1>1, <1>3, <1>4 DEF o, h

LEMMA ReceiveOne ==
  ASSUME Collisions = FALSE, TypeInv, OneInv,
         NEW p \in Puts, NEW a \in Attempts, NEW s \in Suffixes, Receive(p, a, s)
  PROVE  OneInv'
<1> DEFINE h == hand[p][a]
           k == h.got + 1
           v == SentBy(p)
           node == NodeOf(srv, s, h.ino, k)
           new == [h EXCEPT !.got = k, !.suf = s, !.ino = node]
<1>1. /\ srv' = Received(srv, s, h.ino, k, v)
      /\ hand' = [hand EXCEPT ![p][a] = new]
      /\ UNCHANGED <<cli, put, get, noFault, history>>
      /\ h.pc = "receive" /\ h.got < Messages(Length[p])
      /\ IF k = 1 THEN FreeSuffix(s) ELSE s = h.suf
  BY DEF Receive, SentBy, More
<1>2. h \in HandState /\ h.ino \in Nat /\ h.got \in Nat
      /\ (h.got > 0 => h.ino \in 1 .. Len(srv.nodes))
  BY HandlerHas
<1>3. /\ v \in Versions \cup {NoChunk} /\ v \in Chunks \cup {NoChunk}
      /\ IF v = NoChunk THEN Length[p] = 0 ELSE v = p /\ Length[p] > 0
      /\ Length[p] \in Nat
  BY ChunksOfPuts, VersionsAssumption DEF Versions, SentBy
<1>4. Writes(h) => Holds(srv, h.suf, h.ino, TRUE, v, h.got)
  BY <1>1 DEF OneInv, HandlersWrite, HasTemp
<1>5. ASSUME NEW q \in Puts, NEW b \in Attempts, ~(q = p /\ b = a), Writes(hand[q][b])
      PROVE  LET o == hand[q][b] IN
             /\ Holds(srv, o.suf, o.ino, HasTemp(o), SentBy(q), o.got)
             /\ HasTemp(o) => o.suf # s
             /\ k # 1 => o.ino # h.ino
  <2>1. /\ Holds(srv, hand[q][b].suf, hand[q][b].ino, HasTemp(hand[q][b]),
                 SentBy(q), hand[q][b].got)
        /\ Writes(h) => hand[q][b].ino # h.ino
        /\ Writes(h) /\ HasTemp(h) /\ HasTemp(hand[q][b]) => hand[q][b].suf # h.suf
    BY <1>5, Others
  <2>2. CASE k = 1 BY <1>1, <2>1, <2>2 DEF FreeSuffix
  <2>3. CASE k # 1
    <3>1. h.got > 0
      <4> HIDE DEF h
      <4> QED BY <1>2, <2>3
    <3>2. Writes(h) /\ HasTemp(h) BY <1>1, <3>1 DEF Writes, HasTemp
    <3> QED BY <1>1, <2>1, <2>3, <3>2
  <2> QED BY <2>2, <2>3
<1> HIDE DEF h, v
<1>6. /\ k \in Nat \ {0} /\ (k # 1 => h.ino \in 1 .. Len(srv.nodes))
      /\ (k # 1 => Writes(h) /\ s = h.suf /\ k - 1 = h.got)
      /\ IF v = NoChunk THEN k = 1 ELSE k <= Length[v]
  BY <1>1, <1>2, <1>3 DEF Messages, Writes
<1>7. k # 1 => Holds(srv, s, h.ino, TRUE, v, k - 1) BY <1>4, <1>6
<1> HIDE DEF k
<1>8. Reception(srv, srv', node, s, h.ino, k, v) BY <1>1, <1>2, <1>3, <1>6, ReceivedFacts DEF TypeInv
<1> HIDE DEF node
<1>9. Holds(srv', s, node, TRUE, v, k) /\ Beginnings(srv')
  BY <1>2, <1>3, <1>6, <1>7, <1>8, ReceiverHolds DEF TypeInv, OneInv
<1>10. new.pc = "receive" /\ new.got = k /\ new.suf = s /\ new.ino = node /\ new \in HandState
  <2>1. node \in Nat
    <3>1. node \in 1 .. Len(srv'.nodes) /\ DiskOK(srv') BY <1>8 DEF Reception
    <3> QED BY <3>1, DiskType
  <2> QED BY <1>1, <1>2, <1>6, <2>1 DEF HandState
<1> HIDE DEF new
<1>11. Holds(srv', new.suf, new.ino, HasTemp(new), SentBy(p), new.got)
  <2>1. HasTemp(new) = TRUE BY <1>10 DEF HasTemp
  <2> QED BY <1>9, <1>10, <2>1 DEF v
<1>12. AllWrite(srv', p, a, new)
  <2> SUFFICES ASSUME NEW q \in Puts, NEW b \in Attempts, ~(q = p /\ b = a), Writes(hand[q][b])
               PROVE  LET o == hand[q][b] IN
                      /\ Holds(srv', o.suf, o.ino, HasTemp(o), SentBy(q), o.got)
                      /\ o.ino # node
    BY <1>10, <1>11 DEF AllWrite
  <2> DEFINE o == hand[q][b]
             named == HasTemp(o)
  <2>1. /\ Holds(srv, o.suf, o.ino, named, SentBy(q), o.got)
        /\ named => o.suf # s
        /\ k # 1 => o.ino # h.ino
    BY <1>5
  <2>2. named \in BOOLEAN BY DEF HasTemp
  <2> HIDE DEF o, named
  <2>3. Holds(srv', o.suf, o.ino, named, SentBy(q), o.got) /\ o.ino # node
    BY <1>2, <1>6, <1>8, <2>1, <2>2, OthersHold DEF TypeInv
  <2> QED BY <2>3 DEF o, named
<1>13. FirstKept(srv, srv')
  <2> SUFFICES ASSUME NEW i \in 1 .. Len(srv.nodes), \A t \in Suffixes : srv.temp[t] # i
               PROVE  srv'.nodes[i] = srv.nodes[i]
    BY DEF FirstKept
  <2>1. i # node
    <3>1. CASE k = 1 BY <1>8, <3>1 DEF Reception
    <3>2. CASE k # 1 BY <1>7, <1>8, <3>2 DEF Reception, Holds
    <3> QED BY <3>1, <3>2
  <2> QED BY <1>8, <2>1 DEF Reception
<1> QED BY <1>1, <1>9, <1>10, <1>12, <1>13, ServerStepOne

LEMMA RenameOne ==
  ASSUME TypeInv, OneInv, NEW p \in Puts, NEW a \in Attempts, Rename(p, a)
  PROVE  OneInv'
<1> DEFINE h == hand[p][a]
           new == [h EXCEPT !.pc = "flush"]
<1>1. /\ h.pc = "receive"
      /\ srv' = IF h.got > 0 THEN Placed(srv, h.suf) ELSE srv
      /\ hand' = [hand EXCEPT ![p][a].pc = "flush"]
      /\ UNCHANGED <<cli, put, get>>
  BY DEF Rename, StreamEnded, noFault
<1>2. h \in HandState /\ (h.got > 0 => h.suf \in Suffixes) BY HandlerHas
<1>3. hand' = [hand EXCEPT ![p][a] = new] BY <1>1 DEF TypeInv, AllHandlers
<1>4. new \in HandState /\ new.pc = "flush" /\ new.got = h.got /\ new.suf = h.suf /\ new.ino = h.ino
  BY <1>2 DEF HandState, Running
<1>5. Writes(h) => Holds(srv, h.suf, h.ino, TRUE, SentBy(p), h.got)
  BY <1>1 DEF OneInv, HandlersWrite, HasTemp
<1>6. ASSUME NEW q \in Puts, NEW b \in Attempts, ~(q = p /\ b = a), Writes(hand[q][b]), Writes(h)
      PROVE  LET o == hand[q][b] IN
             /\ Holds(srv, o.suf, o.ino, HasTemp(o), SentBy(q), o.got)
             /\ o.ino # h.ino /\ (HasTemp(o) => o.suf # h.suf)
  BY <1>1, <1>6, Others DEF HasTemp
<1> HIDE DEF h, new
<1>7. CASE h.got > 0
  <2>1. Writes(h) BY <1>1, <1>7 DEF Writes
  <2>2. /\ srv'.nodes = srv.nodes /\ srv'.temp[h.suf] = NoNode
        /\ \A u \in Suffixes \ {h.suf} : srv'.temp[u] = srv.temp[u]
    BY <1>1, <1>2, <1>7, PlacedFacts DEF TypeInv
  <2>3. /\ \A i, v, k : Holds(srv, h.suf, i, TRUE, v, k) => Holds(srv', h.suf, i, FALSE, v, k)
        /\ \A t, i, v, k : t # h.suf /\ Holds(srv, t, i, TRUE, v, k) => Holds(srv', t, i, TRUE, v, k)
        /\ \A t, i, v, k : Holds(srv, t, i, FALSE, v, k) => Holds(srv', t, i, FALSE, v, k)
        /\ Beginnings(srv) => Beginnings(srv')
    BY <1>2, <1>7, <2>2, UnnamedHolds DEF TypeInv
  <2>4. Holds(srv', new.suf, new.ino, HasTemp(new), SentBy(p), new.got)
    <3>1. Holds(srv', h.suf, h.ino, FALSE, SentBy(p), h.got) BY <1>5, <2>1, <2>3
    <3>2. HasTemp(new) = FALSE BY <1>4 DEF HasTemp
    <3> QED BY <1>4, <3>1, <3>2
  <2>5. ASSUME NEW q \in Puts, NEW b \in Attempts, ~(q = p /\ b = a), Writes(hand[q][b])
        PROVE  LET o == hand[q][b] IN
               /\ Holds(srv', o.suf, o.ino, HasTemp(o), SentBy(q), o.got)
               /\ o.ino # new.ino
    <3> DEFINE o == hand[q][b]
    <3>1. /\ Holds(srv, o.suf, o.ino, HasTemp(o), SentBy(q), o.got)
          /\ o.ino # h.ino /\ (HasTemp(o) => o.suf # h.suf)
      BY <1>6, <2>1, <2>5
    <3> HIDE DEF o
    <3>2. Holds(srv', o.suf, o.ino, HasTemp(o), SentBy(q), o.got)
      <4>1. CASE HasTemp(o)
        <5>1. HasTemp(o) = TRUE BY <4>1 DEF HasTemp
        <5> QED BY <2>3, <3>1, <5>1
      <4>2. CASE ~HasTemp(o)
        <5>1. HasTemp(o) = FALSE BY <4>2 DEF HasTemp
        <5> QED BY <2>3, <3>1, <5>1
      <4> QED BY <4>1, <4>2
    <3> QED BY <1>4, <3>1, <3>2 DEF o
  <2>6. AllWrite(srv', p, a, new) BY <2>4, <2>5 DEF AllWrite
  <2>7. Beginnings(srv') /\ FirstKept(srv, srv') BY <2>2, <2>3, FirstSame DEF OneInv
  <2> QED BY <1>1, <1>3, <1>4, <2>6, <2>7, ServerStepOne
<1>8. CASE ~(h.got > 0)
  <2>1. ~Writes(new) /\ srv' = srv BY <1>1, <1>4, <1>8 DEF Writes
  <2> QED BY <1>1, <1>3, <1>4, <2>1, IdleStepOne
<1> QED BY <1>7, <1>8

LEMMA RefuseOne ==
  ASSUME TypeInv, OneInv, NEW p \in Puts, NEW a \in Attempts, Refuse(p, a)
  PROVE  OneInv'
<1> DEFINE h == hand[p][a]
           new == Ended(h, "refused")
<1>1. /\ h.pc = "receive"
      /\ srv' = IF h.got > 0 THEN Removed(srv, h.suf) ELSE srv
      /\ hand' = [hand EXCEPT ![p][a] = new]
      /\ UNCHANGED <<cli, put, get>>
  BY DEF Refuse
<1>2. h \in HandState /\ (h.got > 0 => h.suf \in Suffixes) BY HandlerHas
<1>3. new \in HandState /\ ~Writes(new)
  <2> HIDE DEF h
  <2>1. new \in HandState /\ new.got = 0 BY <1>2, EndedOK DEF Running
  <2> QED BY <2>1 DEF Writes
<1>4. ASSUME NEW q \in Puts, NEW b \in Attempts, ~(q = p /\ b = a), Writes(hand[q][b]), Writes(h)
      PROVE  LET o == hand[q][b] IN
             /\ Holds(srv, o.suf, o.ino, HasTemp(o), SentBy(q), o.got)
             /\ HasTemp(o) => o.suf # h.suf
  BY <1>1, <1>4, Others DEF HasTemp
<1> HIDE DEF h, new
<1>5. CASE h.got > 0
  <2>1. Writes(h) BY <1>1, <1>5 DEF Writes
  <2>2. /\ srv'.nodes = srv.nodes /\ srv'.temp[h.suf] = NoNode
        /\ \A u \in Suffixes \ {h.suf} : srv'.temp[u] = srv.temp[u]
    BY <1>1, <1>2, <1>5, RemovedFacts DEF TypeInv
  <2>3. /\ \A t, i, v, k : t # h.suf /\ Holds(srv, t, i, TRUE, v, k) => Holds(srv', t, i, TRUE, v, k)
        /\ \A t, i, v, k : Holds(srv, t, i, FALSE, v, k) => Holds(srv', t, i, FALSE, v, k)
        /\ Beginnings(srv) => Beginnings(srv')
    BY <1>2, <1>5, <2>2, UnnamedHolds DEF TypeInv
  <2>4. ASSUME NEW q \in Puts, NEW b \in Attempts, ~(q = p /\ b = a), Writes(hand[q][b])
        PROVE  LET o == hand[q][b] IN
               Holds(srv', o.suf, o.ino, HasTemp(o), SentBy(q), o.got)
    <3> DEFINE o == hand[q][b]
    <3>1. /\ Holds(srv, o.suf, o.ino, HasTemp(o), SentBy(q), o.got)
          /\ HasTemp(o) => o.suf # h.suf
      BY <1>4, <2>1, <2>4
    <3> HIDE DEF o
    <3>2. Holds(srv', o.suf, o.ino, HasTemp(o), SentBy(q), o.got)
      <4>1. CASE HasTemp(o)
        <5>1. HasTemp(o) = TRUE BY <4>1 DEF HasTemp
        <5> QED BY <2>3, <3>1, <5>1
      <4>2. CASE ~HasTemp(o)
        <5>1. HasTemp(o) = FALSE BY <4>2 DEF HasTemp
        <5> QED BY <2>3, <3>1, <5>1
      <4> QED BY <4>1, <4>2
    <3> QED BY <3>2 DEF o
  <2>5. AllWrite(srv', p, a, new) BY <1>3, <2>4 DEF AllWrite
  <2>6. Beginnings(srv') /\ FirstKept(srv, srv') BY <2>2, <2>3, FirstSame DEF OneInv
  <2> QED BY <1>1, <1>3, <2>5, <2>6, ServerStepOne
<1>6. CASE ~(h.got > 0)
  <2>1. srv' = srv BY <1>1, <1>6
  <2> QED BY <1>1, <1>3, <2>1, IdleStepOne
<1> QED BY <1>5, <1>6

LEMMA RenameFailsOne ==
  ASSUME TypeInv, OneInv, NEW p \in Puts, NEW a \in Attempts, RenameFails(p, a)
  PROVE  OneInv'
<1> DEFINE h == hand[p][a]
           new == [h EXCEPT !.pc = "unplaced"]
<1>1. /\ h.pc = "receive" /\ hand' = [hand EXCEPT ![p][a].pc = "unplaced"]
      /\ UNCHANGED <<srv, cli, put, get>>
  BY DEF RenameFails, StreamEnded
<1>2. h \in HandState BY HandlerHas
<1>3. hand' = [hand EXCEPT ![p][a] = new] BY <1>1 DEF TypeInv, AllHandlers
<1>4. /\ new \in HandState /\ new.pc = "unplaced" /\ new.got = h.got /\ new.suf = h.suf
      /\ new.ino = h.ino
  BY <1>2 DEF HandState, Running
<1>5. HasTemp(new) = HasTemp(h) /\ Writes(new) = Writes(h) BY <1>1, <1>4 DEF HasTemp, Writes
<1> HIDE DEF new
<1>6. AllWrite(srv', p, a, new) /\ Beginnings(srv')
  BY <1>1, <1>4, <1>5 DEF OneInv, HandlersWrite, AllWrite
<1>7. FirstKept(srv, srv') BY <1>1, FirstSame
<1> QED BY <1>1, <1>3, <1>4, <1>6, <1>7, ServerStepOne

LEMMA FlushOne ==
  ASSUME TypeInv, OneInv, NEW p \in Puts, NEW a \in Attempts, Flush(p, a)
  PROVE  OneInv'
<1> DEFINE h == hand[p][a]
           new == Ended(h, "reply")
<1>1. /\ h.pc \in {"flush", "unplaced"}
      /\ srv' = srv \/ (InBuffer(p, h.got) /\ srv' = Wrote(srv, h.ino, h.got, p))
      /\ hand' = [hand EXCEPT ![p][a] = new]
      /\ UNCHANGED <<cli, put, get>>
  BY DEF Flush
<1>2. h \in HandState BY HandlerHas
<1>3. new \in HandState /\ ~Writes(new)
  <2> HIDE DEF h
  <2>1. new \in HandState /\ new.got = 0 BY <1>2, EndedOK DEF Running
  <2> QED BY <2>1 DEF Writes
<1>4. Writes(h) => Holds(srv, h.suf, h.ino, HasTemp(h), SentBy(p), h.got)
  BY DEF OneInv, HandlersWrite
<1>5. ASSUME NEW q \in Puts, NEW b \in Attempts, ~(q = p /\ b = a), Writes(hand[q][b]), Writes(h)
      PROVE  LET o == hand[q][b] IN
             /\ Holds(srv, o.suf, o.ino, HasTemp(o), SentBy(q), o.got)
             /\ o.ino # h.ino
  BY <1>1, <1>5, Others
<1> HIDE DEF h, new
<1>6. CASE InBuffer(p, h.got) /\ srv' = Wrote(srv, h.ino, h.got, p)
  <2>1. h.got > 0 /\ SentBy(p) = p BY <1>6, VersionsAssumption DEF InBuffer, SentBy
  <2>2. Writes(h) BY <1>1, <2>1 DEF Writes
  <2> DEFINE named == HasTemp(h)
  <2>3. named \in BOOLEAN /\ Holds(srv, h.suf, h.ino, named, p, h.got)
    BY <1>4, <2>1, <2>2 DEF HasTemp
  <2> HIDE DEF named
  <2>4. /\ Beginnings(srv') /\ FirstKept(srv, srv')
        /\ \A t, j, w, l : \A nm \in BOOLEAN :
             j # h.ino /\ Holds(srv, t, j, nm, w, l) => Holds(srv', t, j, nm, w, l)
    BY <1>6, <2>3, FlushHolds DEF TypeInv, OneInv
  <2>5. ASSUME NEW q \in Puts, NEW b \in Attempts, ~(q = p /\ b = a), Writes(hand[q][b])
        PROVE  LET o == hand[q][b] IN
               Holds(srv', o.suf, o.ino, HasTemp(o), SentBy(q), o.got)
    <3> DEFINE o == hand[q][b]
               nm == HasTemp(o)
    <3>1. nm \in BOOLEAN /\ Holds(srv, o.suf, o.ino, nm, SentBy(q), o.got) /\ o.ino # h.ino
      BY <1>5, <2>2, <2>5 DEF HasTemp
    <3> HIDE DEF o, nm
    <3>2. Holds(srv', o.suf, o.ino, nm, SentBy(q), o.got) BY <2>4, <3>1
    <3> QED BY <3>2 DEF o, nm
  <2>6. AllWrite(srv', p, a, new) BY <1>3, <2>5 DEF AllWrite
  <2> QED BY <1>1, <1>3, <2>4, <2>6, ServerStepOne
<1>7. CASE srv' = srv BY <1>1, <1>3, <1>7, IdleStepOne
<1> QED BY <1>1, <1>6, <1>7

\* Call g becomes r; the others keep their inodes and what is in them.
AllWriteHere(disk, g, r) ==
  /\ WritesHere(r) => Holds(disk, r.suf, r.ino, r.pc = "stream", r.last, r.got)
  /\ \A f \in Gets :
       LET o == get[f] IN
       f # g /\ WritesHere(o)
       => /\ Holds(disk, o.suf, o.ino, o.pc = "stream", o.last, o.got)
          /\ WritesHere(r) => o.ino # r.ino

LEMMA ClientStepOne ==
  ASSUME TypeInv, OneInv, NEW g \in Gets, NEW r, get' = [get EXCEPT ![g] = r],
         AllWriteHere(cli', g, r), Reads(r, srv), Beginnings(cli'), UNCHANGED <<srv, hand>>
  PROVE  OneInv'
<1>1. get'[g] = r /\ \A f \in Gets : f # g => get'[f] = get[f]
  BY DEF TypeInv, AllGets
<1>2. GetsWrite(get', srv', cli')
  <2>1. ASSUME NEW f \in Gets
        PROVE  LET o == get'[f] IN
               /\ WritesHere(o) => Holds(cli', o.suf, o.ino, o.pc = "stream", o.last, o.got)
               /\ Reads(o, srv')
    <3>1. CASE f = g BY <1>1, <3>1 DEF AllWriteHere
    <3>2. CASE f # g
      <4>1. get'[f] = get[f] /\ Reads(get[f], srv) BY <1>1, <3>2 DEF OneInv, GetsWrite
      <4> QED BY <3>2, <4>1 DEF AllWriteHere
    <3> QED BY <3>1, <3>2
  <2>2. ASSUME NEW f \in Gets, NEW e \in Gets, f # e, WritesHere(get'[f]), WritesHere(get'[e])
        PROVE  get'[f].ino # get'[e].ino
    <3>1. CASE f = g BY <1>1, <2>2, <3>1 DEF AllWriteHere
    <3>2. CASE e = g BY <1>1, <2>2, <3>2 DEF AllWriteHere
    <3>3. CASE f # g /\ e # g BY <1>1, <2>2, <3>3 DEF OneInv, GetsWrite
    <3> QED BY <3>1, <3>2, <3>3
  <2> QED BY <2>1, <2>2 DEF GetsWrite
<1> QED BY <1>2 DEF OneInv

\* A call that has no file open changes nothing of the others.
LEMMA IdleGetOne ==
  ASSUME TypeInv, OneInv, NEW g \in Gets, NEW r, get' = [get EXCEPT ![g] = r],
         ~WritesHere(r), UNCHANGED <<srv, cli, hand>>
  PROVE  OneInv'
<1>1. AllWriteHere(cli', g, r) /\ Beginnings(cli') BY DEF OneInv, GetsWrite, AllWriteHere
<1>2. Reads(r, srv) BY DEF Reads, WritesHere
<1> QED BY <1>1, <1>2, ClientStepOne

LEMMA OtherGets ==
  ASSUME TypeInv, OneInv, NEW g \in Gets, NEW f \in Gets, f # g, WritesHere(get[f])
  PROVE  LET o == get[f] IN
         /\ Holds(cli, o.suf, o.ino, o.pc = "stream", o.last, o.got)
         /\ WritesHere(get[g]) => o.ino # get[g].ino
         /\ /\ WritesHere(get[g]) /\ get[g].pc = "stream" /\ o.pc = "stream"
            => o.suf # get[g].suf
<1> DEFINE o == get[f]
           r == get[g]
<1>1. Holds(cli, o.suf, o.ino, o.pc = "stream", o.last, o.got) /\ (WritesHere(r) => o.ino # r.ino)
  BY DEF OneInv, GetsWrite
<1>2. WritesHere(r) => Holds(cli, r.suf, r.ino, r.pc = "stream", r.last, r.got)
  BY DEF OneInv, GetsWrite
<1> HIDE DEF o, r
<1>3. o.pc = "stream" => cli.temp[o.suf] = o.ino BY <1>1 DEF Holds
<1>4. WritesHere(r) /\ r.pc = "stream" => cli.temp[r.suf] = r.ino BY <1>2 DEF Holds
<1> QED BY <1>1, <1>3, <1>4 DEF o, r

\* All chunks that a get reads are of the version of the first.
LEMMA ChunkOne ==
  ASSUME TypeInv, OneInv, NEW g \in Gets, get[g].pc = "stream", get[g].got < Messages(get[g].size)
  PROVE  LET r == get[g]
             k == r.got + 1
             v == IF r.size = 0 THEN NoChunk ELSE srv.nodes[r.src][k]
         IN /\ v \in Versions \cup {NoChunk}
            /\ r.size = 0 <=> v = NoChunk
            /\ v # NoChunk => v = srv.nodes[r.src][1]
            /\ IF v = NoChunk THEN k = 1 ELSE k <= Length[v]
<1> DEFINE r == get[g]
           k == r.got + 1
           data == srv.nodes[r.src]
<1>1. GetFits(r, srv, cli) /\ r.got \in Nat /\ r.size \in Nat BY GetHas
<1>2. r.src \in 1 .. Len(srv.nodes) BY <1>1 DEF GetFits
<1>3. data \in Seq(Chunks)
  <2>1. srv.nodes \in Seq(Seq(Chunks)) BY DiskType DEF TypeInv
  <2> QED BY <1>2, <2>1
<1>4. r.size # 0 => k \in 1 .. Len(data) BY ChunkRead
<1>5. PICK v \in Versions : Len(data) <= Length[v] /\ \A j \in DOMAIN data : data[j] = v
  BY <1>2 DEF OneInv, Beginnings, Beginning
<1>6. v # NoChunk /\ Length[v] \in Nat BY ChunksOfPuts, VersionsAssumption
<1>7. r.got < Messages(r.size) OBVIOUS
<1> HIDE DEF r, data
<1>8. r.size # 0 => data[k] = v /\ data[1] = v /\ k <= Length[v]
  <2> SUFFICES ASSUME r.size # 0 PROVE data[k] = v /\ data[1] = v /\ k <= Length[v] OBVIOUS
  <2>1. Len(data) \in Nat /\ DOMAIN data = 1 .. Len(data) BY <1>3
  <2>2. k \in 1 .. Len(data) BY <1>4
  <2>3. 1 \in 1 .. Len(data) BY <2>1, <2>2
  <2>4. data[k] = v /\ data[1] = v BY <1>5, <2>1, <2>2, <2>3
  <2> HIDE DEF k
  <2>5. k <= Length[v] BY <1>5, <1>6, <2>1, <2>2
  <2> QED BY <2>4, <2>5
<1>9. r.size = 0 => k = 1 BY <1>1, <1>7 DEF Messages
<1> QED BY <1>5, <1>6, <1>8, <1>9 DEF r, data

LEMMA ChunkStepOne ==
  ASSUME Collisions = FALSE, TypeInv, OneInv, NEW g \in Gets, NEW s \in Suffixes, Chunk(g, s)
  PROVE  OneInv'
<1> DEFINE r == get[g]
           k == r.got + 1
           v == IF r.size = 0 THEN NoChunk ELSE srv.nodes[r.src][k]
           node == NodeOf(cli, s, r.ino, k)
           new == [r EXCEPT !.got = k, !.suf = s, !.ino = node, !.last = v]
<1>1. /\ cli' = Received(cli, s, r.ino, k, v)
      /\ get' = [get EXCEPT ![g] = new]
      /\ UNCHANGED <<srv, put, hand, noFault, history>>
      /\ r.pc = "stream" /\ r.got < Messages(r.size)
      /\ IF k = 1 THEN FreeLocal(s) ELSE s = r.suf
  BY DEF Chunk
<1>2. r \in GetState /\ r.ino \in Nat /\ r.got \in Nat
      /\ (r.got > 0 => r.ino \in 1 .. Len(cli.nodes))
  BY GetHas DEF GetFits
<1>3. /\ v \in Versions \cup {NoChunk} /\ (r.size = 0 <=> v = NoChunk)
      /\ v # NoChunk => v = srv.nodes[r.src][1]
      /\ IF v = NoChunk THEN k = 1 ELSE k <= Length[v]
  BY <1>1, ChunkOne
<1>4. v \in Chunks \cup {NoChunk} BY <1>3, ChunksOfPuts
<1>5. /\ WritesHere(r) => Holds(cli, r.suf, r.ino, TRUE, r.last, r.got)
      /\ r.got > 0 => IF r.size = 0 THEN r.last = NoChunk ELSE r.last = srv.nodes[r.src][1]
  BY <1>1 DEF OneInv, GetsWrite, Reads
<1>6. ASSUME NEW f \in Gets, f # g, WritesHere(get[f])
      PROVE  LET o == get[f] IN
             /\ Holds(cli, o.suf, o.ino, o.pc = "stream", o.last, o.got)
             /\ o.pc = "stream" => o.suf # s
             /\ k # 1 => o.ino # r.ino
  <2>1. /\ Holds(cli, get[f].suf, get[f].ino, get[f].pc = "stream", get[f].last, get[f].got)
        /\ WritesHere(r) => get[f].ino # r.ino
        /\ WritesHere(r) /\ r.pc = "stream" /\ get[f].pc = "stream" => get[f].suf # r.suf
    BY <1>6, OtherGets
  <2>2. CASE k = 1
    <3>1. get[f].got \in Nat /\ get[f].got > 0 BY <1>6, GetHas DEF WritesHere
    <3>2. get[f].got # 0 BY <3>1
    <3> QED BY <1>1, <2>1, <2>2, <3>2 DEF FreeLocal
  <2>3. CASE k # 1
    <3>1. r.got > 0
      <4> HIDE DEF r
      <4> QED BY <1>2, <2>3
    <3>2. WritesHere(r) BY <1>1, <3>1 DEF WritesHere
    <3> QED BY <1>1, <2>1, <2>3, <3>2
  <2> QED BY <2>2, <2>3
<1> HIDE DEF r, v
<1>7. /\ k \in Nat \ {0} /\ (k # 1 => r.ino \in 1 .. Len(cli.nodes))
      /\ (k # 1 => WritesHere(r) /\ s = r.suf /\ k - 1 = r.got)
  BY <1>1, <1>2 DEF WritesHere
<1>8. k # 1 => Holds(cli, s, r.ino, TRUE, v, k - 1)
  <2> SUFFICES ASSUME k # 1 PROVE Holds(cli, s, r.ino, TRUE, v, k - 1) OBVIOUS
  <2>1. v # NoChunk /\ r.got > 0 BY <1>3, <1>7 DEF WritesHere
  <2>2. v = r.last BY <1>3, <1>5, <2>1
  <2>3. WritesHere(r) /\ s = r.suf /\ k - 1 = r.got BY <1>7
  <2> QED BY <1>5, <2>2, <2>3
<1> HIDE DEF k
<1>9. Reception(cli, cli', node, s, r.ino, k, v) BY <1>1, <1>2, <1>4, <1>7, ReceivedFacts DEF TypeInv
<1> HIDE DEF node
<1>10. Holds(cli', s, node, TRUE, v, k) /\ Beginnings(cli')
  BY <1>2, <1>3, <1>7, <1>8, <1>9, ReceiverHolds DEF TypeInv, OneInv
<1>11. /\ new.pc = "stream" /\ new.got = k /\ new.suf = s /\ new.ino = node /\ new.last = v
       /\ new.size = r.size /\ new.src = r.src
  BY <1>1, <1>2 DEF GetState
<1> HIDE DEF new
<1>12. Holds(cli', new.suf, new.ino, new.pc = "stream", new.last, new.got)
  <2>1. (new.pc = "stream") = TRUE BY <1>11
  <2> QED BY <1>10, <1>11, <2>1
<1>13. AllWriteHere(cli', g, new)
  <2> SUFFICES ASSUME NEW f \in Gets, f # g, WritesHere(get[f])
               PROVE  LET o == get[f] IN
                      /\ Holds(cli', o.suf, o.ino, o.pc = "stream", o.last, o.got)
                      /\ o.ino # node
    BY <1>11, <1>12 DEF AllWriteHere
  <2> DEFINE o == get[f]
             named == o.pc = "stream"
  <2>1. /\ Holds(cli, o.suf, o.ino, named, o.last, o.got)
        /\ named => o.suf # s
        /\ k # 1 => o.ino # r.ino
    BY <1>6
  <2>2. named \in BOOLEAN OBVIOUS
  <2> HIDE DEF o, named
  <2>3. Holds(cli', o.suf, o.ino, named, o.last, o.got) /\ o.ino # node
    BY <1>2, <1>7, <1>9, <2>1, <2>2, OthersHold DEF TypeInv
  <2> QED BY <2>3 DEF o, named
<1>14. Reads(new, srv) BY <1>3, <1>11 DEF Reads
<1> QED BY <1>1, <1>10, <1>13, <1>14, ClientStepOne

LEMMA InstallOne ==
  ASSUME TypeInv, OneInv, NEW g \in Gets, Install(g)
  PROVE  OneInv'
<1> DEFINE r == get[g]
           new == [r EXCEPT !.pc = "flush"]
<1>1. /\ r.pc = "stream" /\ r.got = Messages(r.size)
      /\ cli' = Placed(cli, r.suf)
      /\ get' = [get EXCEPT ![g].pc = "flush"]
      /\ UNCHANGED <<srv, put, hand, noFault, history>>
  BY DEF Install
<1>2. r \in GetState /\ GetFits(r, srv, cli) /\ r.got \in Nat /\ r.size \in Nat BY GetHas
<1>3. get' = [get EXCEPT ![g] = new] BY <1>1 DEF TypeInv, AllGets
<1>4. WritesHere(r) => Holds(cli, r.suf, r.ino, TRUE, r.last, r.got)
  BY <1>1 DEF OneInv, GetsWrite
<1>5. ASSUME NEW f \in Gets, f # g, WritesHere(get[f]), WritesHere(r)
      PROVE  LET o == get[f] IN
             /\ Holds(cli, o.suf, o.ino, o.pc = "stream", o.last, o.got)
             /\ o.ino # r.ino /\ (o.pc = "stream" => o.suf # r.suf)
  BY <1>1, <1>5, OtherGets
<1> HIDE DEF r
<1>6. r.got > 0 BY <1>1, <1>2 DEF Messages
<1>7. r.suf \in Suffixes /\ WritesHere(r) BY <1>1, <1>2, <1>6 DEF GetFits, WritesHere
<1>8. new.pc = "flush" /\ new.got = r.got /\ new.suf = r.suf /\ new.ino = r.ino /\ new.last = r.last
  BY <1>2 DEF GetState
<1> HIDE DEF new
<1>9. /\ cli'.nodes = cli.nodes /\ cli'.temp[r.suf] = NoNode
      /\ \A u \in Suffixes \ {r.suf} : cli'.temp[u] = cli.temp[u]
  BY <1>1, <1>7, PlacedFacts DEF TypeInv
<1>10. /\ \A i, v, k : Holds(cli, r.suf, i, TRUE, v, k) => Holds(cli', r.suf, i, FALSE, v, k)
       /\ \A t, i, v, k : t # r.suf /\ Holds(cli, t, i, TRUE, v, k) => Holds(cli', t, i, TRUE, v, k)
       /\ \A t, i, v, k : Holds(cli, t, i, FALSE, v, k) => Holds(cli', t, i, FALSE, v, k)
       /\ Beginnings(cli) => Beginnings(cli')
  BY <1>7, <1>9, UnnamedHolds DEF TypeInv
<1>11. Holds(cli', new.suf, new.ino, new.pc = "stream", new.last, new.got)
  <2>1. Holds(cli', r.suf, r.ino, FALSE, r.last, r.got) BY <1>4, <1>7, <1>10
  <2>2. (new.pc = "stream") = FALSE BY <1>8
  <2> QED BY <1>8, <2>1, <2>2
<1>12. ASSUME NEW f \in Gets, f # g, WritesHere(get[f])
       PROVE  LET o == get[f] IN
              /\ Holds(cli', o.suf, o.ino, o.pc = "stream", o.last, o.got)
              /\ o.ino # new.ino
  <2> DEFINE o == get[f]
  <2>1. /\ Holds(cli, o.suf, o.ino, o.pc = "stream", o.last, o.got)
        /\ o.ino # r.ino /\ (o.pc = "stream" => o.suf # r.suf)
    BY <1>5, <1>7, <1>12
  <2> HIDE DEF o
  <2>2. Holds(cli', o.suf, o.ino, o.pc = "stream", o.last, o.got)
    <3>1. CASE o.pc = "stream"
      <4>1. (o.pc = "stream") = TRUE BY <3>1
      <4> QED BY <1>10, <2>1, <4>1
    <3>2. CASE o.pc # "stream"
      <4>1. (o.pc = "stream") = FALSE BY <3>2
      <4> QED BY <1>10, <2>1, <4>1
    <3> QED BY <3>1, <3>2
  <2> QED BY <1>8, <2>1, <2>2 DEF o
<1>13. AllWriteHere(cli', g, new) BY <1>11, <1>12 DEF AllWriteHere
<1>14. Reads(new, srv) /\ Beginnings(cli') BY <1>8, <1>10 DEF Reads, OneInv
<1> QED BY <1>1, <1>3, <1>13, <1>14, ClientStepOne

LEMMA FlushGetOne ==
  ASSUME TypeInv, OneInv, NEW g \in Gets, FlushGet(g)
  PROVE  OneInv'
<1> DEFINE r == get[g]
           new == EndedGet(r, "true")
<1>1. /\ r.pc = "flush"
      /\ cli' = IF InBuffer(r.last, r.got) THEN Wrote(cli, r.ino, r.got, r.last) ELSE cli
      /\ get' = [get EXCEPT ![g] = new]
      /\ UNCHANGED <<srv, put, hand, noFault, history>>
  BY DEF FlushGet
<1>2. r.got \in Nat \ {0} BY <1>1, FlushedByGet
<1>3. WritesHere(r)
  <2> HIDE DEF r
  <2> QED BY <1>1, <1>2 DEF WritesHere
<1>4. Holds(cli, r.suf, r.ino, r.pc = "stream", r.last, r.got) BY <1>3 DEF OneInv, GetsWrite
<1>5. new.got = 0 /\ new.pc = "true" BY DEF EndedGet
<1>6. ASSUME NEW f \in Gets, f # g, WritesHere(get[f])
      PROVE  LET o == get[f] IN
             /\ Holds(cli, o.suf, o.ino, o.pc = "stream", o.last, o.got)
             /\ o.ino # r.ino
  BY <1>3, <1>6, OtherGets
<1> HIDE DEF r, new
<1>7. ~WritesHere(new) BY <1>5 DEF WritesHere
<1>8. CASE InBuffer(r.last, r.got)
  <2> DEFINE named == r.pc = "stream"
  <2>1. named \in BOOLEAN /\ Holds(cli, r.suf, r.ino, named, r.last, r.got) BY <1>4
  <2> HIDE DEF named
  <2>2. /\ Beginnings(cli')
        /\ \A t, j, w, l : \A nm \in BOOLEAN :
             j # r.ino /\ Holds(cli, t, j, nm, w, l) => Holds(cli', t, j, nm, w, l)
    BY <1>1, <1>8, <2>1, FlushHolds DEF TypeInv, OneInv
  <2>3. ASSUME NEW f \in Gets, f # g, WritesHere(get[f])
        PROVE  LET o == get[f] IN Holds(cli', o.suf, o.ino, o.pc = "stream", o.last, o.got)
    <3> DEFINE o == get[f]
               nm == o.pc = "stream"
    <3>1. nm \in BOOLEAN /\ Holds(cli, o.suf, o.ino, nm, o.last, o.got) /\ o.ino # r.ino
      BY <1>6, <2>3
    <3> HIDE DEF o, nm
    <3>2. Holds(cli', o.suf, o.ino, nm, o.last, o.got) BY <2>2, <3>1
    <3> QED BY <3>2 DEF o, nm
  <2>4. AllWriteHere(cli', g, new) BY <1>7, <2>3 DEF AllWriteHere
  <2>5. Reads(new, srv) BY <1>5 DEF Reads
  <2> QED BY <1>1, <2>2, <2>4, <2>5, ClientStepOne
<1>9. CASE ~InBuffer(r.last, r.got)
  <2>1. cli' = cli BY <1>1, <1>9
  <2> QED BY <1>1, <1>7, <2>1, IdleGetOne
<1> QED BY <1>8, <1>9

LEMMA OpenOne == ASSUME TypeInv, OneInv, NEW g \in Gets, Open(g) PROVE OneInv'
<1> DEFINE r == get[g]
           new == IF srv.file = NoNode THEN EndedGet(r, "false")
                  ELSE [r EXCEPT !.pc = "stream", !.src = srv.file, !.got = 0,
                                 !.size = Len(srv.nodes[srv.file])]
<1>1. get' = [get EXCEPT ![g] = new] /\ UNCHANGED <<srv, cli, hand>> BY DEF Open
<1>2. new.got = 0
  <2>1. r \in GetState BY GetHas
  <2> HIDE DEF r
  <2> QED BY <2>1 DEF GetState, EndedGet
<1> HIDE DEF new
<1>3. ~WritesHere(new) BY <1>2 DEF WritesHere
<1> QED BY <1>1, <1>3, IdleGetOne

LEMMA BreakGetOne == ASSUME TypeInv, OneInv, NEW g \in Gets, BreakGet(g) PROVE OneInv'
<1>1. PICK deadline \in BOOLEAN :
        LET pc == IF deadline /\ get[g].left > 1 THEN "again" ELSE "false" IN
        get' = [get EXCEPT ![g] = [EndedGet(get[g], pc) EXCEPT !.left = get[g].left - 1]]
  BY DEF BreakGet
<1> DEFINE pc == IF deadline /\ get[g].left > 1 THEN "again" ELSE "false"
           new == [EndedGet(get[g], pc) EXCEPT !.left = get[g].left - 1]
<1>2. get' = [get EXCEPT ![g] = new] /\ UNCHANGED <<srv, cli, hand>> BY <1>1 DEF BreakGet
<1> HIDE DEF pc
<1>3. new.got = 0 BY DEF EndedGet
<1> HIDE DEF new
<1>4. ~WritesHere(new) BY <1>3 DEF WritesHere
<1> QED BY <1>2, <1>4, IdleGetOne

LEMMA CrashOne == ASSUME TypeInv, OneInv, Crash PROVE OneInv'
<1>1. ASSUME NEW p \in Puts, NEW a \in Attempts PROVE ~Writes(hand'[p][a])
  <2>1. hand[p][a] \in HandState BY DEF TypeInv, AllHandlers
  <2>2. hand'[p][a] = IF hand[p][a].pc \in Running
                      THEN Ended(Lose(hand[p][a]), "gone") ELSE hand[p][a]
    BY DEF Crash
  <2>3. Ended(Lose(hand[p][a]), "gone").got = 0 BY <2>1, EndedOK
  <2>4. CASE hand[p][a].pc \in Running
    <3>1. hand'[p][a].got = 0 BY <2>2, <2>3, <2>4
    <3> QED BY <3>1 DEF Writes
  <2>5. CASE hand[p][a].pc \notin Running
    <3>1. hand'[p][a] = hand[p][a] BY <2>2, <2>5
    <3> QED BY <2>5, <3>1 DEF Writes, Running
  <2> QED BY <2>4, <2>5
<1>2. HandlersWrite(hand', srv') BY <1>1 DEF HandlersWrite
<1>3. ASSUME NEW g \in Gets
      PROVE  /\ get'[g] = get[g] \/ get'[g].got = 0
             /\ Reads(get'[g], srv)
  <2>1. get'[g] = IF get[g].pc = "stream" THEN EndedGet(get[g], "false") ELSE get[g]
    BY DEF Crash
  <2>2. EndedGet(get[g], "false").got = 0 BY DEF EndedGet
  <2>3. Reads(get[g], srv) BY DEF OneInv, GetsWrite
  <2> QED BY <2>1, <2>2, <2>3 DEF Reads
<1>4. GetsWrite(get', srv', cli')
  <2>1. UNCHANGED <<srv, cli>> BY DEF Crash
  <2>2. ASSUME NEW g \in Gets, WritesHere(get'[g]) PROVE get'[g] = get[g]
    BY <1>3, <2>2 DEF WritesHere
  <2> QED BY <1>3, <2>1, <2>2 DEF GetsWrite, OneInv
<1> QED BY <1>2, <1>4 DEF OneInv, Crash

LEMMA CallerOne ==
  ASSUME TypeInv, OneInv, NEW p \in Puts, Begin(p) \/ AttemptEnds(p) \/ BreakPut(p) \/ Die(p)
  PROVE  OneInv'
<1>0. NewHandler \in HandState /\ ~Writes(NewHandler)
  BY NewHandlerOK DEF NewHandler, NoHandler, Writes
<1>1. CASE Begin(p)
  <2>1. 1 \in Attempts BY AttemptsAssumption DEF Attempts
  <2>2. hand' = [hand EXCEPT ![p][1] = NewHandler] /\ UNCHANGED <<srv, cli, get>>
    BY <1>1 DEF Begin
  <2> QED BY <1>0, <2>1, <2>2, IdleStepOne
<1>2. CASE AttemptEnds(p)
  <2>1. UNCHANGED <<srv, cli, get>> /\ put[p].pc = "streaming" BY <1>2 DEF AttemptEnds
  <2>2. CASE put[p].left - 1 > 0 /\ hand' = [hand EXCEPT ![p][Current(p) + 1] = NewHandler]
    <3>1. Current(p) + 1 \in Attempts BY <2>1, <2>2, CurrentIsAttempt
    <3> QED BY <1>0, <2>1, <2>2, <3>1, IdleStepOne
  <2>3. CASE hand' = hand BY <2>1, <2>3 DEF OneInv
  <2> QED BY <1>2, <2>2, <2>3 DEF AttemptEnds
<1>3. CASE BreakPut(p)
  <2>1. Current(p) \in Attempts BY <1>3, CurrentIsAttempt DEF BreakPut
  <2> QED BY <1>3, <2>1, LoseOne DEF BreakPut
<1>4. CASE Die(p)
  <2>1. Current(p) \in Attempts BY <1>4, CurrentIsAttempt DEF Die
  <2> QED BY <1>4, <2>1, LoseOne DEF Die
<1> QED BY <1>1, <1>2, <1>3, <1>4

LEMMA NextOne == Collisions = FALSE /\ TypeInv /\ OneInv /\ [Next]_vars => OneInv'
<1> SUFFICES ASSUME Collisions = FALSE, TypeInv, OneInv, [Next]_vars PROVE OneInv' OBVIOUS
<1>1. CASE UNCHANGED vars
  BY <1>1 DEF vars, OneInv
<1>2. ASSUME NEW p \in Puts, NEW a \in Attempts, Serve(p, a) \/ Refuse(p, a) \/ RenameFails(p, a)
      PROVE  OneInv'
  BY <1>2, ReceiveOne, RenameOne, RenameFailsOne, FlushOne, RefuseOne DEF Serve
<1>3. ASSUME NEW p \in Puts, Begin(p) \/ AttemptEnds(p) \/ BreakPut(p) \/ Die(p) PROVE OneInv'
  BY <1>3, CallerOne
<1>4. ASSUME NEW g \in Gets, Open(g) \/ GetStep(g) \/ BreakGet(g) PROVE OneInv'
  BY <1>4, OpenOne, ChunkStepOne, InstallOne, FlushGetOne, BreakGetOne DEF GetStep
<1> QED BY <1>1, <1>2, <1>3, <1>4, CrashOne DEF Next

\* If running handlers have drawn different numbers, no file on either side ever has
\* chunks of two versions, whatever breaks and whoever dies (afsfuse_putFile,
\* rpc_getFile).
THEOREM NeverMixes == Collisions = FALSE => (Spec => []OneVersion)
<1> SUFFICES ASSUME Collisions = FALSE PROVE Spec => []OneVersion OBVIOUS
<1>1. Init => TypeInv /\ OneInv BY InitFits, InitOne
<1>2. TypeInv /\ OneInv /\ [Next]_vars => (TypeInv /\ OneInv)' BY NextFits, NextOne
<1>3. Spec => [](TypeInv /\ OneInv) BY <1>1, <1>2, PTL DEF Spec
<1> QED BY <1>3, InvIsOneVersion, PTL

-----------------------------------------------------------------------------
(* What an answer means.                                                   *)

Whole(p, h) == h.got = Messages(Length[p])

\* The puts whose file has been in place, or was when another replaced it.
Settled == applied \cup replaced

HandlerStored(p, h, disk, st, sn) ==
  /\ h.got <= Messages(Length[p])
  /\ h.pc = "unplaced" => "rename" \in sn
  /\ sn \cap {"tail", "rename"} = {} /\ p \notin Missing /\ h.link = "up"
     => /\ h.pc = "flush" =>
             Whole(p, h) /\ (p \in st \/ (InBuffer(p, h.got) /\ disk.file = h.ino))
        /\ h.pc = "reply" => p \in st
PutStored(p, r, st, sn) ==
  sn \cap {"tail", "rename"} = {} /\ p \notin Missing /\ r.pc = "true" => p \in st

StoredInv ==
  /\ \A p \in Puts, a \in Attempts : HandlerStored(p, hand[p][a], srv, Settled, seen)
  /\ \A p \in Puts : PutStored(p, put[p], Settled, seen)

\* Who loses the server's file before its last chunk is written is noted.
FileKept == srv'.file = srv.file \/ Unfinished \subseteq Settled'
Grown == seen \subseteq seen' /\ Settled \subseteq Settled' /\ FileKept

LEMMA MessagesOfPut == \A p \in Puts : Messages(Length[p]) \in Nat \ {0}
BY VersionsAssumption DEF Messages, Versions

LEMMA NoHandlerStored ==
  \A p \in Puts : \A disk, st, sn :
    HandlerStored(p, NoHandler, disk, st, sn) /\ HandlerStored(p, NewHandler, disk, st, sn)
<1>1. NewHandler.got = 0 /\ NewHandler.pc = "receive" /\ NoHandler.got = 0 /\ NoHandler.pc = "none"
  BY DEF NewHandler, NoHandler
<1> QED BY <1>1, MessagesOfPut DEF HandlerStored

LEMMA InitStored == Init => StoredInv
<1> SUFFICES ASSUME Init PROVE StoredInv OBVIOUS
<1>1. \A p \in Puts, a \in Attempts : hand[p][a] = NoHandler BY DEF Init
<1>2. \A p \in Puts : put[p].pc = "idle" BY DEF Init
<1> QED BY <1>1, <1>2, NoHandlerStored DEF StoredInv, PutStored

\* Handlers and calls change as stated; faults and stored files are not forgotten.
LEMMA StoredStep ==
  ASSUME StoredInv, Grown,
         \A p \in Puts, a \in Attempts :
           hand'[p][a] = hand[p][a] \/ HandlerStored(p, hand'[p][a], srv', Settled', seen'),
         \A p \in Puts : put'[p] = put[p] \/ PutStored(p, put'[p], Settled', seen')
  PROVE  StoredInv'
<1>1. ASSUME NEW p \in Puts, NEW a \in Attempts
      PROVE  HandlerStored(p, hand'[p][a], srv', Settled', seen')
  <2>1. CASE hand'[p][a] = hand[p][a]
    <3> DEFINE h == hand[p][a]
    <3>1. HandlerStored(p, h, srv, Settled, seen) BY DEF StoredInv
    <3>2. h.pc = "flush" /\ InBuffer(p, h.got) /\ h.ino = srv.file => p \in Unfinished
      BY DEF Unfinished
    <3> HIDE DEF h
    <3>3. HandlerStored(p, h, srv', Settled', seen')
      BY <3>1, <3>2 DEF HandlerStored, Grown, FileKept
    <3> QED BY <2>1, <3>3 DEF h
  <2> QED BY <2>1
<1>2. ASSUME NEW p \in Puts PROVE PutStored(p, put'[p], Settled', seen')
  BY DEF StoredInv, PutStored, Grown
<1> QED BY <1>1, <1>2 DEF StoredInv

\* One handler changes.
LEMMA HandlerStep ==
  ASSUME TypeInv, StoredInv, Grown, put' = put,
         NEW p \in Puts, NEW a \in Attempts, NEW h, hand' = [hand EXCEPT ![p][a] = h],
         HandlerStored(p, h, srv', Settled', seen')
  PROVE  StoredInv'
<1>1. hand'[p][a] = h
      /\ \A q \in Puts, b \in Attempts : ~(q = p /\ b = a) => hand'[q][b] = hand[q][b]
  BY DEF TypeInv, AllHandlers
<1>2. \A q \in Puts, b \in Attempts :
        hand'[q][b] = hand[q][b] \/ HandlerStored(q, hand'[q][b], srv', Settled', seen')
  BY <1>1
<1> QED BY <1>2, StoredStep

LEMMA FaultSeen == \A kind : Fault(kind) => seen \subseteq seen' /\ kind \in seen'
BY DEF Fault

\* A run is the whole file when it is as long.
LEMMA RunIsFile ==
  ASSUME NEW data \in Seq(Chunks), NEW v \in Versions, Len(data) = Length[v],
         \A j \in 1 .. Len(data) : data[j] = v
  PROVE  data = WholeFile(v)
<1> DEFINE n == Length[v]
           f == [k \in 1 .. n |-> v]
<1>1. n \in Nat /\ v \in Chunks BY VersionsAssumption, ChunksOfPuts
<1>2. f \in [1 .. n -> Chunks] BY <1>1
<1>3. \A j \in 1 .. n : f[j] = v OBVIOUS
<1> HIDE DEF f, n
<1>4. f \in Seq(Chunks) /\ Len(f) = n BY <1>1, <1>2
<1>5. Len(data) = n BY DEF n
<1>6. data = f BY <1>3, <1>4, <1>5, SeqEqual
<1> QED BY <1>6 DEF f, n, WholeFile

\* The inode of a handler that has received all messages holds all of the file but
\* what is in the buffer.
LEMMA HeldIsFile ==
  ASSUME TypeInv, OneInv, NEW p \in Puts, NEW a \in Attempts, Writes(hand[p][a]),
         Whole(p, hand[p][a])
  PROVE  LET h == hand[p][a] IN
         /\ h.got \in Nat \ {0} /\ h.suf \in Suffixes /\ h.ino \in 1 .. Len(srv.nodes)
         /\ HasTemp(h) => srv.temp[h.suf] = h.ino
         /\ ~InBuffer(p, h.got) => srv.nodes[h.ino] = WholeFile(p)
         /\ InBuffer(p, h.got) => WriteAt(srv.nodes[h.ino], h.got, p) = WholeFile(p)
<1> DEFINE h == hand[p][a]
<1>1. /\ h.got \in Nat /\ h.got = Messages(Length[p]) /\ h.got > 0
      /\ h.suf \in Suffixes /\ h.ino \in 1 .. Len(srv.nodes)
  <2>1. /\ h.got \in Nat
        /\ h.got > 0 => h.ino \in 1 .. Len(srv.nodes) /\ h.suf \in Suffixes
    BY HandlerHas
  <2>2. h.got = Messages(Length[p]) BY DEF Whole
  <2> HIDE DEF h
  <2> QED BY <2>1, <2>2, MessagesOfPut
<1>2. Holds(srv, h.suf, h.ino, HasTemp(h), SentBy(p), h.got)
  BY DEF OneInv, HandlersWrite
<1> HIDE DEF h
<1>3. /\ HasTemp(h) => srv.temp[h.suf] = h.ino
      /\ Len(srv.nodes[h.ino]) = Written(SentBy(p), h.got)
      /\ \A j \in 1 .. Written(SentBy(p), h.got) : srv.nodes[h.ino][j] = SentBy(p)
  BY <1>2 DEF Holds
<1>4. p \in Versions /\ Length[p] \in Nat /\ p # NoChunk /\ p \in Chunks
  BY VersionsAssumption, ChunksOfPuts DEF Versions
<1>5. srv.nodes[h.ino] \in Seq(Chunks)
  <2>1. srv.nodes \in Seq(Seq(Chunks)) BY DiskType DEF TypeInv
  <2> QED BY <1>1, <2>1
<1>6. ASSUME ~InBuffer(p, h.got) PROVE srv.nodes[h.ino] = WholeFile(p)
  <2>1. Written(SentBy(p), h.got) = Length[p]
    BY <1>1, <1>4, <1>6 DEF SentBy, Written, Messages
  <2>2. \A j \in 1 .. Length[p] : srv.nodes[h.ino][j] = p BY <1>3, <1>4, <2>1 DEF SentBy
  <2> QED BY <1>3, <1>4, <1>5, <2>1, <2>2, RunIsFile
<1>7. ASSUME InBuffer(p, h.got) PROVE WriteAt(srv.nodes[h.ino], h.got, p) = WholeFile(p)
  <2> DEFINE data == srv.nodes[h.ino]
             new == WriteAt(data, h.got, p)
  <2>1. Length[p] > 0 /\ h.got = Length[p] /\ SentBy(p) = p /\ Written(SentBy(p), h.got) = h.got - 1
    BY <1>1, <1>4, <1>7, VersionsAssumption DEF InBuffer, SentBy, Written
  <2>2. Len(data) = h.got - 1 /\ \A j \in 1 .. h.got - 1 : data[j] = p BY <1>3, <2>1
  <2>3. data \in Seq(Chunks) /\ h.got \in Nat \ {0} /\ p \in Chunks BY <1>1, <1>4, <1>5
  <2> HIDE DEF data
  <2>4. /\ new \in Seq(Chunks) /\ Len(new) = h.got /\ new[h.got] = p
        /\ \A j \in 1 .. h.got - 1 : new[j] = data[j]
    BY <2>2, <2>3, WriteAtEnd
  <2> HIDE DEF new
  <2>5. \A j \in 1 .. Length[p] : j = h.got \/ j \in 1 .. h.got - 1 BY <1>1, <2>1
  <2>6. \A j \in 1 .. Length[p] : new[j] = p BY <2>2, <2>4, <2>5
  <2>7. new = WholeFile(p) BY <1>4, <2>1, <2>4, <2>6, RunIsFile
  <2> QED BY <2>7 DEF new, data
<1> QED BY <1>1, <1>3, <1>6, <1>7 DEF h

LEMMA RenameStored ==
  ASSUME TypeInv, OneInv, StoredInv, NEW p \in Puts, NEW a \in Attempts, Rename(p, a)
  PROVE  StoredInv'
<1> DEFINE h == hand[p][a]
           new == [h EXCEPT !.pc = "flush"]
<1>1. /\ hand' = [hand EXCEPT ![p][a] = new] /\ h.pc = "receive"
      /\ h.link = "down" \/ ~More(p, h)
      /\ srv' = IF h.got > 0 THEN Placed(srv, h.suf) ELSE srv
      /\ applied' = IF InPlace(p, h, srv') THEN applied \cup {p} ELSE applied
      /\ replaced' = IF srv'.file # srv.file THEN replaced \cup Unfinished ELSE replaced
      /\ UNCHANGED <<put, seen>>
  BY DEF Rename, StreamEnded, noFault, TypeInv, AllHandlers
<1>2. h \in HandState /\ h.got \in Nat /\ HandlerStored(p, h, srv, Settled, seen)
  BY HandlerHas DEF StoredInv
<1>3. new.got = h.got /\ new.pc = "flush" /\ new.link = h.link /\ new.ino = h.ino
  BY <1>2 DEF HandState
<1>4. ASSUME p \notin Missing, h.link = "up"
      PROVE  Whole(p, h) /\ (p \in applied' \/ (InBuffer(p, h.got) /\ srv'.file = h.ino))
  <2>1. Whole(p, h)
    <3> HIDE DEF h
    <3> QED BY <1>1, <1>2, <1>4, MessagesOfPut DEF More, HandlerStored, Whole
  <2>2. h.got > 0
    <3> HIDE DEF h
    <3> QED BY <2>1, MessagesOfPut DEF Whole
  <2>3. Writes(h) /\ HasTemp(h) BY <1>1, <2>2 DEF Writes, HasTemp
  <2>4. /\ h.got \in Nat \ {0} /\ h.suf \in Suffixes /\ h.ino \in 1 .. Len(srv.nodes)
        /\ srv.temp[h.suf] = h.ino
        /\ ~InBuffer(p, h.got) => srv.nodes[h.ino] = WholeFile(p)
    BY <2>1, <2>3, HeldIsFile
  <2> HIDE DEF h, new
  <2>5. srv'.file = h.ino /\ srv'.nodes = srv.nodes
    BY <1>1, <2>2, <2>4, PlacedFacts DEF TypeInv, NoNode
  <2>6. ~InBuffer(p, h.got) => p \in applied' BY <1>1, <2>2, <2>4, <2>5 DEF InPlace
  <2> QED BY <2>1, <2>5, <2>6
<1> HIDE DEF h, new
<1>5. Grown BY <1>1 DEF Grown, Settled, FileKept
<1>6. HandlerStored(p, new, srv', Settled', seen')
  BY <1>2, <1>3, <1>4 DEF HandlerStored, Whole, Settled
<1> QED BY <1>1, <1>5, <1>6, HandlerStep

LEMMA FlushStored ==
  ASSUME TypeInv, OneInv, StoredInv, NEW p \in Puts, NEW a \in Attempts, Flush(p, a)
  PROVE  StoredInv'
<1> DEFINE h == hand[p][a]
           new == Ended(h, "reply")
<1>1. /\ h.pc \in {"flush", "unplaced"} /\ hand' = [hand EXCEPT ![p][a] = new]
      /\ UNCHANGED <<put, replaced>>
      /\ \/ /\ Fault("tail") /\ UNCHANGED <<srv, applied>>
         \/ /\ UNCHANGED seen
            /\ srv' = IF InBuffer(p, h.got) THEN Wrote(srv, h.ino, h.got, p) ELSE srv
            /\ applied' = IF InPlace(p, h, srv') THEN applied \cup {p} ELSE applied
  BY DEF Flush, noFault
<1>2. /\ h \in HandState /\ h.got \in Nat /\ HandlerStored(p, h, srv, Settled, seen)
      /\ h.got > 0 => h.ino \in 1 .. Len(srv.nodes)
  BY HandlerHas DEF StoredInv
<1>3. new.got = 0 /\ new.pc = "reply" /\ new.link = h.link
  <2>1. "reply" \in Running \cup {"none", "gone"} BY DEF Running
  <2> HIDE DEF h
  <2> QED BY <1>2, <2>1, EndedOK
<1>4. InBuffer(p, h.got) /\ h.got > 0 =>
        LET d == Wrote(srv, h.ino, h.got, p) IN
        d.file = srv.file /\ d.nodes[h.ino] = WriteAt(srv.nodes[h.ino], h.got, p)
  <2> HIDE DEF h
  <2>1. p \in Chunks BY ChunksOfPuts DEF Versions
  <2> QED BY <1>2, <2>1, WroteFacts DEF TypeInv
<1>5. Writes(h) /\ Whole(p, h) /\ InBuffer(p, h.got) =>
        WriteAt(srv.nodes[h.ino], h.got, p) = WholeFile(p)
  BY HeldIsFile
<1> HIDE DEF new, h
<1>6. srv'.file = srv.file
  <2>1. InBuffer(p, h.got) => h.got > 0 BY <1>2, VersionsAssumption DEF InBuffer
  <2> QED BY <1>1, <1>4, <2>1
<1>7. Grown /\ (seen' \cap {"tail", "rename"} = {} => seen' = seen)
  BY <1>1, <1>6, FaultSeen DEF Grown, Settled, FileKept
<1>8. HandlerStored(p, new, srv', Settled', seen')
  <2> SUFFICES ASSUME seen' \cap {"tail", "rename"} = {}, p \notin Missing, h.link = "up"
               PROVE  p \in Settled'
    BY <1>3, MessagesOfPut DEF HandlerStored
  <2>1. seen \cap {"tail", "rename"} = {} BY <1>7
  <2>2. h.pc = "flush" BY <1>1, <1>2, <2>1 DEF HandlerStored
  <2>3. Whole(p, h) /\ (p \in Settled \/ (InBuffer(p, h.got) /\ srv.file = h.ino))
    BY <1>2, <2>1, <2>2 DEF HandlerStored
  <2>4. SUFFICES ASSUME InBuffer(p, h.got), srv.file = h.ino PROVE p \in applied'
    BY <1>7, <2>3 DEF Grown, Settled
  <2>5. h.got > 0 BY <2>3, MessagesOfPut DEF Whole
  <2>6. Writes(h) BY <2>2, <2>5 DEF Writes
  <2>7. ~Fault("tail") BY FaultSeen
  <2> QED BY <1>1, <1>4, <1>5, <2>3, <2>4, <2>5, <2>6, <2>7 DEF InPlace
<1> QED BY <1>1, <1>7, <1>8, HandlerStep

LEMMA ServeStored ==
  ASSUME TypeInv, OneInv, StoredInv, NEW p \in Puts, NEW a \in Attempts,
         Serve(p, a) \/ Refuse(p, a) \/ RenameFails(p, a)
  PROVE  StoredInv'
<1> DEFINE h == hand[p][a]
<1>1. h \in HandState /\ h.got \in Nat /\ HandlerStored(p, h, srv, Settled, seen) /\ DiskOK(srv)
      /\ h.ino \in Nat /\ (h.got > 0 => h.ino \in 1 .. Len(srv.nodes) /\ h.suf \in Suffixes)
  BY HandlerHas DEF StoredInv, TypeInv
<1>2. Messages(Length[p]) \in Nat \ {0} BY MessagesOfPut
<1>3. ASSUME NEW s \in Suffixes, Receive(p, a, s) PROVE StoredInv'
  <2> DEFINE k == h.got + 1
             v == IF Length[p] = 0 THEN NoChunk ELSE p
             node == NodeOf(srv, s, h.ino, k)
             new == [h EXCEPT !.got = k, !.suf = s, !.ino = node]
  <2>1. /\ hand' = [hand EXCEPT ![p][a] = new] /\ h.pc = "receive"
        /\ srv' = Received(srv, s, h.ino, k, v)
        /\ h.got < Messages(Length[p]) /\ UNCHANGED <<put, seen, history>>
    BY <1>3 DEF Receive, More, noFault
  <2>2. new.got = h.got + 1 /\ new.pc = "receive" BY <1>1, <2>1 DEF HandState
  <2>3. k \in Nat \ {0} /\ (k # 1 => h.ino \in 1 .. Len(srv.nodes)) BY <1>1
  <2>4. v \in Chunks \cup {NoChunk} BY ChunksOfPuts DEF Versions
  <2> HIDE DEF new, h, v, k
  <2>5. Reception(srv, srv', node, s, h.ino, k, v) BY <1>1, <2>1, <2>3, <2>4, ReceivedFacts
  <2>6. Grown BY <2>1, <2>5 DEF Grown, FileKept, Reception, Settled
  <2>7. HandlerStored(p, new, srv', Settled', seen')
    BY <1>1, <1>2, <2>1, <2>2 DEF HandlerStored
  <2> QED BY <2>1, <2>6, <2>7, HandlerStep
<1>4. CASE Refuse(p, a)
  <2> DEFINE new == Ended(h, "refused")
  <2>1. /\ hand' = [hand EXCEPT ![p][a] = new] /\ UNCHANGED <<put, history>> /\ Fault("disk")
        /\ srv' = IF h.got > 0 THEN Removed(srv, h.suf) ELSE srv
    BY <1>4 DEF Refuse
  <2> HIDE DEF h
  <2>2. new.got = 0 /\ new.pc = "refused"
    <3>1. "refused" \in Running \cup {"none", "gone"} BY DEF Running
    <3> QED BY <1>1, <3>1, EndedOK
  <2> HIDE DEF new
  <2>3. Grown BY <1>1, <2>1, FaultSeen, RemovedFacts DEF Grown, FileKept, Settled
  <2>4. HandlerStored(p, new, srv', Settled', seen') BY <1>2, <2>2 DEF HandlerStored
  <2> QED BY <2>1, <2>3, <2>4, HandlerStep
<1>5. CASE RenameFails(p, a)
  <2> DEFINE new == [h EXCEPT !.pc = "unplaced"]
  <2>1. /\ hand' = [hand EXCEPT ![p][a] = new] /\ UNCHANGED <<srv, put, history>> /\ Fault("rename")
    BY <1>5 DEF RenameFails, TypeInv, AllHandlers
  <2>2. new.got = h.got /\ new.pc = "unplaced" BY <1>1 DEF HandState
  <2> HIDE DEF new, h
  <2>3. Grown BY <2>1, FaultSeen DEF Grown, FileKept, Settled
  <2>4. HandlerStored(p, new, srv', Settled', seen')
    BY <1>1, <2>1, <2>2, FaultSeen DEF HandlerStored
  <2> QED BY <2>1, <2>3, <2>4, HandlerStep
<1> QED BY <1>3, <1>4, <1>5, RenameStored, FlushStored DEF Serve

\* A stream that is lost says nothing any more.
LEMMA LostStored ==
  ASSUME TypeInv, StoredInv, NEW p \in Puts, NEW a \in Attempts, NEW disk, NEW st, NEW sn,
         seen \subseteq sn
  PROVE  HandlerStored(p, Lose(hand[p][a]), disk, st, sn)
<1>1. hand[p][a] \in HandState /\ HandlerStored(p, hand[p][a], srv, Settled, seen)
  BY HandlerHas DEF StoredInv
<1>2. /\ Lose(hand[p][a]).link = "down" /\ Lose(hand[p][a]).got = hand[p][a].got
      /\ Lose(hand[p][a]).pc = hand[p][a].pc
  BY <1>1, EndedOK DEF Running
<1> QED BY <1>1, <1>2 DEF HandlerStored

LEMMA CallerStored ==
  ASSUME TypeInv, StoredInv, NEW p \in Puts,
         Begin(p) \/ AttemptEnds(p) \/ BreakPut(p) \/ Die(p)
  PROVE  StoredInv'
<1>0. put \in [Puts -> PutState] BY DEF TypeInv, AllPuts
<1>1. \A disk, st, sn : HandlerStored(p, NewHandler, disk, st, sn) BY NoHandlerStored
<1>2. ASSUME NEW a \in Attempts, hand' = [hand EXCEPT ![p][a] = NewHandler]
      PROVE  \A q \in Puts, b \in Attempts :
               hand'[q][b] = hand[q][b] \/ HandlerStored(q, hand'[q][b], srv', Settled', seen')
  <2>1. hand'[p][a] = NewHandler
        /\ \A q \in Puts, b \in Attempts : ~(q = p /\ b = a) => hand'[q][b] = hand[q][b]
    BY <1>2 DEF TypeInv, AllHandlers
  <2> QED BY <1>1, <2>1
<1>3. CASE Begin(p)
  <2>1. 1 \in Attempts BY AttemptsAssumption DEF Attempts
  <2>2. hand' = [hand EXCEPT ![p][1] = NewHandler] /\ UNCHANGED <<srv, seen, history>>
    BY <1>3 DEF Begin, noFault
  <2>3. \A q \in Puts : put'[q] = put[q] \/ PutStored(q, put'[q], Settled', seen')
    BY <1>0, <1>3 DEF Begin, PutStored, PutState
  <2>4. Grown BY <2>2 DEF Grown, FileKept, Settled
  <2> QED BY <1>2, <2>1, <2>2, <2>3, <2>4, StoredStep
<1>4. CASE AttemptEnds(p)
  <2> DEFINE left == put[p].left - 1
             h == hand[p][Current(p)]
  <2>1. UNCHANGED <<srv, seen, history>> /\ put[p].pc = "streaming" BY <1>4 DEF AttemptEnds, noFault
  <2>2. Grown BY <2>1 DEF Grown, FileKept, Settled
  <2>3. Current(p) \in Attempts /\ (left > 0 => Current(p) + 1 \in Attempts)
    BY <2>1, CurrentIsAttempt
  <2>4. CASE /\ left > 0 /\ put' = [put EXCEPT ![p].left = left]
             /\ hand' = [hand EXCEPT ![p][Current(p) + 1] = NewHandler]
    <3>1. \A q \in Puts : put'[q] = put[q] \/ PutStored(q, put'[q], Settled', seen')
      BY <1>0, <2>1, <2>4 DEF PutStored, PutState
    <3>2. Current(p) + 1 \in Attempts BY <2>3, <2>4
    <3> QED BY <1>2, <2>2, <2>4, <3>1, <3>2, StoredStep
  <2>5. CASE StatusOk(h) /\ put' = [put EXCEPT ![p] = [pc |-> "true", left |-> left]] /\ hand' = hand
    <3>1. HandlerStored(p, h, srv, Settled, seen) BY <2>3 DEF StoredInv
    <3>2. PutStored(p, put'[p], Settled', seen')
      <4>1. seen' = seen /\ Settled' = Settled BY <2>1 DEF Settled
      <4>2. h.pc = "reply" /\ h.link = "up" BY <2>5 DEF StatusOk
      <4> HIDE DEF h
      <4> QED BY <3>1, <4>1, <4>2 DEF HandlerStored, PutStored
    <3>3. \A q \in Puts : put'[q] = put[q] \/ PutStored(q, put'[q], Settled', seen')
      BY <1>0, <2>5, <3>2
    <3> QED BY <2>2, <2>5, <3>3, StoredStep
  <2>6. CASE put' = [put EXCEPT ![p] = [pc |-> "false", left |-> left]] /\ hand' = hand
    <3>1. \A q \in Puts : put'[q] = put[q] \/ PutStored(q, put'[q], Settled', seen')
      BY <1>0, <2>6 DEF PutStored
    <3> QED BY <2>2, <2>6, <3>1, StoredStep
  <2> QED BY <1>4, <2>4, <2>5, <2>6 DEF AttemptEnds
<1>5. ASSUME NEW kind, Fault(kind), UNCHANGED <<srv, history>>, put[p].pc = "streaming",
             hand' = [hand EXCEPT ![p][Current(p)] = Lose(hand[p][Current(p)])],
             put' = put \/ put' = [put EXCEPT ![p].pc = "dead"]
      PROVE  StoredInv'
  <2>1. Current(p) \in Attempts BY <1>5, CurrentIsAttempt
  <2>2. hand'[p][Current(p)] = Lose(hand[p][Current(p)])
        /\ \A q \in Puts, b \in Attempts : ~(q = p /\ b = Current(p)) => hand'[q][b] = hand[q][b]
    BY <1>5, <2>1 DEF TypeInv, AllHandlers
  <2>3. \A q \in Puts, b \in Attempts :
          hand'[q][b] = hand[q][b] \/ HandlerStored(q, hand'[q][b], srv', Settled', seen')
    BY <1>5, <2>1, <2>2, FaultSeen, LostStored
  <2>4. \A q \in Puts : put'[q] = put[q] \/ PutStored(q, put'[q], Settled', seen')
    BY <1>0, <1>5 DEF PutStored, PutState
  <2>5. Grown BY <1>5, FaultSeen DEF Grown, FileKept, Settled
  <2> QED BY <2>3, <2>4, <2>5, StoredStep
<1>6. CASE BreakPut(p) BY <1>5, <1>6 DEF BreakPut
<1>7. CASE Die(p) BY <1>5, <1>7 DEF Die
<1> QED BY <1>3, <1>4, <1>6, <1>7

LEMMA CrashStored == ASSUME TypeInv, StoredInv, Crash PROVE StoredInv'
<1>1. ASSUME NEW p \in Puts, NEW a \in Attempts
      PROVE  hand'[p][a] = hand[p][a] \/ HandlerStored(p, hand'[p][a], srv', Settled', seen')
  <2>1. hand[p][a] \in HandState BY HandlerHas
  <2>2. hand'[p][a] = hand[p][a] \/ hand'[p][a] = Ended(Lose(hand[p][a]), "gone") BY DEF Crash
  <2> DEFINE new == Ended(Lose(hand[p][a]), "gone")
  <2>3. new.pc = "gone" /\ new.got = 0 BY <2>1, EndedOK
  <2> HIDE DEF new
  <2>4. HandlerStored(p, new, srv', Settled', seen') BY <2>3, MessagesOfPut DEF HandlerStored
  <2> QED BY <2>2, <2>4 DEF new
<1>2. Grown /\ put' = put BY FaultSeen DEF Crash, Grown, FileKept, Settled
<1> QED BY <1>1, <1>2, StoredStep

LEMMA GetStored ==
  ASSUME TypeInv, StoredInv, NEW g \in Gets, Open(g) \/ GetStep(g) \/ BreakGet(g)
  PROVE  StoredInv'
<1>1. hand' = hand /\ put' = put /\ Grown
  BY FaultSeen DEF Grown, FileKept, Settled, Open, GetStep, Chunk, Install, FlushGet, BreakGet, noFault
<1> QED BY <1>1, StoredStep

LEMMA NextStored == TypeInv /\ OneInv /\ StoredInv /\ [Next]_vars => StoredInv'
<1> SUFFICES ASSUME TypeInv, OneInv, StoredInv, [Next]_vars PROVE StoredInv' OBVIOUS
<1>1. CASE UNCHANGED vars
  BY <1>1 DEF vars, StoredInv, Settled
<1>2. ASSUME NEW p \in Puts, NEW a \in Attempts,
             Serve(p, a) \/ Refuse(p, a) \/ RenameFails(p, a)
      PROVE  StoredInv'
  BY <1>2, ServeStored
<1> QED BY <1>1, <1>2, CallerStored, GetStored, CrashStored DEF Next

\* A put that has returned true has had its whole file in place on the server's disk,
\* or was replaced there before its buffer was written, for any number of attempts and
\* faults except those that the property names (rpc_putFile, afsfuse_putFile).  That
\* no drawn number is in use is needed: two handlers would write to one inode.
THEOREM TrueIsStored == Collisions = FALSE => (Spec => []TrueMeansStored)
<1> SUFFICES ASSUME Collisions = FALSE PROVE Spec => []TrueMeansStored OBVIOUS
<1>1. Init => TypeInv /\ OneInv /\ StoredInv BY InitFits, InitOne, InitStored
<1>2. TypeInv /\ OneInv /\ StoredInv /\ [Next]_vars => (TypeInv /\ OneInv /\ StoredInv)'
  BY NextFits, NextOne, NextStored
<1>3. StoredInv => TrueMeansStored BY DEF StoredInv, PutStored, TrueMeansStored, Settled
<1>4. Spec => [](TypeInv /\ OneInv /\ StoredInv) BY <1>1, <1>2, PTL DEF Spec
<1> QED BY <1>3, <1>4, PTL

-----------------------------------------------------------------------------
(* What is left on the disks.                                              *)

\* A temporary file is that of a handler or a call which is receiving.  The handlers
\* of attempts not yet made are no handlers: nobody's is started over.
HandlerHolds(h, s) == h.pc = "receive" /\ h.got > 0 /\ h.suf = s
GetHolds(r, s) == r.pc = "stream" /\ r.got > 0 /\ r.suf = s
ServerHolds ==
  seen \cap {"crash", "rename"} = {} =>
    \A s \in Suffixes : srv.temp[s] # NoNode =>
      \E p \in Puts, a \in Attempts : HandlerHolds(hand[p][a], s)
ClientHolds ==
  "crash" \notin seen /\ "break" \notin seen =>
    \A s \in Suffixes : cli.temp[s] # NoNode => \E g \in Gets : GetHolds(get[g], s)
InOrder(r, hs) ==
  /\ r.pc = "idle" => r.left = PutAttempts /\ \A a \in Attempts : hs[a].pc = "none"
  /\ r.pc = "streaming" =>
       \A a \in Attempts : a > PutAttempts + 1 - r.left => hs[a].pc = "none"

LeftInv == ServerHolds /\ ClientHolds /\ \A p \in Puts : InOrder(put[p], hand[p])

LEMMA InvIsNothingLeft == LeftInv => NothingLeft
BY DEF LeftInv, ServerHolds, ClientHolds, HandlerHolds, GetHolds, NothingLeft, Quiet

LEMMA InitLeft == Init => LeftInv
BY DEF Init, LeftInv, ServerHolds, ClientHolds, InOrder, NoHandler

\* One handler changes, and the disk of the server.
LEMMA HandlerLeft ==
  ASSUME TypeInv, LeftInv, seen \subseteq seen', UNCHANGED <<put, cli, get>>,
         NEW p \in Puts, NEW a \in Attempts, NEW h, hand' = [hand EXCEPT ![p][a] = h],
         hand[p][a].pc # "none",
         "rename" \notin seen' => \A t \in Suffixes : srv'.temp[t] # NoNode =>
           \/ HandlerHolds(h, t)
           \/ srv.temp[t] # NoNode /\ ~HandlerHolds(hand[p][a], t)
  PROVE  LeftInv'
<1>1. /\ hand'[p][a] = h
      /\ \A q \in Puts, b \in Attempts : ~(q = p /\ b = a) => hand'[q][b] = hand[q][b]
  BY DEF TypeInv, AllHandlers
<1>2. ASSUME seen' \cap {"crash", "rename"} = {}, NEW t \in Suffixes, srv'.temp[t] # NoNode
      PROVE  \E q \in Puts, b \in Attempts : HandlerHolds(hand'[q][b], t)
  <2>1. CASE HandlerHolds(h, t) BY <1>1, <2>1
  <2>2. CASE srv.temp[t] # NoNode /\ ~HandlerHolds(hand[p][a], t)
    <3>1. seen \cap {"crash", "rename"} = {} BY <1>2
    <3>2. PICK q \in Puts, b \in Attempts : HandlerHolds(hand[q][b], t)
      BY <2>2, <3>1 DEF LeftInv, ServerHolds
    <3>3. hand'[q][b] = hand[q][b] BY <1>1, <2>2, <3>2
    <3> QED BY <3>2, <3>3
  <2>3. "rename" \notin seen' BY <1>2
  <2> QED BY <1>2, <2>1, <2>2, <2>3
<1>3. ServerHolds' BY <1>2 DEF ServerHolds
<1>4. ClientHolds' BY DEF LeftInv, ClientHolds
<1>5. ASSUME NEW q \in Puts PROVE InOrder(put'[q], hand'[q])
  <2>1. InOrder(put[q], hand[q]) BY DEF LeftInv
  <2>2. \A b \in Attempts : hand[q][b].pc = "none" => hand'[q][b] = hand[q][b] BY <1>1
  <2> QED BY <2>1, <2>2 DEF InOrder
<1> QED BY <1>3, <1>4, <1>5 DEF LeftInv

LEMMA ServeLeft ==
  ASSUME TypeInv, LeftInv, NEW p \in Puts, NEW a \in Attempts, Serve(p, a) \/ Refuse(p, a) \/ RenameFails(p, a)
  PROVE  LeftInv'
<1> DEFINE h == hand[p][a]
<1>1. /\ h \in HandState /\ h.got \in Nat /\ h.ino \in Nat
      /\ h.got > 0 => h.ino \in 1 .. Len(srv.nodes) /\ h.suf \in Suffixes
  BY HandlerHas
<1>2. DiskOK(srv) /\ hand \in [Puts -> [Attempts -> HandState]] BY DEF TypeInv, AllHandlers
<1>3. ASSUME NEW s \in Suffixes, Receive(p, a, s) PROVE LeftInv'
  <2> DEFINE k == h.got + 1
             v == IF Length[p] = 0 THEN NoChunk ELSE p
             node == NodeOf(srv, s, h.ino, k)
             new == [h EXCEPT !.got = k, !.suf = s, !.ino = node]
  <2>1. /\ hand' = [hand EXCEPT ![p][a] = new] /\ h.pc = "receive"
        /\ srv' = Received(srv, s, h.ino, k, v)
        /\ k # 1 => s = h.suf
        /\ UNCHANGED <<cli, put, get, seen>>
    BY <1>3 DEF Receive, noFault
  <2>2. k \in Nat \ {0} /\ (k # 1 => h.ino \in 1 .. Len(srv.nodes) /\ h.got > 0) BY <1>1
  <2>3. v \in Chunks \cup {NoChunk} BY ChunksOfPuts DEF Versions
  <2>4. new.got = k /\ new.suf = s /\ new.pc = "receive" BY <1>1, <2>1 DEF HandState
  <2>5. k = 1 => h.got = 0 BY <1>1
  <2> HIDE DEF v
  <2>6. Reception(srv, srv', node, s, h.ino, k, v) BY <1>1, <1>2, <2>1, <2>2, <2>3, ReceivedFacts
  <2> HIDE DEF node, k, new, h
  <2>7. HandlerHolds(new, s) BY <2>2, <2>4 DEF HandlerHolds
  <2>8. \A t \in Suffixes \ {s} : srv'.temp[t] = srv.temp[t] BY <2>6 DEF Reception
  <2>9. \A t \in Suffixes \ {s} : ~HandlerHolds(h, t) BY <2>1, <2>2, <2>5 DEF HandlerHolds
  <2>10. hand[p][a].pc # "none" /\ seen \subseteq seen' /\ UNCHANGED <<put, cli, get>>
    BY <2>1 DEF h
  <2>11. \A t \in Suffixes : srv'.temp[t] # NoNode =>
           HandlerHolds(new, t) \/ (srv.temp[t] # NoNode /\ ~HandlerHolds(hand[p][a], t))
    BY <2>7, <2>8, <2>9 DEF h
  <2> QED BY <2>1, <2>10, <2>11, HandlerLeft
\* The temporary file of this handler is renamed or removed.
<1>4. ASSUME NEW new, hand' = [hand EXCEPT ![p][a] = new], h.pc = "receive",
             srv' = (IF h.got > 0 THEN Placed(srv, h.suf) ELSE srv)
             \/ srv' = (IF h.got > 0 THEN Removed(srv, h.suf) ELSE srv),
             UNCHANGED <<cli, put, get>>, seen \subseteq seen'
      PROVE  LeftInv'
  <2> HIDE DEF h
  <2>1. ASSUME h.got > 0
        PROVE  /\ srv'.temp[h.suf] = NoNode
               /\ \A t \in Suffixes \ {h.suf} : srv'.temp[t] = srv.temp[t]
    <3>1. h.suf \in Suffixes BY <1>1, <2>1
    <3>2. CASE srv' = Placed(srv, h.suf) BY <1>2, <3>1, <3>2, PlacedFacts
    <3>3. CASE srv' = Removed(srv, h.suf) BY <1>2, <3>1, <3>3, RemovedFacts
    <3> QED BY <1>4, <2>1, <3>2, <3>3
  <2>2. ~(h.got > 0) => srv' = srv BY <1>4
  <2>3. \A t \in Suffixes : srv'.temp[t] # NoNode => srv.temp[t] # NoNode /\ ~HandlerHolds(h, t)
    BY <2>1, <2>2 DEF HandlerHolds
  <2> QED BY <1>4, <2>3, HandlerLeft DEF h
<1>5. CASE Rename(p, a)
  <2>1. hand' = [hand EXCEPT ![p][a] = [h EXCEPT !.pc = "flush"]]
    BY <1>2, <1>5 DEF Rename
  <2> QED BY <1>4, <1>5, <2>1 DEF Rename, StreamEnded, noFault
<1>6. CASE Refuse(p, a)
  BY <1>4, <1>6, FaultSeen DEF Refuse
<1>7. CASE Flush(p, a)
  <2>1. /\ h.pc \in {"flush", "unplaced"} /\ hand' = [hand EXCEPT ![p][a] = Ended(h, "reply")]
        /\ UNCHANGED <<cli, put, get>> /\ seen \subseteq seen'
        /\ srv' = srv \/ (InBuffer(p, h.got) /\ srv' = Wrote(srv, h.ino, h.got, p))
    BY <1>7, FaultSeen DEF Flush, noFault
  <2> HIDE DEF h
  <2>2. ASSUME InBuffer(p, h.got), srv' = Wrote(srv, h.ino, h.got, p) PROVE srv'.temp = srv.temp
    <3>1. h.got > 0 BY <1>1, <2>2, VersionsAssumption DEF InBuffer
    <3>2. h.got \in Nat \ {0} /\ h.ino \in 1 .. Len(srv.nodes) BY <1>1, <3>1
    <3>3. p \in Chunks BY ChunksOfPuts DEF Versions
    <3> QED BY <1>2, <2>2, <3>2, <3>3, WroteFacts
  <2>3. srv'.temp = srv.temp BY <2>1, <2>2
  <2>4. \A t : ~HandlerHolds(h, t) BY <2>1 DEF HandlerHolds
  <2> QED BY <2>1, <2>3, <2>4, HandlerLeft DEF h
<1>8. CASE RenameFails(p, a)
  <2>1. /\ h.pc = "receive" /\ hand' = [hand EXCEPT ![p][a] = [h EXCEPT !.pc = "unplaced"]]
        /\ UNCHANGED <<cli, put, get>> /\ seen \subseteq seen' /\ "rename" \in seen'
    BY <1>2, <1>8, FaultSeen DEF RenameFails, StreamEnded
  <2> QED BY <2>1, HandlerLeft
<1> QED BY <1>3, <1>5, <1>6, <1>7, <1>8 DEF Serve

\* The handlers keep what they have and the disks are as they were.
LEMMA HandsLeft ==
  ASSUME LeftInv, seen \subseteq seen', UNCHANGED <<srv, cli, get>>,
         \A q \in Puts, b \in Attempts, t \in Suffixes :
           HandlerHolds(hand[q][b], t) => HandlerHolds(hand'[q][b], t),
         \A q \in Puts : InOrder(put'[q], hand'[q])
  PROVE  LeftInv'
<1>1. ServerHolds' BY DEF LeftInv, ServerHolds
<1>2. ClientHolds' BY DEF LeftInv, ClientHolds
<1> QED BY <1>1, <1>2 DEF LeftInv

LEMMA CallerLeft ==
  ASSUME TypeInv, LeftInv, NEW p \in Puts,
         Begin(p) \/ AttemptEnds(p) \/ BreakPut(p) \/ Die(p)
  PROVE  LeftInv'
<1>0. /\ put \in [Puts -> PutState] /\ hand \in [Puts -> [Attempts -> HandState]]
      /\ \A q \in Puts : InOrder(put[q], hand[q])
  BY DEF TypeInv, AllPuts, AllHandlers, LeftInv
<1>1. /\ UNCHANGED <<srv, cli, get>> /\ seen \subseteq seen'
      /\ \A q \in Puts \ {p} : put'[q] = put[q] /\ hand'[q] = hand[q]
  <2>1. UNCHANGED <<srv, cli, get>> BY DEF Begin, AttemptEnds, BreakPut, Die
  <2>2. seen \subseteq seen' BY FaultSeen DEF Begin, AttemptEnds, BreakPut, Die, noFault
  <2>3. \A q \in Puts \ {p} : put'[q] = put[q] BY <1>0 DEF Begin, AttemptEnds, BreakPut, Die
  <2>4. \A q \in Puts \ {p} : hand'[q] = hand[q] BY <1>0 DEF Begin, AttemptEnds, BreakPut, Die
  <2> QED BY <2>1, <2>2, <2>3, <2>4
<1>2. ASSUME \A b \in Attempts, t \in Suffixes :
               HandlerHolds(hand[p][b], t) => HandlerHolds(hand'[p][b], t),
             InOrder(put'[p], hand'[p])
      PROVE  LeftInv'
  <2>1. \A q \in Puts, b \in Attempts, t \in Suffixes :
          HandlerHolds(hand[q][b], t) => HandlerHolds(hand'[q][b], t)
    BY <1>1, <1>2
  <2>2. \A q \in Puts : InOrder(put'[q], hand'[q]) BY <1>0, <1>1, <1>2
  <2> QED BY <1>1, <2>1, <2>2, HandsLeft
<1>3. ASSUME NEW a \in Attempts, hand' = [hand EXCEPT ![p][a] = NewHandler],
             hand[p][a].pc = "none"
      PROVE  /\ \A b \in Attempts, t \in Suffixes :
                  HandlerHolds(hand[p][b], t) => HandlerHolds(hand'[p][b], t)
             /\ \A b \in Attempts \ {a} : hand'[p][b] = hand[p][b]
  BY <1>0, <1>3 DEF HandlerHolds
<1>4. CASE Begin(p)
  <2>1. /\ hand' = [hand EXCEPT ![p][1] = NewHandler] /\ put[p].pc = "idle"
        /\ put' = [put EXCEPT ![p].pc = "streaming"]
    BY <1>4 DEF Begin
  <2>2. 1 \in Attempts BY AttemptsAssumption DEF Attempts
  <2>3. put[p].left = PutAttempts /\ \A b \in Attempts : hand[p][b].pc = "none"
    BY <1>0, <2>1 DEF InOrder
  <2>4. put'[p].pc = "streaming" /\ put'[p].left = PutAttempts BY <1>0, <2>1, <2>3 DEF PutState
  <2>5. \A b \in Attempts \ {1} : hand'[p][b] = hand[p][b] BY <1>3, <2>1, <2>2, <2>3
  <2>6. InOrder(put'[p], hand'[p])
    BY <2>3, <2>4, <2>5, AttemptsAssumption DEF InOrder, Attempts
  <2> QED BY <1>2, <1>3, <2>1, <2>2, <2>3, <2>6
<1>5. CASE AttemptEnds(p)
  <2> DEFINE left == put[p].left - 1
  <2>1. put[p].pc = "streaming" BY <1>5 DEF AttemptEnds
  <2>2. /\ Current(p) \in Attempts /\ put[p].left \in 1 .. PutAttempts
        /\ left > 0 => Current(p) + 1 \in Attempts
    BY <2>1, CurrentIsAttempt
  <2>3. CASE /\ left > 0 /\ put' = [put EXCEPT ![p].left = left]
             /\ hand' = [hand EXCEPT ![p][Current(p) + 1] = NewHandler]
    <3> DEFINE a == Current(p) + 1
    <3>1. /\ a \in Attempts /\ a = PutAttempts + 1 - left
          /\ \A b \in Attempts : b >= a => hand[p][b].pc = "none"
      BY <1>0, <2>1, <2>2, <2>3, AttemptsAssumption DEF InOrder, Current, Attempts
    <3>2. put'[p].pc = "streaming" /\ put'[p].left = left BY <1>0, <2>1, <2>3 DEF PutState
    <3>3. hand' = [hand EXCEPT ![p][a] = NewHandler] BY <2>3
    <3> HIDE DEF a, left
    <3>4. a \in Nat BY <3>1 DEF Attempts
    <3>5. hand[p][a].pc = "none" BY <3>1, <3>4
    <3>6. \A b \in Attempts : b > a => hand'[p][b].pc = "none"
      <4>1. \A b \in Attempts \ {a} : hand'[p][b] = hand[p][b] BY <1>3, <3>1, <3>3, <3>5
      <4>2. \A b \in Attempts : b \in Nat BY DEF Attempts
      <4> QED BY <3>1, <3>4, <4>1, <4>2
    <3>7. InOrder(put'[p], hand'[p]) BY <3>1, <3>2, <3>6 DEF InOrder
    <3> QED BY <1>2, <1>3, <3>1, <3>3, <3>5, <3>7
  <2>4. CASE hand' = hand /\ \E pc \in {"true", "false"} :
                               put' = [put EXCEPT ![p] = [pc |-> pc, left |-> left]]
    <3>1. put'[p].pc \in {"true", "false"} BY <1>0, <2>4
    <3>2. InOrder(put'[p], hand'[p]) BY <3>1 DEF InOrder
    <3> QED BY <1>2, <2>4, <3>2
  <2> QED BY <1>5, <2>3, <2>4 DEF AttemptEnds
<1>6. ASSUME put[p].pc = "streaming",
             hand' = [hand EXCEPT ![p][Current(p)] = Lose(hand[p][Current(p)])],
             put' = put \/ put' = [put EXCEPT ![p].pc = "dead"]
      PROVE  LeftInv'
  <2>1. Current(p) \in Attempts BY <1>6, CurrentIsAttempt
  <2>2. hand'[p][Current(p)] = Lose(hand[p][Current(p)])
        /\ \A b \in Attempts \ {Current(p)} : hand'[p][b] = hand[p][b]
    BY <1>0, <1>6, <2>1
  <2>3. \A b \in Attempts : /\ hand'[p][b].pc = hand[p][b].pc /\ hand'[p][b].got = hand[p][b].got
                            /\ hand'[p][b].suf = hand[p][b].suf
    <3>1. \A b \in Attempts : hand[p][b] \in HandState BY <1>0
    <3>2. LET h == hand[p][Current(p)] IN
          Lose(h).pc = h.pc /\ Lose(h).got = h.got /\ Lose(h).suf = h.suf
      BY <2>1, <3>1, EndedOK DEF Running
    <3> QED BY <2>2, <3>2
  <2>4. put'[p] = put[p] \/ put'[p].pc = "dead" BY <1>0, <1>6 DEF PutState
  <2>5. InOrder(put'[p], hand'[p]) BY <1>0, <2>3, <2>4 DEF InOrder
  <2> QED BY <1>2, <2>3, <2>5 DEF HandlerHolds
<1> QED BY <1>4, <1>5, <1>6 DEF BreakPut, Die

\* One get changes, and the disk of the client.
LEMMA GetsLeft ==
  ASSUME TypeInv, LeftInv, seen \subseteq seen', UNCHANGED <<srv, put, hand>>,
         NEW g \in Gets, NEW r, get' = [get EXCEPT ![g] = r],
         "break" \notin seen' =>
           \A t \in Suffixes : cli'.temp[t] # NoNode =>
             GetHolds(r, t) \/ (cli.temp[t] # NoNode /\ ~GetHolds(get[g], t))
  PROVE  LeftInv'
<1>1. get'[g] = r /\ \A x \in Gets \ {g} : get'[x] = get[x] BY DEF TypeInv, AllGets
<1>2. ASSUME "crash" \notin seen', "break" \notin seen', NEW t \in Suffixes, cli'.temp[t] # NoNode
      PROVE  \E x \in Gets : GetHolds(get'[x], t)
  <2>1. CASE GetHolds(r, t) BY <1>1, <2>1
  <2>2. CASE cli.temp[t] # NoNode /\ ~GetHolds(get[g], t)
    <3>1. "crash" \notin seen /\ "break" \notin seen BY <1>2
    <3>2. PICK x \in Gets : GetHolds(get[x], t) BY <2>2, <3>1 DEF LeftInv, ClientHolds
    <3>3. get'[x] = get[x] BY <1>1, <2>2, <3>2
    <3> QED BY <3>2, <3>3
  <2> QED BY <1>2, <2>1, <2>2
<1>3. ClientHolds' BY <1>2 DEF ClientHolds
<1>4. ServerHolds' BY DEF LeftInv, ServerHolds
<1> QED BY <1>3, <1>4 DEF LeftInv

LEMMA GetLeft ==
  ASSUME TypeInv, LeftInv, NEW g \in Gets, Open(g) \/ GetStep(g) \/ BreakGet(g)
  PROVE  LeftInv'
<1> DEFINE r == get[g]
<1>1. r \in GetState /\ GetFits(r, srv, cli) /\ r.got \in Nat /\ r.ino \in Nat /\ r.size \in Nat
  BY GetHas
<1>2. DiskOK(cli) /\ get \in [Gets -> GetState] BY DEF TypeInv, AllGets
<1>3. UNCHANGED <<srv, put, hand>>
  BY DEF Open, GetStep, Chunk, Install, FlushGet, BreakGet
<1>4. ASSUME NEW new, get' = [get EXCEPT ![g] = new], seen' = seen, cli'.temp = cli.temp,
             r.pc # "stream"
      PROVE  LeftInv'
  <2>1. \A t \in Suffixes : ~GetHolds(get[g], t) BY <1>4 DEF GetHolds
  <2> QED BY <1>3, <1>4, <2>1, GetsLeft
<1>5. CASE Open(g)
  <2>1. r.pc # "stream" /\ cli' = cli /\ seen' = seen /\ \E new : get' = [get EXCEPT ![g] = new]
    BY <1>5 DEF Open, noFault
  <2> QED BY <1>4, <2>1
<1>6. ASSUME NEW s \in Suffixes, Chunk(g, s) PROVE LeftInv'
  <2> DEFINE k == r.got + 1
             v == IF r.size = 0 THEN NoChunk ELSE srv.nodes[r.src][k]
             node == NodeOf(cli, s, r.ino, k)
             new == [r EXCEPT !.got = k, !.suf = s, !.ino = node, !.last = v]
  <2>1. /\ get' = [get EXCEPT ![g] = new] /\ r.pc = "stream" /\ seen' = seen
        /\ r.got < Messages(r.size)
        /\ cli' = Received(cli, s, r.ino, k, v)
        /\ k # 1 => s = r.suf
    BY <1>6 DEF Chunk, noFault
  <2>2. k \in Nat \ {0} /\ (k # 1 => r.ino \in 1 .. Len(cli.nodes) /\ r.got > 0)
    BY <1>1 DEF GetFits
  <2>3. v \in Chunks \cup {NoChunk} BY <2>1, ChunkRead
  <2>4. new.got = k /\ new.suf = s /\ new.pc = "stream" BY <1>1, <2>1 DEF GetState
  <2>5. k = 1 => r.got = 0 BY <1>1
  <2> HIDE DEF v
  <2>6. Reception(cli, cli', node, s, r.ino, k, v) BY <1>1, <1>2, <2>1, <2>2, <2>3, ReceivedFacts
  <2> HIDE DEF node, k, new, r
  <2>7. GetHolds(new, s) BY <2>2, <2>4 DEF GetHolds
  <2>8. \A t \in Suffixes \ {s} : cli'.temp[t] = cli.temp[t] BY <2>6 DEF Reception
  <2>9. \A t \in Suffixes \ {s} : ~GetHolds(r, t) BY <2>1, <2>2, <2>5 DEF GetHolds
  <2>10. \A t \in Suffixes : cli'.temp[t] # NoNode =>
           GetHolds(new, t) \/ (cli.temp[t] # NoNode /\ ~GetHolds(get[g], t))
    BY <2>7, <2>8, <2>9 DEF r
  <2>11. seen \subseteq seen' BY <2>1
  <2> QED BY <1>3, <2>1, <2>10, <2>11, GetsLeft
<1>7. CASE Install(g)
  <2> DEFINE new == [r EXCEPT !.pc = "flush"]
  <2>1. /\ get' = [get EXCEPT ![g] = new] /\ r.got = Messages(r.size)
        /\ cli' = Placed(cli, r.suf) /\ seen' = seen
    BY <1>2, <1>7 DEF Install, noFault
  <2>2. r.suf \in Suffixes
    <3>1. r.got > 0 BY <1>1, <2>1 DEF Messages
    <3> QED BY <1>1, <3>1 DEF GetFits
  <2>3. cli'.temp[r.suf] = NoNode /\ \A t \in Suffixes \ {r.suf} : cli'.temp[t] = cli.temp[t]
    BY <1>2, <2>1, <2>2, PlacedFacts
  <2> HIDE DEF new, r
  <2>4. \A t \in Suffixes : cli'.temp[t] # NoNode => cli.temp[t] # NoNode /\ ~GetHolds(r, t)
    BY <2>3 DEF GetHolds
  <2>5. seen \subseteq seen' BY <2>1
  <2> QED BY <1>3, <2>1, <2>4, <2>5, GetsLeft DEF r
<1>8. CASE FlushGet(g)
  <2>1. /\ get' = [get EXCEPT ![g] = EndedGet(r, "true")] /\ r.pc = "flush" /\ seen' = seen
    BY <1>8 DEF FlushGet, noFault
  <2>2. cli'.temp = cli.temp
    <3>1. cli' = IF InBuffer(r.last, r.got) THEN Wrote(cli, r.ino, r.got, r.last) ELSE cli
      BY <1>8 DEF FlushGet
    <3>2. /\ r.got \in Nat \ {0} /\ r.ino \in 1 .. Len(cli.nodes)
          /\ InBuffer(r.last, r.got) => r.last \in Chunks
      BY <2>1, FlushedByGet
    <3> HIDE DEF r
    <3> QED BY <1>2, <3>1, <3>2, WroteFacts
  <2> QED BY <1>4, <2>1, <2>2
<1>9. CASE BreakGet(g)
  <2>1. \E new : get' = [get EXCEPT ![g] = new] BY <1>9 DEF BreakGet
  <2>2. seen \subseteq seen' /\ "break" \in seen' BY <1>9, FaultSeen DEF BreakGet
  <2> QED BY <1>3, <2>1, <2>2, GetsLeft
<1> QED BY <1>5, <1>6, <1>7, <1>8, <1>9 DEF GetStep

\* The handlers that were none are none.
LEMMA CrashLeft == ASSUME TypeInv, LeftInv, Crash PROVE LeftInv'
<1>1. "crash" \in seen' /\ put' = put BY FaultSeen DEF Crash
<1>2. \A p \in Puts, a \in Attempts : hand[p][a].pc = "none" => hand'[p][a] = hand[p][a]
  BY DEF Crash, Running
<1>3. \A p \in Puts : InOrder(put'[p], hand'[p]) BY <1>1, <1>2 DEF LeftInv, InOrder
<1> QED BY <1>1, <1>3 DEF LeftInv, ServerHolds, ClientHolds

LEMMA NextLeft == TypeInv /\ LeftInv /\ [Next]_vars => LeftInv'
<1> SUFFICES ASSUME TypeInv, LeftInv, [Next]_vars PROVE LeftInv' OBVIOUS
<1>1. CASE UNCHANGED vars
  BY <1>1 DEF vars, LeftInv, ServerHolds, ClientHolds
<1>2. ASSUME NEW p \in Puts, NEW a \in Attempts, Serve(p, a) \/ Refuse(p, a) \/ RenameFails(p, a)
      PROVE  LeftInv'
  BY <1>2, ServeLeft
<1> QED BY <1>1, <1>2, CallerLeft, GetLeft, CrashLeft DEF Next

\* When all is quiet, no temporary file is left on either side unless the server or a
\* stream to a getter has died: for any faults, and also when two streams draw the same
\* number (the unlink and the renames of afsfuse_putFile and rpc_getFile).
THEOREM NothingIsLeft == Spec => []NothingLeft
<1>1. Init => TypeInv /\ LeftInv BY InitFits, InitLeft
<1>2. TypeInv /\ LeftInv /\ [Next]_vars => (TypeInv /\ LeftInv)' BY NextFits, NextLeft
<1>3. Spec => [](TypeInv /\ LeftInv) BY <1>1, <1>2, PTL DEF Spec
<1> QED BY <1>3, InvIsNothingLeft, PTL

-----------------------------------------------------------------------------
(* The refinement of WholeFileStore, when only the server's process and    *)
(* its disk fail.                                                          *)

Undisturbed ==
  /\ Small = {} /\ Missing = {} /\ Collisions = FALSE
  /\ Faults \subseteq {"crash", "disk"}

Receives(h) == h.pc \in {"receive", "flush", "unplaced"}
PutRefines(p, r, hs) ==
  /\ r.pc = "idle" => r.left = PutAttempts
  /\ \A a \in Attempts :
       Receives(hs[a]) => /\ r.pc = "streaming" /\ a = PutAttempts + 1 - r.left
                          /\ hs[a].link = "up"
FlushRefines ==
  /\ \A p \in Puts, a \in Attempts :
       hand[p][a].pc # "unplaced" /\ (hand[p][a].pc = "flush" => p \in applied)
  /\ replaced = {}
GetRefines(r, disk) == r.pc = "stream" => r.size = Len(disk.nodes[r.src])

RefInv ==
  /\ \A p \in Puts : PutRefines(p, put[p], hand[p])
  /\ FlushRefines
  /\ \A g \in Gets : GetRefines(get[g], srv)

AllInv == TypeInv /\ OneInv /\ StoredInv /\ RefInv

LEMMA InitRef == Init => RefInv
<1> SUFFICES ASSUME Init PROVE RefInv OBVIOUS
<1>1. \A p \in Puts, a \in Attempts : hand[p][a].pc = "none" BY DEF Init, NoHandler
<1>2. \A p \in Puts : put[p].left = PutAttempts BY DEF Init
<1>3. \A g \in Gets : get[g].pc = "idle" BY DEF Init, NewGet
<1>4. replaced = {} BY DEF Init
<1> QED BY <1>1, <1>2, <1>3, <1>4 DEF RefInv, PutRefines, Receives, FlushRefines, GetRefines

\* Data that have no temporary name stay.
DataKept(d, e) ==
  \A i \in 1 .. Len(d.nodes) : (\A s \in Suffixes : d.temp[s] # i) => e.nodes[i] = d.nodes[i]

LEMMA DataSame == \A d, e : e.nodes = d.nodes => DataKept(d, e)
BY DEF DataKept

LEMMA MappedIsUnnamed ==
  ASSUME TypeInv, NEW g \in Gets, get[g].pc = "stream"
  PROVE  get[g].src \in 1 .. Len(srv.nodes) /\ \A s \in Suffixes : srv.temp[s] # get[g].src
BY GetHas DEF GetFits

LEMMA FileIsUnnamed ==
  ASSUME NEW disk, DiskOK(disk), disk.file # NoNode
  PROVE  disk.file \in 1 .. Len(disk.nodes) /\ \A s \in Suffixes : disk.temp[s] # disk.file
<1>1. disk.file \in 0 .. Len(disk.nodes) /\ Len(disk.nodes) \in Nat BY DiskType DEF DiskOK
<1>2. disk.file \in 1 .. Len(disk.nodes) BY <1>1 DEF NoNode
<1> QED BY <1>2 DEF DiskOK

\* What is kept when only data with temporary names change.
LEMMA KeptData ==
  ASSUME TypeInv, DataKept(srv, srv'), get' = get
  PROVE  /\ View' = View
         /\ (\A g \in Gets : GetRefines(get[g], srv)) => \A g \in Gets : GetRefines(get'[g], srv')
<1>1. \A g \in Gets : get[g].pc = "stream" => srv'.nodes[get[g].src] = srv.nodes[get[g].src]
  BY MappedIsUnnamed DEF DataKept
<1> QED BY <1>1 DEF View, GetRefines

LEMMA KeptFile ==
  ASSUME NEW d, NEW e, DiskOK(d), DataKept(d, e), e.file = d.file
  PROVE  ContentOf(e) = ContentOf(d)
<1>1. CASE d.file = NoNode BY <1>1 DEF ContentOf
<1>2. CASE d.file # NoNode BY <1>2, FileIsUnnamed DEF ContentOf, DataKept
<1> QED BY <1>1, <1>2

LEMMA ReceptionKeeps ==
  ASSUME NEW disk, DiskOK(disk), NEW s \in Suffixes, NEW i \in Nat, NEW k \in Nat \ {0}, NEW v,
         NEW new, NEW node, Reception(disk, new, node, s, i, k, v),
         k # 1 => disk.temp[s] = i
  PROVE  DataKept(disk, new) /\ new.file = disk.file
<1> SUFFICES ASSUME NEW j \in 1 .. Len(disk.nodes), \A t \in Suffixes : disk.temp[t] # j
             PROVE  new.nodes[j] = disk.nodes[j]
  BY DEF DataKept, Reception
<1>1. j # node BY DEF Reception
<1> QED BY <1>1 DEF Reception

\* Beginnings of versions are not what there is without a file.
LEMMA NoContentIsNoBeginning == ASSUME NEW data, Beginning(data) PROVE data # NoContent
<1> SUFFICES ASSUME data = <<Hole>> PROVE FALSE BY DEF NoContent
<1>1. 1 \in DOMAIN data /\ data[1] = Hole OBVIOUS
<1>2. Hole \in Versions BY <1>1 DEF Beginning
<1> QED BY <1>2, ChunksOfPuts

-----------------------------------------------------------------------------
(* Steps of WholeFileStore.                                                *)

Unchanging == UNCHANGED <<ContentOf(srv), ContentOf(cli), Putting, applied, View>>

LEMMA StutterStep == Unchanging => UNCHANGED Store!vars
BY DEF Unchanging, Store!vars

LEMMA PutsAs ==
  ASSUME NEW p \in Puts, put \in [Puts -> PutState], NEW r, put' = [put EXCEPT ![p] = r]
  PROVE  Putting' = [Putting EXCEPT ![p] = IF r.pc = "streaming" THEN "pending" ELSE r.pc]
BY DEF Putting

LEMMA InitIsStore == Init => Store!Init
<1> SUFFICES ASSUME Init PROVE Store!Init OBVIOUS
<1>1. ContentOf(srv) \in {NoContent, WholeFile(Initial)}
  <2>1. PICK nodes \in {<<>>, <<WholeFile(Initial)>>} :
          srv = [file |-> Len(nodes), temp |-> [s \in Suffixes |-> NoNode], nodes |-> nodes]
    BY DEF Init
  <2> DEFINE data == WholeFile(Initial)
  <2>2. CASE nodes = <<>> BY <2>1, <2>2 DEF ContentOf, NoNode
  <2>3. CASE nodes = <<data>>
    <3> HIDE DEF data
    <3>1. srv.file = 1 /\ srv.nodes[1] = data BY <2>1, <2>3
    <3> QED BY <3>1 DEF ContentOf, NoNode, data
  <2> QED BY <2>1, <2>2, <2>3
<1>2. ContentOf(cli) = NoContent BY DEF Init, ContentOf
<1>3. Putting = [p \in Puts |-> "idle"] BY DEF Init, Putting
<1>4. View = [g \in Gets |-> NoContent] BY DEF Init, View, NewGet
<1>5. applied = {} BY DEF Init
<1> QED BY <1>1, <1>2, <1>3, <1>4, <1>5 DEF Store!Init

\* The steps of WholeFileStore, with the mapped variables.
LEMMA StepOfPut ==
  ASSUME NEW p \in Puts, Putting[p] = "idle", Putting' = [Putting EXCEPT ![p] = "pending"],
         UNCHANGED <<ContentOf(srv), ContentOf(cli), applied, View>>
  PROVE  Store!Next
BY DEF Store!Next, Store!Begin

LEMMA StepOfApply ==
  ASSUME NEW p \in Puts, Putting[p] = "pending", ContentOf(srv)' = WholeFile(p),
         applied' = applied \cup {p}, UNCHANGED <<ContentOf(cli), Putting, View>>
  PROVE  Store!Next
BY DEF Store!Next, Store!Apply

LEMMA StepOfReturn ==
  ASSUME NEW p \in Puts, NEW answer \in {"true", "false"}, Putting[p] = "pending",
         answer = "true" => p \in applied, Putting' = [Putting EXCEPT ![p] = answer],
         UNCHANGED <<ContentOf(srv), ContentOf(cli), applied, View>>
  PROVE  Store!Next
BY DEF Store!Next, Store!Return

LEMMA StepOfLook ==
  ASSUME NEW g \in Gets, ContentOf(srv) # NoContent,
         View' = [View EXCEPT ![g] = ContentOf(srv)],
         UNCHANGED <<ContentOf(srv), ContentOf(cli), Putting, applied>>
  PROVE  Store!Next
BY DEF Store!Next, Store!Look

LEMMA StepOfInstall ==
  ASSUME NEW g \in Gets, View[g] # NoContent, ContentOf(cli)' = View[g],
         View' = [View EXCEPT ![g] = NoContent], UNCHANGED <<ContentOf(srv), Putting, applied>>
  PROVE  Store!Next
BY DEF Store!Next, Store!Install

LEMMA StepOfCrash ==
  ASSUME NEW G \in SUBSET Gets,
         View' = [g \in Gets |-> IF g \in G THEN NoContent ELSE View[g]],
         UNCHANGED <<ContentOf(srv), ContentOf(cli), Putting, applied>>
  PROVE  Store!Next
BY DEF Store!Next, Store!Abandon

-----------------------------------------------------------------------------
(* Each action is a step of WholeFileStore or a stutter.                   *)

Refines == RefInv' /\ [Store!Next]_Store!vars

\* A handler changes and goes on receiving at most.
LEMMA RefHandler ==
  ASSUME TypeInv, RefInv, NEW p \in Puts, NEW a \in Attempts, NEW h,
         hand' = [hand EXCEPT ![p][a] = h], put' = put, applied \subseteq applied', replaced' = {},
         Receives(h) => Receives(hand[p][a]) /\ h.link = "up",
         h.pc = "flush" => p \in applied', h.pc # "unplaced",
         \A g \in Gets : GetRefines(get'[g], srv')
  PROVE  RefInv'
<1>1. hand'[p][a] = h
      /\ \A q \in Puts, b \in Attempts : ~(q = p /\ b = a) => hand'[q][b] = hand[q][b]
  BY DEF TypeInv, AllHandlers
<1>2. ASSUME NEW q \in Puts PROVE PutRefines(q, put'[q], hand'[q])
  <2>1. PutRefines(q, put[q], hand[q]) BY DEF RefInv
  <2>2. ASSUME NEW b \in Attempts, Receives(hand'[q][b])
        PROVE  Receives(hand[q][b]) /\ hand'[q][b].link = "up"
    BY <1>1, <2>1, <2>2 DEF PutRefines
  <2> QED BY <2>1, <2>2 DEF PutRefines
<1>3. FlushRefines' BY <1>1 DEF FlushRefines, RefInv
<1> QED BY <1>2, <1>3 DEF RefInv

\* A get changes.
LEMMA RefGet ==
  ASSUME TypeInv, RefInv, NEW g \in Gets, NEW r, get' = [get EXCEPT ![g] = r],
         GetRefines(r, srv), UNCHANGED <<srv, put, hand, history>>
  PROVE  RefInv'
<1>1. get'[g] = r /\ \A f \in Gets \ {g} : get'[f] = get[f] BY DEF TypeInv, AllGets
<1>2. ASSUME NEW f \in Gets PROVE GetRefines(get'[f], srv') BY <1>1 DEF RefInv
<1>3. FlushRefines' BY DEF RefInv, FlushRefines
<1> QED BY <1>2, <1>3 DEF RefInv

LEMMA ViewAs ==
  ASSUME TypeInv, NEW g \in Gets, NEW r, get' = [get EXCEPT ![g] = r], srv' = srv
  PROVE  View' = [View EXCEPT ![g] = IF r.pc = "stream" THEN srv.nodes[r.src] ELSE NoContent]
BY DEF View, TypeInv, AllGets

\* A call of rpc_putFile and its handlers while they are at an attempt.
LEMMA AtAttempt ==
  ASSUME RefInv, NEW p \in Puts, NEW a \in Attempts, Receives(hand[p][a])
  PROVE  put[p].pc = "streaming" /\ a = Current(p) /\ hand[p][a].link = "up"
BY DEF RefInv, PutRefines, Current

LEMMA BeginRefines ==
  ASSUME Undisturbed, AllInv, NEW p \in Puts, Begin(p)
  PROVE  Refines
<1>1. /\ put[p].pc = "idle" /\ put' = [put EXCEPT ![p].pc = "streaming"]
      /\ hand' = [hand EXCEPT ![p][1] = NewHandler]
      /\ UNCHANGED <<srv, cli, get, history>>
  BY DEF Begin
<1>2. put \in [Puts -> PutState] /\ hand \in [Puts -> [Attempts -> HandState]] /\ 1 \in Attempts
  BY AttemptsAssumption DEF AllInv, TypeInv, AllPuts, AllHandlers, Attempts
<1> DEFINE r == [put[p] EXCEPT !.pc = "streaming"]
<1>3. put' = [put EXCEPT ![p] = r] /\ r.pc = "streaming" /\ r.left = put[p].left
  BY <1>1, <1>2 DEF PutState
<1> HIDE DEF r
<1>4. Putting' = [Putting EXCEPT ![p] = "pending"] /\ Putting[p] = "idle"
  <2>1. Putting' = [Putting EXCEPT ![p] = IF r.pc = "streaming" THEN "pending" ELSE r.pc]
    BY <1>2, <1>3, PutsAs
  <2> QED BY <1>1, <1>3, <2>1 DEF Putting
<1>5. ASSUME NEW q \in Puts PROVE PutRefines(q, put'[q], hand'[q])
  <2>1. PutRefines(q, put[q], hand[q]) BY DEF AllInv, RefInv
  <2>2. CASE q # p
    <3>1. put'[q] = put[q] /\ hand'[q] = hand[q] BY <1>1, <1>2, <2>2
    <3> QED BY <2>1, <3>1
  <2>3. CASE q = p
    <3>1. put'[q] = r /\ hand'[q][1] = NewHandler
          /\ \A b \in Attempts \ {1} : hand'[q][b] = hand[q][b]
      BY <1>1, <1>2, <1>3, <2>3
    <3>2. r.left = PutAttempts BY <1>1, <1>3, <2>1, <2>3 DEF PutRefines
    <3>3. \A b \in Attempts : ~Receives(hand[q][b]) BY <1>1, <2>1, <2>3 DEF PutRefines
    <3>4. NewHandler.link = "up" BY DEF NewHandler, NoHandler
    <3>5. PutAttempts + 1 - r.left = 1 BY <3>2, AttemptsAssumption
    <3> QED BY <1>3, <3>1, <3>2, <3>3, <3>4, <3>5 DEF PutRefines
  <2> QED BY <2>2, <2>3
<1>6. FlushRefines'
  <2>1. NewHandler.pc = "receive" BY DEF NewHandler, NoHandler
  <2>2. \A q \in Puts, b \in Attempts : hand'[q][b] = hand[q][b] \/ hand'[q][b] = NewHandler
    BY <1>1, <1>2
  <2> QED BY <1>1, <2>1, <2>2 DEF FlushRefines, AllInv, RefInv
<1>7. RefInv' BY <1>1, <1>5, <1>6 DEF AllInv, RefInv
<1>8. UNCHANGED <<ContentOf(srv), ContentOf(cli), applied, View>> BY <1>1 DEF View
<1>9. Store!Next BY <1>4, <1>8, StepOfPut
<1> QED BY <1>7, <1>9 DEF Refines

LEMMA AttemptEndsRefines ==
  ASSUME Undisturbed, AllInv, NEW p \in Puts, AttemptEnds(p)
  PROVE  Refines
<1> DEFINE h == hand[p][Current(p)]
           left == put[p].left - 1
<1>1. put[p].pc = "streaming" /\ Finished(h) /\ UNCHANGED <<srv, cli, get, history>>
  BY DEF AttemptEnds
<1>2. /\ put \in [Puts -> PutState] /\ hand \in [Puts -> [Attempts -> HandState]]
      /\ Current(p) \in Attempts /\ (left > 0 => Current(p) + 1 \in Attempts)
  BY <1>1, CurrentIsAttempt DEF AllInv, TypeInv, AllPuts, AllHandlers
<1>3. put[p].left \in Nat BY <1>2, AttemptsAssumption DEF PutState
<1>4. \A b \in Attempts : ~Receives(hand[p][b])
  <2> SUFFICES ASSUME NEW b \in Attempts, Receives(hand[p][b]) PROVE FALSE OBVIOUS
  <2>1. b = Current(p) /\ hand[p][b].link = "up" BY AtAttempt DEF AllInv
  <2> QED BY <1>1, <2>1 DEF Receives, Finished
<1>5. UNCHANGED <<ContentOf(srv), ContentOf(cli), applied, View>> BY <1>1 DEF View
<1>6. Putting[p] = "pending" BY <1>1 DEF Putting
<1>7. ASSUME NEW q \in Puts, put'[q] = put[q], hand'[q] = hand[q]
      PROVE  PutRefines(q, put'[q], hand'[q])
  BY <1>7 DEF AllInv, RefInv
<1> HIDE DEF h
<1>8. CASE /\ left > 0 /\ put' = [put EXCEPT ![p].left = left]
           /\ hand' = [hand EXCEPT ![p][Current(p) + 1] = NewHandler]
  <2> DEFINE r == [put[p] EXCEPT !.left = left]
  <2>1. put' = [put EXCEPT ![p] = r] /\ r.pc = "streaming" /\ r.left = left
    BY <1>1, <1>2, <1>8 DEF PutState
  <2> HIDE DEF r
  <2>2. Putting' = [Putting EXCEPT ![p] = "pending"]
    <3>1. Putting' = [Putting EXCEPT ![p] = IF r.pc = "streaming" THEN "pending" ELSE r.pc]
      BY <1>2, <2>1, PutsAs
    <3> QED BY <2>1, <3>1
  <2>3. Putting' = Putting BY <1>6, <2>2 DEF Putting
  <2>4. ASSUME NEW q \in Puts PROVE PutRefines(q, put'[q], hand'[q])
    <3>1. CASE q # p
      <4>1. put'[q] = put[q] /\ hand'[q] = hand[q] BY <1>2, <1>8, <2>1, <3>1
      <4> QED BY <1>7, <4>1
    <3>2. CASE q = p
      <4> DEFINE n == Current(p) + 1
      <4>1. n \in Attempts /\ n = PutAttempts + 1 - left
        BY <1>2, <1>3, <1>8, AttemptsAssumption DEF Current
      <4> HIDE DEF n, left
      <4>2. put'[q] = r /\ hand'[q][n] = NewHandler
            /\ \A b \in Attempts \ {n} : hand'[q][b] = hand[q][b]
        BY <1>2, <1>8, <2>1, <3>2, <4>1 DEF n
      <4>3. NewHandler.link = "up" BY DEF NewHandler, NoHandler
      <4> QED BY <1>4, <2>1, <3>2, <4>1, <4>2, <4>3 DEF PutRefines
    <3> QED BY <3>1, <3>2
  <2>5. FlushRefines'
    <3>1. NewHandler.pc = "receive" BY DEF NewHandler, NoHandler
    <3>2. \A q \in Puts, b \in Attempts : hand'[q][b] = hand[q][b] \/ hand'[q][b] = NewHandler
      BY <1>2, <1>8
    <3> QED BY <1>1, <3>1, <3>2 DEF FlushRefines, AllInv, RefInv
  <2>6. RefInv' BY <1>1, <2>4, <2>5 DEF AllInv, RefInv
  <2> QED BY <1>5, <2>3, <2>6, StutterStep DEF Refines, Unchanging
<1>9. ASSUME NEW answer \in {"true", "false"}, hand' = hand,
             put' = [put EXCEPT ![p] = [pc |-> answer, left |-> left]],
             answer = "true" => p \in applied
      PROVE  Refines
  <2> DEFINE r == [pc |-> answer, left |-> left]
  <2>1. put' = [put EXCEPT ![p] = r] /\ r.pc = answer /\ answer # "streaming" /\ answer # "idle"
    BY <1>9
  <2> HIDE DEF r
  <2>2. Putting' = [Putting EXCEPT ![p] = answer]
    <3>1. Putting' = [Putting EXCEPT ![p] = IF r.pc = "streaming" THEN "pending" ELSE r.pc]
      BY <1>2, <2>1, PutsAs
    <3> QED BY <2>1, <3>1
  <2>3. ASSUME NEW q \in Puts PROVE PutRefines(q, put'[q], hand'[q])
    <3>1. CASE q # p
      <4>1. put'[q] = put[q] /\ hand'[q] = hand[q] BY <1>2, <1>9, <2>1, <3>1
      <4> QED BY <1>7, <4>1
    <3>2. CASE q = p
      <4>1. put'[q] = r BY <1>2, <2>1, <3>2
      <4> QED BY <1>4, <1>9, <2>1, <3>2, <4>1 DEF PutRefines
    <3> QED BY <3>1, <3>2
  <2>4. FlushRefines' BY <1>1, <1>9 DEF FlushRefines, AllInv, RefInv
  <2>5. RefInv' BY <1>1, <2>3, <2>4 DEF AllInv, RefInv
  <2>6. Store!Next BY <1>5, <1>6, <1>9, <2>2, StepOfReturn
  <2> QED BY <2>5, <2>6 DEF Refines
<1>10. CASE StatusOk(h) /\ hand' = hand /\ put' = [put EXCEPT ![p] = [pc |-> "true", left |-> left]]
  <2>1. HandlerStored(p, h, srv, Settled, seen) BY <1>2 DEF AllInv, StoredInv, h
  <2>2. seen \cap {"tail", "rename"} = {} /\ p \notin Missing
    BY FaultsAssumption DEF Undisturbed, AllInv, TypeInv, Counted
  <2>3. p \in Settled BY <1>10, <2>1, <2>2 DEF HandlerStored, StatusOk
  <2>4. p \in applied BY <2>3 DEF Settled, AllInv, RefInv, FlushRefines
  <2> QED BY <1>9, <1>10, <2>4
<1>11. CASE hand' = hand /\ put' = [put EXCEPT ![p] = [pc |-> "false", left |-> left]]
  BY <1>9, <1>11
<1> QED BY <1>8, <1>10, <1>11 DEF AttemptEnds, h

LEMMA ReceiveRefines ==
  ASSUME Undisturbed, AllInv, NEW p \in Puts, NEW a \in Attempts, NEW s \in Suffixes,
         Receive(p, a, s)
  PROVE  Refines
<1> DEFINE h == hand[p][a]
           k == h.got + 1
           v == SentBy(p)
           node == NodeOf(srv, s, h.ino, k)
           new == [h EXCEPT !.got = k, !.suf = s, !.ino = node]
<1>1. /\ h.pc = "receive" /\ (IF k = 1 THEN Collisions \/ FreeSuffix(s) ELSE s = h.suf)
      /\ srv' = Received(srv, s, h.ino, k, v)
      /\ hand' = [hand EXCEPT ![p][a] = new]
      /\ UNCHANGED <<cli, put, get, history>>
  BY DEF Receive, SentBy
<1>2. /\ h \in HandState /\ h.got \in Nat /\ h.ino \in Nat
      /\ (h.got > 0 => h.ino \in 1 .. Len(srv.nodes)) /\ DiskOK(srv)
  BY HandlerHas DEF AllInv, TypeInv
<1>3. v \in Chunks \cup {NoChunk} BY ChunksOfPuts DEF Versions, SentBy
<1>4. k # 1 => srv.temp[s] = h.ino
  <2> SUFFICES ASSUME k # 1 PROVE srv.temp[s] = h.ino OBVIOUS
  <2>1. Writes(h) BY <1>1, <1>2 DEF Writes
  <2>2. Holds(srv, h.suf, h.ino, HasTemp(h), v, h.got)
    BY <2>1 DEF AllInv, OneInv, HandlersWrite
  <2>3. HasTemp(h) BY <1>1 DEF HasTemp
  <2> HIDE DEF h
  <2> QED BY <1>1, <2>2, <2>3 DEF Holds
<1>5. new.pc = "receive" /\ new.link = h.link BY <1>1, <1>2 DEF HandState
<1>6. h.link = "up"
  <2>1. Receives(h) BY <1>1 DEF Receives
  <2> QED BY <2>1, AtAttempt DEF AllInv
<1> HIDE DEF h, v
<1>7. k \in Nat \ {0} /\ (k # 1 => h.ino \in 1 .. Len(srv.nodes)) BY <1>2
<1> HIDE DEF k
<1>8. Reception(srv, srv', node, s, h.ino, k, v) BY <1>1, <1>2, <1>3, <1>7, ReceivedFacts
<1> HIDE DEF node
<1>9. DataKept(srv, srv') /\ srv'.file = srv.file
  <2>1. DiskOK(srv) /\ h.ino \in Nat /\ k \in Nat \ {0} BY <1>2, <1>7
  <2> QED BY <2>1, <1>4, <1>8, ReceptionKeeps
<1>10. TypeInv /\ RefInv BY DEF AllInv
<1>11. View' = View /\ \A g \in Gets : GetRefines(get'[g], srv')
  BY <1>1, <1>9, <1>10, KeptData DEF RefInv
<1>12. ContentOf(srv') = ContentOf(srv) BY <1>2, <1>9, KeptFile
<1> HIDE DEF new
<1>13. RefInv'
  <2>1. Receives(h) BY <1>1 DEF Receives
  <2>2. Receives(new) => Receives(hand[p][a]) /\ new.link = "up" BY <1>5, <1>6, <2>1 DEF h
  <2>3. (new.pc = "flush" => p \in applied') /\ new.pc # "unplaced" BY <1>5
  <2>4. put' = put /\ applied \subseteq applied' /\ replaced' = {}
    BY <1>1, <1>10 DEF RefInv, FlushRefines
  <2> QED BY <1>1, <1>10, <1>11, <2>2, <2>3, <2>4, RefHandler
<1>14. Unchanging BY <1>1, <1>11, <1>12 DEF Unchanging, Putting
<1> QED BY <1>13, <1>14, StutterStep DEF Refines

LEMMA RenameRefines ==
  ASSUME Undisturbed, AllInv, NEW p \in Puts, NEW a \in Attempts, Rename(p, a)
  PROVE  Refines
<1> DEFINE h == hand[p][a]
           new == [h EXCEPT !.pc = "flush"]
<1>1. /\ h.pc = "receive" /\ (h.link = "down" \/ ~More(p, h))
      /\ srv' = (IF h.got > 0 THEN Placed(srv, h.suf) ELSE srv)
      /\ hand' = [hand EXCEPT ![p][a].pc = "flush"]
      /\ applied' = (IF InPlace(p, h, srv') THEN applied \cup {p} ELSE applied)
      /\ replaced' = (IF srv'.file # srv.file THEN replaced \cup Unfinished ELSE replaced)
      /\ UNCHANGED <<cli, put, get>>
  BY DEF Rename, StreamEnded
<1>2. h \in HandState /\ h.got \in Nat /\ DiskOK(srv) BY HandlerHas DEF AllInv, TypeInv
<1>3. hand' = [hand EXCEPT ![p][a] = new] BY <1>1 DEF AllInv, TypeInv, AllHandlers
<1>4. new.pc = "flush" /\ new.link = h.link BY <1>2 DEF HandState
<1>5. h.link = "up" /\ put[p].pc = "streaming"
  <2>1. Receives(h) BY <1>1 DEF Receives
  <2> QED BY <2>1, AtAttempt DEF AllInv
<1>6. Whole(p, h)
  <2>1. HandlerStored(p, h, srv, Settled, seen) BY DEF AllInv, StoredInv
  <2>2. p \notin Missing BY DEF Undisturbed
  <2> HIDE DEF h
  <2> QED BY <1>1, <1>2, <1>5, <2>1, <2>2, MessagesOfPut DEF More, HandlerStored, Whole
<1>7. /\ h.got > 0 /\ h.suf \in Suffixes /\ h.ino \in 1 .. Len(srv.nodes)
      /\ srv.temp[h.suf] = h.ino /\ srv.nodes[h.ino] = WholeFile(p)
  <2>1. h.got > 0 BY <1>2, <1>6, MessagesOfPut DEF Whole
  <2>2. Writes(h) /\ HasTemp(h) BY <1>1, <2>1 DEF Writes, HasTemp
  <2>3. ~InBuffer(p, h.got) BY DEF Undisturbed, InBuffer
  <2> QED BY <1>6, <2>1, <2>2, <2>3, HeldIsFile DEF AllInv
<1> HIDE DEF h, new
<1>8. srv'.nodes = srv.nodes /\ srv'.file = h.ino /\ h.ino # NoNode
  <2>1. h.ino # NoNode BY <1>7 DEF NoNode
  <2>2. srv' = Placed(srv, h.suf) BY <1>1, <1>7
  <2> QED BY <1>2, <1>7, <2>1, <2>2, PlacedFacts
<1>9. applied' = applied \cup {p} BY <1>1, <1>7, <1>8 DEF InPlace
<1>10. replaced' = {}
  <2>1. Unfinished = {} BY DEF Unfinished, Undisturbed, InBuffer
  <2> QED BY <1>1, <2>1 DEF AllInv, RefInv, FlushRefines
<1>11. ContentOf(srv)' = WholeFile(p) BY <1>7, <1>8 DEF ContentOf
<1>12. TypeInv /\ RefInv /\ DataKept(srv, srv') BY <1>8, DataSame DEF AllInv
<1>13. View' = View /\ \A g \in Gets : GetRefines(get'[g], srv')
  BY <1>1, <1>12, KeptData DEF RefInv
<1>14. RefInv'
  <2>1. Receives(new) => Receives(hand[p][a]) /\ new.link = "up"
    BY <1>1, <1>4, <1>5 DEF h, Receives
  <2>2. (new.pc = "flush" => p \in applied') /\ new.pc # "unplaced" BY <1>4, <1>9
  <2>3. put' = put /\ applied \subseteq applied' /\ replaced' = {} BY <1>1, <1>9, <1>10
  <2> QED BY <1>3, <1>12, <1>13, <2>1, <2>2, <2>3, RefHandler
<1>15. Putting[p] = "pending" BY <1>5 DEF Putting
<1>16. UNCHANGED <<ContentOf(cli), Putting, View>> BY <1>1, <1>13 DEF Putting
<1>17. Store!Next BY <1>9, <1>11, <1>15, <1>16, StepOfApply
<1> QED BY <1>14, <1>17 DEF Refines

\* A handler that ends without touching data or the name of the file.
LEMMA EndRefines ==
  ASSUME AllInv, NEW p \in Puts, NEW a \in Attempts,
         NEW pc \in {"reply", "refused"}, hand' = [hand EXCEPT ![p][a] = Ended(hand[p][a], pc)],
         srv'.nodes = srv.nodes, srv'.file = srv.file,
         UNCHANGED <<cli, put, get, history>>
  PROVE  Refines
<1> DEFINE new == Ended(hand[p][a], pc)
<1>1. new.pc = pc
  <2>1. hand[p][a] \in HandState BY HandlerHas DEF AllInv
  <2>2. pc \in Running \cup {"none", "gone"} BY DEF Running
  <2> QED BY <2>1, <2>2, EndedOK
<1> HIDE DEF new
<1>2. TypeInv /\ RefInv /\ DataKept(srv, srv') BY DataSame DEF AllInv
<1>3. View' = View /\ \A g \in Gets : GetRefines(get'[g], srv') BY <1>2, KeptData DEF RefInv
<1>4. DiskOK(srv) BY <1>2 DEF TypeInv
<1>5. ContentOf(srv') = ContentOf(srv) BY <1>2, <1>4, KeptFile
<1>6. RefInv'
  <2>1. ~Receives(new) /\ new.pc # "flush" BY <1>1 DEF Receives
  <2>2. hand' = [hand EXCEPT ![p][a] = new] BY DEF new
  <2>3. put' = put /\ applied \subseteq applied' /\ replaced' = {}
    BY <1>2 DEF RefInv, FlushRefines
  <2>4. Receives(new) => Receives(hand[p][a]) /\ new.link = "up" BY <2>1
  <2>5. (new.pc = "flush" => p \in applied') /\ new.pc # "unplaced" BY <1>1, <2>1
  <2> QED BY <1>2, <1>3, <2>2, <2>3, <2>4, <2>5, RefHandler
<1>7. Unchanging BY <1>3, <1>5 DEF Unchanging, Putting
<1> QED BY <1>6, <1>7, StutterStep DEF Refines

LEMMA FlushRefinesStore ==
  ASSUME Undisturbed, AllInv, NEW p \in Puts, NEW a \in Attempts, Flush(p, a)
  PROVE  Refines
<1> DEFINE h == hand[p][a]
<1>1. ~InBuffer(p, h.got) BY DEF Undisturbed, InBuffer
<1>2. /\ h.pc \in {"flush", "unplaced"} /\ hand' = [hand EXCEPT ![p][a] = Ended(h, "reply")]
      /\ srv' = srv /\ UNCHANGED <<cli, put, get, replaced>>
      /\ applied' = applied \cup {p} \/ applied' = applied
  BY <1>1 DEF Flush
<1>3. p \in applied BY <1>2 DEF AllInv, RefInv, FlushRefines
<1>4. applied' = applied BY <1>2, <1>3
<1> QED BY <1>2, <1>4, EndRefines

LEMMA RefuseRefines ==
  ASSUME Undisturbed, AllInv, NEW p \in Puts, NEW a \in Attempts, Refuse(p, a)
  PROVE  Refines
<1> DEFINE h == hand[p][a]
<1>1. /\ srv' = (IF h.got > 0 THEN Removed(srv, h.suf) ELSE srv)
      /\ hand' = [hand EXCEPT ![p][a] = Ended(h, "refused")]
      /\ UNCHANGED <<cli, put, get, history>>
  BY DEF Refuse
<1>2. /\ (h.got > 0 => h.suf \in Suffixes) /\ DiskOK(srv)
  BY HandlerHas DEF AllInv, TypeInv
<1>3. srv'.nodes = srv.nodes /\ srv'.file = srv.file BY <1>1, <1>2, RemovedFacts
<1> QED BY <1>1, <1>3, EndRefines

LEMMA OpenRefines ==
  ASSUME AllInv, NEW g \in Gets, Open(g)
  PROVE  Refines
<1> DEFINE r == get[g]
           new == [r EXCEPT !.pc = "stream", !.src = srv.file, !.got = 0,
                            !.size = Len(srv.nodes[srv.file])]
<1>1. /\ r.pc \in {"idle", "again"} /\ UNCHANGED <<srv, cli, put, hand, history>>
      /\ get' = [get EXCEPT ![g] = IF srv.file = NoNode THEN EndedGet(r, "false") ELSE new]
  BY DEF Open
<1>2. TypeInv /\ RefInv /\ DiskOK(srv) /\ r \in GetState BY GetHas DEF AllInv, TypeInv
<1>3. UNCHANGED <<ContentOf(srv), ContentOf(cli), Putting, applied>> BY <1>1 DEF Putting
<1>4. View[g] = NoContent BY <1>1 DEF View
<1> HIDE DEF r
<1>5. CASE srv.file = NoNode
  <2>1. EndedGet(r, "false").pc = "false" BY DEF EndedGet
  <2>2. get' = [get EXCEPT ![g] = EndedGet(r, "false")] BY <1>1, <1>5
  <2>3. GetRefines(EndedGet(r, "false"), srv) BY <2>1 DEF GetRefines
  <2>4. RefInv' BY <1>1, <1>2, <2>2, <2>3, RefGet
  <2>5. View' = [View EXCEPT ![g] = NoContent]
    <3>1. View' = [View EXCEPT ![g] = IF EndedGet(r, "false").pc = "stream"
                                      THEN srv.nodes[EndedGet(r, "false").src] ELSE NoContent]
      BY <1>1, <1>2, <2>2, ViewAs
    <3> QED BY <2>1, <3>1
  <2>6. Unchanging BY <1>3, <1>4, <2>5 DEF Unchanging, View
  <2> QED BY <2>4, <2>6, StutterStep DEF Refines
<1>6. CASE srv.file # NoNode
  <2>1. new.pc = "stream" /\ new.src = srv.file /\ new.size = Len(srv.nodes[srv.file])
    BY <1>2 DEF GetState
  <2>2. get' = [get EXCEPT ![g] = new] BY <1>1, <1>6
  <2> HIDE DEF new
  <2>3. GetRefines(new, srv) BY <2>1 DEF GetRefines
  <2>4. RefInv' BY <1>1, <1>2, <2>2, <2>3, RefGet
  <2>5. View' = [View EXCEPT ![g] = ContentOf(srv)]
    <3>1. View' = [View EXCEPT ![g] = IF new.pc = "stream" THEN srv.nodes[new.src] ELSE NoContent]
      BY <1>1, <1>2, <2>2, ViewAs
    <3> QED BY <1>6, <2>1, <3>1 DEF ContentOf
  <2>6. ContentOf(srv) # NoContent
    <3>1. srv.file \in 1 .. Len(srv.nodes) BY <1>2, <1>6, FileIsUnnamed
    <3>2. Beginning(srv.nodes[srv.file]) BY <3>1 DEF AllInv, OneInv, Beginnings
    <3> QED BY <1>6, <3>2, NoContentIsNoBeginning DEF ContentOf
  <2>7. Store!Next BY <1>3, <2>5, <2>6, StepOfLook
  <2> QED BY <2>4, <2>7 DEF Refines
<1> QED BY <1>5, <1>6

LEMMA ChunkRefines ==
  ASSUME AllInv, NEW g \in Gets, NEW s \in Suffixes, Chunk(g, s)
  PROVE  Refines
<1> DEFINE r == get[g]
           k == r.got + 1
           v == IF r.size = 0 THEN NoChunk ELSE srv.nodes[r.src][k]
           node == NodeOf(cli, s, r.ino, k)
           new == [r EXCEPT !.got = k, !.suf = s, !.ino = node, !.last = v]
<1>0. TypeInv /\ RefInv /\ DiskOK(cli) BY DEF AllInv, TypeInv
<1>1. /\ cli' = Received(cli, s, r.ino, k, v)
      /\ get' = [get EXCEPT ![g] = new]
      /\ UNCHANGED <<srv, put, hand, history>>
      /\ r.pc = "stream" /\ (IF k = 1 THEN Collisions \/ FreeLocal(s) ELSE s = r.suf)
  BY DEF Chunk
<1>2. /\ r \in GetState /\ GetFits(r, srv, cli) /\ r.ino \in Nat /\ r.got \in Nat
      /\ k \in Nat \ {0} /\ (k # 1 => r.ino \in 1 .. Len(cli.nodes))
  BY <1>0, GetHas DEF GetFits
<1>3. v \in Chunks \cup {NoChunk} BY <1>0, ChunkRead DEF Chunk
<1>4. k # 1 => cli.temp[s] = r.ino
  <2> SUFFICES ASSUME k # 1 PROVE cli.temp[s] = r.ino OBVIOUS
  <2>1. WritesHere(r) BY <1>1, <1>2 DEF WritesHere
  <2>2. Holds(cli, r.suf, r.ino, r.pc = "stream", r.last, r.got)
    BY <2>1 DEF AllInv, OneInv, GetsWrite
  <2> HIDE DEF r
  <2> QED BY <1>1, <2>2 DEF Holds
<1>5. new.pc = "stream" /\ new.src = r.src /\ new.size = r.size BY <1>1, <1>2 DEF GetState
<1>6. GetRefines(new, srv)
  <2>1. GetRefines(r, srv) BY <1>0 DEF RefInv
  <2> HIDE DEF r, new
  <2> QED BY <1>1, <1>5, <2>1 DEF GetRefines
<1>7. View[g] = srv.nodes[r.src] BY <1>1 DEF View
<1> HIDE DEF r, k, v
<1>8. Reception(cli, cli', node, s, r.ino, k, v) BY <1>0, <1>1, <1>2, <1>3, ReceivedFacts
<1> HIDE DEF node, new
<1>9. DataKept(cli, cli') /\ cli'.file = cli.file
  <2>1. r.ino \in Nat /\ k \in Nat \ {0} /\ DiskOK(cli) BY <1>0, <1>2
  <2>2. s \in Suffixes OBVIOUS
  <2> QED BY ONLY <2>1, <2>2, <1>4, <1>8, ReceptionKeeps
<1>10. ContentOf(cli') = ContentOf(cli) BY <1>0, <1>9, KeptFile
<1>11. RefInv' BY <1>0, <1>1, <1>6, RefGet
<1>12. View' = View
  <2>1. View' = [View EXCEPT ![g] = IF new.pc = "stream" THEN srv.nodes[new.src] ELSE NoContent]
    BY <1>0, <1>1, ViewAs
  <2>2. View' = [View EXCEPT ![g] = View[g]] BY <1>5, <1>7, <2>1
  <2> QED BY <2>2 DEF View
<1>13. Unchanging BY <1>1, <1>10, <1>12 DEF Unchanging, Putting
<1> QED BY <1>11, <1>13, StutterStep DEF Refines

\* What is installed is the file the get has looked at.
LEMMA InstalledIsMapped ==
  ASSUME Undisturbed, AllInv, NEW g \in Gets, Install(g)
  PROVE  LET r == get[g] IN
         /\ r.suf \in Suffixes /\ cli.temp[r.suf] = r.ino /\ r.ino # NoNode
         /\ r.src \in 1 .. Len(srv.nodes)
         /\ cli.nodes[r.ino] = srv.nodes[r.src]
<1> DEFINE r == get[g]
           data == srv.nodes[r.src]
           mine == cli.nodes[r.ino]
<1>0. TypeInv /\ RefInv BY DEF AllInv
<1>1. r.pc = "stream" /\ r.got = Messages(r.size) BY DEF Install
<1>2. /\ r.got \in Nat /\ r.size \in Nat /\ GetFits(r, srv, cli)
      /\ r.src \in 1 .. Len(srv.nodes) /\ r.size = Len(data)
  <2>1. /\ r.got \in Nat /\ r.size \in Nat /\ GetFits(r, srv, cli) BY <1>0, GetHas
  <2>2. GetRefines(r, srv) BY <1>0 DEF RefInv
  <2> HIDE DEF r
  <2> QED BY <1>1, <2>1, <2>2 DEF GetFits, GetRefines
<1>3. r.got > 0 BY <1>1, <1>2 DEF Messages
<1>4. Holds(cli, r.suf, r.ino, r.pc = "stream", r.last, r.got) /\ Reads(r, srv)
  <2>1. WritesHere(r) BY <1>1, <1>3 DEF WritesHere
  <2> QED BY <2>1 DEF AllInv, OneInv, GetsWrite
<1>5. Beginning(data) BY <1>2 DEF AllInv, OneInv, Beginnings
<1>6. srv.nodes \in Seq(Seq(Chunks)) /\ cli.nodes \in Seq(Seq(Chunks))
  BY <1>0, DiskType DEF TypeInv
<1>7. data \in Seq(Chunks) BY <1>2, <1>6
<1> HIDE DEF r
<1>8. /\ r.suf \in Suffixes /\ cli.temp[r.suf] = r.ino /\ r.ino \in 1 .. Len(cli.nodes)
      /\ Len(mine) = Written(r.last, r.got)
      /\ \A j \in 1 .. Written(r.last, r.got) : mine[j] = r.last
      /\ IF r.last = NoChunk THEN r.got = 1 ELSE r.last \in Versions
  BY <1>1, <1>4 DEF Holds
<1>9. mine \in Seq(Chunks) BY <1>6, <1>8
<1> HIDE DEF data, mine
<1>10. Len(mine) = Len(data) /\ \A j \in 1 .. Len(data) : mine[j] = data[j]
  <2>1. CASE r.size = 0
    <3>1. r.last = NoChunk BY <1>1, <1>3, <1>4, <2>1 DEF Reads
    <3>2. Written(r.last, r.got) = 0 BY <3>1 DEF Written
    <3> QED BY <1>2, <1>8, <2>1, <3>2
  <2>2. CASE r.size # 0
    <3>1. r.last = data[1] BY <1>1, <1>3, <1>4, <2>2 DEF Reads, data
    <3>2. r.got = Len(data) /\ Len(data) > 0 BY <1>1, <1>2, <2>2 DEF Messages
    <3>3. data[1] \in Chunks BY <1>7, <3>2
    <3>4. r.last # NoChunk BY <3>1, <3>3, VersionsAssumption DEF Chunks
    <3>5. Written(r.last, r.got) = r.got BY <3>4 DEF Written, InBuffer, Undisturbed
    <3>6. \A j \in 1 .. Len(data) : data[j] = data[1]
      <4>1. PICK w \in Versions : \A j \in DOMAIN data : data[j] = w BY <1>5 DEF Beginning
      <4>2. 1 \in DOMAIN data /\ DOMAIN data = 1 .. Len(data) BY <1>7, <3>2
      <4> QED BY <4>1, <4>2
    <3> QED BY <1>8, <3>1, <3>2, <3>5, <3>6
  <2> QED BY <2>1, <2>2
<1>11. mine = data BY <1>7, <1>9, <1>10, SeqEqual
<1>12. r.ino # NoNode BY <1>8 DEF NoNode
<1> QED BY <1>2, <1>8, <1>11, <1>12 DEF r, data, mine

LEMMA InstallRefines ==
  ASSUME Undisturbed, AllInv, NEW g \in Gets, Install(g)
  PROVE  Refines
<1> DEFINE r == get[g]
           new == [r EXCEPT !.pc = "flush"]
<1>0. TypeInv /\ RefInv /\ DiskOK(cli) /\ r \in GetState BY GetHas DEF AllInv, TypeInv
<1>1. /\ r.pc = "stream" /\ cli' = Placed(cli, r.suf)
      /\ get' = [get EXCEPT ![g].pc = "flush"] /\ UNCHANGED <<srv, put, hand, history>>
  BY DEF Install
<1>2. get' = [get EXCEPT ![g] = new] BY <1>1 DEF AllInv, TypeInv, AllGets
<1>3. new.pc = "flush" BY <1>0 DEF GetState
<1>4. /\ r.suf \in Suffixes /\ cli.temp[r.suf] = r.ino /\ r.ino # NoNode
      /\ r.src \in 1 .. Len(srv.nodes) /\ cli.nodes[r.ino] = srv.nodes[r.src]
  BY InstalledIsMapped
<1>5. View[g] = srv.nodes[r.src] BY <1>1 DEF View
<1> HIDE DEF new, r
<1>6. GetRefines(new, srv) BY <1>3 DEF GetRefines
<1>7. RefInv' BY <1>0, <1>1, <1>2, <1>6, RefGet
<1>8. cli'.file = r.ino /\ cli'.nodes = cli.nodes BY <1>0, <1>1, <1>4, PlacedFacts
<1>9. ContentOf(cli)' = View[g] BY <1>4, <1>5, <1>8 DEF ContentOf
<1>10. View' = [View EXCEPT ![g] = NoContent]
  <2>1. View' = [View EXCEPT ![g] = IF new.pc = "stream" THEN srv.nodes[new.src] ELSE NoContent]
    BY <1>0, <1>1, <1>2, ViewAs
  <2> QED BY <1>3, <2>1
<1>11. View[g] # NoContent
  <2>1. Beginning(srv.nodes[r.src]) BY <1>4 DEF AllInv, OneInv, Beginnings
  <2> QED BY <1>5, <2>1, NoContentIsNoBeginning
<1>12. UNCHANGED <<ContentOf(srv), Putting, applied>> BY <1>1 DEF Putting
<1>13. Store!Next BY <1>9, <1>10, <1>11, <1>12, StepOfInstall
<1> QED BY <1>7, <1>13 DEF Refines

LEMMA FlushGetRefines ==
  ASSUME Undisturbed, AllInv, NEW g \in Gets, FlushGet(g)
  PROVE  Refines
<1> DEFINE r == get[g]
           new == EndedGet(r, "true")
<1>0. TypeInv /\ RefInv BY DEF AllInv
<1>1. /\ r.pc = "flush" /\ cli' = cli /\ get' = [get EXCEPT ![g] = new]
      /\ UNCHANGED <<srv, put, hand, history>>
  BY DEF FlushGet, Undisturbed, InBuffer
<1>2. new.pc = "true" BY DEF EndedGet
<1>3. View[g] = NoContent BY <1>1 DEF View
<1> HIDE DEF new
<1>4. GetRefines(new, srv) BY <1>2 DEF GetRefines
<1>5. RefInv' BY <1>0, <1>1, <1>4, RefGet
<1>6. View' = View
  <2>1. View' = [View EXCEPT ![g] = IF new.pc = "stream" THEN srv.nodes[new.src] ELSE NoContent]
    BY <1>0, <1>1, ViewAs
  <2>2. View' = [View EXCEPT ![g] = View[g]] BY <1>2, <1>3, <2>1
  <2> QED BY <2>2 DEF View
<1>7. Unchanging BY <1>1, <1>6 DEF Unchanging, Putting
<1> QED BY <1>5, <1>7, StutterStep DEF Refines

LEMMA CrashRefines == ASSUME AllInv, Crash PROVE Refines
<1> DEFINE G == {g \in Gets : get[g].pc = "stream"}
<1>0. TypeInv /\ RefInv BY DEF AllInv
<1>1. UNCHANGED <<srv, cli, put, history>> BY DEF Crash
<1>2. \A g \in Gets : get'[g] = IF get[g].pc = "stream" THEN EndedGet(get[g], "false") ELSE get[g]
  BY DEF Crash
<1>3. \A g \in Gets : EndedGet(get[g], "false").pc = "false" BY DEF EndedGet
<1>4. ASSUME NEW p \in Puts, NEW a \in Attempts
      PROVE  ~Receives(hand'[p][a])
  <2>1. hand[p][a] \in HandState BY <1>0, HandlerHas
  <2>2. hand'[p][a] = IF hand[p][a].pc \in Running
                      THEN Ended(Lose(hand[p][a]), "gone") ELSE hand[p][a]
    BY DEF Crash
  <2>3. "gone" \in Running \cup {"none", "gone"} OBVIOUS
  <2>4. Ended(Lose(hand[p][a]), "gone").pc = "gone" BY <2>1, <2>3, EndedOK
  <2> QED BY <2>2, <2>4 DEF Receives, Running
<1>5. \A p \in Puts : PutRefines(p, put'[p], hand'[p])
  BY <1>0, <1>1, <1>4 DEF RefInv, PutRefines
<1>6. FlushRefines' BY <1>0, <1>1, <1>4 DEF RefInv, FlushRefines, Receives
<1>7. \A g \in Gets : GetRefines(get'[g], srv')
  <2> SUFFICES ASSUME NEW g \in Gets PROVE GetRefines(get'[g], srv') OBVIOUS
  <2>1. GetRefines(get[g], srv) BY <1>0 DEF RefInv
  <2> QED BY <1>1, <1>2, <1>3, <2>1 DEF GetRefines
<1>8. RefInv' BY <1>5, <1>6, <1>7 DEF RefInv
<1>9. View' = [g \in Gets |-> IF g \in G THEN NoContent ELSE View[g]]
  <2>1. \A g \in Gets : (IF get'[g].pc = "stream" THEN srv'.nodes[get'[g].src] ELSE NoContent)
                        = IF g \in G THEN NoContent ELSE View[g]
    BY <1>1, <1>2, <1>3 DEF View
  <2> HIDE DEF G
  <2> QED BY <2>1 DEF View
<1>10. UNCHANGED <<ContentOf(srv), ContentOf(cli), Putting, applied>> BY <1>1 DEF Putting
<1>11. G \in SUBSET Gets OBVIOUS
<1> HIDE DEF G
<1>12. Store!Next BY <1>9, <1>10, <1>11, StepOfCrash
<1> QED BY <1>8, <1>12 DEF Refines

LEMMA NextRefines == Undisturbed /\ AllInv /\ [Next]_vars => Refines
<1> SUFFICES ASSUME Undisturbed, AllInv, [Next]_vars PROVE Refines OBVIOUS
<1>1. CASE UNCHANGED vars
  <2>1. UNCHANGED <<srv, cli, put, hand, get, history>> BY <1>1 DEF vars
  <2>2. Unchanging BY <2>1 DEF Unchanging, Putting, View
  <2>3. RefInv' BY <2>1 DEF AllInv, RefInv, FlushRefines
  <2> QED BY <2>2, <2>3, StutterStep DEF Refines
<1>2. "break" \notin Faults /\ "client" \notin Faults /\ "rename" \notin Faults
  BY DEF Undisturbed
<1>3. ASSUME NEW p \in Puts, NEW a \in Attempts, Serve(p, a) \/ Refuse(p, a) PROVE Refines
  BY <1>3, ReceiveRefines, RenameRefines, FlushRefinesStore, RefuseRefines DEF Serve
<1>4. ASSUME NEW p \in Puts, Begin(p) \/ AttemptEnds(p) \/ BreakPut(p) \/ Die(p) PROVE Refines
  BY <1>2, <1>4, BeginRefines, AttemptEndsRefines DEF BreakPut, Die, Fault
<1>5. ASSUME NEW g \in Gets, Open(g) \/ GetStep(g) \/ BreakGet(g) PROVE Refines
  BY <1>2, <1>5, OpenRefines, ChunkRefines, InstallRefines, FlushGetRefines
     DEF GetStep, BreakGet, Fault
<1>6. ASSUME NEW p \in Puts, NEW a \in Attempts, RenameFails(p, a) PROVE Refines
  BY <1>2, <1>6 DEF RenameFails, Fault
<1> QED BY <1>1, <1>3, <1>4, <1>5, <1>6, CrashRefines DEF Next

\* If streams and callers live, no tail stays in a buffer and every file can be opened,
\* rpc_putFile and rpc_getFile are operations on whole files, for any number of calls,
\* crashes of the server and failed writes.
THEOREM RefinesStore == Undisturbed => (Spec => ImplementsStore)
<1> SUFFICES ASSUME Undisturbed PROVE Spec => ImplementsStore OBVIOUS
<1>1. Init => AllInv /\ Store!Init BY InitFits, InitOne, InitStored, InitRef, InitIsStore DEF AllInv
<1>2. AllInv /\ [Next]_vars => AllInv' /\ [Store!Next]_Store!vars
  BY NextFits, NextOne, NextStored, NextRefines DEF AllInv, Refines, Undisturbed
<1> QED BY <1>1, <1>2, PTL DEF Spec, ImplementsStore, Store!Spec
=============================================================================
