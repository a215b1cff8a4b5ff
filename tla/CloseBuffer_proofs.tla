------------------------- MODULE CloseBuffer_proofs -------------------------
(***************************************************************************)
(* Invariants of CloseBuffer for any number of producers, paths, slots and *)
(* submissions.                                                            *)
(***************************************************************************)
EXTENDS CloseBuffer, FiniteSetTheorems, SequenceTheorems, TLAPS

-----------------------------------------------------------------------------
(* Slot arithmetic.                                                        *)

LEMMA ModSmall ==
  ASSUME NEW C \in Nat \ {0}, NEW a \in 0 .. C - 1
  PROVE  a % C = a
BY SMT

LEMMA ModWrap ==
  ASSUME NEW C \in Nat \ {0}, NEW a \in C .. 2 * C - 1
  PROVE  a % C = a - C
BY SMT

LEMMA ModSum ==
  ASSUME NEW C \in Nat \ {0}, NEW a \in 0 .. C - 1, NEW b \in 0 .. C - 1
  PROVE  (a + b) % C = IF a + b < C THEN a + b ELSE a + b - C
BY SMT

LEMMA ModSlot ==
  ASSUME NEW C \in Nat \ {0}, NEW a \in Nat
  PROVE  a % C \in 0 .. C - 1
BY SMT

\* The slots of a ring that starts one later.
LEMMA ModNext ==
  ASSUME NEW C \in Nat \ {0}, NEW a \in 0 .. C - 1, NEW i \in 0 .. C - 1
  PROVE  (((a + 1) % C) + i) % C = (a + (i + 1)) % C
<1>1. CASE a + 1 < C
  <2>1. (a + 1) % C = a + 1 BY <1>1, ModSmall
  <2> QED BY <2>1, <1>1
<1>2. CASE a + 1 = C
  <2>1. (a + 1) % C = 0 BY <1>2, ModWrap
  <2>2. (0 + i) % C = i BY ModSmall
  <2>3. (a + (i + 1)) % C = i BY <1>2, ModWrap
  <2> QED BY <2>1, <2>2, <2>3
<1> QED BY <1>1, <1>2

\* The slot after the last of n occupied ones.
LEMMA ModLast ==
  ASSUME NEW C \in Nat \ {0}, NEW a \in 0 .. C - 1, NEW n \in 0 .. C - 1
  PROVE  (((a + n) % C) + 1) % C = (a + (n + 1)) % C
<1>1. CASE a + n < C
  <2>1. (a + n) % C = a + n BY <1>1, ModSmall
  <2> QED BY <2>1
<1>2. CASE a + n >= C
  <2>1. (a + n) % C = a + n - C BY <1>2, ModWrap
  <2>2. (a + n - C + 1) % C = a + n - C + 1 BY <1>2, ModSmall
  <2>3. (a + (n + 1)) % C = a + n + 1 - C BY <1>2, ModWrap
  <2> QED BY <2>1, <2>2, <2>3
<1> QED BY <1>1, <1>2

-----------------------------------------------------------------------------
(* The inductive invariant.                                                *)

\* The occupied slots are the count slots from front on, and hold paths.
RingShape ==
  /\ rear = (front + count) % Capacity
  /\ \A i \in 0 .. count - 1 : buffer[(front + i) % Capacity] \in Paths

\* A producer inside a call has a path; producers are idle once cleanupBuffer
\* runs, and notDone is FALSE from then on.
Producing ==
  /\ \A p \in Producers : ppc[p] # "idle" => item[p] \in Paths
  /\ (dpc = "mounted") <=> notDone
  /\ ~notDone => \A p \in Producers : ppc[p] = "idle"

\* What the consumer knows while it holds the mutex or has taken a path.
Consuming ==
  /\ cpc = "parking" => count = 0
  /\ (cpc = "inside" /\ notDone) => count > 0
  /\ (cpc \in {"notify", "send"} \/ (cpc = "got" /\ notDone)) => taken \in Paths
  /\ cpc \notin {"notify", "got", "send"} => taken = NoPath

IInv == TypeOK /\ RingShape /\ Producing /\ Consuming /\ ConsumerNotForgotten

LEMMA InitIInv == Init => IInv
BY CapacityAssumption, NoPathAssumption, ModSmall
   DEF Init, IInv, TypeOK, RingShape, Producing, Consuming,
       ConsumerNotForgotten, Slots, ProducerPCs, ConsumerPCs, DestroyPCs

LEMMA StepIInv == IInv /\ [Next]_vars => IInv'
<1> SUFFICES ASSUME IInv, [Next]_vars PROVE IInv'
  OBVIOUS
<1> USE CapacityAssumption, NoPathAssumption, MaxSubmitsAssumption
    DEF IInv, TypeOK, RingShape, Producing, Consuming, ConsumerNotForgotten,
        Slots, ProducerPCs, ConsumerPCs, DestroyPCs, ring
<1>1. ASSUME NEW p \in Producers, NEW path \in Paths, SubmitRequest(p, path)
      PROVE  IInv'
  BY <1>1 DEF SubmitRequest
<1>2. ASSUME NEW p \in Producers, Deposit(p) PROVE IInv'
  <2> USE <1>2 DEF Deposit
  <2>1. TypeOK'
    <3>1. (rear + 1) % Capacity \in 0 .. Capacity - 1 BY ModSlot
    <3> QED BY <3>1
  <2>2. RingShape'
    <3>0. front \in 0 .. Capacity - 1 /\ count \in 0 .. Capacity - 1
      OBVIOUS
    <3>1. rear' = (front' + count') % Capacity
      <4>1. (((front + count) % Capacity) + 1) % Capacity
              = (front + (count + 1)) % Capacity
        BY ONLY <3>0, ModLast, CapacityAssumption
      <4> QED BY <4>1
    <3>2. ASSUME NEW i \in 0 .. count' - 1
          PROVE  buffer'[(front' + i) % Capacity] \in Paths
      <4>1. CASE i = count BY <4>1
      <4>2. CASE i < count
        <5>1. i \in 0 .. count - 1 BY <4>2
        <5>2. front + i \in Nat BY <3>0, <5>1
        <5>3. (front + i) % Capacity \in 0 .. Capacity - 1
          BY ONLY <5>2, ModSlot, CapacityAssumption
        <5> QED BY <5>1, <5>3
      <4> QED BY <4>1, <4>2
    <3> QED BY <3>1, <3>2
  <2>3. (Producing /\ Consuming /\ ConsumerNotForgotten)' BY DEF LockFree
  <2> QED BY <2>1, <2>2, <2>3
<1>3. ASSUME NEW p \in Producers, WaitNotFull(p) PROVE IInv'
  BY <1>3 DEF WaitNotFull, LockFree
<1>4. ASSUME NEW p \in Producers, NotifyNotEmpty(p) PROVE IInv'
  BY <1>4 DEF NotifyNotEmpty
<1>5. CASE LoopTest
  BY <1>5 DEF LoopTest
<1>6. CASE FetchLock
  BY <1>6 DEF FetchLock
<1>7. CASE FetchPredicate
  BY <1>7 DEF FetchPredicate
<1>8. CASE FetchPark
  BY <1>8 DEF FetchPark
<1>9. CASE FetchTake
  <2> USE <1>9 DEF FetchTake
  <2>1. taken' \in Paths
    <3>1. front \in 0 .. Capacity - 1 /\ 0 \in 0 .. count - 1
      OBVIOUS
    <3>2. front + 0 = front BY <3>1
    <3>3. (front + 0) % Capacity = front
      BY ONLY <3>1, <3>2, ModSmall, CapacityAssumption
    <3>4. buffer[(front + 0) % Capacity] \in Paths BY <3>1
    <3> QED BY <3>3, <3>4
  <2>2. TypeOK'
    <3>1. (front + 1) % Capacity \in 0 .. Capacity - 1 BY ModSlot
    <3>2. front' \in 0 .. Capacity - 1 BY <3>1
    <3>3. count' \in 0 .. Capacity OBVIOUS
    <3> QED BY <3>2, <3>3, <2>1
  <2>3. RingShape'
    <3>0. front \in 0 .. Capacity - 1 /\ count \in 1 .. Capacity
      OBVIOUS
    <3>1. ASSUME NEW i \in 0 .. count - 1
          PROVE  (front' + i) % Capacity = (front + (i + 1)) % Capacity
      <4>1. i \in 0 .. Capacity - 1 BY <3>0
      <4>2. (((front + 1) % Capacity) + i) % Capacity
              = (front + (i + 1)) % Capacity
        BY ONLY <4>1, <3>0, ModNext, CapacityAssumption
      <4> QED BY <4>2
    <3>2. rear' = (front' + count') % Capacity
      <4>1. count - 1 \in 0 .. count - 1 BY <3>0
      <4>2. (front' + (count - 1)) % Capacity = (front + (count - 1 + 1)) % Capacity
        BY <4>1, <3>1
      <4>3. count - 1 + 1 = count BY <3>0
      <4> QED BY <4>2, <4>3
    <3>3. ASSUME NEW i \in 0 .. count' - 1
          PROVE  buffer'[(front' + i) % Capacity] \in Paths
      <4>1. i \in 0 .. count - 1 /\ i + 1 \in 0 .. count - 1 BY <3>0
      <4>2. (front' + i) % Capacity = (front + (i + 1)) % Capacity BY <3>1, <4>1
      <4>3. buffer[(front + (i + 1)) % Capacity] \in Paths BY <4>1
      <4> QED BY <4>2, <4>3
    <3> QED BY <3>2, <3>3
  <2>4. (Producing /\ Consuming /\ ConsumerNotForgotten)' BY <2>1
  <2> QED BY <2>2, <2>3, <2>4
<1>10. CASE FetchNothing
  BY <1>10 DEF FetchNothing
<1>11. CASE NotifyNotFull
  BY <1>11 DEF NotifyNotFull
<1>12. CASE SendTest
  BY <1>12 DEF SendTest
<1>13. CASE CloseOnServer
  BY <1>13 DEF CloseOnServer
<1>14. CASE CleanupFlag
  BY <1>14 DEF CleanupFlag
<1>15. CASE CleanupNotify
  BY <1>15 DEF CleanupNotify
<1>16. CASE Join
  BY <1>16 DEF Join
<1>17. ASSUME NEW p \in Producers, SpuriousProducer(p) PROVE IInv'
  BY <1>17 DEF SpuriousProducer
<1>18. CASE SpuriousConsumer
  BY <1>18 DEF SpuriousConsumer
<1>19. CASE UNCHANGED vars
  BY <1>19 DEF vars
<1> QED
  BY <1>1, <1>2, <1>3, <1>4, <1>5, <1>6, <1>7, <1>8, <1>9, <1>10, <1>11, <1>12,
     <1>13, <1>14, <1>15, <1>16, <1>17, <1>18, <1>19
     DEF Next, ProducerStep, ConsumerStep, DestroyStep

\* The values of the buffer, its threads and the histories stay in their types;
\* in particular front, rear and count stay within the ring.
THEOREM TypeCorrect == Spec => []TypeOK
<1>1. IInv => TypeOK BY DEF IInv
<1> QED BY <1>1, InitIInv, StepIInv, PTL DEF Spec

\* The consumer of the close queue never sleeps on a non-empty ring without a
\* notification under way, for any number of producers and slots.
THEOREM NeverForgetsConsumer == Spec => []ConsumerNotForgotten
<1>1. IInv => ConsumerNotForgotten BY DEF IInv
<1> QED BY <1>1, InitIInv, StepIInv, PTL DEF Spec

-----------------------------------------------------------------------------
(* Producers that sleep on a full ring.                                    *)

LEMMA EnteringNat == IsFiniteSet(Entering) /\ Cardinality(Entering) \in Nat
<1>1. IsFiniteSet(Entering)
  BY ProducersAssumption, FS_Subset DEF Entering
<1> QED BY <1>1, FS_CardinalityType

\* A producer that starts, or starts again, to enter deposit is one more.
LEMMA EnteringGrows ==
  ASSUME NEW p \in Producers, ppc \in [Producers -> ProducerPCs], ppc[p] # "enter",
         ppc' = [ppc EXCEPT ![p] = "enter"]
  PROVE  Cardinality(Entering') = Cardinality(Entering) + 1
<1>1. Entering' = Entering \cup {p} BY DEF Entering
<1>2. p \notin Entering BY DEF Entering
<1> QED BY <1>1, <1>2, EnteringNat, FS_AddElement

\* A producer that leaves it is one less.
LEMMA EnteringShrinks ==
  ASSUME NEW p \in Producers, ppc \in [Producers -> ProducerPCs], ppc[p] = "enter",
         NEW label, label # "enter", ppc' = [ppc EXCEPT ![p] = label]
  PROVE  /\ Cardinality(Entering') \in Nat
         /\ Cardinality(Entering') = Cardinality(Entering) - 1
<1>1. Entering' = Entering \ {p} BY DEF Entering
<1>2. p \in Entering BY DEF Entering
<1>3. Cardinality(Entering') = Cardinality(Entering) - 1
  BY <1>1, <1>2, EnteringNat, FS_RemoveElement
<1>4. IsFiniteSet(Entering') BY <1>1, EnteringNat, FS_Subset
<1> QED BY <1>3, <1>4, FS_CardinalityType

LEMMA StepProducers ==
  IInv /\ ProducerNotForgotten /\ [Next]_vars => ProducerNotForgotten'
<1> SUFFICES ASSUME IInv, ProducerNotForgotten, [Next]_vars
             PROVE  ProducerNotForgotten'
  OBVIOUS
<1>a. /\ ppc \in [Producers -> ProducerPCs]
      /\ count \in 0 .. Capacity /\ Capacity \in Nat
      /\ Cardinality(Entering) \in Nat
  BY EnteringNat, CapacityAssumption DEF IInv, TypeOK
<1>b. ASSUME ppc' = ppc PROVE Entering' = Entering
  BY <1>b DEF Entering
<1>1. ASSUME NEW p \in Producers, NEW path \in Paths, SubmitRequest(p, path)
      PROVE  ProducerNotForgotten'
  <2>1. Cardinality(Entering') = Cardinality(Entering) + 1
    BY <1>1, <1>a, EnteringGrows DEF SubmitRequest
  <2> QED BY <1>1, <1>a, <2>1 DEF SubmitRequest, ProducerNotForgotten, ring
<1>2. ASSUME NEW p \in Producers, Deposit(p) PROVE ProducerNotForgotten'
  <2>1. Cardinality(Entering') = Cardinality(Entering) - 1
    BY <1>2, <1>a, EnteringShrinks DEF Deposit
  <2> QED BY <1>2, <1>a, <2>1 DEF Deposit, ProducerNotForgotten
<1>3. ASSUME NEW p \in Producers, WaitNotFull(p) PROVE ProducerNotForgotten'
  <2>1. Cardinality(Entering') \in Nat
    BY <1>3, <1>a, EnteringShrinks DEF WaitNotFull
  <2> QED BY <1>3, <1>a, <2>1 DEF WaitNotFull, ProducerNotForgotten, ring
<1>4. ASSUME NEW p \in Producers, NotifyNotEmpty(p) PROVE ProducerNotForgotten'
  <2>1. Entering' = Entering BY <1>4, <1>a DEF NotifyNotEmpty, Entering
  <2> QED BY <1>4, <1>a, <2>1 DEF NotifyNotEmpty, ProducerNotForgotten, ring
<1>5. CASE FetchTake
  BY <1>5, <1>a, <1>b DEF FetchTake, ProducerNotForgotten
<1>6. CASE NotifyNotFull
  <2>1. CASE \E p \in Producers : ppc[p] = "waiting"
    <3>1. PICK p \in Producers : /\ ppc[p] = "waiting"
                                 /\ ppc' = [ppc EXCEPT ![p] = "enter"]
      BY <1>6, <2>1 DEF NotifyNotFull
    <3>2. Cardinality(Entering') = Cardinality(Entering) + 1
      BY <3>1, <1>a, EnteringGrows
    <3> QED BY <1>6, <1>a, <2>1, <3>2 DEF NotifyNotFull, ProducerNotForgotten, ring
  <2>2. CASE ~ \E p \in Producers : ppc[p] = "waiting"
    BY <1>6, <2>2 DEF NotifyNotFull, ProducerNotForgotten
  <2> QED BY <2>1, <2>2
<1>7. ASSUME NEW p \in Producers, SpuriousProducer(p) PROVE ProducerNotForgotten'
  <2>1. Cardinality(Entering') = Cardinality(Entering) + 1
    BY <1>7, <1>a, EnteringGrows DEF SpuriousProducer
  <2> QED BY <1>7, <1>a, <2>1 DEF SpuriousProducer, ProducerNotForgotten, ring
<1>8. ASSUME UNCHANGED <<ppc, count>>, cpc = "notify" => cpc' = "notify"
      PROVE  ProducerNotForgotten'
  BY <1>8, <1>a, <1>b DEF ProducerNotForgotten
<1>9. CASE LoopTest \/ FetchLock \/ FetchPredicate \/ FetchPark \/ FetchNothing
             \/ SendTest \/ CloseOnServer \/ SpuriousConsumer
  BY <1>8, <1>9 DEF LoopTest, FetchLock, FetchPredicate, FetchPark, FetchNothing,
     SendTest, CloseOnServer, SpuriousConsumer, ring
<1>10. CASE CleanupFlag \/ CleanupNotify \/ Join \/ UNCHANGED vars
  BY <1>8, <1>10 DEF CleanupFlag, CleanupNotify, Join, ring, vars
<1> QED
  BY <1>1, <1>2, <1>3, <1>4, <1>5, <1>6, <1>7, <1>9, <1>10
     DEF Next, ProducerStep, ConsumerStep, DestroyStep

\* No producer of the close queue is stranded: as long as one sleeps, every free
\* slot is spoken for by a producer on its way in or a notification to come.
THEOREM NeverForgetsProducer == Spec => []ProducerNotForgotten
<1>1. Init => ProducerNotForgotten BY DEF Init, ProducerNotForgotten
<1> QED BY <1>1, InitIInv, StepIInv, StepProducers, PTL DEF Spec

-----------------------------------------------------------------------------
(* The ring implements the abstract queue.                                 *)

\* The parts of the refinement mapping have the types of CloseQueue.
LEMMA QueuedSeq ==
  ASSUME IInv
  PROVE  Queued \in Seq(Paths) /\ Len(Queued) = count
<1>1. count \in Nat BY CapacityAssumption DEF IInv, TypeOK
<1>2. ASSUME NEW i \in 1 .. count PROVE Queued[i] \in Paths
  <2>1. i - 1 \in 0 .. count - 1 /\ front + i - 1 = front + (i - 1)
    BY <1>1 DEF IInv, TypeOK, Slots
  <2> QED BY <2>1 DEF IInv, RingShape, Queued
<1>3. Queued = [i \in 1 .. count |-> Queued[i]] BY DEF Queued
<1> QED BY <1>1, <1>2, <1>3

LEMMA InitQueue == Init => Abstract!Init
<1> SUFFICES ASSUME Init PROVE Abstract!Init
  OBVIOUS
<1>1. Queued = <<>> BY DEF Init, Queued
<1> QED BY <1>1 DEF Init, Abstract!Init

LEMMA DepositAppends ==
  ASSUME IInv, NEW p \in Producers, Deposit(p)
  PROVE  Abstract!Submit(item[p])
<1>0. /\ count \in 0 .. Capacity - 1 /\ front \in 0 .. Capacity - 1
      /\ Capacity \in Nat \ {0} /\ item[p] \in Paths
  BY CapacityAssumption DEF IInv, TypeOK, Producing, Slots, Deposit
<1>1. notDone BY DEF IInv, Producing, Deposit
<1>2. ASSUME NEW i \in 1 .. count
      PROVE  /\ (front + i - 1) % Capacity # rear
             /\ (front + i - 1) % Capacity \in Slots
  <2>1. rear = IF front + count < Capacity THEN front + count
               ELSE front + count - Capacity
    <3>1. rear = (front + count) % Capacity BY DEF IInv, RingShape
    <3> QED BY ONLY <1>0, <3>1, ModSum
  <2>2. (front + i - 1) % Capacity =
          IF front + i - 1 < Capacity THEN front + i - 1
          ELSE front + i - 1 - Capacity
    <3>1. i - 1 \in 0 .. Capacity - 1 /\ front + i - 1 = front + (i - 1) BY <1>0
    <3> QED BY ONLY <1>0, <3>1, ModSum
  <2> QED BY <1>0, <2>1, <2>2 DEF Slots
<1>3. \A i \in 1 .. count' : Queued'[i] = IF i <= count THEN Queued[i] ELSE item[p]
  <2> TAKE i \in 1 .. count'
  <2>1. front' = front /\ count' = count + 1 BY DEF Deposit
  <2>2. CASE i <= count
    <3>1. i \in 1 .. count BY <1>0, <2>1, <2>2
    <3>2. buffer'[(front + i - 1) % Capacity] = buffer[(front + i - 1) % Capacity]
      BY <1>2, <3>1 DEF Deposit, IInv, TypeOK
    <3> QED BY <2>1, <3>1, <3>2 DEF Queued
  <2>3. CASE i = count + 1
    <3>1. front + i - 1 = front + count BY <1>0, <2>3
    <3>2. buffer'[rear] = item[p] BY DEF Deposit, IInv, TypeOK
    <3>3. rear = (front + count) % Capacity BY DEF IInv, RingShape
    <3>4. Queued'[i] = buffer'[(front + i - 1) % Capacity] BY <2>1 DEF Queued
    <3> QED BY <1>0, <2>3, <3>1, <3>2, <3>3, <3>4
  <2> QED BY <1>0, <2>1, <2>2, <2>3
<1>4. Queued' = Append(Queued, item[p])
  <2>1. Queued \in Seq(Paths) /\ Len(Queued) = count BY QueuedSeq
  <2>2. count' = count + 1 BY DEF Deposit
  <2>3. Queued' = [i \in 1 .. count' |-> Queued'[i]] BY DEF Queued
  <2>4. Append(Queued, item[p])
          = [i \in 1 .. count + 1 |-> IF i <= count THEN Queued[i] ELSE item[p]]
    BY <1>0, <2>1
  <2> QED BY <1>3, <2>2, <2>3, <2>4
<1>5. Len(Queued) < Capacity BY <1>0, QueuedSeq
<1> QED BY <1>1, <1>4, <1>5 DEF Deposit, Abstract!Submit

LEMMA FetchTakesHead ==
  ASSUME IInv, FetchTake, taken = NoPath
  PROVE  Abstract!Take
<1>0. /\ count \in 1 .. Capacity /\ front \in 0 .. Capacity - 1
      /\ Capacity \in Nat \ {0} /\ count' = count - 1
      /\ front' = (front + 1) % Capacity /\ buffer' = buffer
  BY CapacityAssumption DEF IInv, TypeOK, Consuming, Slots, FetchTake
<1>1. Queued \in Seq(Paths) /\ Len(Queued) = count BY QueuedSeq
<1>2. taken' = Head(Queued) /\ taken' \in Paths
  <2>1. front + 1 - 1 = front /\ front \in 0 .. Capacity - 1 BY <1>0
  <2>2. front % Capacity = front BY ONLY <2>1, <1>0, ModSmall
  <2>3. Queued[1] = buffer[(front + 1 - 1) % Capacity] BY <1>0 DEF Queued
  <2>4. Queued[1] \in Paths /\ Head(Queued) = Queued[1] BY <1>0, <1>1
  <2> QED BY <2>1, <2>2, <2>3, <2>4 DEF FetchTake
<1>3. \A i \in 1 .. count' : Queued'[i] = Queued[i + 1]
  <2> TAKE i \in 1 .. count'
  <2>1. i - 1 \in 0 .. Capacity - 1 BY <1>0
  <2>2. (((front + 1) % Capacity) + (i - 1)) % Capacity
          = (front + ((i - 1) + 1)) % Capacity
    BY ONLY <2>1, <1>0, ModNext
  <2>3. front' \in Nat BY <1>0, ModSlot
  <2>4. /\ front' + i - 1 = front' + (i - 1)
        /\ front + (i + 1) - 1 = front + ((i - 1) + 1)
        /\ i + 1 \in 1 .. count
    BY <1>0, <2>3
  <2>5. Queued'[i] = buffer[(front' + i - 1) % Capacity] BY <1>0 DEF Queued
  <2>6. Queued[i + 1] = buffer[(front + (i + 1) - 1) % Capacity]
    BY <2>4 DEF Queued
  <2> QED BY <1>0, <2>2, <2>4, <2>5, <2>6
<1>4. Queued' = Tail(Queued)
  <2>1. Queued' = [i \in 1 .. count' |-> Queued'[i]] BY DEF Queued
  <2>2. Queued # <<>> BY <1>0, <1>1
  <2>3. /\ Tail(Queued) \in Seq(Paths) /\ Len(Tail(Queued)) = count - 1
        /\ \A i \in 1 .. Len(Tail(Queued)) : Tail(Queued)[i] = Queued[i + 1]
    BY ONLY <1>1, <2>2, HeadTailProperties
  <2>4. count' \in Nat /\ \A i \in 1 .. count' : i + 1 \in 1 .. count BY <1>0
  <2>5. \A i \in 1 .. count' : Queued'[i] \in Paths
    BY ONLY <1>1, <1>3, <2>4, ElementOfSeq
  <2>6. Queued' \in Seq(Paths) /\ Len(Queued') = count'
    BY ONLY <2>1, <2>4, <2>5
  <2> QED BY ONLY <1>0, <1>3, <2>3, <2>6, SeqEqual
<1>5. Queued # <<>> BY <1>0, <1>1
<1>6. taken' # NoPath BY <1>2, NoPathAssumption
<1> QED
  BY <1>2, <1>4, <1>5, <1>6 DEF FetchTake, Abstract!Take

\* Every step of CloseBuffer is a step of CloseQueue or leaves it alone.
LEMMA StepQueue == IInv /\ [Next]_vars => [Abstract!Next]_(Abstract!vars)
<1> SUFFICES ASSUME IInv, [Next]_vars PROVE [Abstract!Next]_(Abstract!vars)
  OBVIOUS
<1>1. ASSUME UNCHANGED <<buffer, front, count, taken, sent, notDone>>
      PROVE  UNCHANGED Abstract!vars
  BY <1>1 DEF Abstract!vars, Queued
<1>2. ASSUME NEW p \in Producers, Deposit(p) PROVE Abstract!Next
  <2>1. item[p] \in Paths BY <1>2 DEF IInv, Producing, Deposit
  <2> QED BY <1>2, <2>1, DepositAppends DEF Abstract!Next
<1>3. CASE FetchTake
  BY <1>3, FetchTakesHead DEF IInv, Consuming, FetchTake, Abstract!Next
<1>4. CASE SendTest
  <2>1. CASE notDone BY <1>1, <1>4, <2>1 DEF SendTest, ring
  <2>2. CASE ~notDone
    <3>1. Queued' = Queued BY <1>4 DEF SendTest, ring, Queued
    <3>2. Abstract!Discard BY <1>4, <2>2, <3>1 DEF SendTest, Abstract!Discard
    <3> QED BY <3>2 DEF Abstract!Next
  <2> QED BY <2>1, <2>2
<1>5. CASE CloseOnServer
  <2>1. Queued' = Queued BY <1>5 DEF CloseOnServer, ring, Queued
  <2>2. taken \in Paths /\ taken # NoPath /\ sent \in Seq(Paths)
    BY <1>5, NoPathAssumption DEF IInv, TypeOK, Consuming, CloseOnServer
  <2>3. Append(sent, taken) = sent \o <<taken>> BY <2>2
  <2>4. Abstract!Send
    BY <1>5, <2>1, <2>2, <2>3 DEF CloseOnServer, Abstract!Send
  <2> QED BY <2>4 DEF Abstract!Next
<1>6. CASE CleanupFlag
  <2>1. Queued' = Queued BY <1>6 DEF CleanupFlag, ring, Queued
  <2>2. Abstract!Close BY <1>6, <2>1 DEF CleanupFlag, Abstract!Close
  <2> QED BY <2>2 DEF Abstract!Next
<1>7. ASSUME NEW p \in Producers,
             \/ \E path \in Paths : SubmitRequest(p, path)
             \/ WaitNotFull(p) \/ NotifyNotEmpty(p) \/ SpuriousProducer(p)
      PROVE  UNCHANGED Abstract!vars
  BY <1>1, <1>7 DEF SubmitRequest, WaitNotFull, NotifyNotEmpty, SpuriousProducer, ring
<1>8. CASE LoopTest \/ FetchLock \/ FetchPredicate \/ FetchPark \/ FetchNothing
             \/ NotifyNotFull \/ SpuriousConsumer
  BY <1>1, <1>8 DEF LoopTest, FetchLock, FetchPredicate, FetchPark, FetchNothing,
     NotifyNotFull, SpuriousConsumer, ring
<1>9. CASE CleanupNotify \/ Join \/ UNCHANGED vars
  BY <1>1, <1>9 DEF CleanupNotify, Join, ring, vars
<1> QED
  BY <1>2, <1>3, <1>4, <1>5, <1>6, <1>7, <1>8, <1>9
     DEF Next, ProducerStep, ConsumerStep, DestroyStep

\* The ring with its mutex, condition variables and shutdown implements the
\* abstract FIFO queue: each accepted path is sent at most once and in order.
THEOREM RefinesQueue == Spec => ImplementsCloseQueue
<1>1. Abstract!Spec <=> (Abstract!Init /\ [][Abstract!Next]_(Abstract!vars))
  BY DEF Abstract!Spec
<1> QED
  BY <1>1, InitQueue, InitIInv, StepIInv, StepQueue, PTL
     DEF Spec, ImplementsCloseQueue
=============================================================================
