------------------------ MODULE ReceiptCounterProofs ------------------------
(***************************************************************************)
(* Proofs about ReceiptCounter for every set of requests and keys.         *)
(***************************************************************************)
EXTENDS ReceiptCounter, TLAPS

USE KeysAssumption, StartAssumption, MaxGrantedAssumption, NobodyAssumption

LEMMA TypeInit == Init => TypeOK
<1> SUFFICES ASSUME Init PROVE TypeOK
  OBVIOUS
<1>1. (CHOOSE k \in Keys : TRUE) \in Keys
  OBVIOUS
<1>2. QED
  BY <1>1 DEF Init, TypeOK, Stages

LEMMA TypeStep == TypeOK /\ [Next]_counterVars => TypeOK'
<1> SUFFICES ASSUME TypeOK, [Next]_counterVars PROVE TypeOK'
  OBVIOUS
<1>1. ASSUME NEW r \in Requests, NEW k \in Keys, LockAndIncrement(r, k)
      PROVE TypeOK'
  BY <1>1 DEF LockAndIncrement, Take, TypeOK, Stages
<1>2. ASSUME NEW r \in Requests, NEW k \in Keys, FindNoRow(r, k)
      PROVE TypeOK'
  BY <1>2 DEF FindNoRow, TypeOK, Stages
<1>3. ASSUME NEW r \in Requests, InsertRow(r)
      PROVE TypeOK'
  BY <1>3 DEF InsertRow, Take, TypeOK, Stages
<1>4. ASSUME NEW r \in Requests, InsertConflict(r)
      PROVE TypeOK'
  BY <1>4 DEF InsertConflict, TypeOK, Stages
<1>5. ASSUME NEW r \in Requests, CommitNumber(r)
      PROVE TypeOK'
  BY <1>5 DEF CommitNumber, TypeOK, Stages
<1>6. ASSUME NEW r \in Requests, RollbackNumber(r)
      PROVE TypeOK'
  BY <1>6 DEF RollbackNumber, TypeOK, Stages
<1>7. CASE UNCHANGED counterVars
  BY <1>7 DEF counterVars, TypeOK
<1>8. QED
  BY <1>1, <1>2, <1>3, <1>4, <1>5, <1>6, <1>7 DEF Next, Allocate

\* Every variable keeps its type: the allocation of numbers never leaves its
\* states (allocate_receipt_number, allocate_counter).
THEOREM CounterTypes == Spec => []TypeOK
BY TypeInit, TypeStep, PTL DEF Spec

\* What Append does to a series of numbers.
LEMMA AppendNumber ==
  ASSUME NEW s \in Seq(Nat), NEW n \in Nat
  PROVE  /\ Append(s, n) \in Seq(Nat)
         /\ Len(Append(s, n)) = Len(s) + 1
         /\ Append(s, n) # <<>>
         /\ \A i \in 1..Len(s) : Append(s, n)[i] = s[i]
         /\ Append(s, n)[Len(s) + 1] = n
<1>1. Len(Append(s, n)) = Len(s) + 1
  OBVIOUS
<1>2. Append(s, n) # <<>>
  BY <1>1
<1>3. QED
  BY <1>1, <1>2

\* The inductive invariant behind GapFree.
CounterInv == TypeOK /\ LockGuardsNumber /\ GapFree

LEMMA CounterInvInit == Init => CounterInv
  <1> SUFFICES ASSUME Init PROVE CounterInv
    OBVIOUS
  <1>1. (CHOOSE k \in Keys : TRUE) \in Keys
    OBVIOUS
  <1>2. TypeOK
    BY <1>1 DEF Init, TypeOK, Stages
  <1>3. LockGuardsNumber
    BY DEF Init, LockGuardsNumber
  <1>4. GapFree
    BY DEF Init, GapFree
  <1>5. QED
    BY <1>2, <1>3, <1>4 DEF CounterInv

LEMMA CounterInvStep == CounterInv /\ TypeOK' /\ [Next]_counterVars => CounterInv'
  <1> SUFFICES ASSUME CounterInv, TypeOK', [Next]_counterVars
               PROVE  LockGuardsNumber' /\ GapFree'
    BY DEF CounterInv
  <1> USE DEF CounterInv
  <1>1. ASSUME NEW r \in Requests, NEW k \in Keys, LockAndIncrement(r, k)
        PROVE  LockGuardsNumber' /\ GapFree'
    <2>1. taken'[r] = Start[k] + Len(granted[k]) + 1 /\ counter[k] \in Nat
      BY <1>1 DEF LockAndIncrement, Take, TypeOK, GapFree
    <2>2. LockGuardsNumber'
      <3>1. ASSUME NEW q \in Requests, stage'[q] = "held"
            PROVE  /\ holder'[key'[q]] = q
                   /\ taken'[q] = Start[key'[q]] + Len(granted'[key'[q]]) + 1
                   /\ Len(granted'[key'[q]]) < MaxGranted
        <4>1. CASE q = r
          BY <1>1, <2>1, <4>1 DEF LockAndIncrement, Take, TypeOK
        <4>2. CASE q # r
          <5>1. /\ stage[q] = "held" /\ key'[q] = key[q] /\ taken'[q] = taken[q]
                /\ granted' = granted
            BY <1>1, <3>1, <4>2 DEF LockAndIncrement, Take, TypeOK
          <5>2. holder[key[q]] = q /\ key[q] # k /\ key[q] \in Keys
            BY <1>1, <5>1 DEF LockAndIncrement, Free, LockGuardsNumber, TypeOK
          <5>3. holder'[key[q]] = q
            BY <1>1, <5>2 DEF LockAndIncrement, Take, TypeOK
          <5>4. QED
            BY <5>1, <5>3 DEF LockGuardsNumber
        <4>3. QED
          BY <4>1, <4>2
      <3>2. ASSUME NEW j \in Keys, holder'[j] # Nobody
            PROVE  stage'[holder'[j]] = "held" /\ key'[holder'[j]] = j
        BY <1>1, <3>2 DEF LockAndIncrement, Take, Free, LockGuardsNumber, TypeOK,
                          Stages
      <3>3. ASSUME NEW q \in Requests, stage'[q] = "unseen" PROVE MaxGranted > 0
        BY <1>1, <3>3 DEF LockAndIncrement, Take, LockGuardsNumber, TypeOK, Stages
      <3>4. QED
        BY <3>1, <3>2, <3>3 DEF LockGuardsNumber
    <2>3. GapFree'
      BY <1>1 DEF LockAndIncrement, Take, GapFree
    <2>4. QED
      BY <2>2, <2>3
  <1>2. ASSUME NEW r \in Requests, NEW k \in Keys, FindNoRow(r, k)
        PROVE  LockGuardsNumber' /\ GapFree'
    <2>1. MaxGranted > 0
      BY <1>2 DEF FindNoRow, TypeOK
    <2>2. LockGuardsNumber'
      BY <1>2, <2>1 DEF FindNoRow, LockGuardsNumber, TypeOK, Stages
    <2>3. GapFree'
      BY <1>2 DEF FindNoRow, GapFree
    <2>4. QED
      BY <2>2, <2>3
  <1>3. ASSUME NEW r \in Requests, InsertRow(r)
        PROVE  LockGuardsNumber' /\ GapFree'
    <2>1. Len(granted[key[r]]) = 0 /\ MaxGranted > 0 /\ key[r] \in Keys
      BY <1>3 DEF InsertRow, LockGuardsNumber, GapFree, TypeOK
    <2>2. LockGuardsNumber'
      BY <1>3, <2>1 DEF InsertRow, Take, Free, LockGuardsNumber, TypeOK, Stages
    <2>3. GapFree'
      BY <1>3 DEF InsertRow, Take, GapFree
    <2>4. QED
      BY <2>2, <2>3
  <1>4. ASSUME NEW r \in Requests, InsertConflict(r)
        PROVE  LockGuardsNumber' /\ GapFree'
    <2>1. LockGuardsNumber'
      BY <1>4 DEF InsertConflict, LockGuardsNumber, TypeOK, Stages
    <2>2. GapFree'
      BY <1>4 DEF InsertConflict, GapFree
    <2>3. QED
      BY <2>1, <2>2
  <1>5. ASSUME NEW r \in Requests, CommitNumber(r)
        PROVE  LockGuardsNumber' /\ GapFree'
    <2> DEFINE k == key[r]
               n == Start[k] + Len(granted[k]) + 1
    <2>1. /\ k \in Keys
          /\ holder[k] = r
          /\ taken[r] = n
          /\ granted[k] \in Seq(Nat)
      BY <1>5 DEF CommitNumber, LockGuardsNumber, TypeOK
    <2>2. /\ granted' = [granted EXCEPT ![k] = Append(@, n)]
          /\ counter' = [counter EXCEPT ![k] = n]
          /\ n \in Nat
      BY <1>5, <2>1 DEF CommitNumber
    <2>3. /\ Len(granted'[k]) = Len(granted[k]) + 1
          /\ granted'[k] # <<>>
          /\ \A i \in 1..Len(granted[k]) : granted'[k][i] = granted[k][i]
          /\ granted'[k][Len(granted[k]) + 1] = n
      <3>1. granted'[k] = Append(granted[k], n)
        BY <2>1, <2>2 DEF TypeOK
      <3>2. QED
        BY <2>1, <2>2, <3>1, AppendNumber
    <2>4. ASSUME NEW j \in Keys, j # k
          PROVE  granted'[j] = granted[j] /\ counter'[j] = counter[j]
      BY <2>1, <2>2, <2>4 DEF TypeOK
    <2>5. GapFree'
      <3>1. \A i \in 1..Len(granted'[k]) : granted'[k][i] = Start[k] + i
        <4>1. Len(granted[k]) \in Nat
          BY <2>1
        <4>2. TAKE i \in 1..Len(granted'[k])
        <4>3. CASE i = Len(granted[k]) + 1
          <5>1. Start[k] \in Nat
            BY <2>1
          <5>2. \A a, b \in Nat : a + b + 1 = a + (b + 1)
            OBVIOUS
          <5>3. n = Start[k] + i
            BY <4>1, <4>3, <5>1, <5>2
          <5>4. QED
            BY <4>3, <5>3, <2>3
        <4>4. CASE i \in 1..Len(granted[k])
          <5>1. granted[k][i] = Start[k] + i
            BY <4>4, <2>1 DEF GapFree
          <5>2. granted'[k][i] = granted[k][i]
            BY <4>4, <2>3
          <5>3. QED
            BY <5>1, <5>2
        <4>5. QED
          BY <4>1, <4>2, <4>3, <4>4, <2>3
      <3>2. counter'[k] = Start[k] + Len(granted'[k])
        BY <2>1, <2>2, <2>3 DEF TypeOK
      <3>3. ASSUME NEW j \in Keys, j # k
            PROVE  /\ \A i \in 1..Len(granted'[j]) : granted'[j][i] = Start[j] + i
                   /\ counter'[j] = IF granted'[j] = <<>> THEN 0
                                    ELSE Start[j] + Len(granted'[j])
        BY <3>3, <2>4 DEF GapFree
      <3>4. QED
        BY <3>1, <3>2, <3>3, <2>3 DEF GapFree
    <2>6. LockGuardsNumber'
      <3>1. ASSUME NEW q \in Requests, stage'[q] = "held"
            PROVE  /\ holder'[key'[q]] = q
                   /\ taken'[q] = Start[key'[q]] + Len(granted'[key'[q]]) + 1
                   /\ Len(granted'[key'[q]]) < MaxGranted
        <4>1. q # r /\ stage[q] = "held" /\ key'[q] = key[q]
          BY <1>5, <3>1 DEF CommitNumber, TypeOK
        <4>2. holder[key[q]] = q /\ key[q] # k /\ key[q] \in Keys
          BY <4>1, <2>1 DEF LockGuardsNumber, TypeOK
        <4>3. holder'[key[q]] = q /\ taken'[q] = taken[q]
          BY <1>5, <4>1, <4>2 DEF CommitNumber, TypeOK
        <4>4. QED
          BY <4>1, <4>2, <4>3, <2>4 DEF LockGuardsNumber
      <3>2. ASSUME NEW j \in Keys, holder'[j] # Nobody
            PROVE  stage'[holder'[j]] = "held" /\ key'[holder'[j]] = j
        BY <1>5, <3>2, <2>1 DEF CommitNumber, LockGuardsNumber, TypeOK
      <3>3. ASSUME NEW q \in Requests, stage'[q] = "unseen"
            PROVE  MaxGranted > 0
        BY <1>5, <3>3 DEF CommitNumber, LockGuardsNumber, TypeOK
      <3>4. QED
        BY <3>1, <3>2, <3>3 DEF LockGuardsNumber
    <2>7. QED
      BY <2>5, <2>6
  <1>6. ASSUME NEW r \in Requests, RollbackNumber(r)
        PROVE  LockGuardsNumber' /\ GapFree'
    <2>1. LockGuardsNumber'
      BY <1>6 DEF RollbackNumber, LockGuardsNumber, TypeOK, Stages
    <2>2. GapFree'
      BY <1>6 DEF RollbackNumber, GapFree
    <2>3. QED
      BY <2>1, <2>2
  <1>7. CASE UNCHANGED counterVars
    BY <1>7 DEF counterVars, LockGuardsNumber, GapFree
  <1>8. QED
    BY <1>1, <1>2, <1>3, <1>4, <1>5, <1>6, <1>7 DEF Next, Allocate

\* Receipt, registration and certificate numbers are consecutive under every
\* key, and the counter row is the last of them, however requests interleave.
THEOREM NumbersAreGapFree == Spec => []GapFree
<1>1. CounterInv /\ TypeOK' /\ [Next]_counterVars => CounterInv'
  BY CounterInvStep
<1>2. CounterInv => GapFree
  BY DEF CounterInv
<1>3. QED
  BY CounterInvInit, CounterTypes, <1>1, <1>2, PTL DEF Spec

\* A number is only ever held under the lock of its counter row.
THEOREM NumberUnderLock == Spec => []LockGuardsNumber
<1>1. CounterInv /\ TypeOK' /\ [Next]_counterVars => CounterInv'
  BY CounterInvStep
<1>2. CounterInv => LockGuardsNumber
  BY DEF CounterInv
<1>3. QED
  BY CounterInvInit, CounterTypes, <1>1, <1>2, PTL DEF Spec

\* allocate_receipt_number and allocate_counter implement the abstract series:
\* a commit grants the next number of one series, every other step stutters.
THEOREM CounterImplementsSeries == Spec => SeriesSpec
<1>1. Init => Series!Init
  BY DEF Init, Series!Init
<1>2. CounterInv /\ [Next]_counterVars => [Series!Next]_granted
  <2> SUFFICES ASSUME CounterInv, [Next]_counterVars
               PROVE  [Series!Next]_granted
    OBVIOUS
  <2>1. ASSUME NEW r \in Requests, CommitNumber(r)
        PROVE  Series!Next
    <3>1. /\ key[r] \in Keys
          /\ taken[r] = Start[key[r]] + Len(granted[key[r]]) + 1
          /\ Len(granted[key[r]]) < MaxGranted
      BY <2>1 DEF CommitNumber, CounterInv, LockGuardsNumber, TypeOK
    <3>2. Series!Grant(key[r])
      BY <2>1, <3>1 DEF CommitNumber, Series!Grant
    <3>3. QED
      BY <3>1, <3>2 DEF Series!Next
  <2>2. ASSUME NEW r \in Requests, Allocate(r) \/ RollbackNumber(r)
        PROVE  UNCHANGED granted
    BY <2>2 DEF Allocate, LockAndIncrement, FindNoRow, InsertRow,
                InsertConflict, RollbackNumber, Take
  <2>3. CASE UNCHANGED counterVars
    BY <2>3 DEF counterVars
  <2>4. QED
    BY <2>1, <2>2, <2>3 DEF Next
<1>3. CounterInv /\ TypeOK' /\ [Next]_counterVars => CounterInv'
  BY CounterInvStep
<1>4. QED
  BY CounterInvInit, CounterTypes, <1>1, <1>2, <1>3, PTL
     DEF Spec, SeriesSpec, Series!Spec
=============================================================================
