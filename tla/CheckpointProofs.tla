-------------------------- MODULE CheckpointProofs --------------------------
(***************************************************************************)
(* Proofs about Checkpoint for every value of its constants.               *)
(***************************************************************************)
EXTENDS Checkpoint, TLAPS, FiniteSetTheorems

USE MaxSeqAssumption, MaxDepthAssumption, DefensiveExitAssumption

-----------------------------------------------------------------------------
(* ExitCount, the clamped count after k exits, is a natural number.        *)
LEMMA ExitCountNat ==
  ASSUME NEW c \in Nat, NEW k \in Nat
  PROVE  ExitCount(c, k) \in Nat
  BY DEF ExitCount

(* The defensive tracker keeps its mode and streak in range.               *)
LEMMA ObservedInRange ==
  ASSUME TypeOK
  PROVE  /\ ObservedMode \in RuntimeMode
         /\ ObservedStreak \in 0..DefensiveExit
  <1>1. ObservedMode \in RuntimeMode
    BY DEF TypeOK, ObservedMode, RuntimeMode
  <1>2. ObservedStreak \in 0..DefensiveExit
    BY DefensiveExitAssumption DEF TypeOK, ObservedStreak
  <1>3. QED
    BY <1>1, <1>2

(* An exception that leaves k of a task's scopes keeps the state typed.    *)
LEMMA UnwindTyped ==
  ASSUME TypeOK, NEW t \in Tasks, NEW k \in 0..depth[t],
         NEW after \in TaskState, Unwind(t, k, after)
  PROVE  TypeOK'
  <1>1. is_in_critical_section' \in Nat
    BY ExitCountNat DEF TypeOK, Unwind
  <1>2. depth' \in [Tasks -> 0..MaxDepth]
    BY DEF TypeOK, Unwind
  <1>3. pc' \in [Tasks -> TaskState]
    BY DEF TypeOK, Unwind
  <1>4. QED
    BY <1>1, <1>2, <1>3 DEF TypeOK, Unwind, tracker

(* Propagate unwinds between one and all of the task's scopes.             *)
LEMMA PropagateTyped ==
  ASSUME TypeOK, NEW t \in Tasks, Propagate(t)
  PROVE  TypeOK'
  <1>1. CASE \E k \in 1..depth[t] : Unwind(t, k, "running")
    <2>1. PICK k \in 1..depth[t] : Unwind(t, k, "running")
      BY <1>1
    <2>2. k \in 0..depth[t]
      BY DEF TypeOK
    <2>3. QED
      BY <2>1, <2>2, UnwindTyped DEF TaskState
  <1>2. CASE Unwind(t, depth[t], "done")
    <2>1. depth[t] \in 0..depth[t]
      BY DEF TypeOK
    <2>2. QED
      BY <1>2, <2>1, UnwindTyped DEF TaskState
  <1>3. QED
    BY <1>1, <1>2 DEF Propagate

-----------------------------------------------------------------------------
(* The initial state is typed.                                             *)
LEMMA TypeInit == Init => TypeOK
    <2> SUFFICES ASSUME Init PROVE TypeOK
      OBVIOUS
    <2>1. pc \in [Tasks -> TaskState] /\ depth \in [Tasks -> 0..MaxDepth]
      BY DEF Init, TaskState
    <2>2. /\ preempt_seq \in 0..MaxSeq /\ last_ack_seq \in 0..MaxSeq
          /\ last_seen \in 0..MaxSeq /\ streak \in 0..DefensiveExit
          /\ is_in_critical_section \in Nat
      BY DEF Init
    <2>3. hint_lost \in BOOLEAN /\ mode \in RuntimeMode
      BY DEF Init, RuntimeMode
    <2>4. QED
      BY <2>1, <2>2, <2>3 DEF TypeOK

(* Every step, of the kernel or of a task, keeps the state typed.          *)
LEMMA TypeStep == TypeOK /\ [Next]_vars => TypeOK'
    <2> SUFFICES ASSUME TypeOK, [Next]_vars PROVE TypeOK'
      OBVIOUS
    <2>1. ASSUME NEW dropped \in BOOLEAN, PublishHint(dropped) PROVE TypeOK'
      BY <2>1 DEF PublishHint, TypeOK, tracker
    <2>2. ASSUME NEW t \in Tasks, Resume(t) PROVE TypeOK'
      BY <2>2 DEF Resume, TypeOK, TaskState, scb, tracker
    <2>3. ASSUME NEW t \in Tasks, MorpheusCheckpoint(t) PROVE TypeOK'
      BY <2>3, ObservedInRange DEF MorpheusCheckpoint, TypeOK, TaskState, scb
    <2>4. ASSUME NEW t \in Tasks, AcknowledgeAndSleep(t) PROVE TypeOK'
      BY <2>4 DEF AcknowledgeAndSleep, TypeOK, TaskState, tracker
    <2>5. ASSUME NEW t \in Tasks, ForceYield(t) PROVE TypeOK'
      BY <2>5 DEF ForceYield, TypeOK, TaskState, tracker
    <2>6. ASSUME NEW t \in Tasks, EnterCritical(t) PROVE TypeOK'
      BY <2>6 DEF EnterCritical, TypeOK, tracker
    <2>7. ASSUME NEW t \in Tasks, ExitCritical(t) PROVE TypeOK'
      <3>1. ExitCount(is_in_critical_section, 1) \in Nat
        BY ExitCountNat DEF TypeOK
      <3>2. QED
        BY <2>7, <3>1 DEF ExitCritical, TypeOK, tracker
    <2>8. ASSUME NEW t \in Tasks, AwaitOther(t) PROVE TypeOK'
      BY <2>8 DEF AwaitOther, TypeOK, TaskState, scb, tracker
    <2>9. ASSUME NEW t \in Tasks, Finish(t) PROVE TypeOK'
      BY <2>9 DEF Finish, TypeOK, TaskState, scb, tracker
    <2>10. ASSUME NEW t \in Tasks, Raise(t) PROVE TypeOK'
      BY <2>10, PropagateTyped DEF Raise
    <2>11. ASSUME NEW t \in Tasks, ResumeRaising(t) PROVE TypeOK'
      BY <2>11, PropagateTyped DEF ResumeRaising
    <2>12. CASE UNCHANGED vars
      BY <2>12 DEF vars, TypeOK
    <2>13. QED
      BY <2>1, <2>2, <2>3, <2>4, <2>5, <2>6, <2>7, <2>8, <2>9, <2>10,
         <2>11, <2>12 DEF Next

(* Type correctness: every reachable state gives each variable of the SCB, *)
(* the tracker and the tasks a value of its type.                          *)
THEOREM TypeCorrect == Spec => []TypeOK
  BY TypeInit, TypeStep, PTL DEF Spec

-----------------------------------------------------------------------------
(* The scopes open under a depth function dp (OpenScopes is ScopesOf(depth)). *)
ScopesOf(dp) == {fr \in Tasks \X (1..MaxDepth) : fr[2] <= dp[fr[1]]}

(* Only finitely many scopes can be open at once.                          *)
LEMMA ScopesFinite ==
  ASSUME NEW dp \in [Tasks -> 0..MaxDepth]
  PROVE  IsFiniteSet(ScopesOf(dp))
  <1>0. IsFiniteSet(1..MaxDepth)
    BY FS_Interval
  <1>1. IsFiniteSet(Tasks \X (1..MaxDepth))
    BY <1>0, TasksAssumption, FS_Product
  <1>2. ScopesOf(dp) \subseteq Tasks \X (1..MaxDepth)
    BY DEF ScopesOf
  <1>3. QED
    BY <1>1, <1>2, FS_Subset

(* A task whose depth is zero everywhere has no scope open.                *)
LEMMA NoScopes ==
  ScopesOf([t \in Tasks |-> 0]) = {}
  BY DEF ScopesOf

(* Entering one more scope opens exactly one new pair.                     *)
LEMMA AddScope ==
  ASSUME NEW dp \in [Tasks -> 0..MaxDepth], NEW t \in Tasks,
         dp[t] < MaxDepth
  PROVE  Cardinality(ScopesOf([dp EXCEPT ![t] = @ + 1]))
           = Cardinality(ScopesOf(dp)) + 1
  <1> DEFINE S == ScopesOf(dp)
             e == <<t, dp[t] + 1>>
  <1>1. ScopesOf([dp EXCEPT ![t] = @ + 1]) = S \cup {e}
    BY DEF ScopesOf
  <1>2. e \notin S
    BY DEF ScopesOf
  <1>3. IsFiniteSet(S)
    BY ScopesFinite
  <1>4. QED
    BY <1>1, <1>2, <1>3, FS_AddElement

(* Leaving the k innermost scopes of task t closes exactly k pairs; in     *)
(* particular at least k scopes were open.                                 *)
LEMMA DropScopes ==
  ASSUME NEW dp \in [Tasks -> 0..MaxDepth], NEW t \in Tasks,
         NEW k \in 0..dp[t]
  PROVE  /\ Cardinality(ScopesOf(dp)) >= k
         /\ Cardinality(ScopesOf([dp EXCEPT ![t] = @ - k]))
              = Cardinality(ScopesOf(dp)) - k
  <1> DEFINE S == ScopesOf(dp)
             I == (dp[t] - k + 1)..dp[t]
             R == {t} \X I
  <1>1. ScopesOf([dp EXCEPT ![t] = @ - k]) = S \ R
    BY DEF ScopesOf
  <1>2. R \subseteq S
    BY DEF ScopesOf
  <1>3. IsFiniteSet(S)
    BY ScopesFinite
  <1>4. IsFiniteSet(I) /\ Cardinality(I) = k
    <2>1. dp[t] - k + 1 \in Int /\ dp[t] \in Int
      OBVIOUS
    <2>2. IsFiniteSet(I)
            /\ Cardinality(I) = IF dp[t] - k + 1 > dp[t] THEN 0
                                ELSE dp[t] - (dp[t] - k + 1) + 1
      BY <2>1, FS_Interval
    <2>3. QED
      BY <2>2
  <1>5. IsFiniteSet({t}) /\ Cardinality({t}) = 1
    BY FS_Singleton
  <1>6. Cardinality(R) = k
    <2>1. Cardinality(R) = Cardinality({t}) * Cardinality(I)
      BY <1>4, <1>5, FS_Product
    <2>2. QED
      BY <2>1, <1>4, <1>5
  <1>7. Cardinality(S) >= k
    <2>1. Cardinality(R) <= Cardinality(S)
      BY <1>2, <1>3, FS_Subset
    <2>2. QED
      BY <2>1, <1>6
  <1>8. S \cap R = R
    BY <1>2
  <1>9. Cardinality(S \ R) = Cardinality(S) - k
    <2>1. Cardinality(S \ R) = Cardinality(S) - Cardinality(S \cap R)
      BY <1>3, FS_Difference
    <2>2. QED
      BY <2>1, <1>6, <1>8
  <1>10. QED
    BY <1>1, <1>7, <1>9

-----------------------------------------------------------------------------
(* The inductive invariant: the type invariant and the accounting itself.  *)
IInv == TypeOK /\ CritAccounting

(* An exception leaving k scopes calls exit k times and so keeps the count *)
(* equal to the scopes still open, the clamp at zero never taking effect.  *)
LEMMA UnwindAccounted ==
  ASSUME IInv, NEW t \in Tasks, NEW k \in 0..depth[t],
         NEW after \in TaskState, Unwind(t, k, after)
  PROVE  CritAccounting'
  <1>a. OpenScopes = ScopesOf(depth)
    BY DEF OpenScopes, ScopesOf
  <1>b. OpenScopes' = ScopesOf([depth EXCEPT ![t] = @ - k])
    BY DEF Unwind, OpenScopes, ScopesOf
  <1>c. depth \in [Tasks -> 0..MaxDepth]
    BY DEF IInv, TypeOK
  <1>1. /\ Cardinality(OpenScopes) >= k
        /\ Cardinality(OpenScopes') = Cardinality(OpenScopes) - k
    BY <1>a, <1>b, <1>c, DropScopes
  <1>2. QED
    BY <1>1 DEF IInv, CritAccounting, Unwind, ExitCount

LEMMA PropagateAccounted ==
  ASSUME IInv, NEW t \in Tasks, Propagate(t)
  PROVE  CritAccounting'
  <1>1. CASE \E k \in 1..depth[t] : Unwind(t, k, "running")
    <2>1. PICK k \in 1..depth[t] : Unwind(t, k, "running")
      BY <1>1
    <2>2. k \in 0..depth[t]
      BY DEF IInv, TypeOK
    <2>3. QED
      BY <2>1, <2>2, UnwindAccounted DEF TaskState
  <1>2. CASE Unwind(t, depth[t], "done")
    <2>1. depth[t] \in 0..depth[t]
      BY DEF IInv, TypeOK
    <2>2. QED
      BY <1>2, <2>1, UnwindAccounted DEF TaskState
  <1>3. QED
    BY <1>1, <1>2 DEF Propagate

LEMMA AccountingInit == Init => IInv
  <1> SUFFICES ASSUME Init PROVE IInv
    OBVIOUS
  <1>1. OpenScopes = {}
    BY NoScopes DEF Init, OpenScopes, ScopesOf
  <1>2. QED
    BY <1>1, TypeInit, FS_EmptySet DEF IInv, CritAccounting, Init

LEMMA AccountingStep == IInv /\ [Next]_vars => CritAccounting'
  <1> SUFFICES ASSUME IInv, [Next]_vars PROVE CritAccounting'
    OBVIOUS
  <1> USE DEF IInv
  <1>1. ASSUME NEW dropped \in BOOLEAN, PublishHint(dropped)
        PROVE CritAccounting'
    BY <1>1 DEF PublishHint, CritAccounting, OpenScopes
  <1>2. ASSUME NEW t \in Tasks,
               \/ Resume(t) \/ MorpheusCheckpoint(t)
               \/ AcknowledgeAndSleep(t) \/ ForceYield(t)
               \/ AwaitOther(t) \/ Finish(t)
        PROVE CritAccounting'
    BY <1>2 DEF Resume, MorpheusCheckpoint, AcknowledgeAndSleep, ForceYield,
                AwaitOther, Finish, scb, CritAccounting, OpenScopes
  <1>3. ASSUME NEW t \in Tasks, EnterCritical(t) PROVE CritAccounting'
    <2>a. OpenScopes = ScopesOf(depth)
      BY DEF OpenScopes, ScopesOf
    <2>b. OpenScopes' = ScopesOf([depth EXCEPT ![t] = @ + 1])
      BY <1>3 DEF EnterCritical, OpenScopes, ScopesOf
    <2>c. depth \in [Tasks -> 0..MaxDepth] /\ depth[t] < MaxDepth
      BY <1>3 DEF TypeOK, EnterCritical
    <2>1. Cardinality(OpenScopes') = Cardinality(OpenScopes) + 1
      BY <2>a, <2>b, <2>c, AddScope
    <2>2. QED
      BY <1>3, <2>1 DEF CritAccounting, EnterCritical
  <1>4. ASSUME NEW t \in Tasks, ExitCritical(t) PROVE CritAccounting'
    <2>1. 1 \in 0..depth[t]
      BY <1>4 DEF TypeOK, ExitCritical
    <2>2. Unwind(t, 1, pc[t])
      BY <1>4 DEF ExitCritical, Unwind, TypeOK
    <2>3. pc[t] \in TaskState
      BY DEF TypeOK
    <2>4. QED
      BY <2>1, <2>2, <2>3, UnwindAccounted
  <1>5. ASSUME NEW t \in Tasks, Raise(t) \/ ResumeRaising(t)
        PROVE CritAccounting'
    BY <1>5, PropagateAccounted DEF Raise, ResumeRaising
  <1>6. CASE UNCHANGED vars
    BY <1>6 DEF vars, CritAccounting, OpenScopes
  <1>7. QED
    BY <1>1, <1>2, <1>3, <1>4, <1>5, <1>6 DEF Next

(* Critical-section accounting: in every reachable state the thread's      *)
(* is_in_critical_section equals the number of morpheus_critical scopes    *)
(* open on its tasks' stacks, for any number of tasks and any nesting      *)
(* bound, through awaits, exceptions and cancellations.                    *)
THEOREM CritAccountingHolds == Spec => []CritAccounting
  <1>1. IInv /\ [Next]_vars => IInv'
    BY TypeStep, AccountingStep DEF IInv
  <1>2. QED
    BY AccountingInit, <1>1, PTL DEF Spec, IInv

=============================================================================
