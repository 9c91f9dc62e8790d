---------------------------- MODULE PacerProofs -----------------------------
(***************************************************************************)
(* Proofs about the pacer for every value of its constants.                *)
(***************************************************************************)
EXTENDS Pacer, TLAPS


-----------------------------------------------------------------------------
(* Python's // on naturals, as TLA+'s \div: the quotient by 100 times 100  *)
(* is at most the dividend and less than 100 below it.                     *)
LEMMA DivFloor ==
  ASSUME NEW a \in Nat
  PROVE  /\ a \div 100 \in Nat
         /\ (a \div 100) * 100 <= a
         /\ a < (a \div 100) * 100 + 100
  BY SMT

(* Dividing by 100 keeps the order of naturals.                            *)
LEMMA DivMonotone ==
  ASSUME NEW a \in Nat, NEW b \in Nat, a <= b
  PROVE  a \div 100 <= b \div 100
  <1>1. (a \div 100) * 100 <= a /\ b < (b \div 100) * 100 + 100
    BY DivFloor
  <1>2. QED
    BY <1>1

(* Whatever the kernel publishes, the pressure should_check reads is a     *)
(* percentage.                                                             *)
LEMMA PressureReadRange ==
  ASSUME NEW p \in Levels \cup {Absent}
  PROVE  PressureRead(p) \in 0..100
  BY LevelsAssumption DEF PressureRead

(* The interpolated interval lies between min_interval and max_interval:   *)
(* spec property T12, second half.                                         *)
THEOREM IntervalRange ==
  ASSUME NEW p \in Levels \cup {Absent}
  PROVE  Interval(p) \in MinInterval..MaxInterval
  <1> DEFINE d == MaxInterval - MinInterval
             q == PressureRead(p)
  <1>1. q \in 0..100 /\ d \in Nat
    BY PressureReadRange, MinIntervalAssumption, MaxIntervalAssumption
  <1>2. d * q \in Nat /\ d * q <= d * 100
    BY <1>1
  <1>3. (d * q) \div 100 \in 0..d
    <2>1. (d * (100 \div 100)) = d /\ (d * 100) \div 100 = d
      BY <1>1
    <2>2. (d * q) \div 100 <= (d * 100) \div 100 /\ (d * q) \div 100 \in Nat
      BY <1>1, <1>2, DivMonotone, DivFloor
    <2>3. QED
      BY <2>1, <2>2
  <1>4. QED
    BY <1>3, MinIntervalAssumption, MaxIntervalAssumption DEF Interval

(* A higher pressure never gives a longer interval: spec property T12,     *)
(* first half.                                                             *)
THEOREM IntervalMonotone ==
  ASSUME NEW p \in Levels \cup {Absent}, NEW q \in Levels \cup {Absent},
         PressureRead(p) <= PressureRead(q)
  PROVE  Interval(q) <= Interval(p)
  <1> DEFINE d == MaxInterval - MinInterval
             a == PressureRead(p)
             b == PressureRead(q)
  <1>1. a \in 0..100 /\ b \in 0..100 /\ d \in Nat /\ a <= b
    BY PressureReadRange, MinIntervalAssumption, MaxIntervalAssumption
  <1>2. d * a \in Nat /\ d * b \in Nat /\ d * a <= d * b
    BY <1>1
  <1>3. (d * a) \div 100 <= (d * b) \div 100
    BY <1>2, DivMonotone
  <1>4. /\ Interval(p) = MaxInterval - (d * a) \div 100
        /\ Interval(q) = MaxInterval - (d * b) \div 100
    BY DEF Interval
  <1>5. (d * a) \div 100 \in Nat /\ (d * b) \div 100 \in Nat
    BY <1>2, DivFloor
  <1>6. QED
    BY <1>3, <1>4, <1>5, MaxIntervalAssumption

-----------------------------------------------------------------------------
(* The initial state is typed.                                             *)
LEMMA TypeInit == Init => TypeOK
  <1> SUFFICES ASSUME Init PROVE TypeOK
    OBVIOUS
  <1>1. returned \in BOOLEAN
    BY Zenon DEF Init
  <1>2. /\ pressure \in Levels \cup {Absent}
        /\ last_check \in 0..Iterations /\ i \in 0..Iterations
        /\ loop \in 1..Loops /\ anchor \in 0..Iterations
    BY IterationsAssumption, LoopsAssumption DEF Init
  <1>3. QED
    BY <1>1, <1>2 DEF TypeOK

(* Every step keeps the state typed.                                       *)
LEMMA TypeStep == TypeOK /\ [Next]_vars => TypeOK'
  <1> SUFFICES ASSUME TypeOK, [Next]_vars PROVE TypeOK'
    OBVIOUS
  <1>1. ASSUME NEW p \in Levels \cup {Absent}, SetPressure(p) PROVE TypeOK'
    <2>1. returned' \in BOOLEAN
      BY <1>1, Zenon DEF SetPressure, TypeOK
    <2>2. QED
      BY <1>1, <2>1 DEF SetPressure, TypeOK
  <1>2. CASE ShouldCheck
    <2>1. returned' \in BOOLEAN
      BY <1>2 DEF ShouldCheck, Due
    <2>2. /\ pressure' \in Levels \cup {Absent}
          /\ last_check' \in 0..Iterations /\ i' \in 0..Iterations
          /\ loop' \in 1..Loops /\ anchor' \in 0..Iterations
      BY <1>2, IterationsAssumption DEF ShouldCheck, TypeOK
    <2>3. QED
      BY <2>1, <2>2 DEF TypeOK
  <1>3. CASE StartLoop
    <2>1. returned' \in BOOLEAN
      BY <1>3, Zenon DEF StartLoop, TypeOK
    <2>2. /\ pressure' \in Levels \cup {Absent}
          /\ last_check' \in 0..Iterations /\ i' \in 0..Iterations
          /\ loop' \in 1..Loops /\ anchor' \in 0..Iterations
      BY <1>3, IterationsAssumption, LoopsAssumption DEF StartLoop, TypeOK
    <2>3. QED
      BY <2>1, <2>2 DEF TypeOK
  <1>4. CASE UNCHANGED vars
    BY <1>4 DEF vars, TypeOK
  <1>5. QED
    BY <1>1, <1>2, <1>3, <1>4 DEF Next

(* Type correctness of the pacer and its worker loop.                      *)
THEOREM TypeCorrect == Spec => []TypeOK
  BY TypeInit, TypeStep, PTL DEF Spec

-----------------------------------------------------------------------------
(* With one loop over the checker the cursor is where the unchecked        *)
(* stretch began, and the stretch is never longer than max_interval.       *)
IInv ==
  /\ TypeOK
  /\ last_check = anchor
  /\ anchor <= i
  /\ GapBounded

LEMMA GapInit == Init => IInv
  <1> SUFFICES ASSUME Init PROVE IInv
    OBVIOUS
  <1>1. last_check = anchor /\ anchor <= i /\ GapBounded
    BY MaxIntervalAssumption DEF Init, GapBounded
  <1>2. QED
    BY <1>1, TypeInit DEF IInv

LEMMA GapStep ==
  ASSUME Loops = 1, MaxInterval >= 1
  PROVE  IInv /\ [Next]_vars => IInv'
  <1> SUFFICES ASSUME IInv, [Next]_vars PROVE IInv'
    OBVIOUS
  <1>0. TypeOK'
    BY TypeStep DEF IInv
  <1>1. ASSUME NEW p \in Levels \cup {Absent}, SetPressure(p) PROVE IInv'
    BY <1>0, <1>1 DEF SetPressure, IInv, GapBounded
  <1>2. CASE ShouldCheck
    <2>1. Interval(pressure) <= MaxInterval
      BY IntervalRange DEF IInv, TypeOK
    <2>2. CASE Due(pressure)
      <3>1. last_check' = i /\ anchor' = i /\ i' = i + 1 /\ loop' = loop
        BY <1>2, <2>2 DEF ShouldCheck
      <3>2. QED
        BY <1>0, <3>1 DEF IInv, GapBounded, TypeOK
    <2>3. CASE ~Due(pressure)
      <3>1. last_check' = last_check /\ anchor' = anchor /\ i' = i + 1
            /\ loop' = loop
        BY <1>2, <2>3 DEF ShouldCheck
      <3>3. Interval(pressure) \in Nat
        BY IntervalRange, MinIntervalAssumption, MaxIntervalAssumption
           DEF IInv, TypeOK
      <3>2. i - last_check < Interval(pressure)
        BY <2>3, <3>3 DEF Due, IInv, TypeOK
      <3>4. QED
        BY <1>0, <2>1, <3>1, <3>2, <3>3, MaxIntervalAssumption
           DEF IInv, GapBounded, TypeOK
    <2>4. QED
      BY <2>2, <2>3
  <1>3. CASE StartLoop
    <2>1. loop < Loops /\ loop \in 1..Loops
      BY <1>3 DEF StartLoop, IInv, TypeOK
    <2>2. QED
      BY <2>1
  <1>4. CASE UNCHANGED vars
    <2>1. last_check' = last_check /\ anchor' = anchor /\ i' = i /\ loop' = loop
      BY <1>4 DEF vars
    <2>2. QED
      BY <1>0, <2>1 DEF IInv, GapBounded
  <1>5. QED
    BY <1>1, <1>2, <1>3, <1>4 DEF Next

(* A checker used by one loop never lets more than max_interval            *)
(* iterations pass without should_check answering True, whatever the      *)
(* pressure does (max_interval at least 1; with 0 it checks every          *)
(* iteration).                                                             *)
THEOREM GapBoundedHolds ==
  ASSUME Loops = 1, MaxInterval >= 1
  PROVE  Spec => []GapBounded
  <1>1. IInv /\ [Next]_vars => IInv'
    BY GapStep
  <1>2. IInv => GapBounded
    BY DEF IInv
  <1>3. QED
    BY GapInit, <1>1, <1>2, PTL DEF Spec

-----------------------------------------------------------------------------
(* Over any number of loops, the cursor _last_check is never behind the   *)
(* start of the current unchecked stretch: a True answer moves both to i,  *)
(* and a new loop restarts the stretch at 0 while the cursor stays stale.  *)
SpaceInv ==
  /\ TypeOK
  /\ anchor <= last_check

LEMMA SpaceInit == Init => SpaceInv
  BY TypeInit DEF Init, SpaceInv

LEMMA SpaceStep == SpaceInv /\ [Next]_vars => SpaceInv'
  <1> SUFFICES ASSUME SpaceInv, [Next]_vars PROVE SpaceInv'
    OBVIOUS
  <1>0. TypeOK'
    BY TypeStep DEF SpaceInv
  <1> SUFFICES (anchor <= last_check)'
    BY <1>0 DEF SpaceInv
  <1>1. ASSUME NEW p \in Levels \cup {Absent}, SetPressure(p)
        PROVE  (anchor <= last_check)'
    BY <1>1 DEF SetPressure, SpaceInv
  <1>2. CASE ShouldCheck
    <2>1. CASE Due(pressure)
      <3>1. last_check' = i /\ anchor' = i
        BY <1>2, <2>1 DEF ShouldCheck
      <3>2. QED
        BY <3>1 DEF SpaceInv, TypeOK
    <2>2. CASE ~Due(pressure)
      <3>1. last_check' = last_check /\ anchor' = anchor
        BY <1>2, <2>2 DEF ShouldCheck
      <3>2. QED
        BY <3>1 DEF SpaceInv
    <2>3. QED
      BY <2>1, <2>2
  <1>3. CASE StartLoop
    BY <1>3 DEF StartLoop, SpaceInv, TypeOK
  <1>4. CASE UNCHANGED vars
    BY <1>4 DEF vars, SpaceInv
  <1>5. QED
    BY <1>1, <1>2, <1>3, <1>4 DEF Next

(* Only should_check advances the loop variable by one.                    *)
LEMMA AdvanceIsCheck ==
  ASSUME SpaceInv, [Next]_vars, i' = i + 1
  PROVE  ShouldCheck
  <1>0. i \in Nat
    BY DEF SpaceInv, TypeOK
  <1>1. ASSUME NEW p \in Levels \cup {Absent} PROVE ~SetPressure(p)
    BY <1>0 DEF SetPressure
  <1>2. ~StartLoop
    BY <1>0 DEF StartLoop
  <1>3. ~UNCHANGED vars
    BY <1>0 DEF vars
  <1>4. QED
    BY <1>1, <1>2, <1>3 DEF Next

(* Every step that answers True and advances the loop does so at least     *)
(* min_interval iterations after the stretch began.                        *)
LEMMA SpacedStep ==
  ASSUME SpaceInv, [Next]_vars
  PROVE  [returned' /\ i' = i + 1 => i - anchor >= MinInterval]_vars
  <1> SUFFICES ASSUME returned', i' = i + 1 PROVE i - anchor >= MinInterval
    BY DEF vars
  <1>1. ShouldCheck
    BY AdvanceIsCheck
  <1>2. Due(pressure)
    BY <1>1, Zenon DEF ShouldCheck
  <1>3. Interval(pressure) \in MinInterval..MaxInterval
    BY IntervalRange DEF SpaceInv, TypeOK
  <1>4. QED
    BY <1>2, <1>3, MinIntervalAssumption DEF Due, SpaceInv, TypeOK

(* should_check never answers True sooner than min_interval iterations     *)
(* after its previous True answer (or the loop's start), however the       *)
(* pressure moves and however many loops reuse the checker.                *)
THEOREM ChecksSpacedHolds == Spec => ChecksSpaced
  <1>1. SpaceInv /\ [Next]_vars
          => [returned' /\ i' = i + 1 => i - anchor >= MinInterval]_vars
    BY SpacedStep
  <1>2. QED
    BY SpaceInit, SpaceStep, <1>1, PTL DEF Spec, ChecksSpaced

=============================================================================
