--------------------------- MODULE EventLoopProofs ---------------------------
(***************************************************************************)
(* Proofs about the loop wrapper for every value of its constants: the     *)
(* ready queue stays a queue of handles, and with a binding that has       *)
(* checkpoint the wrapper keeps exactly one checkpoint chain while its     *)
(* loop runs and none after a run, however many runs and closes follow.    *)
(***************************************************************************)
EXTENDS EventLoop, SequenceTheorems, FiniteSetTheorems, TLAPS

-----------------------------------------------------------------------------
(* The handles a wrapper creates are handles. *)
LEMMA NewHandleType ==
  ASSUME NEW k \in Kinds
  PROVE  NewHandle(k) \in Handle
  BY DEF NewHandle, Handle

(* A handle with its cur flag cleared, or cancelled and forgotten, is      *)
(* still a handle.                                                         *)
LEMMA HandleUpdate ==
  ASSUME NEW h \in Handle
  PROVE  /\ [h EXCEPT !.cur = FALSE] \in Handle
         /\ [h EXCEPT !.live = FALSE, !.cur = FALSE] \in Handle
  BY DEF Handle

(* A function on 1..n is a sequence of length n. *)
LEMMA FunIsSeq ==
  ASSUME NEW S, NEW n \in Nat, NEW f \in [1..n -> S]
  PROVE  f \in Seq(S) /\ Len(f) = n
  <1>1. f \in Seq(S)
    BY SeqDef
  <1>2. Len(f) \in Nat /\ DOMAIN f = 1..Len(f)
    BY <1>1, LenProperties
  <1>3. 1..Len(f) = 1..n
    BY <1>2
  <1>4. Len(f) = n
    <2>1. CASE n = 0
      BY <1>2, <1>3, <2>1
    <2>2. CASE n > 0
      <3>1. n \in 1..Len(f) /\ Len(f) \in 1..n
        BY <1>2, <1>3, <2>2
      <3>2. QED
        BY <1>2, <3>1
    <2>3. QED
      BY <2>1, <2>2
  <1>5. QED
    BY <1>1, <1>4

(* _schedule_check forgets every earlier handle and appends the new        *)
(* current one.                                                            *)
LEMMA ScheduleCheckProps ==
  ASSUME NEW q \in Seq(Handle)
  PROVE  /\ ScheduleCheck(q) \in Seq(Handle)
         /\ Len(ScheduleCheck(q)) = Len(q) + 1
         /\ \A j \in 1..Len(q) : ScheduleCheck(q)[j] = [q[j] EXCEPT !.cur = FALSE]
         /\ ScheduleCheck(q)[Len(q) + 1] = [kind |-> "check", live |-> TRUE, cur |-> TRUE]
  <1> DEFINE r == [j \in DOMAIN q |-> [q[j] EXCEPT !.cur = FALSE]]
             h == [kind |-> "check", live |-> TRUE, cur |-> TRUE]
  <1>1. DOMAIN q = 1..Len(q) /\ Len(q) \in Nat
    BY LenProperties
  <1>2. r \in Seq(Handle) /\ Len(r) = Len(q)
    <2>1. \A j \in 1..Len(q) : q[j] \in Handle
      BY ElementOfSeq
    <2>2. \A j \in 1..Len(q) : r[j] \in Handle
      BY <1>1, <2>1, HandleUpdate
    <2>3. r \in [1..Len(q) -> Handle]
      BY <1>1, <2>2
    <2>4. QED
      BY <1>1, <2>3, FunIsSeq
  <1>3. h \in Handle
    BY DEF Handle, Kinds
  <1>4. ScheduleCheck(q) = Append(r, h)
    BY <1>2, <1>3, AppendIsConcat DEF ScheduleCheck
  <1>5. QED
    BY <1>1, <1>2, <1>3, <1>4, AppendProperties

(* _cancel_check cancels and forgets the current handle and leaves the     *)
(* others as they are.                                                     *)
LEMMA CancelCheckProps ==
  ASSUME NEW q \in Seq(Handle)
  PROVE  /\ CancelCheck(q) \in Seq(Handle)
         /\ Len(CancelCheck(q)) = Len(q)
         /\ \A j \in 1..Len(q) :
              CancelCheck(q)[j] = IF q[j].cur
                                    THEN [q[j] EXCEPT !.live = FALSE, !.cur = FALSE]
                                    ELSE q[j]
  <1>1. DOMAIN q = 1..Len(q) /\ Len(q) \in Nat
    BY LenProperties
  <1>2. \A j \in 1..Len(q) : q[j] \in Handle
    BY ElementOfSeq
  <1>3. \A j \in 1..Len(q) : CancelCheck(q)[j] \in Handle
    BY <1>1, <1>2, HandleUpdate DEF CancelCheck
  <1>4. CancelCheck(q) \in [1..Len(q) -> Handle]
    BY <1>1, <1>3 DEF CancelCheck
  <1>5. CancelCheck(q) \in Seq(Handle) /\ Len(CancelCheck(q)) = Len(q)
    BY <1>1, <1>4, FunIsSeq
  <1>6. QED
    BY <1>1, <1>5 DEF CancelCheck

-----------------------------------------------------------------------------
(* The type invariant, with the fact that keeps batch in range when the    *)
(* queue is cleared by close(): outside a run no iteration is under way.   *)
TypeInv ==
  /\ TypeOK
  /\ phase # "running" => batch = 0

LEMMA TypeInvInit == Init => TypeInv
  <1> SUFFICES ASSUME Init PROVE TypeInv
    OBVIOUS
  <1>1. ready \in Seq(Handle) /\ Len(ready) = 0
    BY EmptySeq DEF Init
  <1>2. stopping \in BOOLEAN /\ waiting \in BOOLEAN
    BY DEF Init
  <1>3. QED
    BY <1>1, <1>2, MaxRunsAssumption, WorkAssumption DEF Init, TypeInv, TypeOK, Phases

(* Popping the head of a nonempty queue of handles, as every handle run   *)
(* does, leaves a queue of handles one shorter.                            *)
LEMMA PopProps ==
  ASSUME NEW q \in Seq(Handle), Len(q) > 0
  PROVE  /\ q # <<>>
         /\ Head(q) \in Handle
         /\ Tail(q) \in Seq(Handle)
         /\ Len(Tail(q)) = Len(q) - 1
         /\ \A i \in 1..Len(Tail(q)) : Tail(q)[i] = q[i + 1]
  <1>1. q # <<>>
    BY EmptySeq
  <1>2. QED
    BY <1>1, HeadTailProperties

(* Queuing a new handle at the end, as call_soon does. *)
LEMMA PushProps ==
  ASSUME NEW q \in Seq(Handle), NEW k \in Kinds
  PROVE  /\ Append(q, NewHandle(k)) \in Seq(Handle)
         /\ Len(Append(q, NewHandle(k))) = Len(q) + 1
         /\ \A i \in 1..Len(q) : Append(q, NewHandle(k))[i] = q[i]
         /\ Append(q, NewHandle(k))[Len(q) + 1] = NewHandle(k)
  BY NewHandleType, AppendProperties

LEMMA TypeInvStep == TypeInv /\ [Next]_vars => TypeInv'
  <1> SUFFICES ASSUME TypeInv, [Next]_vars PROVE TypeInv'
    OBVIOUS
  <1> USE DEF TypeInv, TypeOK
  <1>0. Len(ready) \in Nat
    BY LenProperties
  <1>h. NewHandle("step") \in Handle /\ NewHandle("stop") \in Handle
    BY DEF NewHandle, Handle, Kinds
  <1>1. ASSUME NEW e \in Entries, EnterUnimplemented(e) PROVE TypeInv'
    BY <1>1, MaxRunsAssumption DEF EnterUnimplemented, Phases
  <1>2. ASSUME NEW e \in Entries, Run(e) PROVE TypeInv'
    <2>1. CASE phase = "closed"
      BY <1>2, <2>1, MaxRunsAssumption DEF Run, Phases
    <2>2. CASE phase # "closed"
      <3> DEFINE sc == ScheduleCheck(ready)
      <3>1. sc \in Seq(Handle)
        BY ScheduleCheckProps
      <3>2. sc \o <<NewHandle("step")>> = Append(sc, NewHandle("step"))
        BY <3>1, <1>h, AppendIsConcat
      <3>3. Append(sc, NewHandle("step")) \in Seq(Handle)
        BY <3>1, <1>h, AppendProperties
      <3>4. ready' = Append(sc, NewHandle("step"))
        BY <1>2, <2>2, <3>2 DEF Run
      <3>5. Len(ready') \in Nat
        BY <3>3, <3>4, LenProperties
      <3>6. /\ phase' = "running" /\ batch' = 0 /\ stopping' = FALSE
            /\ check_handle' = "set" /\ remaining' = Work /\ waiting' = FALSE
            /\ runs' = runs + 1 /\ runs < MaxRuns
        BY <1>2, <2>2 DEF Run
      <3>7. remaining' \in 0..Work /\ runs' \in 0..MaxRuns
        BY <3>6, MaxRunsAssumption, WorkAssumption
      <3>8. ready' \in Seq(Handle)
        BY <3>3, <3>4
      <3>9. batch' \in 0..Len(ready')
        BY <3>5, <3>6
      <3>10. QED
        BY <3>6, <3>7, <3>8, <3>9 DEF Phases
    <2>3. QED
      BY <2>1, <2>2
  <1>3. CASE BeginIteration
    BY <1>3, <1>0 DEF BeginIteration
  <1>4. CASE IOComplete
    <2>1. ready' = Append(ready, NewHandle("step"))
      BY <1>4 DEF IOComplete
    <2>2. ready' \in Seq(Handle) /\ Len(ready') = Len(ready) + 1
      BY <2>1, <1>h, AppendProperties
    <2>3. /\ waiting' = FALSE
          /\ UNCHANGED <<phase, batch, stopping, check_handle, remaining, runs>>
      BY <1>4 DEF IOComplete
    <2>4. batch' \in 0..Len(ready')
      BY <2>2, <2>3, <1>0
    <2>5. QED
      BY <2>2, <2>3, <2>4
  <1>5. CASE SkipCancelled
    BY <1>5, <1>0, PopProps DEF SkipCancelled
  <1>6. CASE RunCheck
    <2>1. Len(ready) > 0
      BY <1>6, <1>0 DEF RunCheck
    <2>2. Tail(ready) \in Seq(Handle) /\ Len(Tail(ready)) = Len(ready) - 1
      BY <2>1, PopProps
    <2>3. /\ ScheduleCheck(Tail(ready)) \in Seq(Handle)
          /\ Len(ScheduleCheck(Tail(ready))) = Len(Tail(ready)) + 1
      BY <2>2, ScheduleCheckProps
    <2>4. ready' \in Seq(Handle) /\ Len(ready') >= Len(ready) - 1
      BY <1>6, <2>2, <2>3 DEF RunCheck
    <2>5. QED
      BY <1>6, <2>4, <1>0, LenProperties DEF RunCheck
  <1>7. CASE RunStep
    <2>1. Len(ready) > 0
      BY <1>7, <1>0 DEF RunStep
    <2>2. Tail(ready) \in Seq(Handle) /\ Len(Tail(ready)) = Len(ready) - 1
      BY <2>1, PopProps
    <2>3. /\ Append(Tail(ready), NewHandle("step")) \in Seq(Handle)
          /\ Len(Append(Tail(ready), NewHandle("step"))) = Len(ready)
          /\ Append(Tail(ready), NewHandle("stop")) \in Seq(Handle)
          /\ Len(Append(Tail(ready), NewHandle("stop"))) = Len(ready)
      BY <2>2, <1>h, <1>0, AppendProperties
    <2>4. ready' \in Seq(Handle) /\ Len(ready') >= Len(ready) - 1
      BY <1>7, <2>2, <2>3 DEF RunStep
    <2>5. remaining >= 1
      BY <1>7 DEF RunStep
    <2>6. Len(ready') \in Nat
      BY <2>4, LenProperties
    <2>7. /\ batch' = batch - 1 /\ batch > 0
          /\ remaining' = remaining - 1 /\ waiting' \in BOOLEAN
          /\ UNCHANGED <<phase, stopping, check_handle, runs>>
      BY <1>7 DEF RunStep
    <2>8. batch' \in 0..Len(ready') /\ remaining' \in 0..Work
      BY <2>4, <2>5, <2>6, <2>7, <1>0, WorkAssumption
    <2>9. QED
      BY <2>4, <2>7, <2>8
  <1>8. CASE RunStop
    BY <1>8, <1>0, PopProps DEF RunStop
  <1>9. CASE ReturnFromRun
    BY <1>9, CancelCheckProps DEF ReturnFromRun, Phases
  <1>10. CASE Close
    BY <1>10, EmptySeq DEF Close, Phases
  <1>11. CASE UNCHANGED vars
    BY <1>11 DEF vars
  <1>12. QED
    BY <1>1, <1>2, <1>3, <1>4, <1>5, <1>6, <1>7, <1>8, <1>9, <1>10, <1>11
       DEF Next

(* Type correctness of the loop wrapper: whatever sequence of runs,        *)
(* iterations, I/O completions and closes the program drives, the ready   *)
(* queue stays a queue of handles, an iteration never counts more handles  *)
(* than are queued, and the main coroutine never takes more steps than it  *)
(* has.                                                                    *)
THEOREM TypeCorrect == Spec => []TypeOK
  <1>1. Init => TypeInv
    BY TypeInvInit
  <1>2. TypeInv /\ [Next]_vars => TypeInv'
    BY TypeInvStep
  <1>3. TypeInv => TypeOK
    BY DEF TypeInv
  <1>4. QED
    BY <1>1, <1>2, <1>3, PTL DEF Spec

-----------------------------------------------------------------------------
(* OneCheckChain is not inductive: a step is judged by the handle it pops, *)
(* and nothing in the count of live checks says that the live check at the *)
(* head is the one _check_handle refers to.  The strengthening ties the    *)
(* chain to _check_handle: the handle it refers to is a live checkpoint    *)
(* callback, every live checkpoint callback is that handle, it is unique,  *)
(* and it exists exactly while the loop runs.                              *)
Chain(q) ==
  /\ \A j \in DOMAIN q : q[j].cur => q[j].kind = "check" /\ q[j].live
  /\ \A j \in DOMAIN q : q[j].kind = "check" /\ q[j].live => q[j].cur
  /\ \A i, j \in DOMAIN q : q[i].cur /\ q[j].cur => i = j

HasCur(q) == \E j \in DOMAIN q : q[j].cur

Inv ==
  /\ TypeInv
  /\ Chain(ready)
  /\ (phase = "running") <=> HasCur(ready)

(* Popping a handle other than the current check keeps the chain and the  *)
(* current check; popping the current check leaves no current check.      *)
LEMMA PopChain ==
  ASSUME NEW q \in Seq(Handle), Len(q) > 0, Chain(q)
  PROVE  /\ Chain(Tail(q))
         /\ ~q[1].cur => (HasCur(Tail(q)) <=> HasCur(q))
         /\ q[1].cur => ~HasCur(Tail(q))
  <1> DEFINE t == Tail(q)
  <1>1. /\ t \in Seq(Handle) /\ Len(t) = Len(q) - 1
        /\ \A i \in 1..Len(t) : t[i] = q[i + 1]
        /\ DOMAIN t = 1..Len(t) /\ DOMAIN q = 1..Len(q) /\ Len(q) \in Nat
    BY PopProps, LenProperties
  <1>2. Chain(t)
    BY <1>1 DEF Chain
  <1>3. ~q[1].cur => (HasCur(t) <=> HasCur(q))
    <2>1. HasCur(t) => HasCur(q)
      BY <1>1 DEF HasCur
    <2>2. ASSUME ~q[1].cur, HasCur(q) PROVE HasCur(t)
      <3>1. PICK j \in DOMAIN q : q[j].cur
        BY <2>2 DEF HasCur
      <3>2. j # 1 /\ j - 1 \in 1..Len(t) /\ t[j - 1] = q[j]
        BY <1>1, <2>2, <3>1
      <3>3. QED
        BY <1>1, <3>1, <3>2 DEF HasCur
    <2>3. QED
      BY <2>1, <2>2
  <1>4. q[1].cur => ~HasCur(t)
    BY <1>1 DEF Chain, HasCur
  <1>5. QED
    BY <1>2, <1>3, <1>4

(* Queuing a step or the done callback keeps the chain and the current    *)
(* check.                                                                 *)
LEMMA PushChain ==
  ASSUME NEW q \in Seq(Handle), Chain(q), NEW k \in {"step", "stop"}
  PROVE  /\ Chain(Append(q, NewHandle(k)))
         /\ HasCur(Append(q, NewHandle(k))) <=> HasCur(q)
  <1> DEFINE a == Append(q, NewHandle(k))
  <1>1. NewHandle(k) \in Handle /\ NewHandle(k).cur = FALSE
        /\ NewHandle(k).kind # "check"
    BY DEF NewHandle, Handle, Kinds
  <1>2. /\ Len(a) = Len(q) + 1 /\ a \in Seq(Handle)
        /\ \A i \in 1..Len(q) : a[i] = q[i]
        /\ a[Len(q) + 1] = NewHandle(k)
    BY <1>1, AppendProperties
  <1>3. DOMAIN a = 1..Len(q) + 1 /\ DOMAIN q = 1..Len(q) /\ Len(q) \in Nat
    BY <1>2, LenProperties
  <1>4. QED
    BY <1>1, <1>2, <1>3 DEF Chain, HasCur

(* Outside a run the queue holds no live check, so _schedule_check starts *)
(* a chain of one.                                                        *)
LEMMA ScheduleChain ==
  ASSUME NEW q \in Seq(Handle), Chain(q), ~HasCur(q)
  PROVE  /\ Chain(ScheduleCheck(q))
         /\ HasCur(ScheduleCheck(q))
  <1> DEFINE sc == ScheduleCheck(q)
  <1>1. /\ sc \in Seq(Handle) /\ Len(sc) = Len(q) + 1
        /\ \A j \in 1..Len(q) : sc[j] = [q[j] EXCEPT !.cur = FALSE]
        /\ sc[Len(q) + 1] = [kind |-> "check", live |-> TRUE, cur |-> TRUE]
    BY ScheduleCheckProps
  <1>2. DOMAIN sc = 1..Len(q) + 1 /\ DOMAIN q = 1..Len(q) /\ Len(q) \in Nat
    BY <1>1, LenProperties
  <1>3. \A j \in 1..Len(q) : q[j] \in Handle /\ ~q[j].cur
                            /\ ~(q[j].kind = "check" /\ q[j].live)
    BY <1>2, ElementOfSeq DEF Chain, HasCur
  <1>4. \A j \in 1..Len(q) : /\ ~sc[j].cur
                            /\ ~(sc[j].kind = "check" /\ sc[j].live)
    BY <1>1, <1>3 DEF Handle
  <1>5. Chain(sc)
    BY <1>1, <1>2, <1>4 DEF Chain
  <1>6. HasCur(sc)
    BY <1>1, <1>2 DEF HasCur
  <1>7. QED
    BY <1>5, <1>6

(* _cancel_check leaves no live check in the queue. *)
LEMMA CancelChain ==
  ASSUME NEW q \in Seq(Handle), Chain(q)
  PROVE  /\ Chain(CancelCheck(q))
         /\ ~HasCur(CancelCheck(q))
  <1> DEFINE cc == CancelCheck(q)
  <1>1. /\ cc \in Seq(Handle) /\ Len(cc) = Len(q)
        /\ \A j \in 1..Len(q) :
             cc[j] = IF q[j].cur THEN [q[j] EXCEPT !.live = FALSE, !.cur = FALSE]
                                 ELSE q[j]
    BY CancelCheckProps
  <1>2. DOMAIN cc = 1..Len(q) /\ DOMAIN q = 1..Len(q)
    BY <1>1, LenProperties
  <1>3. \A j \in 1..Len(q) : q[j] \in Handle
    BY <1>2, ElementOfSeq
  <1>4. \A j \in 1..Len(q) : /\ ~cc[j].cur
                            /\ ~(cc[j].kind = "check" /\ cc[j].live)
    BY <1>1, <1>2, <1>3 DEF Chain, Handle
  <1>5. QED
    BY <1>2, <1>4 DEF Chain, HasCur

(* The queue close() leaves has no chain. *)
LEMMA EmptyChain == Chain(<<>>) /\ ~HasCur(<<>>)
  BY DEF Chain, HasCur

LEMMA InvInit == Init => Inv
  BY TypeInvInit, EmptyChain DEF Init, Inv

LEMMA InvStep ==
  ASSUME Binding = "native"
  PROVE  Inv /\ [Next]_vars => Inv'
  <1> SUFFICES ASSUME Inv, [Next]_vars PROVE Inv'
    OBVIOUS
  <1>t. TypeInv'
    BY TypeInvStep DEF Inv
  <1>0. /\ ready \in Seq(Handle) /\ Len(ready) \in Nat
        /\ batch \in 0..Len(ready) /\ DOMAIN ready = 1..Len(ready)
        /\ Chain(ready) /\ ((phase = "running") <=> HasCur(ready))
    BY LenProperties DEF Inv, TypeInv, TypeOK
  <1> SUFFICES Chain(ready') /\ ((phase' = "running") <=> HasCur(ready'))
    BY <1>t DEF Inv
  (* A handle run at the head of the queue is the current check exactly   *)
  (* when it is a live checkpoint callback.                               *)
  <1>p. ASSUME batch > 0
        PROVE  /\ Len(ready) > 0 /\ Head(ready) = ready[1]
               /\ ready[1].cur <=> (ready[1].kind = "check" /\ ready[1].live)
    BY <1>0, <1>p DEF Chain
  <1>1. ASSUME NEW e \in Entries, EnterUnimplemented(e) PROVE Chain(ready') /\ ((phase' = "running") <=> HasCur(ready'))
    BY <1>1, <1>0 DEF EnterUnimplemented
  <1>2. ASSUME NEW e \in Entries, Run(e) PROVE Chain(ready') /\ ((phase' = "running") <=> HasCur(ready'))
    <2>1. CASE phase = "closed"
      BY <1>2, <2>1, <1>0 DEF Run
    <2>2. CASE phase # "closed"
      <3>1. ~HasCur(ready)
        BY <1>2, <1>0 DEF Run
      <3>2. ScheduleCheck(ready) \in Seq(Handle)
            /\ Chain(ScheduleCheck(ready)) /\ HasCur(ScheduleCheck(ready))
        BY <1>0, <3>1, ScheduleChain, ScheduleCheckProps
      <3>3. NewHandle("step") \in Handle
        BY DEF NewHandle, Handle, Kinds
      <3>4. ready' = Append(ScheduleCheck(ready), NewHandle("step"))
        BY <1>2, <2>2, <3>2, <3>3, AppendIsConcat DEF Run
      <3>5. Chain(ready') /\ HasCur(ready')
        BY <3>2, <3>4, PushChain
      <3>6. QED
        BY <1>2, <2>2, <3>5 DEF Run
    <2>3. QED
      BY <2>1, <2>2
  <1>3. CASE BeginIteration
    BY <1>3, <1>0 DEF BeginIteration
  <1>4. CASE IOComplete
    BY <1>4, <1>0, PushChain DEF IOComplete
  <1>5. CASE SkipCancelled
    <2>1. ~ready[1].cur
      BY <1>5, <1>p DEF SkipCancelled
    <2>2. QED
      BY <1>5, <1>0, <1>p, <2>1, PopChain DEF SkipCancelled
  <1>6. CASE RunCheck
    <2>1. ready[1].cur
      BY <1>6, <1>p DEF RunCheck
    <2>2. Tail(ready) \in Seq(Handle) /\ Chain(Tail(ready)) /\ ~HasCur(Tail(ready))
      BY <1>6, <1>0, <1>p, <2>1, PopChain, PopProps DEF RunCheck
    <2>3. ready' = ScheduleCheck(Tail(ready)) /\ phase' = "running"
      BY <1>6 DEF RunCheck
    <2>4. QED
      BY <2>2, <2>3, ScheduleChain
  <1>7. CASE RunStep
    <2>1. ~ready[1].cur
      BY <1>7, <1>p DEF RunStep
    <2>2. /\ Tail(ready) \in Seq(Handle) /\ Chain(Tail(ready))
          /\ (HasCur(Tail(ready)) <=> HasCur(ready))
      BY <1>7, <1>0, <1>p, <2>1, PopChain, PopProps DEF RunStep
    <2>3. /\ Chain(Append(Tail(ready), NewHandle("step")))
          /\ (HasCur(Append(Tail(ready), NewHandle("step"))) <=> HasCur(ready))
          /\ Chain(Append(Tail(ready), NewHandle("stop")))
          /\ (HasCur(Append(Tail(ready), NewHandle("stop"))) <=> HasCur(ready))
      BY <2>2, PushChain
    <2>4. QED
      BY <1>7, <1>0, <2>2, <2>3 DEF RunStep
  <1>8. CASE RunStop
    <2>1. ~ready[1].cur
      BY <1>8, <1>p DEF RunStop
    <2>2. QED
      BY <1>8, <1>0, <1>p, <2>1, PopChain DEF RunStop
  <1>9. CASE ReturnFromRun
    BY <1>9, <1>0, CancelChain DEF ReturnFromRun
  <1>10. CASE Close
    BY <1>10, EmptyChain DEF Close
  <1>11. CASE UNCHANGED vars
    BY <1>11, <1>0 DEF vars
  <1>12. QED
    BY <1>1, <1>2, <1>3, <1>4, <1>5, <1>6, <1>7, <1>8, <1>9, <1>10, <1>11
       DEF Next

(* The live checkpoint callbacks are exactly the current check, which     *)
(* exists while the loop runs: one of them during a run, none otherwise.  *)
LEMMA InvImpliesOneCheckChain == Inv => OneCheckChain
  <1> SUFFICES ASSUME Inv PROVE OneCheckChain
    OBVIOUS
  <1>1. LiveChecks = {j \in DOMAIN ready : ready[j].cur}
    BY DEF Inv, Chain, LiveChecks
  <1>2. CASE phase = "running"
    <2>1. PICK j \in DOMAIN ready : ready[j].cur
      BY <1>2 DEF Inv, HasCur
    <2>2. LiveChecks = {j}
      BY <1>1, <2>1 DEF Inv, Chain
    <2>3. Cardinality({j}) = 1
      BY FS_Singleton
    <2>4. QED
      BY <1>2, <2>2, <2>3 DEF OneCheckChain
  <1>3. CASE phase # "running"
    <2>1. LiveChecks = {}
      BY <1>1, <1>3 DEF Inv, HasCur
    <2>2. QED
      BY <1>3, <2>1, FS_EmptySet DEF OneCheckChain
  <1>4. QED
    BY <1>2, <1>3

(* With a binding whose _morpheus has checkpoint, the wrapper keeps       *)
(* exactly one checkpoint chain while its loop runs and none once         *)
(* run_until_complete or run_forever has returned, whatever the number of *)
(* runs and the work of the main coroutine: _check_and_reschedule re-arms *)
(* the handle it replaces, and the finally of the run methods cancels the *)
(* handle the chain re-armed last.                                        *)
THEOREM OneCheckChainHolds ==
  ASSUME Binding = "native"
  PROVE  Spec => []OneCheckChain
  <1>1. Init => Inv
    BY InvInit
  <1>2. Inv /\ [Next]_vars => Inv'
    BY InvStep
  <1>3. Inv => OneCheckChain
    BY InvImpliesOneCheckChain
  <1>4. QED
    BY <1>1, <1>2, <1>3, PTL DEF Spec

-----------------------------------------------------------------------------
(* A checkpoint callback is armed exactly while the loop runs. *)
LEMMA ArmedWhileRunning == Inv => ((LiveChecks # {}) <=> (phase = "running"))
  BY DEF Inv, Chain, HasCur, LiveChecks

(* One step of the wrapper is a step of LoopRun or leaves the abstract     *)
(* state alone: the handle-level steps of a run keep the callback armed,   *)
(* since it is armed before and after them.                                *)
LEMMA AbstractStep ==
  ASSUME Binding = "native", Inv, Inv', [Next]_vars
  PROVE  [Abstract!Next]_Abstract!avars
  <1>0. (LiveChecks # {}) <=> (phase = "running")
    BY ArmedWhileRunning
  <1>0p. (LiveChecks # {})' <=> (phase' = "running")
    BY DEF Inv, Chain, HasCur, LiveChecks
  <1> USE <1>0, <1>0p
  <1>1. ASSUME NEW e \in Entries, EnterUnimplemented(e)
        PROVE  Abstract!Fail
    BY <1>1 DEF EnterUnimplemented, Abstract!Fail
  <1>2. ASSUME NEW e \in Entries, Run(e)
        PROVE  Abstract!Start \/ Abstract!Refuse
    <2>1. CASE phase = "closed"
      BY <1>2, <2>1 DEF Run, Abstract!Refuse
    <2>2. CASE phase # "closed"
      BY <1>2, <2>2 DEF Run, Abstract!Start
    <2>3. QED
      BY <2>1, <2>2
  <1>3. ASSUME BeginIteration \/ IOComplete \/ SkipCancelled \/ RunCheck
                 \/ RunStep \/ RunStop
        PROVE  UNCHANGED Abstract!avars
    <2>1. phase = "running" /\ phase' = "running" /\ runs' = runs
      BY <1>3 DEF BeginIteration, IOComplete, SkipCancelled, RunCheck,
                  RunStep, RunStop
    <2>2. (LiveChecks # {})' = (LiveChecks # {})
      BY <2>1
    <2>3. QED
      BY <2>1, <2>2 DEF Abstract!avars
  <1>4. CASE ReturnFromRun
    <2>1. phase' = "stopped" /\ phase = "running" /\ runs' = runs
      BY <1>4 DEF ReturnFromRun
    <2>2. ~(LiveChecks # {})'
      BY <2>1
    <2>3. QED
      BY <2>1, <2>2 DEF Abstract!Return, Abstract!Next
  <1>5. CASE Close
    <2>1. phase' = "closed" /\ phase \in {"idle", "stopped"} /\ runs' = runs
      BY <1>5 DEF Close
    <2>2. ~(LiveChecks # {})' /\ ~(LiveChecks # {})
      BY <2>1
    <2>3. QED
      BY <2>1, <2>2 DEF Abstract!Close, Abstract!Next
  <1>6. CASE UNCHANGED vars
    BY <1>6 DEF vars, LiveChecks, Abstract!avars
  <1>7. QED
    BY <1>1, <1>2, <1>3, <1>4, <1>5, <1>6 DEF Next, Abstract!Next

(* With a binding whose _morpheus has checkpoint, the loop wrapper         *)
(* implements LoopRun under the mapping "armed = a live checkpoint handle  *)
(* is queued": every run arms the checkpoint callback, every handle the    *)
(* run executes keeps it armed, returning from run_until_complete or       *)
(* run_forever disarms it, and a closed loop never runs again.  The        *)
(* fairness part, that every run returns, is checked by TLC only.          *)
THEOREM RefinesLoopRun ==
  ASSUME Binding = "native"
  PROVE  Spec => Abstract!SafeSpec
  <1>1. Init => Abstract!Init
    BY DEF Init, Abstract!Init, LiveChecks
  <1>2. Spec => []Inv
    BY InvInit, InvStep, PTL DEF Spec
  <1>3. Inv /\ Inv' /\ [Next]_vars => [Abstract!Next]_Abstract!avars
    BY AbstractStep
  <1>4. QED
    BY <1>1, <1>2, <1>3, PTL DEF Spec, Abstract!SafeSpec

=============================================================================
