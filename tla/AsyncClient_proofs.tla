-------------------------- MODULE AsyncClient_proofs --------------------------
(***************************************************************************)
(* Proofs about AsyncClient, for any set of calls and any interfaces.      *)
(***************************************************************************)
EXTENDS AsyncClient, FiniteSetTheorems, SequenceTheorems, TLAPS

(* The handlers that run are those of calls that have ended or failed to   *)
(* start, each once.                                                       *)
StackOK ==
    /\ \A i \in 1..Len(stack) : st[stack[i]] \in {"completing", "erring"}
    /\ \A i, j \in 1..Len(stack) : stack[i] = stack[j] => i = j

(* A start function that will release an array is waiting for a handler.   *)
KeepsOK ==
    \A c \in keeps : /\ st[c] \in {"completing", "erring"}
                     /\ api[c] # "call_asynch"

(* Who holds the references to a parameter array: the holder of a call     *)
(* that is under way, the start function, and nobody.                      *)
One(b) == IF b THEN 1 ELSE 0

RefsBalance ==
    \A c \in Calls :
        refs[c] = One(st[c] \in {"pending", "completing"}) + One(c \in keeps)
                    + One(Forgets(api[c], fault[c]))

(* The record of a call, by what has become of the call.                   *)
InfoBalance ==
    \A c \in Calls :
        /\ st[c] \in {"new", "pending", "completing"} => fault[c] = "none"
        /\ st[c] \in {"erring", "refused"} => fault[c] # "none"
        /\ fault[c] # "none" => info[c] = InfoAfter(fault[c])
        /\ st[c] = "new" => info[c] = "none" /\ api[c] = "none"
        /\ st[c] \in {"pending", "completing"} => info[c] = "live"
        /\ st[c] = "done" /\ fault[c] = "none" => info[c] = "freed"

CallsOK == HandledOnce /\ StackOK /\ KeepsOK /\ RefsBalance /\ InfoBalance

(* curl's message queue names calls that are under way.                    *)
QueueOK == finished \subseteq Pending /\ (Counted => finished = {})

(* What has to hold for the end of a wait to be allowed.                   *)
WaitOK ==
    /\ where = "finish" /\ Counted /\ stop => Pending \subseteq nested
    /\ where = "finish" /\ phase = "messages" /\ ~running =>
            Pending \subseteq finished \cup nested

IInv == TypeOK /\ CallsOK /\ CountExact /\ QueueOK /\ WaitOK

-----------------------------------------------------------------------------
(* Pushing a call on the stack of handlers.                                *)
LEMMA PushFacts ==
    ASSUME NEW S, NEW s \in Seq(S), NEW e \in S
    PROVE  /\ <<e>> \o s \in Seq(S)
           /\ Len(<<e>> \o s) = Len(s) + 1
           /\ (<<e>> \o s)[1] = e
           /\ \A i \in 2..(Len(s) + 1) : (<<e>> \o s)[i] = s[i - 1]
<1> DEFINE one == <<e>>
<1>1. one \in Seq(S) /\ Len(one) = 1 /\ one[1] = e
  OBVIOUS
<1> HIDE DEF one
<1>2. one \o s \in Seq(S) /\ Len(one \o s) = Len(one) + Len(s)
  BY <1>1, ConcatProperties
<1>3. Len(s) \in Nat
  OBVIOUS
<1>4. \A i \in 1..(Len(one) + Len(s)) :
          (one \o s)[i] = IF i <= Len(one) THEN one[i] ELSE s[i - Len(one)]
  BY <1>1, ConcatProperties, Zenon
<1>5. (one \o s)[1] = e
  BY <1>1, <1>3, <1>4
<1>6. ASSUME NEW i \in 2..(Len(s) + 1)
      PROVE  (one \o s)[i] = s[i - 1]
  <2>1. i \in 1..(Len(one) + Len(s)) /\ ~(i <= Len(one)) /\ i - Len(one) = i - 1
    BY <1>1, <1>3
  <2>2. QED
    BY <1>4, <2>1
<1>7. QED
  BY <1>1, <1>2, <1>3, <1>5, <1>6 DEF one

(* Calling the handler of a call that was not on the stack keeps StackOK.  *)
LEMMA PushKeepsStackOK ==
    ASSUME TypeOK, StackOK, NEW c \in Calls,
           st[c] \notin {"completing", "erring"},
           NEW v \in {"completing", "erring"}, st' = [st EXCEPT ![c] = v],
           stack' = <<c>> \o stack
    PROVE  StackOK' /\ stack' \in Seq(Calls)
<1>1. stack \in Seq(Calls) /\ st \in [Calls -> {"new", "pending",
          "completing", "erring", "done", "refused"}] /\ Len(stack) \in Nat
  BY DEF TypeOK
<1> DEFINE pushed == <<c>> \o stack
<1>2. stack \in Seq(Calls)
  BY <1>1
<1>3. /\ pushed \in Seq(Calls)
      /\ Len(pushed) = Len(stack) + 1
      /\ pushed[1] = c
      /\ \A i \in 2..(Len(stack) + 1) : pushed[i] = stack[i - 1]
  BY <1>2, PushFacts
<1>4. stack' = pushed
  OBVIOUS
<1> HIDE DEF pushed
<1>5. /\ stack' \in Seq(Calls)
      /\ Len(stack') = Len(stack) + 1
      /\ stack'[1] = c
      /\ \A i \in 2..(Len(stack) + 1) : stack'[i] = stack[i - 1]
  BY <1>3, <1>4
<1>6. \A i \in 1..Len(stack) : stack[i] \in Calls /\ stack[i] # c
  BY <1>1 DEF StackOK
<1>7. \A i \in 2..(Len(stack) + 1) : i - 1 \in 1..Len(stack)
  BY <1>1
<1>8. \A i \in 1..Len(stack') : i = 1 \/ i \in 2..(Len(stack) + 1)
  BY <1>1, <1>5
<1>9. \A i \in 1..Len(stack') : st'[stack'[i]] \in {"completing", "erring"}
  BY <1>1, <1>5, <1>6, <1>7, <1>8 DEF StackOK
<1>10. ASSUME NEW i \in 1..Len(stack'), NEW j \in 1..Len(stack'),
             stack'[i] = stack'[j]
      PROVE  i = j
  <2>1. CASE i = 1 /\ j = 1
    BY <2>1
  <2>2. CASE i = 1 /\ j # 1
    BY <1>5, <1>6, <1>7, <1>8, <1>10, <2>2
  <2>3. CASE i # 1 /\ j = 1
    BY <1>5, <1>6, <1>7, <1>8, <1>10, <2>3
  <2>4. CASE i # 1 /\ j # 1
    <3>1. i \in 2..(Len(stack) + 1) /\ j \in 2..(Len(stack) + 1)
      BY <1>8, <2>4
    <3>2. stack[i - 1] = stack[j - 1]
      BY <1>5, <1>10, <3>1
    <3>3. i - 1 = j - 1
      BY <1>7, <3>1, <3>2 DEF StackOK
    <3>4. QED
      BY <1>1, <3>1, <3>3
  <2>5. QED
    BY <2>1, <2>2, <2>3, <2>4
<1>11. QED
  BY <1>5, <1>9, <1>10 DEF StackOK

(* The handler on top returns.                                             *)
LEMMA PopKeepsStackOK ==
    ASSUME TypeOK, StackOK, stack # <<>>,
           st' = [st EXCEPT ![Head(stack)] = "done"], stack' = Tail(stack)
    PROVE  StackOK' /\ stack' \in Seq(Calls)
<1>1. stack \in Seq(Calls) /\ st \in [Calls -> {"new", "pending",
          "completing", "erring", "done", "refused"}]
  BY DEF TypeOK
<1>2. /\ stack' \in Seq(Calls)
      /\ Len(stack) \in Nat \ {0}
      /\ Len(stack') = Len(stack) - 1
      /\ \A i \in 1..Len(stack') : stack'[i] = stack[i + 1]
      /\ Head(stack) = stack[1]
  BY <1>1
<1>3. \A i \in 1..Len(stack') : i + 1 \in 1..Len(stack) /\ i + 1 # 1
  BY <1>2
<1>4. 1 \in 1..Len(stack)
  BY <1>2
<1>5. \A i \in 1..Len(stack') : stack'[i] \in Calls /\ stack'[i] # Head(stack)
  BY <1>1, <1>2, <1>3, <1>4 DEF StackOK
<1>6. \A i \in 1..Len(stack') : st'[stack'[i]] \in {"completing", "erring"}
  BY <1>1, <1>2, <1>3, <1>5 DEF StackOK
<1>7. ASSUME NEW i \in 1..Len(stack'), NEW j \in 1..Len(stack'),
             stack'[i] = stack'[j]
      PROVE  i = j
  <2>1. i + 1 = j + 1
    BY <1>2, <1>3, <1>7 DEF StackOK
  <2>2. QED
    BY <1>2, <2>1
<1>8. QED
  BY <1>2, <1>6, <1>7 DEF StackOK

-----------------------------------------------------------------------------
(* Pending calls.                                                          *)

(* Finitely many calls are under way.                                      *)
LEMMA PendingFinite == IsFiniteSet(Pending) /\ Cardinality(Pending) \in Nat
<1>1. IsFiniteSet(Pending)
  BY CallsFinite, FS_Subset DEF Pending
<1>2. QED
  BY <1>1, FS_CardinalityType

(* A call that is started is one more under way.                           *)
LEMMA PendingAdded ==
    ASSUME TypeOK, NEW c \in Calls, st[c] = "new",
           st' = [st EXCEPT ![c] = "pending"]
    PROVE  /\ Pending' = Pending \cup {c}
           /\ Cardinality(Pending') = Cardinality(Pending) + 1
<1>1. Pending' = Pending \cup {c} /\ c \notin Pending
  BY DEF TypeOK, Pending
<1>2. QED
  BY <1>1, PendingFinite, FS_AddElement

(* A call that ends is one fewer under way.                                *)
LEMMA PendingRemoved ==
    ASSUME TypeOK, NEW c \in Calls, st[c] = "pending",
           NEW v, v # "pending", st' = [st EXCEPT ![c] = v]
    PROVE  /\ Pending' = Pending \ {c}
           /\ Cardinality(Pending') = Cardinality(Pending) - 1
           /\ Cardinality(Pending) >= 1
           /\ Cardinality(Pending) = 1 => Pending' = {}
<1>1. Pending' = Pending \ {c} /\ c \in Pending
  BY DEF TypeOK, Pending
<1>2. IsFiniteSet(Pending')
  BY <1>1, PendingFinite, FS_Subset
<1>3. Cardinality(Pending') = Cardinality(Pending) - 1
  BY <1>1, PendingFinite, FS_RemoveElement
<1>4. Cardinality(Pending') \in Nat
  BY <1>2, FS_CardinalityType
<1>5. Cardinality(Pending') = 0 => Pending' = {}
  BY <1>2, FS_EmptySet
<1>6. QED
  BY <1>1, <1>3, <1>4, <1>5, PendingFinite

(* Other changes of a call do not matter to the calls under way.           *)
LEMMA PendingKept ==
    ASSUME TypeOK, NEW c \in Calls, st[c] # "pending",
           NEW v, v # "pending", st' = [st EXCEPT ![c] = v]
    PROVE  Pending' = Pending
BY DEF TypeOK, Pending

(* When libwww's counter is zero no call is under way.                     *)
LEMMA NonePending == CountExact /\ Counted /\ outstanding = 0 => Pending = {}
BY PendingFinite, FS_EmptySet DEF CountExact

-----------------------------------------------------------------------------
(* Steps that leave the calls alone.                                       *)

(* Steps that touch no call keep everything said of the calls.             *)
LEMMA QuietCalls ==
    ASSUME IInv, UNCHANGED <<transport, callVars, stack, outstanding>>
    PROVE  CallsOK' /\ CountExact' /\ Pending' = Pending
<1> USE DEF callVars
<1>1. CallsOK'
  BY DEF IInv, CallsOK, HandledOnce, StackOK, KeepsOK, RefsBalance, InfoBalance,
         Forgets, Built
<1>2. Pending' = Pending
  BY DEF Pending
<1>3. CountExact'
  BY <1>2 DEF IInv, CountExact, Counted
<1>4. QED
  BY <1>1, <1>2, <1>3

(* Creating the client keeps the invariant.                                *)
LEMMA StepCreate ==
    ASSUME IInv, Create
    PROVE  IInv'
<1>1. CallsOK' /\ CountExact' /\ Pending' = Pending
  BY QuietCalls DEF Create, libwwwVars
<1>2. TypeOK'
  BY DEF IInv, TypeOK, Create, callVars, libwwwVars, curlVars
<1>3. QueueOK' /\ WaitOK'
  BY <1>1
  DEF IInv, QueueOK, WaitOK, Create, callVars, libwwwVars, curlVars,
      Counted
<1>4. QED
  BY <1>1, <1>2, <1>3 DEF IInv

(* Destroying it does.                                                     *)
LEMMA StepDestroy ==
    ASSUME IInv, Destroy
    PROVE  IInv'
<1>1. CallsOK' /\ CountExact' /\ Pending' = Pending
  BY QuietCalls DEF Destroy, libwwwVars
<1>2. TypeOK'
  BY DEF IInv, TypeOK, Destroy, callVars, libwwwVars, curlVars
<1>3. QueueOK' /\ WaitOK'
  BY <1>1
  DEF IInv, QueueOK, WaitOK, Destroy, callVars, libwwwVars, curlVars,
      Counted
<1>4. QED
  BY <1>1, <1>2, <1>3 DEF IInv

(* A wait begins.                                                          *)
LEMMA StepStartWait ==
    ASSUME IInv, NEW w \in {"finish", "timed"}, StartWait(w)
    PROVE  IInv'
<1>1. CallsOK' /\ CountExact' /\ Pending' = Pending
  BY QuietCalls DEF StartWait, libwwwVars
<1>2. TypeOK'
  BY DEF IInv, TypeOK, StartWait, callVars, libwwwVars, curlVars
<1>3. QueueOK' /\ WaitOK'
  BY <1>1
  DEF IInv, QueueOK, WaitOK, StartWait, callVars, libwwwVars, curlVars,
      Counted
<1>4. QED
  BY <1>1, <1>2, <1>3 DEF IInv

(* Its time is up.                                                         *)
LEMMA StepTimerFires ==
    ASSUME IInv, TimerFires
    PROVE  IInv'
<1>1. CallsOK' /\ CountExact' /\ Pending' = Pending
  BY QuietCalls DEF TimerFires, libwwwVars
<1>2. TypeOK'
  BY DEF IInv, TypeOK, TimerFires, callVars, libwwwVars, curlVars
<1>3. QueueOK' /\ WaitOK'
  BY <1>1
  DEF IInv, QueueOK, WaitOK, TimerFires, callVars, libwwwVars, curlVars,
      Counted
<1>4. QED
  BY <1>1, <1>2, <1>3 DEF IInv

(* libwww's event loop ends.                                               *)
LEMMA StepLoopEnds ==
    ASSUME IInv, LoopEnds
    PROVE  IInv'
<1>1. CallsOK' /\ CountExact' /\ Pending' = Pending
  BY QuietCalls DEF LoopEnds, libwwwVars
<1>2. TypeOK'
  BY DEF IInv, TypeOK, LoopEnds, callVars, libwwwVars, curlVars
<1>3. QueueOK' /\ WaitOK'
  BY <1>1
  DEF IInv, QueueOK, WaitOK, LoopEnds, callVars, libwwwVars, curlVars,
      Counted
<1>4. QED
  BY <1>1, <1>2, <1>3 DEF IInv

(* A synchronous call begins.                                              *)
LEMMA StepStartSync ==
    ASSUME IInv, StartSync
    PROVE  IInv'
<1>1. CallsOK' /\ CountExact' /\ Pending' = Pending
  BY QuietCalls DEF StartSync, libwwwVars
<1>2. TypeOK'
  BY DEF IInv, TypeOK, StartSync, callVars, libwwwVars, curlVars
<1>3. QueueOK' /\ WaitOK'
  BY <1>1
  DEF IInv, QueueOK, WaitOK, StartSync, callVars, libwwwVars, curlVars,
      Counted
<1>4. QED
  BY <1>1, <1>2, <1>3 DEF IInv

(* Its request ends.                                                       *)
LEMMA StepSyncEnds ==
    ASSUME IInv, SyncEnds
    PROVE  IInv'
<1>1. CallsOK' /\ CountExact' /\ Pending' = Pending
  BY QuietCalls DEF SyncEnds, libwwwVars
<1>2. TypeOK'
  BY DEF IInv, TypeOK, SyncEnds, callVars, libwwwVars, curlVars
<1>3. QueueOK' /\ WaitOK'
  BY <1>1
  DEF IInv, QueueOK, WaitOK, SyncEnds, callVars, libwwwVars, curlVars,
      Counted
<1>4. QED
  BY <1>1, <1>2, <1>3 DEF IInv

(* Its event loop ends, for good or to run again.                          *)
LEMMA StepSyncLoopEnds ==
    ASSUME IInv, SyncLoopEnds
    PROVE  IInv'
<1>1. CallsOK' /\ CountExact' /\ Pending' = Pending
  BY QuietCalls DEF SyncLoopEnds, libwwwVars
<1>2. TypeOK'
  BY DEF IInv, TypeOK, SyncLoopEnds, callVars, libwwwVars, curlVars
<1>3. QueueOK' /\ WaitOK'
  BY <1>1
  DEF IInv, QueueOK, WaitOK, SyncLoopEnds, callVars, libwwwVars, curlVars,
      Counted
<1>4. QED
  BY <1>1, <1>2, <1>3 DEF IInv

(* The curl transport gives up a wait.                                     *)
LEMMA StepCurlGivesUp ==
    ASSUME IInv, CurlGivesUp
    PROVE  IInv'
<1>1. CallsOK' /\ CountExact' /\ Pending' = Pending
  BY QuietCalls DEF CurlGivesUp, libwwwVars
<1>2. TypeOK'
  BY DEF IInv, TypeOK, CurlGivesUp, callVars, libwwwVars, curlVars
<1>3. QueueOK' /\ WaitOK'
  BY <1>1
  DEF IInv, QueueOK, WaitOK, CurlGivesUp, callVars, libwwwVars, curlVars,
      Counted
<1>4. QED
  BY <1>1, <1>2, <1>3 DEF IInv

(* Some of curl's transfers end.                                           *)
LEMMA StepCurlPerform ==
    ASSUME IInv, NEW over \in SUBSET (Pending \ finished), CurlPerform(over)
    PROVE  IInv'
<1>1. CallsOK' /\ CountExact' /\ Pending' = Pending
  BY QuietCalls DEF CurlPerform, libwwwVars
<1>2. TypeOK'
  BY DEF IInv, TypeOK, CurlPerform, callVars, libwwwVars, curlVars, Pending
<1>3. QueueOK' /\ WaitOK'
  BY <1>1
  DEF IInv, QueueOK, WaitOK, CurlPerform, callVars, libwwwVars, curlVars,
      Counted, Pending, InCurlWait, TypeOK
<1>4. QED
  BY <1>1, <1>2, <1>3 DEF IInv

(* curl's message queue is empty.                                          *)
LEMMA StepCurlTurn ==
    ASSUME IInv, CurlTurn
    PROVE  IInv'
<1>1. CallsOK' /\ CountExact' /\ Pending' = Pending
  BY QuietCalls DEF CurlTurn, libwwwVars
<1>2. TypeOK'
  BY DEF IInv, TypeOK, CurlTurn, callVars, libwwwVars, curlVars
<1>3. QueueOK' /\ WaitOK'
  BY <1>1
  DEF IInv, QueueOK, WaitOK, CurlTurn, callVars, libwwwVars, curlVars,
      Counted, InCurlWait
<1>4. QED
  BY <1>1, <1>2, <1>3 DEF IInv
-----------------------------------------------------------------------------
(* Steps that change a call.                                               *)

(* Without a running handler no start function waits to release an array. *)
LEMMA NotInKeeps ==
    ASSUME CallsOK, NEW c \in Calls, st[c] \notin {"completing", "erring"}
    PROVE  c \notin keeps
BY DEF CallsOK, KeepsOK

(* A call is left to the transport.                                        *)
LEMMA StepStartAccepted ==
    ASSUME IInv, NEW c \in Calls, NEW a \in AllApis, StartAccepted(c, a)
    PROVE  IInv'
<1>1. TypeOK /\ CallsOK /\ CountExact /\ QueueOK /\ WaitOK
  BY DEF IInv
<1>2. st[c] = "new" /\ st' = [st EXCEPT ![c] = "pending"] /\ c \notin keeps
  BY <1>1, NotInKeeps DEF StartAccepted
<1>3. fault[c] = "none" /\ called[c] = 0
  BY <1>1, <1>2 DEF CallsOK, InfoBalance, HandledOnce
<1>4. /\ Pending' = Pending \cup {c}
      /\ Cardinality(Pending') = Cardinality(Pending) + 1
  BY <1>1, <1>2, PendingAdded
<1>5. TypeOK'
  BY <1>1 DEF TypeOK, StartAccepted, RefsOfPending, curlVars
<1>6. HandledOnce'
  BY <1>1, <1>2, <1>3 DEF TypeOK, CallsOK, HandledOnce, StartAccepted
<1>7. StackOK'
  BY <1>1, <1>2 DEF TypeOK, CallsOK, StackOK, StartAccepted
<1>8. KeepsOK'
  BY <1>1, <1>2 DEF TypeOK, CallsOK, KeepsOK, StartAccepted
<1>9. RefsBalance'
  <2>1. Forgets(a, "none") <=> a = "call_asynch"
    BY DEF Forgets, Built, Formatted
  <2>2. \A d \in Calls : d # c => /\ st'[d] = st[d] /\ refs'[d] = refs[d]
                                  /\ api'[d] = api[d] /\ fault'[d] = fault[d]
    BY <1>1 DEF TypeOK, StartAccepted
  <2>3. /\ refs'[c] = RefsOfPending(a) /\ api'[c] = a /\ fault'[c] = "none"
        /\ st'[c] = "pending"
    BY <1>1, <1>2, <1>3 DEF TypeOK, StartAccepted
  <2>4. keeps' = keeps
    BY DEF StartAccepted
  <2>5. QED
    BY <1>1, <1>2, <2>1, <2>2, <2>3, <2>4
    DEF CallsOK, RefsBalance, One, RefsOfPending, Forgets, Built
<1>10. InfoBalance'
  BY <1>1, <1>2, <1>3 DEF TypeOK, CallsOK, InfoBalance, StartAccepted
<1>11. CountExact'
  BY <1>1, <1>4, PendingFinite DEF CountExact, Counted, StartAccepted, TypeOK
<1>12. QueueOK'
  BY <1>1, <1>4 DEF QueueOK, StartAccepted, curlVars, Counted
<1>13. WaitOK'
  BY <1>1, <1>4 DEF WaitOK, StartAccepted, InProgram, Exists, curlVars, Counted
<1>14. QED
  BY <1>5, <1>6, <1>7, <1>8, <1>9, <1>10, <1>11, <1>12, <1>13 DEF IInv, CallsOK

(* libwww ends a call while it is being started.                           *)
LEMMA StepStartAnsweredAtOnce ==
    ASSUME IInv, NEW c \in Calls, NEW a \in AllApis, StartAnsweredAtOnce(c, a)
    PROVE  IInv'
<1>1. TypeOK /\ CallsOK /\ CountExact /\ QueueOK /\ WaitOK
  BY DEF IInv
<1>2. /\ st[c] = "new" /\ st' = [st EXCEPT ![c] = "completing"]
      /\ c \notin keeps /\ stack' = <<c>> \o stack
  BY <1>1, NotInKeeps DEF StartAnsweredAtOnce
<1>3. fault[c] = "none" /\ called[c] = 0
  BY <1>1, <1>2 DEF CallsOK, InfoBalance, HandledOnce
<1>4. Pending' = Pending
  BY <1>1, <1>2, PendingKept
<1>5. StackOK' /\ stack' \in Seq(Calls)
  <2>1. StackOK
    BY <1>1 DEF CallsOK
  <2>2. QED
    BY <1>1, <1>2, <2>1, PushKeepsStackOK
<1>6. TypeOK'
  BY <1>1, <1>5 DEF TypeOK, StartAnsweredAtOnce, RegisterInVain, curlVars
<1>7. HandledOnce'
  BY <1>1, <1>2, <1>3 DEF TypeOK, CallsOK, HandledOnce, StartAnsweredAtOnce
<1>8. KeepsOK'
  BY <1>1, <1>2 DEF TypeOK, CallsOK, KeepsOK, StartAnsweredAtOnce
<1>9. RefsBalance'
  <2>1. Forgets(a, "none") <=> a = "call_asynch"
    BY DEF Forgets, Built, Formatted
  <2>2. \A d \in Calls : d # c => /\ st'[d] = st[d] /\ refs'[d] = refs[d]
                                  /\ api'[d] = api[d] /\ fault'[d] = fault[d]
                                  /\ d \in keeps' <=> d \in keeps
    BY <1>1 DEF TypeOK, StartAnsweredAtOnce
  <2>3. /\ refs'[c] = (IF a \in Formatted THEN 2 ELSE 1) /\ api'[c] = a
        /\ fault'[c] = "none" /\ st'[c] = "completing"
        /\ c \in keeps' <=> a \in Formatted \ {"call_asynch"}
    BY <1>1, <1>2, <1>3 DEF TypeOK, StartAnsweredAtOnce
  <2>4. QED
    BY <1>1, <1>2, <2>1, <2>2, <2>3
    DEF CallsOK, RefsBalance, One, Formatted
<1>10. InfoBalance'
  BY <1>1, <1>2, <1>3 DEF TypeOK, CallsOK, InfoBalance, StartAnsweredAtOnce
<1>11. CountExact'
  BY <1>1, <1>4 DEF CountExact, Counted, StartAnsweredAtOnce, RegisterInVain
<1>12. QueueOK'
  BY <1>1, <1>4 DEF QueueOK, StartAnsweredAtOnce, curlVars, Counted
<1>13. WaitOK'
  BY <1>1, <1>4, NonePending
  DEF WaitOK, StartAnsweredAtOnce, RegisterInVain, curlVars, Counted
<1>14. QED
  BY <1>5, <1>6, <1>7, <1>8, <1>9, <1>10, <1>11, <1>12, <1>13 DEF IInv, CallsOK

(* A call cannot be started.                                               *)
LEMMA StepStartFails ==
    ASSUME IInv, NEW c \in Calls, NEW a \in AllApis, NEW f \in Faults(a),
           StartFails(c, a, f)
    PROVE  IInv'
<1>1. TypeOK /\ CallsOK /\ CountExact /\ QueueOK /\ WaitOK
  BY DEF IInv
<1>2. st[c] = "new" /\ c \notin keeps
  BY <1>1, NotInKeeps DEF StartFails
<1>3. fault[c] = "none" /\ called[c] = 0 /\ info[c] = "none"
  BY <1>1, <1>2 DEF CallsOK, InfoBalance, HandledOnce
<1>4. f \in {"absent", "build", "junk", "info", "xml", "data", "create", "post"}
  BY DEF Faults
<1> DEFINE v == IF a \in Global THEN "erring" ELSE "refused"
<1>5. st' = [st EXCEPT ![c] = v] /\ v \in {"erring", "refused"}
  BY DEF StartFails
<1>6. /\ a \in Global => stack' = <<c>> \o stack
      /\ a \notin Global => stack' = stack
  BY DEF StartFails
<1>7. called' = IF a \in Global THEN [called EXCEPT ![c] = @ + 1] ELSE called
  BY DEF StartFails
<1>8. Pending' = Pending
  BY <1>1, <1>2, <1>5, PendingKept
<1>9. StackOK' /\ stack' \in Seq(Calls)
  <2>1. StackOK /\ stack \in Seq(Calls)
    BY <1>1 DEF CallsOK, TypeOK
  <2>2. CASE a \in Global
    <3>1. st' = [st EXCEPT ![c] = "erring"] /\ stack' = <<c>> \o stack
      BY <1>5, <1>6, <2>2
    <3>2. QED
      BY <1>1, <1>2, <2>1, <3>1, PushKeepsStackOK
  <2>3. CASE a \notin Global
    BY <1>1, <1>2, <1>5, <1>6, <2>1, <2>3 DEF StackOK, TypeOK
  <2>4. QED
    BY <2>2, <2>3
<1>10. KeepsOK'
  <2>1. KeepsDuringReport(a, f) => a = "call_server_asynch"
    BY DEF KeepsDuringReport
  <2>2. "call_server_asynch" \in Global
    BY DEF Global
  <2>3. api' = [api EXCEPT ![c] = a]
    BY DEF StartFails
  <2>4. keeps' = IF KeepsDuringReport(a, f) THEN keeps \cup {c} ELSE keeps
    BY DEF StartFails
  <2>5. QED
    BY <1>1, <1>2, <1>5, <2>1, <2>2, <2>3, <2>4 DEF TypeOK, CallsOK, KeepsOK
<1>11. \A d \in Calls : d # c => /\ st'[d] = st[d] /\ refs'[d] = refs[d]
                                 /\ api'[d] = api[d] /\ fault'[d] = fault[d]
                                 /\ info'[d] = info[d]
                                 /\ d \in keeps' <=> d \in keeps
  BY <1>1 DEF TypeOK, StartFails
<1>12. /\ st'[c] = v /\ api'[c] = a /\ fault'[c] = f /\ info'[c] = InfoAfter(f)
       /\ c \in keeps' <=> KeepsDuringReport(a, f)
       /\ refs'[c] = IF KeepsDuringReport(a, f) \/ Forgets(a, f) THEN 1 ELSE 0
  BY <1>1, <1>2 DEF TypeOK, StartFails
<1>13. RefsBalance'
  <2>1. ~(KeepsDuringReport(a, f) /\ Forgets(a, f))
    BY DEF KeepsDuringReport, Forgets
  <2>2. v \notin {"pending", "completing"}
    OBVIOUS
  <2> HIDE DEF v
  <2>3. ASSUME NEW d \in Calls, d # c
        PROVE  refs'[d] = One(st'[d] \in {"pending", "completing"})
                   + One(d \in keeps') + One(Forgets(api'[d], fault'[d]))
    BY <1>1, <1>11, <2>3 DEF CallsOK, RefsBalance, One
  <2>4. refs'[c] = One(st'[c] \in {"pending", "completing"})
                   + One(c \in keeps') + One(Forgets(api'[c], fault'[c]))
    BY <1>12, <2>1, <2>2 DEF One
  <2>5. QED
    BY <2>3, <2>4 DEF RefsBalance, Forgets, Built
<1>14. InfoBalance'
  <2>1. v \in {"erring", "refused"} /\ f # "none"
    BY <1>4
  <2> HIDE DEF v
  <2>2. QED
    BY <1>1, <1>11, <1>12, <2>1 DEF CallsOK, InfoBalance
<1>15. HandledOnce'
  BY <1>1, <1>2, <1>3, <1>5, <1>7 DEF TypeOK, CallsOK, HandledOnce
<1>16. TypeOK'
  <2>1. InfoAfter(f) \in {"none", "live", "freed"}
    BY DEF InfoAfter
  <2>2. st' \in [Calls -> {"new", "pending", "completing", "erring", "done",
                           "refused"}] /\ called' \in [Calls -> Nat]
    BY <1>1, <1>5, <1>7 DEF TypeOK
  <2>3. /\ api' \in [Calls -> AllApis \cup {"none"}]
        /\ fault' \in [Calls -> {"none", "absent", "build", "junk", "info",
                                 "xml", "data", "create", "post"}]
        /\ info' \in [Calls -> {"none", "live", "freed"}]
        /\ refs' \in [Calls -> 0..2]
        /\ keeps' \subseteq Calls
    BY <1>1, <1>4, <2>1 DEF TypeOK, StartFails
  <2>4. outstanding' \in Nat /\ stop' \in BOOLEAN
    BY <1>1 DEF TypeOK, StartFails, RegisterInVain
  <2>5. QED
    BY <1>1, <1>9, <2>2, <2>3, <2>4 DEF TypeOK, StartFails, curlVars
<1>17. CountExact'
  BY <1>1, <1>8 DEF CountExact, Counted, StartFails, RegisterInVain
<1>18. QueueOK'
  BY <1>1, <1>8 DEF QueueOK, StartFails, curlVars, Counted
<1>19. WaitOK'
  BY <1>1, <1>8, NonePending
  DEF WaitOK, StartFails, RegisterInVain, curlVars, Counted
<1>20. QED
  BY <1>9, <1>10, <1>13, <1>14, <1>15, <1>16, <1>17, <1>18, <1>19
  DEF IInv, CallsOK

(* A handler returns.                                                      *)
LEMMA StepHandlerReturns == ASSUME IInv, HandlerReturns PROVE IInv'
<1>1. TypeOK /\ CallsOK /\ CountExact /\ QueueOK /\ WaitOK
  BY DEF IInv
<1> DEFINE c == Head(stack)
           done == st[c] = "completing"
<1>2. /\ c \in Calls /\ c = stack[1] /\ 1 \in 1..Len(stack)
      /\ stack # <<>> /\ stack' = Tail(stack)
  BY <1>1 DEF TypeOK, HandlerReturns
<1>3. st[c] \in {"completing", "erring"}
  BY <1>1, <1>2 DEF CallsOK, StackOK
<1>4. StackOK' /\ stack' \in Seq(Calls)
  <2>1. st' = [st EXCEPT ![Head(stack)] = "done"]
    BY DEF HandlerReturns
  <2>2. StackOK
    BY <1>1 DEF CallsOK
  <2>3. QED
    BY <1>1, <1>2, <2>1, <2>2, PopKeepsStackOK
<1>5. /\ st' = [st EXCEPT ![c] = "done"]
      /\ info' = IF done THEN [info EXCEPT ![c] = "freed"] ELSE info
      /\ refs' = [refs EXCEPT ![c] = @ - (IF done THEN 1 ELSE 0)
                                       - (IF c \in keeps THEN 1 ELSE 0)]
      /\ keeps' = keeps \ {c}
      /\ UNCHANGED <<transport, where, api, fault, called, nested,
                     libwwwVars, curlVars>>
  BY DEF HandlerReturns
<1> HIDE DEF c, done
<1>6. done <=> st[c] = "completing"
  BY DEF done
<1>7. Pending' = Pending
  BY <1>1, <1>2, <1>3, <1>5, PendingKept
<1>8. KeepsOK'
  BY <1>1, <1>2, <1>5 DEF TypeOK, CallsOK, KeepsOK
<1>9. \A d \in Calls : d # c => /\ st'[d] = st[d] /\ refs'[d] = refs[d]
                                /\ info'[d] = info[d]
                                /\ d \in keeps' <=> d \in keeps
  BY <1>1, <1>2, <1>5 DEF TypeOK
<1>10. /\ st'[c] = "done" /\ c \notin keeps'
       /\ info'[c] = IF done THEN "freed" ELSE info[c]
       /\ refs'[c] = refs[c] - (IF done THEN 1 ELSE 0)
                             - (IF c \in keeps THEN 1 ELSE 0)
  BY <1>1, <1>2, <1>5 DEF TypeOK
<1>11. refs'[c] = One(Forgets(api[c], fault[c]))
  <2>1. refs[c] = One(st[c] \in {"pending", "completing"}) + One(c \in keeps)
                    + One(Forgets(api[c], fault[c]))
    BY <1>1, <1>2 DEF CallsOK, RefsBalance
  <2>2. QED
    BY <1>3, <1>6, <1>10, <2>1 DEF One
<1>12. RefsBalance'
  <2>1. ASSUME NEW d \in Calls, d # c
        PROVE  refs'[d] = One(st'[d] \in {"pending", "completing"})
                   + One(d \in keeps') + One(Forgets(api'[d], fault'[d]))
    BY <1>1, <1>5, <1>9, <2>1 DEF CallsOK, RefsBalance, One
  <2>2. refs'[c] = One(st'[c] \in {"pending", "completing"})
                   + One(c \in keeps') + One(Forgets(api'[c], fault'[c]))
    BY <1>5, <1>10, <1>11 DEF One
  <2>3. QED
    BY <2>1, <2>2 DEF RefsBalance, Forgets, Built
<1>13. InfoBalance'
  BY <1>1, <1>2, <1>3, <1>5, <1>6, <1>9, <1>10 DEF CallsOK, InfoBalance
<1>14. HandledOnce'
  BY <1>1, <1>2, <1>3, <1>5, <1>9, <1>10 DEF TypeOK, CallsOK, HandledOnce
<1>15. TypeOK'
  <2>1. refs' \in [Calls -> 0..2]
    BY <1>1, <1>2, <1>5, <1>11 DEF TypeOK, One
  <2>2. QED
    BY <1>1, <1>2, <1>4, <1>5, <2>1 DEF TypeOK, libwwwVars, curlVars
<1>16. CountExact' /\ QueueOK' /\ WaitOK'
  BY <1>1, <1>5, <1>7
  DEF CountExact, QueueOK, WaitOK, Counted, libwwwVars, curlVars
<1>17. QED
  BY <1>4, <1>8, <1>12, <1>13, <1>14, <1>15, <1>16 DEF IInv, CallsOK

(* A call under way ends: the part of RequestEnds and CurlMessage that is  *)

(* the library's, not the transport's.                                     *)
LEMMA CompleteCalls ==
    ASSUME TypeOK, CallsOK, NEW c \in Calls, st[c] = "pending", Complete(c)
    PROVE  /\ CallsOK' /\ stack' \in Seq(Calls)
           /\ st' \in [Calls -> {"new", "pending", "completing", "erring",
                                 "done", "refused"}]
           /\ called' \in [Calls -> Nat]
<1>1. /\ st' = [st EXCEPT ![c] = "completing"] /\ stack' = <<c>> \o stack
      /\ called' = [called EXCEPT ![c] = @ + 1]
      /\ UNCHANGED <<api, fault, info, refs, keeps>>
  BY DEF Complete
<1>2. c \notin keeps
  BY NotInKeeps
<1>3. StackOK' /\ stack' \in Seq(Calls)
  <2>1. StackOK
    BY DEF CallsOK
  <2>2. QED
    BY <1>1, <2>1, PushKeepsStackOK
<1>4. KeepsOK'
  BY <1>1, <1>2 DEF TypeOK, CallsOK, KeepsOK
<1>5. RefsBalance'
  BY <1>1 DEF TypeOK, CallsOK, RefsBalance, One, Forgets, Built
<1>6. InfoBalance' /\ HandledOnce'
  BY <1>1 DEF TypeOK, CallsOK, InfoBalance, HandledOnce
<1>7. QED
  BY <1>1, <1>3, <1>4, <1>5, <1>6 DEF CallsOK, TypeOK

(* libwww ends a call.                                                     *)
LEMMA StepRequestEnds ==
    ASSUME IInv, NEW c \in Calls, RequestEnds(c)
    PROVE  IInv'
<1>1. TypeOK /\ CallsOK /\ CountExact /\ QueueOK /\ WaitOK
  BY DEF IInv
<1>2. st[c] = "pending" /\ Complete(c) /\ Unregister /\ Counted
  BY DEF RequestEnds
<1>3. /\ CallsOK' /\ stack' \in Seq(Calls)
      /\ st' \in [Calls -> {"new", "pending", "completing", "erring",
                            "done", "refused"}]
      /\ called' \in [Calls -> Nat]
  BY <1>1, <1>2, CompleteCalls
<1>4. /\ Pending' = Pending \ {c}
      /\ Cardinality(Pending') = Cardinality(Pending) - 1
      /\ Cardinality(Pending) >= 1
      /\ Cardinality(Pending) = 1 => Pending' = {}
  <2>1. st' = [st EXCEPT ![c] = "completing"] /\ "completing" # "pending"
    BY <1>2 DEF Complete
  <2>2. QED
    BY <1>1, <1>2, <2>1, PendingRemoved
<1>5. outstanding = Cardinality(Pending) /\ Cardinality(Pending) \in Nat
  BY <1>1, <1>2, PendingFinite DEF CountExact
<1>6. TypeOK'
  BY <1>1, <1>2, <1>3, <1>4, <1>5
  DEF TypeOK, RequestEnds, Complete, Unregister, curlVars
<1>7. CountExact'
  BY <1>2, <1>4, <1>5 DEF CountExact, Counted, RequestEnds, Unregister
<1>8. QueueOK'
  BY <1>1, <1>2 DEF QueueOK, RequestEnds, Counted, curlVars
<1>9. WaitOK'
  BY <1>1, <1>2, <1>4, <1>5
  DEF WaitOK, RequestEnds, Unregister, Counted, curlVars
<1>10. QED
  BY <1>3, <1>6, <1>7, <1>8, <1>9 DEF IInv

(* The curl transport ends a call.                                         *)
LEMMA StepCurlMessage ==
    ASSUME IInv, NEW c \in Calls, CurlMessage(c)
    PROVE  IInv'
<1>1. TypeOK /\ CallsOK /\ CountExact /\ QueueOK /\ WaitOK
  BY DEF IInv
<1>2. st[c] = "pending" /\ Complete(c)
  BY <1>1 DEF CurlMessage, QueueOK, Pending
<1>3. /\ CallsOK' /\ stack' \in Seq(Calls)
      /\ st' \in [Calls -> {"new", "pending", "completing", "erring",
                            "done", "refused"}]
      /\ called' \in [Calls -> Nat]
  BY <1>1, <1>2, CompleteCalls
<1>4. Pending' = Pending \ {c}
  <2>1. st' = [st EXCEPT ![c] = "completing"] /\ "completing" # "pending"
    BY <1>2 DEF Complete
  <2>2. QED
    BY <1>1, <1>2, <2>1, PendingRemoved
<1>5. TypeOK'
  BY <1>1, <1>2, <1>3 DEF TypeOK, CurlMessage, Complete, libwwwVars
<1>6. CountExact' /\ QueueOK'
  BY <1>1, <1>4 DEF CountExact, QueueOK, Counted, CurlMessage, InCurlWait,
                    libwwwVars
<1>7. WaitOK'
  BY <1>1, <1>4 DEF WaitOK, CurlMessage, Counted, InCurlWait, libwwwVars
<1>8. QED
  BY <1>3, <1>5, <1>6, <1>7 DEF IInv

-----------------------------------------------------------------------------
(* The invariant.                                                          *)

(* The invariant holds at the start ...                                    *)
LEMMA InitInv == Init => IInv
<1> SUFFICES ASSUME Init PROVE IInv
  OBVIOUS
<1>1. TypeOK
  <2>1. transport \in {"libwww", "curl"}
    BY TransportsKnown DEF Init
  <2>2. stack \in Seq(Calls)
    BY DEF Init
  <2>3. refs \in [Calls -> 0..2] /\ called \in [Calls -> Nat]
    BY DEF Init
  <2>4. /\ api \in [Calls -> AllApis \cup {"none"}]
        /\ fault \in [Calls -> {"none", "absent", "build", "junk", "info",
                                "xml", "data", "create", "post"}]
        /\ st \in [Calls -> {"new", "pending", "completing", "erring", "done",
                             "refused"}]
        /\ info \in [Calls -> {"none", "live", "freed"}]
    BY DEF Init
  <2>5. /\ where \in {"absent", "app", "finish", "timed", "sync"}
        /\ keeps \subseteq Calls /\ nested \subseteq Calls
        /\ outstanding \in Nat /\ stop \in BOOLEAN /\ syncDone \in BOOLEAN
        /\ phase \in {"work", "messages"} /\ finished \subseteq Calls
        /\ running \in BOOLEAN /\ failed \in BOOLEAN
    BY DEF Init
  <2>6. QED
    BY <2>1, <2>2, <2>3, <2>4, <2>5 DEF TypeOK
<1>2. CallsOK
  BY DEF Init, CallsOK, HandledOnce, StackOK, KeepsOK, RefsBalance,
         InfoBalance, One, Forgets
<1>3. Pending = {}
  BY DEF Init, Pending
<1>4. CountExact
  BY <1>3, FS_EmptySet DEF Init, CountExact
<1>5. QueueOK /\ WaitOK
  BY <1>3 DEF Init, QueueOK, WaitOK
<1>6. QED
  BY <1>1, <1>2, <1>4, <1>5 DEF IInv

(* ... and every step keeps it ...                                         *)
LEMMA NextInv == IInv /\ [Next]_vars => IInv'
<1> SUFFICES ASSUME IInv, [Next]_vars PROVE IInv'
  OBVIOUS
<1>1. CASE Create
  BY <1>1, StepCreate
<1>2. CASE Destroy
  BY <1>2, StepDestroy
<1>3. ASSUME NEW c \in Calls, NEW a \in Apis[c], Start(c, a)
      PROVE  IInv'
  <2>1. a \in AllApis
    BY ApisKnown
  <2>2. CASE StartAccepted(c, a)
    BY <2>1, <2>2, StepStartAccepted
  <2>3. CASE StartAnsweredAtOnce(c, a)
    BY <2>1, <2>3, StepStartAnsweredAtOnce
  <2>4. ASSUME NEW f \in Faults(a), StartFails(c, a, f)
        PROVE  IInv'
    BY <2>1, <2>4, StepStartFails
  <2>5. QED
    BY <1>3, <2>2, <2>3, <2>4 DEF Start
<1>4. CASE HandlerReturns
  BY <1>4, StepHandlerReturns
<1>5. ASSUME NEW w \in {"finish", "timed"}, StartWait(w)
      PROVE  IInv'
  BY <1>5, StepStartWait
<1>6. CASE StartSync
  BY <1>6, StepStartSync
<1>7. CASE Library
  <2>1. ASSUME NEW c \in Calls, RequestEnds(c) \/ CurlMessage(c)
        PROVE  IInv'
    BY <2>1, StepRequestEnds, StepCurlMessage
  <2>2. CASE LoopEnds \/ SyncEnds \/ SyncLoopEnds
    BY <2>2, StepLoopEnds, StepSyncEnds, StepSyncLoopEnds
  <2>3. CASE CurlGivesUp \/ CurlTurn \/ TimerFires
    BY <2>3, StepCurlGivesUp, StepCurlTurn, StepTimerFires
  <2>4. ASSUME NEW over \in SUBSET (Pending \ finished), CurlPerform(over)
        PROVE  IInv'
    BY <2>4, StepCurlPerform
  <2>5. QED
    BY <1>7, <2>1, <2>2, <2>3, <2>4 DEF Library
<1>8. CASE UNCHANGED vars
  <2>1. CallsOK' /\ CountExact' /\ Pending' = Pending
    BY <1>8, QuietCalls DEF vars, libwwwVars
  <2>2. QED
    BY <1>8, <2>1
    DEF IInv, TypeOK, QueueOK, WaitOK, Counted, vars, callVars, libwwwVars,
        curlVars
<1>9. QED
  BY <1>1, <1>2, <1>3, <1>4, <1>5, <1>6, <1>7, <1>8 DEF Next

(* ... so it always holds.                                                 *)
THEOREM Invariance == Spec => []IInv
BY InitInv, NextInv, PTL DEF Spec
-----------------------------------------------------------------------------
(* TypeOK holds in every reachable state.                                  *)
THEOREM TypeCorrect == Spec => []TypeOK
BY Invariance, PTL DEF IInv

(* No response handler is ever called twice, or for a refused call, or     *)
(* left uncalled when its call has ended: whatever the calls, interfaces   *)
(* and handlers that start more calls.                                     *)
THEOREM HandlersCalledOnce == Spec => []HandledOnce
<1>1. IInv => HandledOnce
  BY DEF IInv, CallsOK
<1>2. QED
  BY <1>1, Invariance, PTL

(* libwww's counter is the number of calls under way in every state.       *)
THEOREM OutstandingExact == Spec => []CountExact
<1>1. IInv => CountExact
  BY DEF IInv
<1>2. QED
  BY <1>1, Invariance, PTL

(* A call under way, or being answered, has its record and its parameters. *)
THEOREM ParamsStayAlive == Spec => []ParamsAlive
<1>1. IInv => ParamsAlive
  <2> SUFFICES ASSUME IInv, NEW c \in Calls, st[c] \in {"pending", "completing"}
               PROVE  info[c] = "live" /\ refs[c] >= 1
    BY DEF ParamsAlive
  <2>1. info[c] = "live"
    BY DEF IInv, CallsOK, InfoBalance
  <2>2. refs[c] >= 1
    BY DEF IInv, CallsOK, RefsBalance, One
  <2>3. QED
    BY <2>1, <2>2
<1>2. QED
  BY <1>1, Invariance, PTL

(* What calls that are over leave behind is what LeaksExplained says.      *)
THEOREM OnlyExplainedLeaks == Spec => []LeaksExplained
<1>1. IInv => LeaksExplained
  <2> SUFFICES ASSUME IInv, NEW c \in Calls, st[c] \in {"done", "refused"}
               PROVE  /\ info[c] = "live" <=> fault[c] = "xml"
                      /\ refs[c] = IF Forgets(api[c], fault[c]) THEN 1 ELSE 0
    BY DEF LeaksExplained
  <2>1. c \notin keeps
    BY DEF IInv, CallsOK, KeepsOK
  <2>2. refs[c] = IF Forgets(api[c], fault[c]) THEN 1 ELSE 0
    BY <2>1 DEF IInv, CallsOK, RefsBalance, One
  <2>3. CASE fault[c] = "none"
    BY <2>2, <2>3 DEF IInv, CallsOK, InfoBalance
  <2>4. CASE fault[c] # "none"
    <3>1. info[c] = InfoAfter(fault[c])
      BY <2>4 DEF IInv, CallsOK, InfoBalance
    <3>2. InfoAfter(fault[c]) = "live" <=> fault[c] = "xml"
      BY <2>4 DEF IInv, TypeOK, InfoAfter
    <3>3. QED
      BY <2>2, <3>1, <3>2
  <2>5. QED
    BY <2>3, <2>4
<1>2. QED
  BY <1>1, Invariance, PTL
-----------------------------------------------------------------------------
(* Refinement: what the program sees of the library is AsyncCalls.         *)

(* The open calls of AsyncCalls are those under way.                       *)
LEMMA AbstractOpen == AsyncSpec!Open = Pending
BY DEF AsyncSpec!Open, Pending, AbstractStatus

(* How a change of a call looks from outside.                              *)
LEMMA StatusOf ==
    ASSUME NEW c \in Calls, NEW v, TypeOK, st' = [st EXCEPT ![c] = v],
           v \in {"new", "pending", "completing", "erring", "done", "refused"}
    PROVE  AbstractStatus' = [AbstractStatus EXCEPT ![c] =
               CASE v = "new" -> "new"
                 [] v = "pending" -> "open"
                 [] v = "refused" -> "refused"
                 [] OTHER -> "answered"]
<1> DEFINE w == CASE v = "new" -> "new"
                  [] v = "pending" -> "open"
                  [] v = "refused" -> "refused"
                  [] OTHER -> "answered"
<1>1. AbstractStatus' \in [Calls -> {"new", "open", "refused", "answered"}]
      /\ DOMAIN [AbstractStatus EXCEPT ![c] = w] = Calls
  BY DEF AbstractStatus
<1>2. \A d \in Calls : AbstractStatus'[d] =
          IF d = c THEN w ELSE AbstractStatus[d]
  BY DEF AbstractStatus, TypeOK
<1>3. \A d \in Calls : [AbstractStatus EXCEPT ![c] = w][d] =
          IF d = c THEN w ELSE AbstractStatus[d]
  BY DEF AbstractStatus
<1>4. QED
  BY <1>1, <1>2, <1>3 DEF AbstractStatus

(* A call of the handler answers the call.                                 *)
LEMMA AnswerStep ==
    ASSUME TypeOK, NEW c \in Calls, st[c] \in {"new", "pending"},
           NEW v \in {"completing", "erring"}, st' = [st EXCEPT ![c] = v],
           UNCHANGED <<where, nested, failed>>
    PROVE  AsyncSpec!Answer(c)
<1>1. AbstractStatus' = [AbstractStatus EXCEPT ![c] = "answered"]
  BY StatusOf
<1>2. AbstractStatus[c] \in {"new", "open"}
  BY DEF AbstractStatus
<1>3. QED
  BY <1>1, <1>2 DEF AsyncSpec!Answer

(* Starting a call, seen from outside.                                     *)
LEMMA RefineStart ==
    ASSUME IInv, NEW c \in Calls, NEW a \in AllApis, Start(c, a)
    PROVE  AsyncSpec!Next
<1>1. TypeOK
  BY DEF IInv
<1>2. CASE StartAccepted(c, a)
  <2>1. st[c] = "new" /\ st' = [st EXCEPT ![c] = "pending"]
    BY <1>2 DEF StartAccepted
  <2>2. AbstractStatus' = [AbstractStatus EXCEPT ![c] = "open"]
    BY <1>1, <2>1, StatusOf
  <2>3. AbstractStatus[c] = "new"
    BY <2>1 DEF AbstractStatus
  <2>4. AsyncSpec!Start(c, stack # <<>>)
    BY <1>2, <2>2, <2>3 DEF AsyncSpec!Start, StartAccepted, curlVars
  <2>5. (stack # <<>>) \in BOOLEAN
    OBVIOUS
  <2>6. QED
    BY <2>4, <2>5 DEF AsyncSpec!Next
<1>3. CASE StartAnsweredAtOnce(c, a)
  <2>1. AsyncSpec!Answer(c)
    BY <1>1, <1>3, AnswerStep DEF StartAnsweredAtOnce, curlVars
  <2>2. QED
    BY <2>1 DEF AsyncSpec!Next
<1>4. ASSUME NEW f \in Faults(a), StartFails(c, a, f)
      PROVE  AsyncSpec!Next
  <2>1. st[c] = "new" /\ UNCHANGED <<where, nested, failed>>
    BY <1>4 DEF StartFails, curlVars
  <2>2. CASE a \in Global
    <3>1. st' = [st EXCEPT ![c] = "erring"]
      BY <1>4, <2>2 DEF StartFails
    <3>2. AsyncSpec!Answer(c)
      BY <1>1, <2>1, <3>1, AnswerStep
    <3>3. QED
      BY <3>2 DEF AsyncSpec!Next
  <2>3. CASE a \notin Global
    <3>1. st' = [st EXCEPT ![c] = "refused"]
      BY <1>4, <2>3 DEF StartFails
    <3>2. AbstractStatus' = [AbstractStatus EXCEPT ![c] = "refused"]
      BY <1>1, <3>1, StatusOf
    <3>3. AbstractStatus[c] = "new"
      BY <2>1 DEF AbstractStatus
    <3>4. AsyncSpec!Refuse(c)
      BY <2>1, <3>2, <3>3 DEF AsyncSpec!Refuse
    <3>5. QED
      BY <3>4 DEF AsyncSpec!Next
  <2>4. QED
    BY <2>2, <2>3
<1>5. QED
  BY <1>2, <1>3, <1>4 DEF Start

(* A step that changes no call changes no status.                          *)
LEMMA StatusKept == UNCHANGED st => UNCHANGED AbstractStatus
BY DEF AbstractStatus

(* The library's own steps, seen from outside.                             *)
LEMMA RefineLibrary ==
    ASSUME IInv, Library
    PROVE  AsyncSpec!Next \/ UNCHANGED AsyncSpec!vars
<1>1. TypeOK /\ QueueOK /\ WaitOK
  BY DEF IInv
<1>2. ASSUME NEW c \in Calls, RequestEnds(c) \/ CurlMessage(c)
      PROVE  AsyncSpec!Next
  <2>1. st[c] = "pending" /\ Complete(c) /\ UNCHANGED <<where, nested, failed>>
    BY <1>1, <1>2 DEF RequestEnds, CurlMessage, QueueOK, Pending, curlVars
  <2>2. st' = [st EXCEPT ![c] = "completing"]
    BY <2>1 DEF Complete
  <2>3. AsyncSpec!Answer(c)
    BY <1>1, <2>1, <2>2, AnswerStep
  <2>4. QED
    BY <2>3 DEF AsyncSpec!Next
<1>3. ASSUME where = "finish", where' = "app", UNCHANGED <<st, nested, failed>>,
             Pending \subseteq nested
      PROVE  AsyncSpec!Next
  <2>1. AsyncSpec!Return
    BY <1>3, AbstractOpen, StatusKept DEF AsyncSpec!Return
  <2>2. QED
    BY <2>1 DEF AsyncSpec!Next
<1>4. ASSUME UNCHANGED <<st, nested, failed>>,
             \/ where # "finish" /\ where' # "finish"
             \/ UNCHANGED where
      PROVE  UNCHANGED AsyncSpec!vars
  BY <1>4, StatusKept DEF AsyncSpec!vars
<1>5. CASE LoopEnds
  <2>1. UNCHANGED <<st, nested, failed>> /\ where' = "app"
    BY <1>5 DEF LoopEnds, callVars, curlVars
  <2>2. where = "finish" => Pending \subseteq nested
    BY <1>1, <1>5 DEF LoopEnds, WaitOK
  <2>3. QED
    BY <1>3, <1>4, <2>1, <2>2
<1>6. CASE SyncEnds \/ SyncLoopEnds \/ TimerFires
  <2>1. /\ UNCHANGED <<st, nested, failed>>
        /\ where # "finish" /\ where' # "finish"
    BY <1>6 DEF SyncEnds, SyncLoopEnds, TimerFires, callVars, curlVars
  <2>2. QED
    BY <1>4, <2>1
<1>7. CASE CurlGivesUp
  <2>1. where' = "app" /\ failed' = TRUE /\ UNCHANGED <<st, nested>>
    BY <1>7 DEF CurlGivesUp, callVars
  <2>2. AsyncSpec!GiveUp
    BY <2>1, StatusKept DEF AsyncSpec!GiveUp
  <2>3. QED
    BY <2>2 DEF AsyncSpec!Next
<1>8. ASSUME NEW over \in SUBSET (Pending \ finished), CurlPerform(over)
      PROVE  UNCHANGED AsyncSpec!vars
  BY <1>4, <1>8 DEF CurlPerform, callVars
<1>9. CASE CurlTurn
  <2>1. UNCHANGED <<st, nested, failed>>
    BY <1>9 DEF CurlTurn, callVars
  <2>2. CASE UNCHANGED where
    BY <1>4, <2>1, <2>2
  <2>3. CASE where' = "app" /\ where = "timed"
    BY <1>4, <2>1, <2>3
  <2>4. CASE where' = "app" /\ where = "finish"
    <3>1. phase = "messages" /\ ~running /\ finished = {}
      BY <1>9, <2>4 DEF CurlTurn
    <3>2. Pending \subseteq nested
      BY <1>1, <2>4, <3>1 DEF WaitOK
    <3>3. QED
      BY <1>3, <2>1, <2>4, <3>2
  <2>5. QED
    BY <1>9, <2>2, <2>3, <2>4 DEF CurlTurn, InCurlWait
<1>10. QED
  BY <1>2, <1>5, <1>6, <1>7, <1>8, <1>9 DEF Library

(* Every step, seen from outside.                                          *)
LEMMA RefineNext ==
    IInv /\ [Next]_vars => AsyncSpec!Next \/ UNCHANGED AsyncSpec!vars
<1> SUFFICES ASSUME IInv, [Next]_vars
             PROVE  AsyncSpec!Next \/ UNCHANGED AsyncSpec!vars
  OBVIOUS
<1>1. CASE Create \/ Destroy \/ UNCHANGED vars
  <2>1. /\ UNCHANGED <<st, nested, failed>>
        /\ where = "finish" <=> where' = "finish"
    BY <1>1 DEF Create, Destroy, Idle, vars, callVars, curlVars
  <2>2. QED
    BY <2>1, StatusKept DEF AsyncSpec!vars
<1>2. ASSUME NEW c \in Calls, NEW a \in Apis[c], Start(c, a)
      PROVE  AsyncSpec!Next
  BY <1>2, ApisKnown, RefineStart
<1>3. CASE HandlerReturns
  <2>1. /\ Head(stack) \in Calls
        /\ st[Head(stack)] \in {"completing", "erring"}
        /\ st' = [st EXCEPT ![Head(stack)] = "done"]
        /\ UNCHANGED <<where, nested, failed>>
    BY <1>3 DEF HandlerReturns, IInv, TypeOK, CallsOK, StackOK, curlVars
  <2>2. UNCHANGED AbstractStatus
    BY <2>1 DEF IInv, TypeOK, AbstractStatus
  <2>3. QED
    BY <2>1, <2>2 DEF AsyncSpec!vars
<1>4. ASSUME NEW w \in {"finish", "timed"}, StartWait(w)
      PROVE  AsyncSpec!Next
  <2>1. /\ where = "app" /\ where' = w /\ nested' = {} /\ failed' = FALSE
        /\ UNCHANGED st
    BY <1>4 DEF StartWait, Idle, callVars
  <2>2. CASE w = "finish"
    BY <2>1, <2>2, StatusKept DEF AsyncSpec!Next, AsyncSpec!Wait
  <2>3. CASE w = "timed"
    BY <2>1, <2>3, StatusKept DEF AsyncSpec!Next, AsyncSpec!Forget
  <2>4. QED
    BY <2>2, <2>3
<1>5. CASE StartSync
  <2>1. /\ where = "app" /\ where' = "sync" /\ nested' = {} /\ failed' = FALSE
        /\ UNCHANGED st
    BY <1>5 DEF StartSync, Idle, callVars
  <2>2. QED
    BY <2>1, StatusKept DEF AsyncSpec!Next, AsyncSpec!Forget
<1>6. CASE Library
  BY <1>6, RefineLibrary
<1>7. QED
  BY <1>1, <1>2, <1>3, <1>4, <1>5, <1>6 DEF Next

(* The library implements AsyncCalls: no call is answered twice, and a     *)
(* wait without a time limit ends only when no call is open but those that *)
(* handlers have started since it began, or because the transport gave up. *)
THEOREM Refinement == Spec => ImplementsCalls
<1>1. Init => AsyncSpec!Init
  BY DEF Init, AsyncSpec!Init, AbstractStatus
<1>2. QED
  BY <1>1, RefineNext, Invariance, PTL DEF Spec, AsyncSpec!Spec, ImplementsCalls
=============================================================================
