------------------------ MODULE BootstrapToken_proofs ------------------------
(***************************************************************************)
(* Proofs about BootstrapToken, for any number of callers and tokens and   *)
(* any timing that satisfies TokenAssumption.                              *)
(***************************************************************************)
EXTENDS BootstrapToken, TLAPS

(* A cached token that still lives is on the API server.                   *)
CacheTrails == \A t \in cache \ Malformed : life[t] > 0 => t \in server

(* A token being stored has lost no more life than the request took, and   *)
(* one handed out has more left than what remains of the join window.      *)
LifeAccounted ==
    \A p \in Callers :
      /\ call[p].step = "creating" =>
           /\ call[p].token \in Tokens \ Malformed
           /\ call[p].age <= StoreTime
           /\ life[call[p].token] + call[p].age >= TTL
      /\ call[p].step = "handed" =>
           /\ call[p].token \in server \ Malformed
           /\ call[p].age <= JoinWindow
           /\ life[call[p].token] + call[p].age > JoinWindow

IInv == TypeOK /\ CacheTrails /\ LifeAccounted

LEMMA Initial == Init => IInv
  BY TokenAssumption DEF Init, IInv, TypeOK, CacheTrails, LifeAccounted, Idle, Call

LEMMA HandsOutUsable ==
    ASSUME IInv, NEW p \in Callers, NEW t \in Usable, HandOut(p, t),
           UNCHANGED <<life, server, cache>>
    PROVE  IInv'
<1>1. /\ t \in cache \ Malformed /\ t \in Tokens /\ life[t] \in Nat /\ life[t] > Refresh
      /\ Refresh \in Nat /\ JoinWindow \in Nat /\ JoinWindow <= Refresh
  BY TokenAssumption DEF Usable, IInv, TypeOK
<1>2. t \in server /\ life[t] > JoinWindow
  BY <1>1 DEF IInv, CacheTrails
<1>3. TypeOK'
  BY <1>1 DEF IInv, TypeOK, HandOut, Call
<1>4. LifeAccounted'
  BY <1>1, <1>2 DEF IInv, TypeOK, HandOut, LifeAccounted
<1> QED BY <1>3, <1>4 DEF IInv, CacheTrails

LEMMA Step == IInv /\ [Next]_vars => IInv'
<1> SUFFICES ASSUME IInv, [Next]_vars PROVE IInv'
  OBVIOUS
<1> USE TokenAssumption
<1>0. CASE UNCHANGED vars
  BY <1>0 DEF IInv, TypeOK, CacheTrails, LifeAccounted, vars
<1>1. CASE Tick
  <2>1. TypeOK'
    BY <1>1 DEF IInv, TypeOK, Tick, Timed, Call
  <2>2. CacheTrails'
    BY <1>1 DEF IInv, TypeOK, CacheTrails, Tick
  <2>3. ASSUME NEW p \in Callers, Timed(p)
        PROVE  /\ call'[p].step = call[p].step /\ call'[p].token = call[p].token
               /\ call'[p].age = call[p].age + 1
    BY <1>1, <2>3 DEF IInv, TypeOK, Tick, Call
  <2>4. ASSUME NEW p \in Callers, call'[p].step \in {"creating", "handed"}
        PROVE  Timed(p)
    BY <1>1, <2>4 DEF IInv, TypeOK, Tick, Timed, Call
  <2>5. \A t \in Tokens \ Malformed : life[t] > 0 => life'[t] = life[t] - 1
    BY <1>1 DEF IInv, TypeOK, Tick
  <2>6. ASSUME NEW p \in Callers, call'[p].step = "creating"
        PROVE  /\ call'[p].token \in Tokens \ Malformed
               /\ call'[p].age <= StoreTime
               /\ life'[call'[p].token] + call'[p].age >= TTL
    <3>1. Timed(p) /\ call[p].step = "creating"
      BY <2>3, <2>4, <2>6
    <3>2. /\ call[p].token \in Tokens \ Malformed /\ call[p].age \in Nat
          /\ call[p].age < StoreTime /\ life[call[p].token] + call[p].age >= TTL
          /\ life[call[p].token] \in Nat
      BY <1>1, <3>1 DEF IInv, TypeOK, LifeAccounted, Tick, MayWait, Call
    <3>3. life[call[p].token] > 0
      BY <3>2
    <3> QED BY <2>3, <2>5, <3>1, <3>2, <3>3
  <2>7. ASSUME NEW p \in Callers, call'[p].step = "handed"
        PROVE  /\ call'[p].token \in server' \ Malformed
               /\ call'[p].age <= JoinWindow
               /\ life'[call'[p].token] + call'[p].age > JoinWindow
    <3>1. Timed(p) /\ call[p].step = "handed"
      BY <2>3, <2>4, <2>7
    <3>2. /\ call[p].token \in server \ Malformed /\ call[p].age \in Nat
          /\ call[p].age < JoinWindow /\ life[call[p].token] + call[p].age > JoinWindow
          /\ call[p].token \in Tokens /\ life[call[p].token] \in Nat
      BY <1>1, <3>1 DEF IInv, TypeOK, LifeAccounted, Tick, MayWait, Call
    <3>3. life[call[p].token] > 0
      BY <3>2
    <3>4. server' = server
      BY <1>1 DEF Tick
    <3> QED BY <2>3, <2>5, <3>1, <3>2, <3>3, <3>4
  <2> QED BY <2>1, <2>2, <2>6, <2>7 DEF IInv, LifeAccounted
<1>2. ASSUME NEW p \in Callers, TakeNewest(p) \/ TakeAny(p) PROVE IInv'
  BY <1>2, HandsOutUsable DEF TakeNewest, TakeAny
<1>3. ASSUME NEW p \in Callers, FindNone(p) \/ CheckFails(p) \/ EndJoin(p) PROVE IInv'
  BY <1>3 DEF FindNone, CheckFails, EndJoin, IInv, TypeOK, CacheTrails, LifeAccounted, Idle, Call
<1>4. ASSUME NEW p \in Callers, Generate(p) PROVE IInv'
  <2>1. PICK t \in Tokens :
          /\ Fresh(t)
          /\ life' = [life EXCEPT ![t] = TTL]
          /\ call' = [call EXCEPT ![p] = [step |-> "creating", token |-> t, age |-> 0]]
    BY <1>4 DEF Generate
  <2>2. server' = server /\ cache' = cache
    BY <1>4 DEF Generate
  <2>3. TypeOK'
    BY <2>1, <2>2 DEF IInv, TypeOK, Call
  <2>4. CacheTrails'
    BY <2>1, <2>2 DEF IInv, TypeOK, CacheTrails, Fresh
  <2>5. LifeAccounted'
    BY <2>1, <2>2 DEF IInv, TypeOK, LifeAccounted, Fresh, Call
  <2> QED BY <2>3, <2>4, <2>5 DEF IInv
<1>5. ASSUME NEW p \in Callers, Store(p) PROVE IInv'
  <2> DEFINE t == call[p].token
  <2>1. /\ t \in Tokens \ Malformed /\ life[t] \in Nat /\ call[p].age \in Nat
        /\ call[p].age <= StoreTime /\ life[t] + call[p].age >= TTL
    BY <1>5 DEF Store, IInv, TypeOK, LifeAccounted, Call
  <2>2. life[t] > JoinWindow
    BY <2>1
  <2>3. TypeOK'
    BY <1>5, <2>1 DEF Store, HandOut, IInv, TypeOK, Call
  <2>4. LifeAccounted'
    BY <1>5, <2>1, <2>2 DEF Store, HandOut, IInv, TypeOK, LifeAccounted
  <2> QED BY <1>5, <2>3, <2>4 DEF Store, IInv, CacheTrails
<1>6. ASSUME NEW p \in Callers, StoreFails(p) PROVE IInv'
  <2>1. call[p].token \in Tokens
    BY <1>6 DEF StoreFails, IInv, LifeAccounted
  <2> QED BY <1>6, <2>1 DEF StoreFails, IInv, TypeOK, CacheTrails, LifeAccounted, Idle, Call
<1>7. ASSUME NEW t \in Tokens, Clean(t) PROVE IInv'
  <2>1. ASSUME NEW p \in Callers, call[p].step = "handed" PROVE call[p].token # t
    BY <1>7, <2>1 DEF Clean, IInv, TypeOK, LifeAccounted, Call
  <2>2. LifeAccounted'
    BY <1>7, <2>1 DEF Clean, IInv, LifeAccounted
  <2> QED BY <1>7, <2>2 DEF Clean, IInv, TypeOK, CacheTrails
<1>8. ASSUME NEW t \in Tokens, Observe(t) PROVE IInv'
  BY <1>8 DEF Observe, IInv, TypeOK, CacheTrails, LifeAccounted
<1> QED BY <1>0, <1>1, <1>2, <1>3, <1>4, <1>5, <1>6, <1>7, <1>8 DEF Next, Environment, TokenStep

LEMMA Invariance == Spec => []IInv
  BY Initial, Step, PTL DEF Spec

(* Every variable keeps to its type.                                       *)
THEOREM TypeCorrect == Spec => []TypeOK
<1>1. IInv => TypeOK
  BY DEF IInv
<1> QED BY <1>1, Invariance, PTL

(* Whatever the timing, as long as the join window fits into the refresh   *)
(* margin and into a new token's life less the time it takes to store it,  *)
(* a worker never holds a token that is gone or expired.  (Token)          *)
THEOREM TokensLast == Spec => []TokensOutliveJoins
<1>1. IInv => TokensOutliveJoins
  <2> SUFFICES ASSUME IInv, NEW p \in Callers, call[p].step = "handed"
               PROVE  call[p].token \in server \ Malformed /\ life[call[p].token] > 0
    BY DEF TokensOutliveJoins
  <2>1. /\ call[p].token \in server \ Malformed /\ call[p].age <= JoinWindow
        /\ life[call[p].token] + call[p].age > JoinWindow
    BY DEF IInv, LifeAccounted
  <2>2. call[p].token \in Tokens /\ life[call[p].token] \in Nat /\ call[p].age \in Nat
    BY <2>1 DEF IInv, TypeOK, Call
  <2> QED BY <2>1, <2>2, TokenAssumption
<1> QED BY <1>1, Invariance, PTL

=============================================================================
