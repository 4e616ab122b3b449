----------------------- MODULE InstanceTypeCache_proofs -----------------------
(* Proofs about InstanceTypeCache, for any callers and any time to live.   *)
EXTENDS InstanceTypeCache, TLAPS

(* An entry is filed under a time no later than its data, and so is the    *)
(* answer on its way into the cache.                                       *)
FiledEarly ==
    /\ entry # None => entry.refreshedAt <= entry.asOf
    /\ \A p \in Callers : /\ call[p].start <= now
                          /\ call[p].step = "served" => call[p].start <= call[p].asOf

IInv == TypeOK /\ FiledEarly /\ HitsAreRecent

LEMMA Initial == Init => IInv
BY CacheAssumption
DEF Init, IInv, TypeOK, FiledEarly, HitsAreRecent, Call, Entry, Outcomes

LEMMA Step == IInv /\ [Next]_vars => IInv'
<1> SUFFICES ASSUME IInv, [Next]_vars PROVE IInv'
  OBVIOUS
<1> USE CacheAssumption DEF IInv, TypeOK, FiledEarly, HitsAreRecent, Call, Entry, Outcomes
<1>1. ASSUME NEW p \in Callers, Ask(p) PROVE IInv'
  BY <1>1 DEF Ask
<1>2. ASSUME NEW p \in Callers, Hit(p) PROVE IInv'
  <2>1. TypeOK'
    BY <1>2 DEF Hit, Fresh
  <2>2. FiledEarly'
    BY <1>2 DEF Hit, Fresh
  <2>3. call[p].start - entry.asOf < TTL
    BY <1>2 DEF Hit, Fresh
  <2>4. HitsAreRecent'
    BY <1>2, <2>3 DEF Hit
  <2> QED BY <2>1, <2>2, <2>4
<1>3. ASSUME NEW p \in Callers, Miss(p) PROVE IInv'
  BY <1>3 DEF Miss
<1>4. ASSUME NEW p \in Callers, Serve(p) PROVE IInv'
  BY <1>4 DEF Serve
<1>5. ASSUME NEW p \in Callers, Refresh(p) PROVE IInv'
  BY <1>5 DEF Refresh
<1>6. ASSUME NEW p \in Callers, Fallback(p) PROVE IInv'
  BY <1>6 DEF Fallback
<1>7. ASSUME NEW p \in Callers, NEW retryable \in BOOLEAN, Error(p, retryable) PROVE IInv'
  BY <1>7 DEF Error
<1>8. ASSUME Tick PROVE IInv'
  BY <1>8 DEF Tick
<1>9. CASE UNCHANGED vars
  BY <1>9 DEF vars
<1> QED
  BY <1>1, <1>2, <1>3, <1>4, <1>5, <1>6, <1>7, <1>8, <1>9 DEF Next

LEMMA Invariance == Spec => []IInv
BY Initial, Step, PTL DEF Spec

(* Every variable keeps to its type.                                       *)
THEOREM TypeCorrect == Spec => []TypeOK
<1>1. IInv => TypeOK
  BY DEF IInv
<1> QED BY <1>1, Invariance, PTL

(* Nothing served as fresh is older than the time to live, whatever the    *)
(* order in which concurrent refreshes end. (Plans, availablePlans)        *)
THEOREM FreshMeansRecent == Spec => []HitsAreRecent
<1>1. IInv => HitsAreRecent
  BY DEF IInv
<1> QED BY <1>1, Invariance, PTL
=============================================================================
