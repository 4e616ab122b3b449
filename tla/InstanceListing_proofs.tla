----------------------- MODULE InstanceListing_proofs -----------------------
(***************************************************************************)
(* Proofs about InstanceListing, for any instances and page sizes.         *)
(***************************************************************************)
EXTENDS InstanceListing, TLAPS

(* The pages so far hold, once each, the stable instances up to the cursor *)
(* and nothing beyond it.                                                  *)
UpToCursor ==
    call = "busy" /\ cursor # WholeLink =>
      \A i \in Ids : /\ i > cursor => result[i] = 0
                     /\ i \in stable /\ i <= cursor => result[i] = 1

IInv ==
    /\ TypeOK /\ NoDuplicates /\ UpToCursor
    /\ stable \subseteq present /\ present \subseteq ever
    /\ Found \subseteq ever

(* What one page adds.                                                     *)
LEMMA OnePage ==
    ASSUME IInv, call = "busy", NEW page \in Pages
    PROVE  LET more == Appended(page)
           IN  /\ page \subseteq present /\ cursor # WholeLink
               /\ more \in [Ids -> Nat]
               /\ \A i \in Ids : /\ i \in page => more[i] = 1 /\ i > cursor
                                 /\ i \notin page => more[i] = result[i]
<1>1. page \subseteq Rest /\ cursor # WholeLink
  BY DEF Pages
<1>2. \A i \in page : i \in present /\ i \in Ids /\ i > cursor
  BY <1>1 DEF Rest, IInv, TypeOK
<1>3. \A i \in page : result[i] = 0
  BY <1>1, <1>2 DEF IInv, UpToCursor
<1> QED BY <1>1, <1>2, <1>3 DEF Appended, IInv, TypeOK

(* What a link says of the page it came with.                              *)
LEMMA OneLink ==
    ASSUME IInv, NEW page \in Pages, NEW next \in Links(page)
    PROVE  \/ next = NoLink /\ page = Rest
           \/ /\ next # NoLink /\ next.last \in page
              /\ \A j \in page : j <= next.last
              /\ \A j \in Rest : j < next.last => j \in page
              /\ CursorFromNext(next) \in {0, WholeLink, next.last}
<1>1. CASE next \in { [form |-> form, last |-> i] : form \in Forms,
                        i \in { i \in page : \A j \in page : j <= i } }
  <2>1. PICK form \in Forms, i \in page :
           next = [form |-> form, last |-> i] /\ \A j \in page : j <= i
    BY <1>1
  <2>2. next # NoLink
    BY <2>1 DEF Forms, NoLink
  <2> QED BY <2>1, <2>2 DEF Pages, CursorFromNext
<1>2. CASE next = NoLink /\ page = Rest
  BY <1>2
<1> QED BY <1>1, <1>2 DEF Links

LEMMA Initial == Init => IInv
  BY DEF Init, IInv, TypeOK, NoDuplicates, UpToCursor, Found, Nothing

LEMMA FetchStep ==
    ASSUME IInv, NEW page \in Pages, NEW next \in Links(page), Fetch(page, next)
    PROVE  /\ IInv'
           /\ call' = "done" => stable \subseteq Found'
<1>1. /\ call = "busy" /\ result' = Appended(page)
      /\ present' = present /\ stable' = stable /\ ever' = ever
  BY DEF Fetch
<1>2. /\ page \subseteq present /\ cursor # WholeLink
      /\ result' \in [Ids -> Nat]
      /\ \A i \in Ids : /\ i \in page => result'[i] = 1 /\ i > cursor
                        /\ i \notin page => result'[i] = result[i]
  BY <1>1, OnePage
<1>3. NoDuplicates'
  BY <1>2 DEF NoDuplicates, IInv
<1>4. Found' \subseteq ever
  BY <1>2 DEF Found, IInv
<1>5. \A i \in stable : i \in Ids /\ (i <= cursor => result'[i] = 1)
  BY <1>1, <1>2 DEF IInv, TypeOK, UpToCursor
<1>6. \A i \in Ids : i \in Nat
  BY ListingAssumption
<1>7. cursor \in Nat
  BY <1>2, <1>6 DEF IInv, TypeOK
<1>8. CASE next = NoLink /\ page = Rest
  <2>1. call' = "done" /\ cursor' = cursor
    BY <1>8 DEF Fetch
  <2>2. \A i \in stable : i > cursor => i \in page
    BY <1>8 DEF Rest, IInv
  <2>3. \A i \in stable : result'[i] = 1
    BY <1>2, <1>5, <1>6, <1>7, <2>2
  <2>4. stable \subseteq Found'
    BY <1>5, <2>3 DEF Found
  <2>5. TypeOK'
    BY <1>1, <1>2, <2>1 DEF IInv, TypeOK
  <2> QED BY <1>1, <1>3, <1>4, <2>1, <2>4, <2>5 DEF IInv, UpToCursor
<1>9. CASE /\ next # NoLink /\ next.last \in page
           /\ \A j \in page : j <= next.last
           /\ \A j \in Rest : j < next.last => j \in page
           /\ CursorFromNext(next) \in {0, WholeLink, next.last}
  <2>1. next.last \in Ids /\ next.last # 0 /\ next.last > cursor
    BY <1>2, <1>9, ListingAssumption DEF IInv, TypeOK
  <2>2. CASE CursorFromNext(next) = 0
    <3>1. call' = "failed" /\ cursor' = cursor
      BY <1>9, <2>2 DEF Fetch
    <3>2. TypeOK'
      BY <1>1, <1>2, <3>1 DEF IInv, TypeOK
    <3> QED BY <1>1, <1>3, <1>4, <3>1, <3>2 DEF IInv, UpToCursor
  <2>3. CASE CursorFromNext(next) = WholeLink
    <3>1. call' = "busy" /\ cursor' = WholeLink
      BY <1>9, <2>3 DEF Fetch, WholeLink
    <3>2. TypeOK'
      BY <1>1, <1>2, <3>1 DEF IInv, TypeOK
    <3> QED BY <1>1, <1>3, <1>4, <3>1, <3>2 DEF IInv, UpToCursor
  <2>4. CASE CursorFromNext(next) = next.last /\ next.last # WholeLink
    <3>1. call' = "busy" /\ cursor' = next.last
      BY <1>9, <2>1, <2>4 DEF Fetch
    <3>2. TypeOK'
      BY <1>1, <1>2, <2>1, <3>1 DEF IInv, TypeOK
    <3>3. ASSUME NEW i \in Ids, i > next.last PROVE result'[i] = 0
      <4>1. i \notin page /\ i > cursor
        BY <1>6, <1>7, <1>9, <2>1, <3>3
      <4> QED BY <1>1, <1>2, <4>1 DEF IInv, UpToCursor
    <3>4. ASSUME NEW i \in stable, i <= next.last PROVE result'[i] = 1
      <4>1. CASE i <= cursor
        BY <1>5, <4>1
      <4>2. CASE i > cursor
        <5>1. i \in Rest
          BY <4>2 DEF Rest, IInv
        <5>2. i \in page
          BY <1>5, <1>6, <1>9, <2>1, <3>4, <5>1
        <5> QED BY <1>2, <1>5, <5>2
      <4> QED BY <1>5, <1>6, <1>7, <4>1, <4>2
    <3>5. UpToCursor'
      BY <1>1, <3>1, <3>3, <3>4 DEF UpToCursor
    <3> QED BY <1>1, <1>3, <1>4, <3>1, <3>2, <3>5 DEF IInv
  <2> QED BY <1>9, <2>2, <2>3, <2>4
<1> QED BY <1>8, <1>9, OneLink

LEMMA Step == IInv /\ [Next]_vars => IInv'
<1> SUFFICES ASSUME IInv, [Next]_vars PROVE IInv'
  OBVIOUS
<1>0. CASE UNCHANGED vars
  BY <1>0 DEF vars, IInv, TypeOK, NoDuplicates, UpToCursor, Found
<1>1. ASSUME NEW i \in Ids, Appear(i) \/ Vanish(i) PROVE IInv'
  BY <1>1 DEF Appear, Vanish, IInv, TypeOK, NoDuplicates, UpToCursor, Found
<1>2. CASE Begin
  <2>1. \A i \in Ids : i > 0
    BY ListingAssumption
  <2>2. /\ cursor' = 0 /\ call' = "busy" /\ present' = present
        /\ stable' = present /\ ever' = present /\ present \in SUBSET Ids
        /\ result' \in [Ids -> Nat] /\ \A i \in Ids : result'[i] = 0
    BY <1>2 DEF Begin, Nothing, IInv, TypeOK
  <2>3. \A i \in Ids : ~(i <= 0) /\ 0 <= 1 /\ ~(0 > 0)
    BY <2>1, ListingAssumption
  <2>4. NoDuplicates' /\ UpToCursor'
    BY <2>2, <2>3 DEF NoDuplicates, UpToCursor
  <2>5. Found' = {}
    BY <2>2 DEF Found
  <2> QED BY <2>2, <2>4, <2>5 DEF IInv, TypeOK
<1>3. CASE FetchSome
  BY <1>3, FetchStep DEF FetchSome
<1>4. CASE FetchFails
  BY <1>4 DEF FetchFails, IInv, TypeOK, NoDuplicates, UpToCursor, Found
<1> QED BY <1>0, <1>1, <1>2, <1>3, <1>4 DEF Next

LEMMA Invariance == Spec => []IInv
  BY Initial, Step, PTL DEF Spec

(* Every variable keeps to its type.                                       *)
THEOREM TypeCorrect == Spec => []TypeOK
<1>1. IInv => TypeOK
  BY DEF IInv
<1> QED BY <1>1, Invariance, PTL

(* However pages are cut and whatever comes and goes between them, no      *)
(* instance is in the result twice.  (ListInstances)                       *)
THEOREM ListedOnce == Spec => []NoDuplicates
<1>1. IInv => NoDuplicates
  BY DEF IInv
<1> QED BY <1>1, Invariance, PTL

-----------------------------------------------------------------------------
LEMMA RefinesInit == Init => Account!Init
  BY DEF Init, Account!Init

LEMMA RefinesNext == IInv /\ [Next]_vars => [Account!Next]_(Account!vars)
<1> SUFFICES ASSUME IInv, [Next]_vars PROVE Account!Next \/ UNCHANGED Account!vars
  OBVIOUS
<1>0. CASE UNCHANGED vars
  BY <1>0 DEF vars, Found, Account!vars
<1>1. ASSUME NEW i \in Ids, Appear(i) PROVE Account!Next
  BY <1>1 DEF Appear, Found, Account!Next, Account!Appear
<1>2. ASSUME NEW i \in Ids, Vanish(i) PROVE Account!Next
  BY <1>2 DEF Vanish, Found, Account!Next, Account!Vanish
<1>3. CASE Begin
  <2>1. Account!Begin
    BY <1>3 DEF Begin, Account!Begin
  <2> QED BY <2>1 DEF Account!Next
<1>4. ASSUME NEW page \in Pages, NEW next \in Links(page), Fetch(page, next)
      PROVE  Account!Next \/ UNCHANGED Account!vars
  <2>1. /\ call = "busy" /\ call' \in {"done", "failed", "busy"}
        /\ UNCHANGED <<present, stable, ever>>
    BY <1>4 DEF Fetch
  <2>2. IInv' /\ (call' = "done" => stable \subseteq Found')
    BY <1>4, FetchStep
  <2>3. CASE call' = "done"
    <3>1. stable \subseteq Found' /\ Found' \subseteq ever
      BY <2>1, <2>2, <2>3 DEF IInv
    <3>2. Account!Answer
      BY <2>1, <2>3, <3>1 DEF Account!Answer
    <3> QED BY <3>2 DEF Account!Next
  <2>4. CASE call' = "failed"
    <3>1. Account!Fail
      BY <2>1, <2>4 DEF Account!Fail
    <3> QED BY <3>1 DEF Account!Next
  <2>5. CASE call' = "busy"
    BY <2>1, <2>5 DEF Account!vars
  <2> QED BY <2>1, <2>3, <2>4, <2>5
<1>5. CASE FetchFails
  <2>1. Account!Fail
    BY <1>5 DEF FetchFails, Account!Fail
  <2> QED BY <2>1 DEF Account!Next
<1> QED BY <1>0, <1>1, <1>2, <1>3, <1>4, <1>5 DEF Next, FetchSome

(* Listing page by page implements the promise of AccountSnapshot, however *)
(* pages are cut and whatever comes and goes between them: what is there   *)
(* all the time is found, and no phantom.  (ListInstances)                 *)
THEOREM ImplementsSnapshot == Spec => ListsAccount
<1>1. Spec => Account!Spec
  BY RefinesInit, RefinesNext, Invariance, PTL DEF Spec, Account!Spec
<1> QED BY <1>1 DEF ListsAccount

=============================================================================
