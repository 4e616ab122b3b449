--------------------------- MODULE InstanceListing ---------------------------
(***************************************************************************)
(* ListInstances of pkg/vultr/client.go: one request per page, while other *)
(* calls create and destroy instances.  ListPlans and ListOS are the same  *)
(* loop.                                                                   *)
(*                                                                         *)
(* Vultr's side is external: a cursor stands for the last instance of the  *)
(* page it came with, a page holds the next instances after it, in order,  *)
(* as many as Vultr likes up to PageSize, and a cursor that Vultr never    *)
(* gave out is refused.                                                    *)
(***************************************************************************)
EXTENDS Integers, FiniteSets

CONSTANTS
    Ids,         \* instances, in the order Vultr lists them
    PageSize     \* maxPageSize

ASSUME ListingAssumption == Ids \subseteq Nat \ {0} /\ PageSize \in Nat \ {0}

VARIABLES
    present, stable, ever,   \* as in AccountSnapshot
    call,      \* the listing: "none" yet, "busy", "failed" or "done"
    cursor,    \* the cursor to send, 0 for none, or a WholeLink
    result     \* how often each instance is in the result

vars == <<present, stable, ever, call, cursor, result>>

(* What a link may be: a token, a URL with a cursor in it or without one,  *)
(* or blanks.                                                              *)
Forms == {"token", "url", "bareURL", "blank"}

WholeLink == -1   \* a link that is no cursor, sent as one

NoLink == [form |-> "none", last |-> 0]

TypeOK ==
    /\ present \in SUBSET Ids /\ stable \in SUBSET Ids /\ ever \in SUBSET Ids
    /\ call \in {"none", "busy", "failed", "done"}
    /\ cursor \in Ids \cup {0, WholeLink}
    /\ result \in [Ids -> Nat]

Nothing == [i \in Ids |-> 0]

Init ==
    /\ present \in SUBSET Ids /\ stable = present /\ ever = present
    /\ call = "none" /\ cursor = 0 /\ result = Nothing

-----------------------------------------------------------------------------
(* Create, Delete and everyone else who uses the account.                  *)

Appear(i) ==
    /\ i \notin present
    /\ present' = present \cup {i} /\ ever' = ever \cup {i}
    /\ UNCHANGED <<stable, call, cursor, result>>

Vanish(i) ==
    /\ i \in present
    /\ present' = present \ {i} /\ stable' = stable \ {i}
    /\ UNCHANGED <<ever, call, cursor, result>>

-----------------------------------------------------------------------------
Rest == { i \in present : i > cursor }

(* What Vultr may answer: never empty while there is more.                 *)
Pages ==
    { page \in SUBSET Rest :
        /\ cursor # WholeLink
        /\ Cardinality(page) <= PageSize
        /\ Rest # {} => page # {}
        /\ \A i \in page, j \in Rest : j < i => j \in page }

(* meta.links.next: absent on the last page.                               *)
Links(page) ==
    { [form |-> form, last |-> i] : form \in Forms,
                                    i \in { i \in page : \A j \in page : j <= i } }
      \cup (IF page = Rest THEN {NoLink} ELSE {})

(* Mutant: the cursor is moved past the instance it stands for.            *)
CursorPastNext(next) == IF next.form = "blank" THEN 0 ELSE next.last + 1

(* A token as it is, or the parameter of a URL, or else the URL itself;    *)
(* blanks give no cursor.                                                  *)
CursorFromNext(next) ==
    CASE next.form = "blank" -> 0
      [] next.form = "bareURL" -> WholeLink
      [] OTHER -> next.last

Begin ==
    /\ call # "busy"
    /\ call' = "busy" /\ cursor' = 0 /\ result' = Nothing
    /\ stable' = present /\ ever' = present
    /\ UNCHANGED present

Appended(page) == [i \in Ids |-> IF i \in page THEN result[i] + 1 ELSE result[i]]

(* Mutant: a page that is not full is taken for the last one.              *)
FetchUntilShort(page, next) ==
    /\ call = "busy"
    /\ result' = Appended(page)
    /\ IF next = NoLink \/ Cardinality(page) < PageSize THEN call' = "done" /\ UNCHANGED cursor
       ELSE IF CursorFromNext(next) = 0 THEN call' = "failed" /\ UNCHANGED cursor
       ELSE call' = "busy" /\ cursor' = CursorFromNext(next)
    /\ UNCHANGED <<present, stable, ever>>

(* Mutant: the cursor in a URL is not found.                               *)
FetchTokens(page, next) ==
    /\ call = "busy"
    /\ result' = Appended(page)
    /\ IF next = NoLink THEN call' = "done" /\ UNCHANGED cursor
       ELSE IF CursorFromNext(next) = 0 THEN call' = "failed" /\ UNCHANGED cursor
       ELSE call' = "busy" /\ cursor' = IF next.form = "url" THEN 0 ELSE CursorFromNext(next)
    /\ UNCHANGED <<present, stable, ever>>

(* One page; the listing ends with a page that has no link.                *)
Fetch(page, next) ==
    /\ call = "busy"
    /\ result' = Appended(page)
    /\ IF next = NoLink THEN call' = "done" /\ UNCHANGED cursor
       ELSE IF CursorFromNext(next) = 0 THEN call' = "failed" /\ UNCHANGED cursor
       ELSE call' = "busy" /\ cursor' = CursorFromNext(next)
    /\ UNCHANGED <<present, stable, ever>>

(* Mutant: after an error the listing starts over, however often.          *)
StartOver ==
    /\ call = "busy" /\ cursor' = 0 /\ result' = Nothing
    /\ stable' = present /\ ever' = present
    /\ UNCHANGED <<present, call>>

(* A request that fails makes the listing fail.                            *)
FetchFails ==
    /\ call = "busy" /\ call' = "failed"
    /\ UNCHANGED <<present, stable, ever, cursor, result>>

FetchSome == \E page \in Pages : \E next \in Links(page) : Fetch(page, next)

Next ==
    \/ \E i \in Ids : Appear(i) \/ Vanish(i)
    \/ Begin \/ FetchSome \/ FetchFails

Spec == Init /\ [][Next]_vars

(* Every request is answered in the end, whatever the answer.              *)
FairSpec == Spec /\ WF_vars(FetchSome \/ FetchFails)

-----------------------------------------------------------------------------
Found == { i \in Ids : result[i] > 0 }

Account == INSTANCE AccountSnapshot
             WITH found <- IF call = "done" THEN Found ELSE {}

(* A listing in pages that gaps and newcomers cross finds every instance   *)
(* that is there all the time and no phantom, or nothing: the account may  *)
(* be taken for listed at one moment.  (ListInstances)                     *)
ListsAccount == Account!Spec

(* No instance is listed twice, so that the orphan cleaner deletes it once *)
(* and Karpenter sees one NodeClaim for it.  (ListInstances)               *)
NoDuplicates == \A i \in Ids : result[i] <= 1

(* A listing ends, with an answer or an error, although instances come and *)
(* go while it runs.  (ListInstances)                                      *)
ListingEnds == call = "busy" ~> call # "busy"

=============================================================================
