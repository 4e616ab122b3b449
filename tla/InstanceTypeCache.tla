-------------------------- MODULE InstanceTypeCache --------------------------
(***************************************************************************)
(* The discovery cache of pkg/vultr/instancetype.go: Plans keeps the plan  *)
(* catalogue, availablePlans keeps one entry of the same kind for every    *)
(* region.  Both follow the protocol below, which is modelled for one      *)
(* entry.                                                                  *)
(*                                                                         *)
(* The mutex protects the entry while it is looked up and while it is      *)
(* stored; it is not held during the API request between the two, so any   *)
(* number of callers may be refreshing at once and finish in any order.    *)
(* What the API answers changes all the time: an answer is identified by   *)
(* the moment it was true.                                                 *)
(***************************************************************************)
EXTENDS Integers

CONSTANTS
    Callers,
    TTL,      \* planCacheTTL or availabilityCacheTTL, in ticks
    Horizon,  \* bound on the clock
    None

ASSUME CacheAssumption == TTL \in Nat /\ Horizon \in Nat /\ None \notin [asOf : Nat, refreshedAt : Nat]

VARIABLES
    now,
    entry,    \* the cache entry, or None
    call      \* what each caller is doing

vars == <<now, entry, call>>

(* How a call ended.                                                       *)
Outcomes == {"hit", "refreshed", "fallback", "error"}

Entry == [asOf : Nat, refreshedAt : Nat]

Call == [step   : {"idle", "asking", "fetching", "served"} \cup Outcomes,
         start  : Nat,                    \* time.Now() of the call
         cached : Entry \cup {None},      \* the entry its lookup found
         asOf   : Nat]                    \* when the answer it has was true

TypeOK ==
    /\ now \in Nat
    /\ entry \in Entry \cup {None}
    /\ call \in [Callers -> Call]

Init ==
    /\ now = 0
    /\ entry = None
    /\ call = [p \in Callers |-> [step |-> "idle", start |-> 0, cached |-> None, asOf |-> 0]]

-----------------------------------------------------------------------------
(* The call reads the clock before it takes the lock.                      *)
Ask(p) ==
    /\ call[p].step \in {"idle"} \cup Outcomes
    /\ call' = [call EXCEPT ![p] = [step |-> "asking", start |-> now, cached |-> None, asOf |-> 0]]
    /\ UNCHANGED <<now, entry>>

Fresh(p) == entry # None /\ call[p].start - entry.refreshedAt < TTL

Hit(p) ==
    /\ call[p].step = "asking" /\ Fresh(p)
    /\ call' = [call EXCEPT ![p].step = "hit", ![p].asOf = entry.asOf]
    /\ UNCHANGED <<now, entry>>

Miss(p) ==
    /\ call[p].step = "asking" /\ ~Fresh(p)
    /\ call' = [call EXCEPT ![p].step = "fetching", ![p].cached = entry]
    /\ UNCHANGED <<now, entry>>

(* Vultr puts the answer together; it may take long to arrive.             *)
Serve(p) ==
    /\ call[p].step = "fetching"
    /\ call' = [call EXCEPT ![p].step = "served", ![p].asOf = now]
    /\ UNCHANGED <<now, entry>>

(* Mutant: the answer is stored under the time it is stored.               *)
RefreshDatedNow(p) ==
    /\ call[p].step = "served"
    /\ entry' = [asOf |-> call[p].asOf, refreshedAt |-> now]
    /\ call' = [call EXCEPT ![p].step = "refreshed"]
    /\ UNCHANGED now

(* The answer is stored under the time the call began.                     *)
Refresh(p) ==
    /\ call[p].step = "served"
    /\ entry' = [asOf |-> call[p].asOf, refreshedAt |-> call[p].start]
    /\ call' = [call EXCEPT ![p].step = "refreshed"]
    /\ UNCHANGED now

(* A retryable failure (staleCacheUsable) falls back on the entry the      *)
(* lookup found.                                                           *)
Fallback(p) ==
    /\ call[p].step \in {"fetching", "served"} /\ call[p].cached # None
    /\ call' = [call EXCEPT ![p].step = "fallback", ![p].asOf = call[p].cached.asOf]
    /\ UNCHANGED <<now, entry>>

(* Any other failure, or a retryable one with nothing to fall back on.     *)
Error(p, retryable) ==
    /\ call[p].step \in {"fetching", "served"} /\ (retryable => call[p].cached = None)
    /\ call' = [call EXCEPT ![p].step = "error"]
    /\ UNCHANGED <<now, entry>>

Tick ==
    /\ now < Horizon
    /\ now' = now + 1
    /\ UNCHANGED <<entry, call>>

Next ==
    \/ Tick
    \/ \E p \in Callers : \/ Ask(p) \/ Hit(p) \/ Miss(p) \/ Serve(p)
                          \/ Refresh(p) \/ Fallback(p)
                          \/ \E retryable \in BOOLEAN : Error(p, retryable)

Spec == Init /\ [][Next]_vars

-----------------------------------------------------------------------------
(* What the cache hands out as fresh was true less than TTL before the     *)
(* caller asked, in whatever order refreshes began and ended: a slow       *)
(* refresh may overwrite a newer entry with older data, but files it under *)
(* a time no later than the data.  (Plans, availablePlans)                 *)
HitsAreRecent ==
    \A p \in Callers : call[p].step = "hit" => call[p].start - call[p].asOf < TTL

(* A call that falls back answers with the last successful result.  The    *)
(* README promises that under "falls back to the last successful           *)
(* discovery result during a transient refresh failure".                   *)
FallsBackToLastSuccess ==
    [][\A p \in Callers :
         call[p].step # "fallback" /\ call'[p].step = "fallback" => call'[p].asOf = entry.asOf]_vars
=============================================================================
