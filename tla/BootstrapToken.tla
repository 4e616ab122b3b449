--------------------------- MODULE BootstrapToken ---------------------------
(***************************************************************************)
(* TokenProvider.Token of pkg/bootstrap/bootstrap.go: the kubeadm token    *)
(* that Create puts into the user data of an instance.                     *)
(*                                                                         *)
(* Create calls run at the same time and share nothing but the Secrets,    *)
(* which they list through an informer cache.  A token's expiration never  *)
(* changes, so its remaining life stands for it.  The worker, its kubeadm  *)
(* join and the cluster's TokenCleaner are external.                       *)
(***************************************************************************)
EXTENDS Naturals

CONSTANTS
    Callers,
    Tokens,
    Malformed,    \* labelled Secrets that hold no well-formed token or expiration
    NoToken,
    TTL,          \* bootstrapTokenTTL, in ticks
    Refresh,      \* bootstrapTokenRefresh
    StoreTime,    \* how long creating a Secret takes at most
    JoinWindow    \* how long after Token a worker may still try to join

ASSUME TokenAssumption ==
    /\ Malformed \subseteq Tokens /\ NoToken \notin Tokens
    /\ {TTL, Refresh, StoreTime, JoinWindow} \subseteq Nat
    /\ JoinWindow <= Refresh
    /\ StoreTime + JoinWindow < TTL

VARIABLES
    life,      \* what remains of each token's life
    server,    \* the Secrets on the API server
    cache,     \* the Secrets in the informer cache
    call       \* each Token call, and the join it is for

vars == <<life, server, cache, call>>

Call == [step  : {"idle", "checking", "creating", "handed"},
         token : Tokens \cup {NoToken},
         age   : Nat]                       \* ticks spent in this step

TypeOK ==
    /\ life \in [Tokens -> 0 .. TTL]
    /\ server \in SUBSET Tokens /\ cache \in SUBSET Tokens
    /\ call \in [Callers -> Call]

Idle == [step |-> "idle", token |-> NoToken, age |-> 0]

Init ==
    /\ life = [t \in Tokens |-> IF t \in Malformed THEN TTL ELSE 0]
    /\ server = Malformed /\ cache = Malformed
    /\ call = [p \in Callers |-> Idle]

-----------------------------------------------------------------------------
(* Mutant: any token that has not expired will do.                         *)
UsableUntilExpired == { t \in cache \ Malformed : life[t] > 0 }

(* The listed Secrets that hold a token with more than Refresh to live.    *)
Usable == { t \in cache \ Malformed : life[t] > Refresh }

HandOut(p, t) == call' = [call EXCEPT ![p] = [step |-> "handed", token |-> t, age |-> 0]]

(* The first listing: the token that lives longest.                        *)
TakeNewest(p) ==
    /\ call[p].step = "idle"
    /\ \E t \in Usable : (\A u \in Usable : life[u] <= life[t]) /\ HandOut(p, t)
    /\ UNCHANGED <<life, server, cache>>

FindNone(p) ==
    /\ call[p].step = "idle" /\ Usable = {}
    /\ call' = [call EXCEPT ![p] = [Idle EXCEPT !.step = "checking"]]
    /\ UNCHANGED <<life, server, cache>>

(* The second listing: the first usable one it comes across.               *)
TakeAny(p) ==
    /\ call[p].step = "checking"
    /\ \E t \in Usable : HandOut(p, t)
    /\ UNCHANGED <<life, server, cache>>

(* Random, so never one that is in use.                                    *)
Fresh(t) == t \notin server \cup cache \cup Malformed /\ \A p \in Callers : call[p].token # t

(* generateToken, and the expiration that goes with it.                    *)
Generate(p) ==
    /\ call[p].step = "checking" /\ Usable = {}
    /\ \E t \in Tokens :
         /\ Fresh(t)
         /\ life' = [life EXCEPT ![t] = TTL]
         /\ call' = [call EXCEPT ![p] = [step |-> "creating", token |-> t, age |-> 0]]
    /\ UNCHANGED <<server, cache>>

Store(p) ==
    /\ call[p].step = "creating"
    /\ server' = server \cup {call[p].token}
    /\ HandOut(p, call[p].token)
    /\ UNCHANGED <<life, cache>>

(* The request fails, or only its answer is lost; Create fails.            *)
StoreFails(p) ==
    /\ call[p].step = "creating"
    /\ server' \in {server, server \cup {call[p].token}}
    /\ call' = [call EXCEPT ![p] = Idle]
    /\ UNCHANGED <<life, cache>>

(* The second listing fails.                                               *)
CheckFails(p) ==
    /\ call[p].step = "checking"
    /\ call' = [call EXCEPT ![p] = Idle]
    /\ UNCHANGED <<life, server, cache>>

-----------------------------------------------------------------------------
(* The worker has joined, or will not try any more.                        *)
EndJoin(p) ==
    /\ call[p].step = "handed"
    /\ call' = [call EXCEPT ![p] = Idle]
    /\ UNCHANGED <<life, server, cache>>

(* TokenCleaner removes an expired token.                                  *)
Clean(t) ==
    /\ t \in server \ Malformed /\ life[t] = 0
    /\ server' = server \ {t}
    /\ UNCHANGED <<life, cache, call>>

(* The cache learns what has become of a Secret.                           *)
Observe(t) ==
    /\ cache' = IF t \in server THEN cache \cup {t} ELSE cache \ {t}
    /\ cache' # cache
    /\ UNCHANGED <<life, server, call>>

(* Time passes, but for a step that must end.                              *)
MayWait(p) ==
    /\ call[p].step = "creating" => call[p].age < StoreTime
    /\ call[p].step = "handed" => call[p].age < JoinWindow

Timed(p) == call[p].step \in {"creating", "handed"}

Tick ==
    /\ \A p \in Callers : MayWait(p)
    /\ life' = [t \in Tokens |-> IF t \in Malformed \/ life[t] = 0 THEN life[t] ELSE life[t] - 1]
    /\ call' = [p \in Callers |-> IF Timed(p) THEN [call[p] EXCEPT !.age = @ + 1] ELSE call[p]]
    /\ UNCHANGED <<server, cache>>

TokenStep(p) ==
    TakeNewest(p) \/ FindNone(p) \/ TakeAny(p) \/ Generate(p) \/ Store(p) \/ StoreFails(p) \/ CheckFails(p)

Environment == Tick \/ \E t \in Tokens : Clean(t) \/ Observe(t)

Next == Environment \/ \E p \in Callers : TokenStep(p) \/ EndJoin(p)

Spec == Init /\ [][Next]_vars

-----------------------------------------------------------------------------
(* For as long as a worker may try to join, the token in its user data is  *)
(* well-formed, on the API server and not expired, whoever created it, and *)
(* however old it was when Token handed it out from a cache that trails.   *)
(* (TokenProvider.Token)                                                   *)
TokensOutliveJoins ==
    \A p \in Callers :
      call[p].step = "handed" =>
        /\ call[p].token \in server \ Malformed
        /\ life[call[p].token] > 0
=============================================================================
