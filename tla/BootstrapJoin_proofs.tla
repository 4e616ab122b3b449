------------------------ MODULE BootstrapJoin_proofs ------------------------
(***************************************************************************)
(* Proofs about BootstrapJoin.  The script only looks at what Token keeps, *)
(* so whatever holds of Token holds beside it.                             *)
(***************************************************************************)
EXTENDS BootstrapJoin, BootstrapToken_proofs

(* A worker runs on a token that was handed out, and is ready for its next *)
(* attempt unless a reset has failed.                                      *)
WorkerSound(p) ==
    /\ worker[p].step # "none" => call[p].step = "handed"
    /\ worker[p].step = "none" => worker[p] = NoWorker
    /\ worker[p].step = "installing" => ~worker[p].dirty
    /\ worker[p].step = "joining" /\ worker[p].dirty => worker[p].spoilt
    /\ worker[p].wasted => worker[p].spoilt

JoinInv == WorkersTyped /\ \A p \in Callers : WorkerSound(p)

(* A step of the script is none of Token's, and Leave is EndJoin: the      *)
(* system with workers is one in which Token works as specified, and what  *)
(* holds of BootstrapToken holds beside them.  (Token, Render)             *)
THEOREM JoinsAreTokens == JoinSpec => Spec
<1>1. JoinInit => Init
  BY DEF JoinInit
<1>2. [JoinNext]_joinVars => [Next]_vars
  BY DEF JoinNext, joinVars, Next, Leave, WorkerStep, Boot, Install, InstallFails, CommandFails,
         Join, JoinFails, Reset, ResetFails
<1> QED BY <1>1, <1>2, PTL DEF JoinSpec, Spec

LEMMA TokensHold == JoinSpec => []IInv
  BY JoinsAreTokens, Invariance, PTL

(* What Token does for others leaves a token where it was handed out.      *)
LEMMA HandedStays ==
    ASSUME IInv, Environment \/ \E q \in Callers : TokenStep(q),
           NEW p \in Callers, call[p].step = "handed"
    PROVE  call'[p].step = "handed"
<1>1. CASE Environment
  BY <1>1 DEF Environment, Tick, Clean, Observe, IInv, TypeOK, Call
<1>2. ASSUME NEW q \in Callers, TokenStep(q) PROVE call'[p].step = "handed"
  <2>1. q # p
    BY <1>2 DEF TokenStep, TakeNewest, FindNone, TakeAny, Generate, Store, StoreFails, CheckFails
  <2> QED BY <1>2, <2>1 DEF TokenStep, TakeNewest, FindNone, TakeAny, Generate, Store, StoreFails,
                            CheckFails, HandOut, IInv, TypeOK
<1> QED BY <1>1, <1>2

LEMMA WorkerMoves ==
    ASSUME IInv, TokensOutliveJoins, JoinInv, NEW p \in Callers, WorkerStep(p)
    PROVE  JoinInv'
<1> USE DEF JoinInv
<1>1. worker[p] \in Worker
  BY DEF WorkersTyped
<1>2. CASE Boot(p) \/ CommandFails(p) \/ Reset(p) \/ ResetFails(p)
  <2>1. WorkersTyped'
    BY <1>1, <1>2 DEF Boot, CommandFails, Reset, ResetFails, WorkersTyped, Worker
  <2>2. ASSUME NEW q \in Callers \ {p} PROVE WorkerSound(q)'
    BY <1>2 DEF Boot, CommandFails, Reset, ResetFails, WorkersTyped, WorkerSound, vars
  <2>3. CASE Boot(p)
    BY <1>1, <2>2, <2>3 DEF Boot, WorkersTyped, WorkerSound, Worker, NoWorker, vars
  <2>4. CASE CommandFails(p)
    BY <1>1, <2>2, <2>4 DEF CommandFails, WorkersTyped, WorkerSound, Worker, vars
  <2>5. CASE Reset(p)
    BY <1>1, <2>2, <2>5 DEF Reset, WorkersTyped, WorkerSound, Worker, vars
  <2>6. CASE ResetFails(p)
    BY <1>1, <2>2, <2>6 DEF ResetFails, WorkersTyped, WorkerSound, Worker, vars
  <2> QED BY <1>2, <2>1, <2>3, <2>4, <2>5, <2>6
<1>3. CASE Install(p) \/ InstallFails(p)
  <2>1. worker[p].tried + 1 \in Nat /\ worker[p].done + 1 \in Nat
    BY <1>1 DEF Worker
  <2>2. WorkersTyped'
    BY <1>1, <1>3, <2>1 DEF Install, InstallFails, WorkersTyped, Worker
  <2>3. worker'[p].step \in {"installing", "joining", "stopped"} /\ worker[p].step = "installing"
    BY <1>1, <1>3 DEF Install, InstallFails, WorkersTyped, Worker
  <2>4. WorkerSound(p)'
    BY <1>1, <1>3, <2>3 DEF Install, InstallFails, WorkersTyped, WorkerSound, Worker, vars
  <2>5. ASSUME NEW q \in Callers \ {p} PROVE WorkerSound(q)'
    BY <1>3 DEF Install, InstallFails, WorkersTyped, WorkerSound, vars
  <2> QED BY <2>2, <2>4, <2>5
<1>4. CASE Join(p)
  BY <1>1, <1>4 DEF Join, WorkersTyped, WorkerSound, Worker, NoWorker, vars
<1>5. CASE JoinFails(p)
  <2>1. MayJoin(p) \/ worker[p].spoilt
    BY <1>5 DEF JoinFails, MayJoin, WorkerSound, TokensOutliveJoins
  <2>2. PICK left \in BOOLEAN :
          worker' = [worker EXCEPT ![p].tried = @ + 1, ![p].dirty = @ \/ left,
                                   ![p].wasted = @ \/ ~MayJoin(p),
                                   ![p].step = IF worker[p].tried + 1 >= JoinAttempts THEN "stopped" ELSE "resetting"]
    BY <1>5 DEF JoinFails
  <2>3. /\ worker'[p].wasted = (worker[p].wasted \/ ~MayJoin(p))
        /\ worker'[p].spoilt = worker[p].spoilt
        /\ worker'[p].step \in {"stopped", "resetting"}
        /\ worker[p].step = "joining"
    BY <1>1, <1>5, <2>2 DEF WorkersTyped, Worker, JoinFails
  <2>4. WorkersTyped'
    <3>1. worker[p].tried + 1 \in Nat
      BY <1>1 DEF Worker
    <3>2. (worker[p].dirty \/ left) \in BOOLEAN /\ (worker[p].wasted \/ ~MayJoin(p)) \in BOOLEAN
      OBVIOUS
    <3> QED BY <1>1, <2>2, <3>1, <3>2 DEF WorkersTyped, Worker
  <2>5. WorkerSound(p)'
    BY <1>1, <1>5, <2>1, <2>3 DEF WorkerSound, JoinFails, vars
  <2>6. ASSUME NEW q \in Callers \ {p} PROVE WorkerSound(q)'
    BY <1>5, <2>2 DEF WorkersTyped, WorkerSound, JoinFails, vars
  <2> QED BY <2>4, <2>5, <2>6
<1> QED BY <1>2, <1>3, <1>4, <1>5 DEF WorkerStep

LEMMA JoinStep ==
    ASSUME IInv, TokensOutliveJoins, JoinInv, [JoinNext]_joinVars
    PROVE  JoinInv'
<1>1. CASE UNCHANGED joinVars
  BY <1>1 DEF JoinInv, WorkersTyped, WorkerSound, joinVars, vars
<1>2. CASE (Environment \/ \E p \in Callers : TokenStep(p)) /\ UNCHANGED worker
  BY <1>2, HandedStays DEF JoinInv, WorkersTyped, WorkerSound
<1>3. ASSUME NEW p \in Callers, Leave(p) PROVE JoinInv'
  BY <1>3 DEF JoinInv, Leave, EndJoin, IInv, TypeOK, WorkersTyped, WorkerSound, Worker, NoWorker
<1>4. ASSUME NEW p \in Callers, WorkerStep(p) PROVE JoinInv'
  BY <1>4, WorkerMoves
<1> QED BY <1>1, <1>2, <1>3, <1>4 DEF JoinNext

(* With a token that lives through the join window, and a reset between    *)
(* the attempts, every attempt of every worker could succeed, as long as   *)
(* no reset fails.  (Render, TokenProvider.Token)                          *)
THEOREM AttemptsWorthMaking == JoinSpec => []AttemptsCount
<1>1. JoinInit => JoinInv
  BY DEF JoinInit, JoinInv, WorkersTyped, WorkerSound, Worker, NoWorker
<1>2. JoinInv => AttemptsCount
  BY DEF JoinInv, WorkerSound, AttemptsCount
<1>3. JoinSpec => []TokensOutliveJoins
  BY JoinsAreTokens, TokensLast, PTL
<1> QED BY <1>1, <1>2, <1>3, TokensHold, JoinStep, PTL DEF JoinSpec

=============================================================================
