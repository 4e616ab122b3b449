---------------------------- MODULE BootstrapJoin ----------------------------
(***************************************************************************)
(* The bootstrap script that Render of pkg/bootstrap/bootstrap.go puts     *)
(* into the user data, running on the worker beside the token it was       *)
(* given: installation, kubeadm join, and the resets between the attempts. *)
(*                                                                         *)
(* kubeadm is external: an attempt needs a host that no earlier attempt    *)
(* has left files on and a token that the API server knows, and may fail   *)
(* although it has both.                                                   *)
(***************************************************************************)
EXTENDS BootstrapToken

CONSTANTS
    InstallCommands,   \* commands under retry
    InstallAttempts,   \* attempts of retry at each
    JoinAttempts       \* attempts of join_cluster

ASSUME JoinAssumption == {InstallCommands, InstallAttempts, JoinAttempts} \subseteq Nat \ {0}

VARIABLE worker        \* the worker each Token call was for

joinVars == <<vars, worker>>

Worker == [step   : {"none", "installing", "joining", "resetting", "joined", "stopped"},
           done   : Nat,        \* commands under retry that have succeeded
           tried  : Nat,        \* attempts at what it is doing
           dirty  : BOOLEAN,    \* an attempt has left files behind
           wasted : BOOLEAN,    \* an attempt was made that could not succeed
           spoilt : BOOLEAN]    \* a reset has failed

NoWorker == [step |-> "none", done |-> 0, tried |-> 0,
             dirty |-> FALSE, wasted |-> FALSE, spoilt |-> FALSE]

WorkersTyped == worker \in [Callers -> Worker]

JoinInit == Init /\ worker = [p \in Callers |-> NoWorker]

-----------------------------------------------------------------------------
(* Create goes on to launch an instance with the token in its user data.   *)
Boot(p) ==
    /\ call[p].step = "handed" /\ worker[p].step = "none"
    /\ worker' = [worker EXCEPT ![p].step = "installing"]
    /\ UNCHANGED vars

(* Create launches no instance, or the worker is done.                     *)
Leave(p) ==
    /\ worker[p].step \in {"none", "joined", "stopped"}
    /\ EndJoin(p)
    /\ worker' = [worker EXCEPT ![p] = NoWorker]

(* A command succeeds; the next one has attempts of its own.               *)
Install(p) ==
    /\ worker[p].step = "installing"
    /\ worker' = [worker EXCEPT ![p].done = @ + 1, ![p].tried = 0,
                                ![p].step = IF worker[p].done + 1 >= InstallCommands THEN "joining" ELSE @]
    /\ UNCHANGED vars

(* retry gives up in the end, and with it the script.                      *)
InstallFails(p) ==
    /\ worker[p].step = "installing"
    /\ worker' = [worker EXCEPT ![p].tried = @ + 1,
                                ![p].step = IF worker[p].tried + 1 >= InstallAttempts THEN "stopped" ELSE @]
    /\ UNCHANGED vars

(* What is not retried ends the script at once (set -e).                   *)
CommandFails(p) ==
    /\ worker[p].step = "installing"
    /\ worker' = [worker EXCEPT ![p].step = "stopped"]
    /\ UNCHANGED vars

MayJoin(p) == ~worker[p].dirty /\ call[p].token \in server \ Malformed /\ life[call[p].token] > 0

Join(p) ==
    /\ worker[p].step = "joining" /\ MayJoin(p)
    /\ worker' = [worker EXCEPT ![p].step = "joined"]
    /\ UNCHANGED vars

(* Mutant: the host is reset only where the script gives up.               *)
JoinFailsResetLast(p) ==
    /\ worker[p].step = "joining"
    /\ \E left \in BOOLEAN :
         worker' = [worker EXCEPT ![p].tried = @ + 1, ![p].dirty = @ \/ left,
                                  ![p].wasted = @ \/ ~MayJoin(p),
                                  ![p].step = IF worker[p].tried + 1 >= JoinAttempts THEN "resetting" ELSE "joining"]
    /\ UNCHANGED vars

JoinFails(p) ==
    /\ worker[p].step = "joining"
    /\ \E left \in BOOLEAN :
         worker' = [worker EXCEPT ![p].tried = @ + 1, ![p].dirty = @ \/ left,
                                  ![p].wasted = @ \/ ~MayJoin(p),
                                  ![p].step = IF worker[p].tried + 1 >= JoinAttempts THEN "stopped" ELSE "resetting"]
    /\ UNCHANGED vars

Reset(p) ==
    /\ worker[p].step = "resetting"
    /\ worker' = [worker EXCEPT ![p].step = "joining", ![p].dirty = FALSE]
    /\ UNCHANGED vars

(* A reset that fails is ignored.                                          *)
ResetFails(p) ==
    /\ worker[p].step = "resetting"
    /\ worker' = [worker EXCEPT ![p].step = "joining", ![p].spoilt = TRUE]
    /\ UNCHANGED vars

WorkerStep(p) ==
    \/ Boot(p) \/ Install(p) \/ InstallFails(p) \/ CommandFails(p)
    \/ Join(p) \/ JoinFails(p) \/ Reset(p) \/ ResetFails(p)

JoinNext ==
    \/ (Environment \/ \E p \in Callers : TokenStep(p)) /\ UNCHANGED worker
    \/ \E p \in Callers : Leave(p) \/ WorkerStep(p)

JoinSpec == JoinInit /\ [][JoinNext]_joinVars

-----------------------------------------------------------------------------
(* A worker's attempts to join are worth making: each finds a clean host   *)
(* and a token that is still good, whatever the one before left behind and *)
(* however much of the join window, where Tick stops, the installation has *)
(* used up.  Only a reset that failed can spoil this.  (Render: "Reset     *)
(* before each retry"; TokenProvider.Token)                                *)
AttemptsCount == \A p \in Callers : worker[p].wasted => worker[p].spoilt

=============================================================================
