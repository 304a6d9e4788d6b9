----------------------------- MODULE LoadShedding -----------------------------
(***************************************************************************)
(* What a circuit breaker promises to the service behind it, whatever the  *)
(* breaker keeps inside.  A service that fails is called at most Budget    *)
(* times in a row; then it is left alone for Quiet units of time, probed   *)
(* by one call, and left alone again if that call fails.  Any success      *)
(* restores the full budget.                                               *)
(***************************************************************************)
EXTENDS Naturals

CONSTANTS Budget, Quiet

VARIABLES phase,    \* "flowing", "shedding" or "probing"
          budget,   \* failures the service may still show before it is left alone
          wait      \* time it is still to be left alone

vars == <<phase, budget, wait>>

Init == phase = "flowing" /\ budget = Budget /\ wait = 0

Succeed == /\ phase \in {"flowing", "probing"}
           /\ phase' = "flowing" /\ budget' = Budget
           /\ UNCHANGED wait

Tolerate == /\ phase = "flowing" /\ budget > 1
            /\ budget' = budget - 1
            /\ UNCHANGED <<phase, wait>>

Trip == /\ \/ phase = "flowing" /\ budget = 1
           \/ phase = "probing"
        /\ phase' = "shedding" /\ budget' = 0 /\ wait' = Quiet

Pass == wait > 0 /\ wait' = wait - 1 /\ UNCHANGED <<phase, budget>>

Probe == /\ phase = "shedding" /\ wait = 0
         /\ phase' = "probing"
         /\ UNCHANGED <<budget, wait>>

Next == Succeed \/ Tolerate \/ Trip \/ Pass \/ Probe

Spec == Init /\ [][Next]_vars
===============================================================================
