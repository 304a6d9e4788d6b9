------------------------------ MODULE AtLeastOnce ------------------------------
(***************************************************************************)
(* What "at-least-once, safe under replay" (docs/ARCHITECTURE.md) promises *)
(* of a consumer of a partitioned log: a partition's restart point only    *)
(* moves forward, and only over records that have been dealt with for      *)
(* good.  A consumer that restarts from `mark' can then skip nothing.      *)
(***************************************************************************)
EXTENDS Naturals

CONSTANTS Partitions

VARIABLES done,   \* the records <<partition, number>> dealt with for good
          mark    \* mark[p]: how many records of p a restart will not read again

vars == <<done, mark>>

Init == done = {} /\ mark = [p \in Partitions |-> 0]

Deal == done \subseteq done' /\ UNCHANGED mark

Advance(p) ==
  /\ mark'[p] \in Nat /\ mark'[p] > mark[p]
  /\ mark' = [mark EXCEPT ![p] = mark'[p]]
  /\ \A i \in 1..mark'[p] : <<p, i>> \in done
  /\ UNCHANGED done

Next == Deal \/ \E p \in Partitions : Advance(p)

Spec == Init /\ [][Next]_vars
===============================================================================
