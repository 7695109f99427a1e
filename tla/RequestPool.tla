----------------------------- MODULE RequestPool -----------------------------
(***************************************************************************)
(* What a benchmark that works through a dataset with a batch of rows      *)
(* promises: the requests 1 .. count are taken up in order, at most        *)
(* Capacity at a time, each is served once, and the benchmark is over only *)
(* when every request has been served.                                     *)
(***************************************************************************)
EXTENDS Naturals, FiniteSets

CONSTANT Capacity    \* rows of the batch

VARIABLES
  count,      \* requests of the dataset
  next,       \* the next request to take up
  serving,    \* requests being served
  served,     \* requests that have been served
  over        \* whether the benchmark has ended

vars == <<count, next, serving, served, over>>

Init == count \in Nat /\ next = 1 /\ serving = {} /\ served = {} /\ over = FALSE

TakeUp ==
  /\ ~over /\ next <= count
  /\ Cardinality(serving) < Capacity
  /\ serving' = serving \cup {next}
  /\ next' = next + 1
  /\ UNCHANGED <<count, served, over>>

\* One or more requests are finished, none that was served before.
Finish ==
  /\ ~over
  /\ \E S \in (SUBSET serving) \ {{}} :
       /\ S \cap served = {}
       /\ serving' = serving \ S
       /\ served' = served \cup S
  /\ UNCHANGED <<count, next, over>>

Close ==
  /\ ~over /\ served = 1 .. count
  /\ over' = TRUE
  /\ UNCHANGED <<count, next, serving, served>>

Next == TakeUp \/ Finish \/ Close
Spec == Init /\ [][Next]_vars

\* Sooner or later everything has been served.
Completes == <>over
=============================================================================
