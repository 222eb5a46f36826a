---------------------------- MODULE EventStream ----------------------------
(***************************************************************************)
(* What the service promises to those who read its events                  *)
(* (docs/architecture.md, section 3.11): a program's events are committed  *)
(* one after another, and a reader that drops what it has already seen     *)
(* gets them in that order, none left out, every one in the end.           *)
(*                                                                         *)
(* An event is a number; a program's events are numbered in the order in   *)
(* which they were committed.                                              *)
(***************************************************************************)
EXTENDS Naturals

CONSTANTS Programs,
          Events    \* numbers

VARIABLES produced, \* the events of each program that are committed
          received  \* the events of each program that a reader has got

streamVars == <<produced, received>>

Init ==
  /\ produced = [p \in Programs |-> {}]
  /\ received = [p \in Programs |-> {}]

\* A transaction commits new events of one program, after all it has.
Produce(p) ==
  /\ \E new \in SUBSET Events :
       /\ \A e \in new, d \in produced[p] : d < e
       /\ produced' = [produced EXCEPT ![p] = @ \union new]
  /\ UNCHANGED received

\* The reader gets the next event of a program.
Receive(p) ==
  /\ \E e \in produced[p] \ received[p] :
       /\ \A d \in produced[p] : d < e => d \in received[p]
       /\ received' = [received EXCEPT ![p] = @ \union {e}]
  /\ UNCHANGED produced

Next == \E p \in Programs : Produce(p) \/ Receive(p)

\* The order alone, and with it that every event is received in the end.
OrderSpec == Init /\ [][Next]_streamVars

Spec == OrderSpec /\ \A p \in Programs : WF_streamVars(Receive(p))
=============================================================================
