------------------------------ MODULE Answers ------------------------------
(***************************************************************************)
(* What the interview pipeline promises about its answers: each section of *)
(* the interview has no answer yet or exactly one current answer, numbered *)
(* by the save that wrote it.  A save gives some sections a newer answer,  *)
(* all of them at once, and an answer is never taken back.                 *)
(***************************************************************************)
EXTENDS Integers

CONSTANT Part          \* the sections of an interview

VARIABLE answer        \* answer[s]: the current answers of s, by number

Init == answer = [s \in Part |-> {}]

\* One save: the sections P get the answer n, newer than what they had.
Replace(P, n) ==
  /\ \A s \in P : \A v \in answer[s] : v < n
  /\ answer' = [s \in Part |-> IF s \in P THEN {n} ELSE answer[s]]

Next == \E P \in SUBSET Part : \E n \in UNION {answer'[s] : s \in P} : Replace(P, n)

Spec == Init /\ [][Next]_answer
=============================================================================
