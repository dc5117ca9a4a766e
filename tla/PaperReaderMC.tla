----------------------------- MODULE PaperReaderMC -----------------------------
(* Two papers, two files and documents of two pages.  A behaviour reads or  *)
(* marks a lot in one paper, or does a little of it while papers change.    *)
EXTENDS PaperReader, TLC

CONSTANTS paperA, paperB, fileA, fileB

Acts(l, read, mark, o, fail) ==
  [loads |-> l, pages |-> read, marks |-> mark, others |-> o, faults |-> fail]

MCBudget ==
  {Acts(1, 3, 0, 0, 0), Acts(1, 2, 0, 0, 1), Acts(2, 2, 0, 0, 0), Acts(2, 0, 0, 0, 1), Acts(3, 1, 0, 0, 0),
   Acts(1, 0, 2, 1, 0), Acts(1, 0, 4, 0, 0), Acts(1, 0, 2, 0, 1), Acts(1, 0, 1, 2, 0), Acts(2, 0, 1, 1, 0),
   Acts(2, 0, 1, 0, 1)}

(* Papers and files are interchangeable: the first paper has the first    *)
(* file, if any has one.                                                  *)
First == \/ current[paperA] = [version |-> 1, file |-> fileA]
         \/ current = [x \in Papers |-> Nil]

MCInit == Init /\ First
MCSpec == MCInit /\ [][Next]_vars
MCFairSpec == MCSpec /\ Fairness

MarksOnly == {Acts(1, 0, 2, 2, 0)}
===============================================================================
