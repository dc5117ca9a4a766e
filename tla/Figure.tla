-------------------------------- MODULE Figure --------------------------------
(* The length of an animated figure: steps 0 .. LastIndex (totalSteps - 1), *)
(* and step -1, the empty figure.                                           *)
EXTENDS Integers

CONSTANT LastIndex

ASSUME LastIndexAssumption == LastIndex \in Int /\ LastIndex >= -1
===============================================================================
