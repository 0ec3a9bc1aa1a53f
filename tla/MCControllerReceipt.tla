------------------------ MODULE MCControllerReceipt ------------------------
(* Instances of ControllerReceipt: r1 and r2 are two attempts of one         *)
(* workflow run, r3 is the run of a redelivery.                              *)
EXTENDS ControllerReceipt

CONSTANTS r1, r2, r3, s1, s2

MCRun == {r1, r2, r3}
MCWorkflow == [r \in MCRun |-> IF r = r3 THEN 2 ELSE 1]

\* The participant's controller pin is advanced before the delivery is
\* redelivered.
MovedPin == [r \in MCRun |-> IF r = r3 THEN s2 ELSE s1]
=============================================================================
