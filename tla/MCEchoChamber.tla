---------------------------- MODULE MCEchoChamber ----------------------------
(* The scenarios in which TLC checks EchoChamber. *)
EXTENDS EchoChamber

(* One change after the other, with failures, resends and another device.  *)
Serial == [sets |-> 3, resends |-> 2, faults |-> 2, foreign |-> 1, serial |-> TRUE,
           wholeEchoes |-> FALSE, fair |-> TRUE]

(* Nothing fails.                                                          *)
Calm == [Serial EXCEPT !.faults = 0]

(* Changes overlap, and so do their answers and echoes.                    *)
Overlap == [Serial EXCEPT !.resends = 0, !.faults = 1, !.foreign = 0, !.serial = FALSE,
                          !.wholeEchoes = TRUE, !.fair = FALSE]

(* So do the requests of a change that is resent.                          *)
OverlapResend == [Overlap EXCEPT !.sets = 2, !.resends = 1, !.faults = 2]

(* One change is resent while it is pending.                               *)
ResendAgain == [OverlapResend EXCEPT !.sets = 1, !.resends = 2, !.faults = 3]

CheckedScenarios == {Serial, Calm, Overlap, OverlapResend, ResendAgain}

(* A change, one of whose requests fails: for EchoHidden.                  *)
Failing == {[Serial EXCEPT !.sets = 2, !.resends = 0, !.faults = 1, !.foreign = 0]}
=============================================================================
