---------------------- MODULE MCVoiceBroadcastRecording ----------------------
(* The scenarios in which TLC checks VoiceBroadcastRecording. *)
EXTENDS VoiceBroadcastRecording

Live == [chunks |-> 2, commands |-> 1, failures |-> 2, reconnects |-> 3, patient |-> TRUE,
         steady |-> TRUE, refused |-> FALSE, answerFirst |-> TRUE, redactions |-> FALSE,
         fair |-> TRUE]

(* Commands at any time; reconnects run alone, and what they retry works.  *)
Retry == [Live EXCEPT !.reconnects = 2, !.patient = FALSE, !.answerFirst = FALSE,
                      !.redactions = TRUE, !.fair = FALSE]

(* Reconnects overlap and fail, and the microphone may be refused.         *)
Overlap == [Retry EXCEPT !.steady = FALSE, !.refused = TRUE]

(* The user waits for each command, and nothing fails.                     *)
Commands == [Live EXCEPT !.chunks = 3, !.commands = 4, !.failures = 0, !.reconnects = 0,
                         !.fair = FALSE]

Checked == {Live, Retry, Overlap, Commands}

(* One chunk, two failures, a reconnect that fails: for BroadcastLost.     *)
Lossy == {[Overlap EXCEPT !.chunks = 1, !.commands = 0, !.failures = 3, !.reconnects = 1]}
=============================================================================
