---------------------------- MODULE MCEventIndex ----------------------------
(* The scenarios in which TLC checks EventIndex. *)
EXTENDS EventIndex

(* Crawls in both directions, a limited sync and a reload. *)
Crawl == [len |-> 4, initLen |-> 1, batch |-> 1, faults |-> 0, reloads |-> 1,
          redactions |-> FALSE, lateEncryption |-> FALSE, forbidden |-> FALSE,
          wholeTimeline |-> FALSE, inOrder |-> TRUE, canClose |-> FALSE, endInSetup |-> FALSE,
          calmStart |-> TRUE, fair |-> FALSE]

(* Requests, handlers and syncs go on; the index may be closed. *)
Live == [Crawl EXCEPT !.len = 3, !.initLen = 2, !.canClose = TRUE, !.fair = TRUE]

(* Calls fail, the server answers 403, the index is closed at any point. *)
Faulty == [Crawl EXCEPT !.len = 3, !.batch = 2, !.faults = 2, !.reloads = 0,
                        !.forbidden = TRUE, !.inOrder = FALSE, !.canClose = TRUE,
                        !.endInSetup = TRUE, !.calmStart = FALSE]

(* So do they in a page that is reloaded.                                  *)
FaultyReload == [Faulty EXCEPT !.len = 2, !.reloads = 1]

(* Messages are redacted, also in rooms that become encrypted later. *)
Redacting == [Crawl EXCEPT !.len = 3, !.batch = 2, !.reloads = 0,
                           !.redactions = TRUE, !.lateEncryption = TRUE,
                           !.wholeTimeline = TRUE, !.inOrder = FALSE,
                           !.endInSetup = TRUE, !.calmStart = FALSE]

Checked == {Crawl, Live, Faulty, FaultyReload, Redacting}

(* Commits that overtake handlers: for EventIndexCaughtUp. *)
Unordered == {[Crawl EXCEPT !.inOrder = FALSE]}
=============================================================================
