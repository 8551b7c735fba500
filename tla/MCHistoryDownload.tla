------------------------- MODULE MCHistoryDownload -------------------------
(* Instances of HistoryDownload for TLC: one job of one or two symbols with *)
(* retries and a second job, of one symbol and without, that may wait       *)
(* behind it.                                                               *)
EXTENDS HistoryDownload, TLC

CONSTANTS j1, j2, a, b

MCJobs     == {j1, j2}
MCStocks   == {a, b}
MCAttempts == j1 :> 3 @@ j2 :> 1
MCRequests == j1 :> {{a}, {a, b}} @@ j2 :> {{a}}

=============================================================================
