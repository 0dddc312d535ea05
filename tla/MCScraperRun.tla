---------------------------- MODULE MCScraperRun ----------------------------
(* Instances of ScraperRun. *)
EXTENDS ScraperRun
CONSTANT call
ACall == {call}

\* The faults the claim protocol survives; the others are discussed in the
\* README.
Survivable == {"queueFail", "writeFail", "outage", "refundFail", "loadFail", "runnerFail",
               "cleanFail", "edit", "delete", "erase", "webCrash", "workerDeath"}
=============================================================================
