------------------------- MODULE MCScheduledIngest -------------------------
(* Instances of ScheduledIngest. *)
EXTENDS ScheduledIngest
CONSTANTS hook, user
AHook == {hook}
AUser == {user}

\* Each fault of the code's environment that the claim protocol is meant to
\* survive; "overlap", "longRun", "staleDisable" and "claimFail" are discussed
\* in the README.
Survivable == {"queueFail", "writeFail", "cleanFail", "fetchFail", "statusFail",
               "webCrash", "edit", "badCron"}
=============================================================================
