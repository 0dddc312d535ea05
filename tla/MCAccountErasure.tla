-------------------------- MODULE MCAccountErasure --------------------------
(* Instances of AccountErasure. *)
EXTENDS AccountErasure
CONSTANTS u1, u2, e1, e2

\* Both exports are u1's.
OneOwner == [e \in Exports |-> u1]

\* The faults the protocol survives; the others are discussed in the README.
Survivable == {"queueFail", "archiveFail", "readyFail", "writeFail", "unlinkFail",
               "eraseFail", "webCrash", "workerDeath"}
=============================================================================
