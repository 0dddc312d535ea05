-------------------------- MODULE MCIngestReview --------------------------
(***************************************************************************)
(* Instances of IngestReview for TLC.                                      *)
(***************************************************************************)
EXTENDS IngestReview

CONSTANTS a, b

\* One sheet whose only review is about its schema, so that the error after it
\* leaves an unapproved schema behind, and one with a review in every other task;
\* either may still be in review when the other is validated.
Mixed == [j \in Jobs |-> IF j = a THEN {"schema-drift"}
                         ELSE {"quota-exceeded", "ambiguous-date-order",
                               "geocoding-partial", "high-row-errors"}]
=============================================================================
