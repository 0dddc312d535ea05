---------------------------- MODULE AtomicImport ----------------------------
(***************************************************************************)
(* What an import promises its dataset, whatever fails on the way: the     *)
(* content of the dataset changes only when a job commits, a commit writes *)
(* nothing but rows of that job, and it never removes an event.            *)
(***************************************************************************)
CONSTANTS Jobs, Keys, Rows, SeedKeys, Seed, NoJob

VARIABLES
    content,   \* which job's row each uniqueId shows, NoJob if there is none
    committed  \* the jobs whose import is final

Init ==
    /\ content = [k \in Keys |-> IF k \in SeedKeys THEN Seed ELSE NoJob]
    /\ committed = {}

\* Rows that were skipped, refused or in error are not applied.
Commit(j) ==
    /\ j \notin committed
    /\ \E applied \in SUBSET Rows[j] :
          content' = [k \in Keys |-> IF k \in applied THEN j ELSE content[k]]
    /\ committed' = committed \cup {j}

Next == \E j \in Jobs : Commit(j)

Spec == Init /\ [][Next]_<<content, committed>>

=============================================================================
