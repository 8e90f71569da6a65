-------------------------- MODULE MCNotebookStore ---------------------------
(***************************************************************************)
(* NotebookStore and NotebookSerial for TLC: constants from the cfg, and   *)
(* the symmetries.                                                         *)
(***************************************************************************)
EXTENDS NotebookSerial, TLC

\* Slots, titles and users are interchangeable.  Only for the runs that check
\* no liveness property.
Symmetry == Permutations(Requests) \cup Permutations(Titles)
                \cup Permutations(Users)

=============================================================================
