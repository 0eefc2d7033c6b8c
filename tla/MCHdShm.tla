------------------------------ MODULE MCHdShm ------------------------------
(* The instance of HdShm that TLC checks. *)
EXTENDS HdShm, TLC

\* Beyond the first time the lock lets two processes in, the safety properties
\* say nothing: the search stops there.
Apart == ~raced

\* The processes of a side are alike, and so are the areas of a kind (used
\* where only safety is checked).
Alike == Permutations(Host) \cup Permutations(Hd) \cup Permutations(Ids \ DmaIds)

=============================================================================
