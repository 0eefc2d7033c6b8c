---------------------------- MODULE MCHdChannel -----------------------------
(* Instances of HdChannel for TLC.                                         *)
EXTENDS HdChannel

(* The premise of the safety results: fewer blocks than descriptors, so    *)
(* that the data area is full before the ring of descriptors is.           *)
ASSUME RingCoversArea == AreaBlocks < MaxEntries
=============================================================================
