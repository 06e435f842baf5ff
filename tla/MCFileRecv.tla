------------------------------ MODULE MCFileRecv ------------------------------
(* Two requests, each for one frame, and a concurrent set of a leaf and a   *)
(* sequence.  SameFrame: the second request repeats the first.              *)
EXTENDS FileRecv

MCKids == [top |-> <<"a", "seq">>, seq |-> <<"b", "c">>, set1 |-> <<"save1">>, set2 |-> <<"save2">>]
MCGroups == [recv1 |-> <<"set1">>, recv2 |-> <<"set2">>]
SameFrame == [save1 |-> "frame1", save2 |-> "frame1"]
TwoFrameIds == [save1 |-> "frame1", save2 |-> "frame2"]
=============================================================================
