------------------------- MODULE MCStreamerParallel -------------------------
EXTENDS StreamerParallel, TLC

MCContent == Int \X Int \X Int \X {"generated"}
MCGenerate(k) == <<k[1], k[2], k[3], "generated">>
(* The world has been visited before: all but one chunk are in the store. *)
VisitedStores ==
  {[k \in (-1..2) \X {0} \X (-1..1) \ {<<2, 0, 0>>} |-> [sealed |-> TRUE, cells |-> MCGenerate(k)]]}
LineCenters == {<<0, 0>>, <<1, 0>>}
ThreadSymmetry == Permutations(Threads)
=============================================================================
