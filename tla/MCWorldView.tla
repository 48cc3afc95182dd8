---------------------------- MODULE MCWorldView -----------------------------
(* A visited world of one layer: every chunk is in the store. *)
EXTENDS WorldView

MCContent == Int \X Int \X Int
MCGenerate(k) == k
VisitedStores ==
  {[k \in (-1..4) \X {0} \X (-1..1) |-> [sealed |-> TRUE, cells |-> k]]}
LineCenters == {<<0, 0>>, <<1, 0>>, <<3, 0>>}
FirstColumn == <<1, 0>>
Origin      == <<0, 0>>
=============================================================================
