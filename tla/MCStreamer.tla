----------------------------- MODULE MCStreamer -----------------------------
(* Small worlds for Streamer.  A chunk's content is its key and the way it *)
(* came about, so that no two chunks are ever confused.                    *)
EXTENDS Streamer

MCContent == Int \X Int \X Int \X {"generated", "edited"}
MCGenerate(k) == <<k[1], k[2], k[3], "generated">>

Edited(k)  == [sealed |-> TRUE,  cells |-> <<k[1], k[2], k[3], "edited">>]
Written(k) == [sealed |-> TRUE,  cells |-> MCGenerate(k)]
Corrupt(k) == [sealed |-> FALSE, cells |-> <<k[1], k[2], k[3], "edited">>]

(* Chunks of the first window's edge and of the second window only. *)
EdgeKeys == {<<1, 0, 0>>, <<2, 0, 0>>}

(* Each edge key absent, edited or corrupt. *)
EditedStores ==
  UNION {{[k \in ks |-> IF k \in es THEN Edited(k) ELSE Corrupt(k)]
            : es \in SUBSET ks} : ks \in SUBSET EdgeKeys}

(* A two-layer world seen before, but for two chunks. *)
BandStores ==
  {[k \in (-1..3) \X (0..1) \X (-1..2) \ {<<-1, 0, 0>>, <<1, 1, 0>>} |-> Written(k)]}

LineCenters == {<<0, 0>>, <<1, 0>>}
FarCenters  == {<<0, 0>>, <<1, 0>>, <<2, 1>>}
JumpCenters == {<<0, 0>>, <<1, 0>>, <<3, 1>>}
=============================================================================
