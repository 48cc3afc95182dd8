------------------------------ MODULE MCOneShot -----------------------------
(* A small instance of OneShot.                                            *)
EXTENDS OneShot

Plain(c, g, s) == [compute |-> c, graphics |-> g, stamps |-> s]

GoodGpu ==
  [discrete |-> TRUE, api12 |-> TRUE, mesh |-> TRUE, meshFeature |-> TRUE,
   swapchain |-> TRUE, families |-> <<Plain(TRUE, TRUE, TRUE)>>]

GoodDriver ==
  [disabled |-> FALSE, runtime |-> TRUE, createProc |-> TRUE, surface |-> TRUE,
   procs |-> TRUE, enumerates |-> TRUE, features2 |-> TRUE, tierDevice |-> TRUE,
   plainDevice |-> TRUE, loader |-> "1.1", gpus |-> <<GoodGpu>>]

(* A GPU that is worse in one respect, or laid out differently.            *)
MCGpus ==
  {GoodGpu} \cup
  {[GoodGpu EXCEPT !.api12 = FALSE], [GoodGpu EXCEPT !.mesh = FALSE],
   [GoodGpu EXCEPT !.meshFeature = FALSE], [GoodGpu EXCEPT !.swapchain = FALSE]} \cup
  {[GoodGpu EXCEPT !.families = f] :
     f \in {<<>>, <<Plain(FALSE, TRUE, TRUE)>>, <<Plain(TRUE, FALSE, FALSE)>>,
            <<Plain(FALSE, TRUE, TRUE), Plain(TRUE, FALSE, FALSE)>>}}

OldGpu == [GoodGpu EXCEPT !.discrete = FALSE, !.mesh = FALSE, !.swapchain = FALSE]

MCGpuLists == {<<>>, <<OldGpu, GoodGpu>>} \cup {<<g>> : g \in MCGpus}

(* Drivers with one fault, over every list of GPUs; and those whose tiered *)
(* device fails, with or without a plain one.                              *)
Faults ==
  {GoodDriver, [GoodDriver EXCEPT !.tierDevice = FALSE],
   [GoodDriver EXCEPT !.tierDevice = FALSE, !.plainDevice = FALSE],
   [GoodDriver EXCEPT !.surface = FALSE],
   [GoodDriver EXCEPT !.surface = FALSE, !.tierDevice = FALSE],
   [GoodDriver EXCEPT !.features2 = FALSE],
   [GoodDriver EXCEPT !.loader = "1.0"]}

MCDrivers ==
  {[d EXCEPT !.gpus = l] : d \in Faults, l \in MCGpuLists} \cup
  {[GoodDriver EXCEPT !.disabled = TRUE], [GoodDriver EXCEPT !.runtime = FALSE],
   [GoodDriver EXCEPT !.createProc = FALSE], [GoodDriver EXCEPT !.procs = FALSE],
   [GoodDriver EXCEPT !.enumerates = FALSE],
   [GoodDriver EXCEPT !.loader = "incompatible"], [GoodDriver EXCEPT !.loader = "broken"]}

Vct == [prog |-> "vct", extent |-> 8, sceneSize |-> 512, width |-> 4, height |-> 2,
        iterations |-> 1, readback |-> TRUE]

(* The parameters of tests/test_rc.cpp: three cascades.                    *)
Rc == [prog |-> "rc", extent |-> 32, sceneSize |-> 32768, width |-> 64, height |-> 64,
       iterations |-> 1, readback |-> TRUE, spacing |-> 4, octa |-> 4, r0 |-> 4, scale |-> 4]

MCRequests ==
  {[prog |-> "parity"],
   [prog |-> "mesh", width |-> 2, height |-> 1], [prog |-> "mesh", width |-> 3, height |-> 1],
   [prog |-> "view", width |-> 2, height |-> 1, geometry |-> TRUE],
   [prog |-> "view", width |-> 2, height |-> 1, geometry |-> FALSE],
   [prog |-> "view", width |-> 0, height |-> 1, geometry |-> TRUE],
   Vct, [Vct EXCEPT !.readback = FALSE, !.iterations = 0], [Vct EXCEPT !.sceneSize = 1],
   Rc, [Rc EXCEPT !.spacing = 16, !.octa = 8], [Rc EXCEPT !.spacing = 3], [Rc EXCEPT !.octa = 1],
   [Rc EXCEPT !.scale = 1], [Rc EXCEPT !.iterations = 0], [Rc EXCEPT !.octa = 256]}
=============================================================================
