------------------------------- MODULE Device -------------------------------
(* Vulkan bring-up: the constructor and destructor of vk::Device           *)
(* (src/vk/device.cpp).  The driver underneath is chosen once, in Init: it *)
(* says which calls will succeed and what the GPUs can do.  Bring-up reads *)
(* it one section of the constructor at a time and leaves a report; after  *)
(* that nothing looks at the driver again and the model forgets it.        *)
EXTENDS Integers, Sequences

CONSTANT
  Drivers     \* the drivers a host may have, records as DriverOK describes

(* A family index is a position in the GPU's list; 0 stands for ~0u.       *)
NoFamily == 0
NoReason == ""

VARIABLES
  driver,     \* the host's driver while bring-up runs, Forgotten after it
  stage,      \* the section of the constructor to run next, or "up", "down",
              \* and "gone" once destroyed
  chosen,     \* m_physical: position in driver.gpus, 0 when null
  report,     \* m_report
  wants,      \* wantMesh, wantPresent and haveSurfaceExts
  objects     \* m_instance, m_device and the queues fetched, those not null

deviceVars == <<driver, stage, chosen, report, wants, objects>>

Forgotten == [forgotten |-> TRUE]

Family == [compute : BOOLEAN, graphics : BOOLEAN, stamps : BOOLEAN]

Gpu == [discrete : BOOLEAN, api12 : BOOLEAN, mesh : BOOLEAN, meshFeature : BOOLEAN,
        swapchain : BOOLEAN, families : Seq(Family)]

(* What a driver is: the outcome of every call bring-up makes.             *)
DriverOK(d) ==
  /\ {d.disabled, d.runtime, d.createProc, d.surface, d.procs, d.enumerates,
      d.features2, d.tierDevice, d.plainDevice} \subseteq BOOLEAN
  /\ d.loader \in {"1.1", "1.0", "incompatible", "broken"}
  /\ d.gpus \in Seq(Gpu)

ASSUME DriversAssumption == \A d \in Drivers : DriverOK(d)

EmptyReport ==
  [available |-> FALSE, failureReason |-> NoReason, instanceApi |-> "none",
   discreteGpu |-> FALSE, timestamps |-> FALSE,
   computeQueueFamily |-> NoFamily, graphicsQueueFamily |-> NoFamily,
   meshPipelineReady |-> FALSE, meshExecBlocked |-> NoReason,
   presentReady |-> FALSE, presentBlocked |-> NoReason]

DeviceInit ==
  /\ driver \in Drivers
  /\ stage = "runtime"
  /\ chosen = 0
  /\ report = EmptyReport
  /\ wants = [mesh |-> FALSE, present |-> FALSE, surface |-> FALSE]
  /\ objects = {}

(* Return from the constructor, available or not. *)
Finish(s, r) ==
  /\ stage' = s
  /\ report' = r
  /\ driver' = Forgotten
  /\ wants' = [mesh |-> FALSE, present |-> FALSE, surface |-> FALSE]
  /\ chosen' = IF s = "up" THEN chosen ELSE 0

GiveUp(why) == Finish("down", [report EXCEPT !.failureReason = why]) /\ UNCHANGED objects

(* The environment switch, then the dynamic load, done once per process,   *)
(* and the one proc that is resolved without an instance.                  *)
LoadRuntime ==
  /\ stage = "runtime"
  /\ \/ driver.disabled /\ GiveUp("disabled by VOXEL2026_VK_DISABLE")
     \/ ~driver.disabled /\ ~driver.runtime /\ GiveUp("no Vulkan runtime")
     \/ ~driver.disabled /\ driver.runtime /\ ~driver.createProc
          /\ GiveUp("vkCreateInstance not resolvable")
     \/ /\ ~driver.disabled /\ driver.runtime /\ driver.createProc
        /\ stage' = "instance"
        /\ wants' = [wants EXCEPT !.surface = driver.surface]
        /\ UNCHANGED <<driver, chosen, report, objects>>

(* Mutant: no second attempt at API 1.0. *)
CreateInstanceOnce ==
  /\ stage = "instance"
  /\ \/ /\ driver.loader = "1.1"
        /\ report' = [report EXCEPT !.instanceApi = driver.loader]
        /\ objects' = {"instance"}
        /\ stage' = "physical"
        /\ UNCHANGED <<driver, chosen, wants>>
     \/ driver.loader # "1.1" /\ GiveUp("vkCreateInstance failed")

(* vkCreateInstance asks for 1.1 and, refused as incompatible, for 1.0.    *)
CreateInstance ==
  /\ stage = "instance"
  /\ \/ /\ driver.loader \in {"1.1", "1.0"}
        /\ report' = [report EXCEPT !.instanceApi = driver.loader]
        /\ objects' = {"instance"}
        /\ stage' = "physical"
        /\ UNCHANGED <<driver, chosen, wants>>
     \/ driver.loader = "incompatible" /\ GiveUp("incompatible driver")
     \/ driver.loader = "broken" /\ GiveUp("vkCreateInstance failed")

(* The loop over the devices: the first one, until a discrete one is seen. *)
BestGpu(gpus) ==
  IF \E i \in DOMAIN gpus : gpus[i].discrete
  THEN CHOOSE i \in DOMAIN gpus :
         gpus[i].discrete /\ \A j \in 1 .. (i - 1) : ~gpus[j].discrete
  ELSE 1

(* Instance-level procs, enumeration and choice of the physical device.    *)
PickPhysical ==
  /\ stage = "physical"
  /\ \/ ~driver.procs /\ GiveUp("core instance-level functions not resolvable")
     \/ driver.procs /\ driver.gpus = <<>> /\ GiveUp("no Vulkan physical devices")
     \/ driver.procs /\ driver.gpus # <<>> /\ ~driver.enumerates
          /\ GiveUp("physical device enumeration failed")
     \/ /\ driver.procs /\ driver.gpus # <<>> /\ driver.enumerates
        /\ LET i == BestGpu(driver.gpus) IN
             /\ chosen' = i
             /\ report' = [report EXCEPT !.discreteGpu = driver.gpus[i].discrete,
                                         !.timestamps = TRUE]
        /\ stage' = "families"
        /\ UNCHANGED <<driver, wants, objects>>

(* The first of the families that will do. *)
FirstFamily(able) ==
  IF able = {} THEN NoFamily ELSE CHOOSE i \in able : \A j \in able : i <= j

(* Queue families.  The timestamp period is zeroed when the chosen compute *)
(* family cannot write timestamps.                                         *)
PickFamilies ==
  /\ stage = "families"
  /\ LET fs == driver.gpus[chosen].families
         c  == FirstFamily({i \in DOMAIN fs : fs[i].compute})
         g  == FirstFamily({i \in DOMAIN fs : fs[i].graphics})
     IN  \/ c = NoFamily /\ GiveUp("no compute-capable queue family")
         \/ /\ c # NoFamily
            /\ report' = [report EXCEPT !.computeQueueFamily = c,
                                        !.graphicsQueueFamily = g,
                                        !.timestamps = @ /\ fs[c].stamps]
            /\ stage' = "gates"
            /\ UNCHANGED <<driver, chosen, wants, objects>>

(* The reason of the first gate that does not hold, of a list of pairs. *)
FirstBlocked(gates) ==
  IF \A i \in DOMAIN gates : gates[i][1] THEN NoReason
  ELSE gates[CHOOSE i \in DOMAIN gates :
               ~gates[i][1] /\ \A j \in 1 .. (i - 1) : gates[j][1]][2]

(* The preconditions of the mesh tier, in the order the code tries them.   *)
MeshGates(gpu) ==
  << <<report.instanceApi = "1.1",              "instance API < 1.1">>,
     <<gpu.api12,                               "device API < 1.2">>,
     <<gpu.mesh,                                "VK_EXT_mesh_shader not present">>,
     <<report.graphicsQueueFamily # NoFamily,   "no graphics-capable queue family">>,
     <<driver.features2,                        "features2 not resolvable">>,
     <<gpu.meshFeature,                         "meshShader feature not supported">> >>

(* And those of the presentation tier. *)
PresentGates(gpu) ==
  << <<wants.surface,                           "instance surface extensions unavailable">>,
     <<report.graphicsQueueFamily # NoFamily,   "no graphics-capable queue family">>,
     <<gpu.swapchain,                           "VK_KHR_swapchain not present">> >>

GateTiers ==
  /\ stage = "gates"
  /\ LET gpu == driver.gpus[chosen]
         mesh == FirstBlocked(MeshGates(gpu))
         present == FirstBlocked(PresentGates(gpu))
     IN  /\ report' = [report EXCEPT !.meshExecBlocked = mesh,
                                     !.presentBlocked = present]
         /\ wants' = [wants EXCEPT !.mesh = mesh = NoReason,
                                   !.present = present = NoReason]
  /\ stage' = "logical"
  /\ UNCHANGED <<driver, chosen, objects>>

TierFailed == "tier-enabled vkCreateDevice failed"

(* The queues of the logical device just made: compute, and graphics when  *)
(* a tier is ready.                                                        *)
FetchQueues(r) ==
  {"instance", "device", "queue"}
    \cup (IF r.meshPipelineReady \/ r.presentReady THEN {"graphicsQueue"} ELSE {})

(* Logical device: with the tiers wanted; when that fails, or none is      *)
(* wanted, the plain compute device.                                       *)
CreateLogical ==
  /\ stage = "logical"
  /\ LET want  == wants.mesh \/ wants.present
         tiered == [report EXCEPT !.meshPipelineReady = wants.mesh,
                                  !.presentReady = wants.present,
                                  !.available = TRUE]
         fallen == IF want
                   THEN [report EXCEPT
                           !.meshExecBlocked = IF wants.mesh THEN TierFailed ELSE @,
                           !.presentBlocked = TierFailed]
                   ELSE report
         plain  == [fallen EXCEPT !.available = TRUE]
     IN  \/ /\ want /\ driver.tierDevice
            /\ Finish("up", tiered)
            /\ objects' = FetchQueues(tiered)
         \/ /\ ~(want /\ driver.tierDevice) /\ driver.plainDevice
            /\ Finish("up", plain)
            /\ objects' = FetchQueues(plain)
         \/ /\ ~(want /\ driver.tierDevice) /\ ~driver.plainDevice
            /\ Finish("down", [fallen EXCEPT !.failureReason = "vkCreateDevice failed"])
            /\ UNCHANGED objects

(* ~Device: the logical device, then the instance. *)
DestroyDevice ==
  /\ stage \in {"up", "down"}
  /\ stage' = "gone"
  /\ objects' = {}
  /\ report' = EmptyReport
  /\ chosen' = 0
  /\ UNCHANGED <<driver, wants>>

BringUp ==
  \/ LoadRuntime \/ CreateInstance \/ PickPhysical \/ PickFamilies
  \/ GateTiers \/ CreateLogical

-----------------------------------------------------------------------------
(* What a driver must give for the compute path alone. *)
ComputeCapable(d) ==
  /\ ~d.disabled /\ d.runtime /\ d.createProc /\ d.procs /\ d.plainDevice
  /\ d.loader \in {"1.1", "1.0"}
  /\ d.gpus # <<>> /\ d.enumerates
  /\ LET fs == d.gpus[BestGpu(d.gpus)].families
     IN  \E i \in DOMAIN fs : fs[i].compute

(* "The compute path must never regress because a graphics tier was        *)
(* attempted" (device.cpp:326-330): bring-up that ends unavailable ends so *)
(* because the compute path itself cannot be had, whatever the loader, the *)
(* gates and the tier-enabled vkCreateDevice did on the way; and it never  *)
(* ends unavailable without a reason.                                      *)
ComputeNeverRegresses ==
  [][(stage # "down" /\ stage' = "down") =>
       ~ComputeCapable(driver) /\ report'.failureReason # NoReason]_deviceVars
=============================================================================
