--------------------------- MODULE OneShotProofs ----------------------------
(* Proofs about OneShot and the Device it runs on: for every driver and    *)
(* every set of requests.                                                  *)
EXTENDS OneShot, FiniteSetTheorems, SequenceTheorems, WellFoundedInduction, TLAPS

-----------------------------------------------------------------------------
(* Bring-up.  Each section of the constructor has passed what the compute  *)
(* path needs so far, and the report claims only what is there.            *)
Fields == DOMAIN EmptyReport

Sections == {"runtime", "instance", "physical", "families", "gates", "logical"}

HasCompute(d) ==
  LET fs == d.gpus[BestGpu(d.gpus)].families IN \E i \in DOMAIN fs : fs[i].compute

Passed ==
  /\ driver \in Drivers
  /\ stage # "runtime" => ~driver.disabled /\ driver.runtime /\ driver.createProc
  /\ stage \notin {"runtime", "instance"} => driver.loader \in {"1.1", "1.0"}
  /\ stage \in {"families", "gates", "logical"} =>
       driver.procs /\ driver.gpus # <<>> /\ driver.enumerates /\ chosen = BestGpu(driver.gpus)
  /\ stage \in {"gates", "logical"} => HasCompute(driver)

Backed ==
  /\ report.available => {"device", "queue"} \subseteq objects
  /\ report.meshPipelineReady \/ report.presentReady => "graphicsQueue" \in objects

DeviceInv ==
  /\ stage \in Sections \cup {"up", "down", "gone"}
  /\ DOMAIN report = Fields /\ Backed
  /\ stage \in Sections =>
       Passed /\ ~report.available /\ ~report.meshPipelineReady /\ ~report.presentReady

LEMMA LeastOf ==
  ASSUME NEW T, T \subseteq Nat, T # {}
  PROVE  \E x \in T : \A y \in T : x <= y
<1>. DEFINE R == OpToRel(<, Nat)
<1>1. IsWellFoundedOn(R, Nat)
  BY NatLessThanWellFounded
<1>2. \A x, y \in Nat : <<y, x>> \in R <=> y < x
  BY DEF OpToRel
<1>. HIDE DEF R
<1>3. PICK x \in T : \A y \in T : ~ (<<y, x>> \in R)
  BY <1>1, WFMin
<1>4. \A y \in T : ~ (y < x) /\ x \in Nat /\ y \in Nat
  BY <1>2, <1>3
<1>. QED BY <1>3, <1>4

LEMMA BestGpuIsOne ==
  ASSUME NEW gpus \in Seq(Gpu), gpus # <<>>
  PROVE  BestGpu(gpus) \in DOMAIN gpus
<1>1. Len(gpus) \in Nat /\ DOMAIN gpus = 1 .. Len(gpus) /\ Len(gpus) >= 1
  OBVIOUS
<1>2. CASE \E i \in DOMAIN gpus : gpus[i].discrete
  <2>. DEFINE T == {i \in DOMAIN gpus : gpus[i].discrete}
  <2>1. PICK i \in T : \A j \in T : i <= j
    <3>1. T \subseteq Nat /\ T # {}
      BY <1>1, <1>2
    <3>. HIDE DEF T
    <3>. QED BY <3>1, LeastOf
  <2>2. \A j \in 1 .. (i - 1) : ~gpus[j].discrete
    BY <1>1, <2>1
  <2>. QED BY <1>2, <2>1, <2>2 DEF BestGpu
<1>3. CASE ~ \E i \in DOMAIN gpus : gpus[i].discrete
  BY <1>1, <1>3 DEF BestGpu
<1>. QED BY <1>2, <1>3

LEMMA FirstIsAFamily ==
  ASSUME NEW able, able \subseteq Nat \ {0}
  PROVE  FirstFamily(able) # NoFamily <=> able # {}
<1>1. ASSUME able # {} PROVE FirstFamily(able) \in able
  <2>1. \E i \in able : \A j \in able : i <= j
    BY <1>1, LeastOf
  <2>. QED BY <1>1, <2>1 DEF FirstFamily
<1>. QED BY <1>1 DEF FirstFamily, NoFamily

LEMMA FieldsAre ==
  Fields = {"available", "failureReason", "instanceApi", "discreteGpu", "timestamps",
            "computeQueueFamily", "graphicsQueueFamily", "meshPipelineReady", "meshExecBlocked",
            "presentReady", "presentBlocked"}
BY DEF Fields, EmptyReport

(* A constructor that gives up claims nothing and says why.                *)
LEMMA GivingUp ==
  ASSUME DeviceInv, stage \in Sections, NEW why, GiveUp(why)
  PROVE  DeviceInv' /\ stage' = "down" /\ report'.failureReason = why
<1>1. /\ report' = [report EXCEPT !.failureReason = why] /\ stage' = "down" /\ objects' = objects
  BY DEF GiveUp, Finish
<1>2. /\ DOMAIN report' = Fields /\ report'.failureReason = why
      /\ report'.available = report.available
      /\ report'.meshPipelineReady = report.meshPipelineReady
      /\ report'.presentReady = report.presentReady
  BY <1>1, FieldsAre DEF DeviceInv
<1>. QED BY <1>1, <1>2 DEF DeviceInv, Backed, Sections

(* A section that goes on to the next and only notes what it found.        *)
LEMMA GoingOn ==
  ASSUME DeviceInv, stage \in Sections, stage' \in Sections, Passed',
         DOMAIN report' = Fields, report'.available = report.available,
         report'.meshPipelineReady = report.meshPipelineReady,
         report'.presentReady = report.presentReady
  PROVE  DeviceInv'
BY DEF DeviceInv, Backed

(* What a step of the constructor does to the promise.                     *)
Promise == stage' = "down" => ~ComputeCapable(driver) /\ report'.failureReason # NoReason

LEMMA LoadRuntimeStep ==
  ASSUME DeviceInv, LoadRuntime
  PROVE  DeviceInv' /\ Promise
<1>1. stage = "runtime" /\ stage \in Sections
  BY DEF LoadRuntime, Sections
<1>2. ASSUME NEW why, why # NoReason, GiveUp(why), ~ComputeCapable(driver)
      PROVE  DeviceInv' /\ Promise
  BY <1>1, <1>2, GivingUp DEF Promise
<1>3. CASE driver.disabled /\ GiveUp("disabled by VOXEL2026_VK_DISABLE")
  <2>1. ~ComputeCapable(driver)
    BY <1>1, <1>3 DEF ComputeCapable
  <2>2. "disabled by VOXEL2026_VK_DISABLE" # NoReason
    BY DEF NoReason
  <2>. QED BY <1>2, <1>3, <2>1, <2>2
<1>4. CASE ~driver.runtime /\ GiveUp("no Vulkan runtime")
  <2>1. ~ComputeCapable(driver)
    BY <1>1, <1>4 DEF ComputeCapable
  <2>2. "no Vulkan runtime" # NoReason
    BY DEF NoReason
  <2>. QED BY <1>2, <1>4, <2>1, <2>2
<1>5. CASE ~driver.createProc /\ GiveUp("vkCreateInstance not resolvable")
  <2>1. ~ComputeCapable(driver)
    BY <1>1, <1>5 DEF ComputeCapable
  <2>2. "vkCreateInstance not resolvable" # NoReason
    BY DEF NoReason
  <2>. QED BY <1>2, <1>5, <2>1, <2>2
<1>6. CASE /\ ~driver.disabled /\ driver.runtime /\ driver.createProc
           /\ stage' = "instance" /\ UNCHANGED <<driver, chosen, report, objects>>
  <2>1. Passed' /\ stage' \in Sections /\ stage' # "down"
    BY <1>1, <1>6 DEF Passed, Sections, DeviceInv
  <2>. QED BY <1>1, <1>6, <2>1, GoingOn DEF Promise, DeviceInv
<1>. QED BY <1>3, <1>4, <1>5, <1>6 DEF LoadRuntime

LEMMA CreateInstanceStep ==
  ASSUME DeviceInv, CreateInstance
  PROVE  DeviceInv' /\ Promise
<1>1. stage = "instance" /\ stage \in Sections
  BY DEF CreateInstance, Sections
<1>2. ASSUME NEW why, why # NoReason, GiveUp(why), ~ComputeCapable(driver)
      PROVE  DeviceInv' /\ Promise
  BY <1>1, <1>2, GivingUp DEF Promise
<1>3. CASE driver.loader = "incompatible" /\ GiveUp("incompatible driver")
  <2>1. ~ComputeCapable(driver)
    BY <1>1, <1>3 DEF ComputeCapable
  <2>2. "incompatible driver" # NoReason
    BY DEF NoReason
  <2>. QED BY <1>2, <1>3, <2>1, <2>2
<1>4. CASE driver.loader = "broken" /\ GiveUp("vkCreateInstance failed")
  <2>1. ~ComputeCapable(driver)
    BY <1>1, <1>4 DEF ComputeCapable
  <2>2. "vkCreateInstance failed" # NoReason
    BY DEF NoReason
  <2>. QED BY <1>2, <1>4, <2>1, <2>2
<1>5. CASE /\ driver.loader \in {"1.1", "1.0"} /\ report' = [report EXCEPT !.instanceApi = driver.loader]
           /\ stage' = "physical" /\ UNCHANGED <<driver, chosen, wants>>
  <2>1. Passed' /\ stage' \in Sections /\ stage' # "down"
    BY <1>1, <1>5 DEF Passed, Sections, DeviceInv
  <2>2. /\ DOMAIN report' = Fields /\ report'.available = report.available
        /\ report'.meshPipelineReady = report.meshPipelineReady
        /\ report'.presentReady = report.presentReady
    BY <1>5, FieldsAre DEF DeviceInv
  <2>. QED BY <1>1, <2>1, <2>2, GoingOn DEF Promise
<1>. QED BY <1>3, <1>4, <1>5 DEF CreateInstance

LEMMA PickPhysicalStep ==
  ASSUME DeviceInv, PickPhysical
  PROVE  DeviceInv' /\ Promise
<1>1. stage = "physical" /\ stage \in Sections
  BY DEF PickPhysical, Sections
<1>2. ASSUME NEW why, why # NoReason, GiveUp(why), ~ComputeCapable(driver)
      PROVE  DeviceInv' /\ Promise
  BY <1>1, <1>2, GivingUp DEF Promise
<1>3. CASE ~driver.procs /\ GiveUp("core instance-level functions not resolvable")
  <2>1. ~ComputeCapable(driver)
    BY <1>1, <1>3 DEF ComputeCapable
  <2>2. "core instance-level functions not resolvable" # NoReason
    BY DEF NoReason
  <2>. QED BY <1>2, <1>3, <2>1, <2>2
<1>4. CASE driver.gpus = <<>> /\ GiveUp("no Vulkan physical devices")
  <2>1. ~ComputeCapable(driver)
    BY <1>1, <1>4 DEF ComputeCapable
  <2>2. "no Vulkan physical devices" # NoReason
    BY DEF NoReason
  <2>. QED BY <1>2, <1>4, <2>1, <2>2
<1>5. CASE ~driver.enumerates /\ GiveUp("physical device enumeration failed")
  <2>1. ~ComputeCapable(driver)
    BY <1>1, <1>5 DEF ComputeCapable
  <2>2. "physical device enumeration failed" # NoReason
    BY DEF NoReason
  <2>. QED BY <1>2, <1>5, <2>1, <2>2
<1>6. CASE /\ driver.procs /\ driver.gpus # <<>> /\ driver.enumerates
           /\ chosen' = BestGpu(driver.gpus)
           /\ report' = [report EXCEPT !.discreteGpu = driver.gpus[BestGpu(driver.gpus)].discrete,
                                       !.timestamps = TRUE]
           /\ stage' = "families" /\ UNCHANGED <<driver, wants, objects>>
  <2>1. Passed' /\ stage' \in Sections /\ stage' # "down"
    BY <1>1, <1>6 DEF Passed, Sections, DeviceInv
  <2>2. /\ DOMAIN report' = Fields /\ report'.available = report.available
        /\ report'.meshPipelineReady = report.meshPipelineReady
        /\ report'.presentReady = report.presentReady
    BY <1>6, FieldsAre DEF DeviceInv
  <2>. QED BY <1>1, <2>1, <2>2, GoingOn DEF Promise
<1>. QED BY <1>3, <1>4, <1>5, <1>6 DEF PickPhysical

LEMMA PickFamiliesStep ==
  ASSUME DeviceInv, PickFamilies
  PROVE  DeviceInv' /\ Promise
<1>1. stage = "families" /\ stage \in Sections
  BY DEF PickFamilies, Sections
<1>2. ASSUME NEW why, why # NoReason, GiveUp(why), ~ComputeCapable(driver)
      PROVE  DeviceInv' /\ Promise
  BY <1>1, <1>2, GivingUp DEF Promise
<1>. DEFINE fs == driver.gpus[chosen].families
            able == {i \in DOMAIN fs : fs[i].compute}
            c == FirstFamily(able)
            g == FirstFamily({i \in DOMAIN fs : fs[i].graphics})
<1>3. chosen = BestGpu(driver.gpus)
  BY <1>1 DEF DeviceInv, Passed
<1>4. HasCompute(driver) <=> able # {}
  BY <1>3 DEF HasCompute
<1>5. CASE able = {} /\ GiveUp("no compute-capable queue family")
  <2>1. ~ComputeCapable(driver)
    BY <1>4, <1>5 DEF ComputeCapable, HasCompute
  <2>2. "no compute-capable queue family" # NoReason
    BY DEF NoReason
  <2>. QED BY <1>2, <1>5, <2>1, <2>2
<1>6. CASE /\ able # {}
           /\ report' = [report EXCEPT !.computeQueueFamily = c, !.graphicsQueueFamily = g,
                                       !.timestamps = @ /\ fs[c].stamps]
           /\ stage' = "gates" /\ UNCHANGED <<driver, chosen, wants, objects>>
  <2>1. Passed' /\ stage' \in Sections /\ stage' # "down"
    BY <1>1, <1>4, <1>6 DEF Passed, Sections, DeviceInv, HasCompute
  <2>2. /\ DOMAIN report' = Fields /\ report'.available = report.available
        /\ report'.meshPipelineReady = report.meshPipelineReady
        /\ report'.presentReady = report.presentReady
    BY <1>6, FieldsAre DEF DeviceInv
  <2>. QED BY <1>1, <2>1, <2>2, GoingOn DEF Promise
<1>7. c # NoFamily <=> able # {}
  <2>1. /\ driver \in Drivers /\ driver.gpus # <<>>
    BY <1>1 DEF DeviceInv, Passed
  <2>2. driver.gpus \in Seq(Gpu)
    BY <2>1, DriversAssumption DEF DriverOK
  <2>3. fs \in Seq(Family)
    <3>1. chosen \in DOMAIN driver.gpus
      BY <1>3, <2>1, <2>2, BestGpuIsOne
    <3>2. driver.gpus[chosen] \in Gpu
      BY <2>2, <3>1
    <3>. QED BY <3>2 DEF Gpu
  <2>4. able \subseteq Nat \ {0}
    <3>. HIDE DEF fs
    <3>. QED BY <2>3
  <2>. HIDE DEF able
  <2>. QED BY <2>4, FirstIsAFamily
<1>. HIDE DEF c, able
<1>8. \/ c = NoFamily /\ GiveUp("no compute-capable queue family")
      \/ /\ c # NoFamily
         /\ report' = [report EXCEPT !.computeQueueFamily = c, !.graphicsQueueFamily = g,
                                     !.timestamps = @ /\ fs[c].stamps]
         /\ stage' = "gates" /\ UNCHANGED <<driver, chosen, wants, objects>>
  BY DEF PickFamilies, c, able
<1>. QED BY <1>5, <1>6, <1>7, <1>8

LEMMA GateTiersStep ==
  ASSUME DeviceInv, GateTiers
  PROVE  DeviceInv' /\ Promise
<1>1. stage = "gates" /\ stage \in Sections /\ stage' = "logical" /\ stage' \in Sections
      /\ UNCHANGED <<driver, chosen, objects>>
  BY DEF GateTiers, Sections
<1>2. PICK mesh, present :
        report' = [report EXCEPT !.meshExecBlocked = mesh, !.presentBlocked = present]
  BY DEF GateTiers
<1>3. /\ DOMAIN report' = Fields /\ report'.available = report.available
      /\ report'.meshPipelineReady = report.meshPipelineReady
      /\ report'.presentReady = report.presentReady
  BY <1>2, FieldsAre DEF DeviceInv
<1>4. Passed'
  BY <1>1 DEF Passed, DeviceInv
<1>. QED BY <1>1, <1>3, <1>4, GoingOn DEF Promise

(* The tiers are tried, or the plain device is what is left: only when it  *)
(* fails as well is the device unavailable.                                *)
LEMMA CreateLogicalStep ==
  ASSUME DeviceInv, CreateLogical
  PROVE  DeviceInv' /\ Promise
<1>. DEFINE want == wants.mesh \/ wants.present
            tiered == [report EXCEPT !.meshPipelineReady = wants.mesh,
                                     !.presentReady = wants.present, !.available = TRUE]
            why == IF wants.mesh THEN TierFailed ELSE report.meshExecBlocked
            fallen == IF want THEN [report EXCEPT !.meshExecBlocked = why, !.presentBlocked = TierFailed]
                      ELSE report
            plain == [fallen EXCEPT !.available = TRUE]
            failed == [fallen EXCEPT !.failureReason = "vkCreateDevice failed"]
<1>1. /\ stage = "logical" /\ DOMAIN report = Fields /\ Backed
      /\ ~report.available /\ ~report.meshPipelineReady /\ ~report.presentReady
  BY DEF CreateLogical, DeviceInv, Sections
<1>2. /\ DOMAIN fallen = Fields /\ ~fallen.available
      /\ ~fallen.meshPipelineReady /\ ~fallen.presentReady
  <2>1. CASE want
    <3>1. fallen = [report EXCEPT !.meshExecBlocked = why, !.presentBlocked = TierFailed]
      BY <2>1
    <3>. HIDE DEF why, fallen
    <3>. QED BY <1>1, <3>1, FieldsAre
  <2>2. CASE ~want
    BY <1>1, <2>2
  <2>. QED BY <2>1, <2>2
<1>3. \/ stage' = "up" /\ report' = tiered /\ objects' = FetchQueues(tiered)
      \/ stage' = "up" /\ report' = plain /\ objects' = FetchQueues(plain)
      \/ /\ ~driver.plainDevice /\ stage' = "down" /\ report' = failed /\ objects' = objects
  BY DEF CreateLogical, Finish
<1>4. DOMAIN tiered = Fields
  BY <1>1, FieldsAre
<1>. HIDE DEF fallen, want
<1>5. DOMAIN plain = Fields
  BY <1>2, FieldsAre
<1>6. /\ DOMAIN failed = Fields /\ ~failed.available /\ ~failed.meshPipelineReady
      /\ ~failed.presentReady /\ failed.failureReason = "vkCreateDevice failed"
  BY <1>2, FieldsAre
<1>. HIDE DEF tiered, plain, failed
<1>7. ASSUME NEW r, stage' = "up", report' = r, objects' = FetchQueues(r), DOMAIN r = Fields
      PROVE  DeviceInv' /\ Promise
  BY <1>7 DEF DeviceInv, Sections, Promise, Backed, FetchQueues
<1>8. CASE ~driver.plainDevice /\ stage' = "down" /\ report' = failed
  <2>1. DeviceInv'
    BY <1>6, <1>8 DEF DeviceInv, Sections, Backed
  <2>2. "vkCreateDevice failed" # NoReason
    BY DEF NoReason
  <2>. QED BY <1>6, <1>8, <2>1, <2>2 DEF Promise, ComputeCapable
<1>. QED BY <1>3, <1>4, <1>5, <1>7, <1>8

LEMMA DeviceInit0 == DeviceInit => DeviceInv
BY FieldsAre DEF DeviceInit, DeviceInv, Backed, Passed, Sections, EmptyReport, Fields

LEMMA BringUpSteps ==
  ASSUME DeviceInv, BringUp
  PROVE  DeviceInv' /\ Promise /\ stage \in Sections
<1>1. DeviceInv' /\ Promise
  BY LoadRuntimeStep, CreateInstanceStep, PickPhysicalStep, PickFamiliesStep, GateTiersStep,
     CreateLogicalStep DEF BringUp
<1>2. stage \in Sections
  BY DEF BringUp, LoadRuntime, CreateInstance, PickPhysical, PickFamilies, GateTiers,
         CreateLogical, Sections
<1>. QED BY <1>1, <1>2

LEMMA DestroyStep ==
  ASSUME DeviceInv, DestroyDevice
  PROVE  DeviceInv' /\ stage' = "gone"
BY FieldsAre DEF DestroyDevice, DeviceInv, Backed, Sections, EmptyReport, Fields

LEMMA DeviceSteps ==
  ASSUME DeviceInv, [Next]_vars
  PROVE  DeviceInv' /\ (BringUp \/ DestroyDevice \/ UNCHANGED deviceVars)
<1>1. CASE BringUpStep
  BY <1>1, BringUpSteps DEF BringUpStep
<1>2. CASE Shutdown
  BY <1>2, DestroyStep DEF Shutdown
<1>3. ASSUME UNCHANGED deviceVars PROVE DeviceInv'
  BY <1>3 DEF DeviceInv, deviceVars, Backed, Passed
<1>4. BringUpStep \/ Shutdown \/ UNCHANGED deviceVars
  BY DEF Next, vars, Gone, Begin, TakeGate, Succeed, CallFails, Submit, Retire, RetireOrphan,
         Lose, Wait, WaitFails, ReadResult, Call, Return
<1>. QED BY <1>1, <1>2, <1>3, <1>4 DEF BringUpStep, Shutdown

LEMMA DeviceInvHolds == Spec => []DeviceInv
<1>1. Init => DeviceInv
  BY DeviceInit0 DEF Init
<1>2. DeviceInv /\ [Next]_vars => DeviceInv'
  BY DeviceSteps
<1>. QED BY <1>1, <1>2, PTL DEF Spec

(* Bring-up ends unavailable only when the compute path itself cannot be   *)
(* had, and then it says why (device.cpp:85-394): for every driver, and    *)
(* whatever the loader, the gates and the tiered vkCreateDevice did.       *)
THEOREM ComputeIsKept == Spec => ComputeNeverRegresses
<1>. DEFINE Kept == (stage # "down" /\ stage' = "down") =>
                      ~ComputeCapable(driver) /\ report'.failureReason # NoReason
<1>1. ASSUME DeviceInv, [Next]_vars PROVE Kept \/ UNCHANGED deviceVars
  <2>1. CASE BringUp
    BY <1>1, <2>1, BringUpSteps DEF Promise
  <2>2. CASE DestroyDevice
    BY <2>2 DEF DestroyDevice
  <2>. QED BY <1>1, <2>1, <2>2, DeviceSteps
<1>2. DeviceInv /\ [Next]_vars => [Kept]_deviceVars
  BY <1>1
<1>. QED BY <1>2, DeviceInvHolds, PTL DEF Spec, ComputeNeverRegresses

-----------------------------------------------------------------------------
(* Scripts.  A place in a script is what the program surely has when it    *)
(* gets there, what is left in the descriptor pool and whether a           *)
(* submission is due to be waited for.  Legal says that a step may be      *)
(* taken at a place and leads to the next; O is what the program's         *)
(* destructor frees.  A call of renderWorldViewInto that came to its end    *)
(* has passed the gate of the graphics tiers.                              *)
Place(A, P, w) == [has |-> A, pool |-> P, due |-> w]

Counts == {"sets", "buffer", "image", "sampled", "sampler"}
Pools == [Counts -> Nat]

(* What passing a gate shows of the device. *)
Granted(need) ==
  IF need = "available" THEN {<<"device", "device">>, Compute}
  ELSE IF need \in {"mesh", "graphics"} THEN {Graphics} ELSE {}

Frees(O) == O \cup {Mapped(h[2]) : h \in {m \in O : m[1] = "memory"}}

(* What renderWorldViewInto is given: the caller's image and its view. *)
Target == {View("target"), Img("target")}

Moves(x, g, h, O) ==
  \/ /\ x.op \in {"try", "do"} /\ g.due = 0 /\ h.due = 0
     /\ h.has \subseteq (g.has \ x.gone) \cup x.made
  \/ /\ x.op = "gate" /\ g.due = 0 /\ h.due = 0 /\ h.pool = g.pool
     /\ h.has \subseteq g.has \cup Granted(x.need)
  \/ x.op = "submit" /\ g.due = 0 /\ h.due = 1 /\ h.pool = g.pool /\ h.has \subseteq g.has
  \/ x.op = "wait" /\ g.due = 1 /\ h.due = 0 /\ h.pool = g.pool /\ h.has \subseteq g.has
  \/ x.op = "read" /\ g.due = 0 /\ h.due = 0 /\ h.pool = g.pool /\ h.has \subseteq g.has
  \/ /\ x.op = "call" /\ x.callee = "into" /\ g.due = 0 /\ h.due = 0
     /\ g.pool = NoPool /\ h.pool = NoPool /\ Target \subseteq g.has
     /\ Target \subseteq O
     /\ h.has \subseteq (g.has \ Frees(WorldIntoOwned)) \cup {Graphics}

Legal(x, g, h, O) ==
  /\ x.made \subseteq O /\ x.gone \subseteq O
  /\ g.pool \in Pools /\ h.pool \in Pools /\ h.pool = Drawn(g.pool, x)
  /\ x.op = "gate" \/ x.uses \subseteq g.has
  /\ Moves(x, g, h, O)

IsScript(s) == \E S : s \in Seq(S)
Traces(tr, s, g, h, O) ==
  /\ tr[0] = g /\ tr[Len(s)] = h
  /\ \A i \in 1 .. Len(s) : Legal(s[i], tr[i - 1], tr[i], O)
Runs(s, g, h, O) == IsScript(s) /\ \E tr : Traces(tr, s, g, h, O)

LEMMA ScriptFacts ==
  ASSUME NEW s, NEW t, IsScript(s), IsScript(t)
  PROVE  /\ Len(s) \in Nat /\ Len(t) \in Nat /\ IsScript(s \o t)
         /\ Len(s \o t) = Len(s) + Len(t)
         /\ \A i \in 1 .. Len(s) : (s \o t)[i] = s[i]
         /\ \A i \in 1 .. Len(t) : (s \o t)[Len(s) + i] = t[i]
<1>1. PICK S, T : s \in Seq(S) /\ t \in Seq(T)
  BY DEF IsScript
<1>2. s \in Seq(S \cup T) /\ t \in Seq(S \cup T)
  BY <1>1
<1>3. s \o t \in Seq(S \cup T)
  BY <1>2
<1>. QED BY <1>2, <1>3 DEF IsScript

(* Scripts that follow each other. *)
LEMMA ThenRuns ==
  ASSUME NEW s, NEW t, NEW f, NEW g, NEW h, NEW O, Runs(s, f, g, O), Runs(t, g, h, O)
  PROVE  Runs(s \o t, f, h, O)
<1>1. IsScript(s) /\ IsScript(t)
  BY DEF Runs
<1>2. PICK a : Traces(a, s, f, g, O)
  BY DEF Runs
<1>3. PICK b : Traces(b, t, g, h, O)
  BY DEF Runs
<1>. DEFINE m == Len(s)  n == Len(t)
            tr == [k \in 0 .. (m + n) |-> IF k <= m THEN a[k] ELSE b[k - m]]
<1>4. /\ m \in Nat /\ n \in Nat /\ IsScript(s \o t) /\ Len(s \o t) = m + n
      /\ \A i \in 1 .. m : (s \o t)[i] = s[i]
      /\ \A i \in 1 .. n : (s \o t)[m + i] = t[i]
  BY <1>1, ScriptFacts
<1>5. /\ a[0] = f /\ a[m] = g /\ b[0] = g /\ b[n] = h
      /\ \A i \in 1 .. m : Legal(s[i], a[i - 1], a[i], O)
      /\ \A i \in 1 .. n : Legal(t[i], b[i - 1], b[i], O)
  BY <1>2, <1>3 DEF Traces
<1>. HIDE DEF m, n
<1>6. tr[0] = f
  BY <1>4, <1>5
<1>7. \A k \in 0 .. n : tr[m + k] = b[k]
  <2>. TAKE k \in 0 .. n
  <2>1. CASE k = 0
    BY <1>4, <1>5, <2>1
  <2>2. CASE k # 0
    <3>. DEFINE j == m + k
    <3>1. j \in 0 .. (m + n) /\ ~ (j <= m) /\ j - m = k
      BY <1>4, <2>2
    <3>. HIDE DEF j
    <3>2. tr[j] = b[j - m]
      BY <3>1
    <3>. QED BY <3>1, <3>2 DEF j
  <2>. QED BY <2>1, <2>2
<1>8. \A k \in 0 .. m : tr[k] = a[k]
  BY <1>4
<1>. HIDE DEF tr
<1>9. ASSUME NEW i \in 1 .. (m + n) PROVE Legal((s \o t)[i], tr[i - 1], tr[i], O)
  <2>1. CASE i <= m
    <3>1. i \in 1 .. m /\ i \in 0 .. m /\ i - 1 \in 0 .. m
      BY <1>4, <2>1
    <3>2. Legal(s[i], a[i - 1], a[i], O) /\ (s \o t)[i] = s[i] /\ tr[i] = a[i] /\ tr[i - 1] = a[i - 1]
      BY <1>4, <1>5, <1>8, <3>1
    <3>. QED BY <3>2
  <2>2. CASE ~ (i <= m)
    <3>. DEFINE j == i - m
    <3>1. j \in 1 .. n /\ j \in 0 .. n /\ j - 1 \in 0 .. n /\ m + j = i /\ m + (j - 1) = i - 1
      BY <1>4, <2>2
    <3>. HIDE DEF j
    <3>2. Legal(t[j], b[j - 1], b[j], O) /\ (s \o t)[m + j] = t[j]
          /\ tr[m + j] = b[j] /\ tr[m + (j - 1)] = b[j - 1]
      BY <1>4, <1>5, <1>7, <3>1
    <3>. QED BY <3>1, <3>2
  <2>. QED BY <2>1, <2>2
<1>10. tr[m + n] = h
  BY <1>4, <1>5, <1>7
<1>11. Traces(tr, s \o t, f, h, O)
  BY <1>4, <1>6, <1>9, <1>10 DEF Traces
<1>. QED BY <1>4, <1>11 DEF Runs

LEMMA OneRuns ==
  ASSUME NEW x, NEW g, NEW h, NEW O, Legal(x, g, h, O)
  PROVE  Runs(<<x>>, g, h, O)
<1>1. <<x>> \in Seq({x}) /\ Len(<<x>>) = 1 /\ <<x>>[1] = x
  OBVIOUS
<1>. DEFINE tr == [k \in 0 .. 1 |-> IF k = 0 THEN g ELSE h]
<1>2. tr[0] = g /\ tr[1] = h
  OBVIOUS
<1>. HIDE DEF tr
<1>3. ASSUME NEW i \in 1 .. 1 PROVE Legal(<<x>>[i], tr[i - 1], tr[i], O)
  <2>1. i = 1 /\ i - 1 = 0
    OBVIOUS
  <2>. QED BY <1>1, <1>2, <2>1
<1>. QED BY <1>1, <1>2, <1>3 DEF Runs, Traces, IsScript

(* Steps that change nothing, as many as there are. *)
Still(s, g, O) == IsScript(s) /\ \A i \in 1 .. Len(s) : Legal(s[i], g, g, O)

LEMMA StillRuns ==
  ASSUME NEW s, NEW g, NEW O, Still(s, g, O)
  PROVE  Runs(s, g, g, O)
<1>1. Len(s) \in Nat
  BY ScriptFacts DEF Still
<1>. DEFINE tr == [k \in 0 .. Len(s) |-> g]
<1>2. tr[0] = g /\ tr[Len(s)] = g /\ \A i \in 1 .. Len(s) : tr[i - 1] = g /\ tr[i] = g
  BY <1>1
<1>. HIDE DEF tr
<1>. QED BY <1>1, <1>2 DEF Still, Runs, Traces

LEMMA StillThen ==
  ASSUME NEW s, NEW t, NEW g, NEW O, Still(s, g, O), Still(t, g, O)
  PROVE  Still(s \o t, g, O)
<1>1. /\ Len(s) \in Nat /\ Len(t) \in Nat /\ IsScript(s \o t)
      /\ Len(s \o t) = Len(s) + Len(t)
      /\ \A i \in 1 .. Len(s) : (s \o t)[i] = s[i]
      /\ \A i \in 1 .. Len(t) : (s \o t)[Len(s) + i] = t[i]
  BY ScriptFacts DEF Still
<1>2. ASSUME NEW i \in 1 .. (Len(s) + Len(t)) PROVE Legal((s \o t)[i], g, g, O)
  <2>1. CASE i <= Len(s)
    <3>1. i \in 1 .. Len(s)
      BY <1>1, <2>1
    <3>. QED BY <1>1, <3>1 DEF Still
  <2>2. CASE ~ (i <= Len(s))
    <3>. DEFINE j == i - Len(s)
    <3>1. j \in 1 .. Len(t) /\ Len(s) + j = i
      BY <1>1, <2>2
    <3>. HIDE DEF j
    <3>. QED BY <1>1, <3>1 DEF Still
  <2>. QED BY <2>1, <2>2
<1>. QED BY <1>1, <1>2 DEF Still

LEMMA StillOne ==
  ASSUME NEW x, NEW g, NEW O, Legal(x, g, g, O)
  PROVE  Still(<<x>>, g, O)
<1>1. <<x>> \in Seq({x}) /\ Len(<<x>>) = 1 /\ <<x>>[1] = x
  OBVIOUS
<1>2. IsScript(<<x>>)
  BY <1>1 DEF IsScript
<1>3. \A i \in 1 .. Len(<<x>>) : <<x>>[i] = x
  BY <1>1
<1>. QED BY <1>2, <1>3 DEF Still

LEMMA FunctionStill ==
  ASSUME NEW n \in Int, NEW f, NEW s, s = [i \in 1 .. n |-> f[i]], NEW g, NEW O,
         \A i \in 1 .. n : Legal(f[i], g, g, O)
  PROVE  Still(s, g, O)
<1>. DEFINE S == {f[i] : i \in 1 .. n}  m == IF n < 0 THEN 0 ELSE n
<1>1. m \in Nat /\ 1 .. n = 1 .. m
  OBVIOUS
<1>2. s = [i \in 1 .. m |-> f[i]]
  BY <1>1
<1>3. s \in Seq(S) /\ Len(s) = m
  <2>1. \A i \in 1 .. m : f[i] \in S
    BY <1>1
  <2>. HIDE DEF S, m
  <2>2. [i \in 1 .. m |-> f[i]] \in Seq(S)
    BY <1>1, <2>1
  <2>3. Len([i \in 1 .. m |-> f[i]]) = m
    BY <1>1
  <2>. QED BY <1>2, <2>2, <2>3
<1>4. \A i \in 1 .. m : s[i] = f[i]
  BY <1>2
<1>. HIDE DEF m, S
<1>. QED BY <1>1, <1>3, <1>4 DEF Still, IsScript

LEMMA TimesStill ==
  ASSUME NEW n \in Nat, NEW s, NEW g, NEW O, Still(s, g, O)
  PROVE  Still(Times(n, s), g, O)
<1>. DEFINE t == Times(n, s)  l == Len(s)
<1>1. l \in Nat
  BY ScriptFacts DEF Still
<1>2. n * l \in Nat /\ (l = 0 => n * l = 0)
  BY <1>1
<1>3. ASSUME NEW i \in 1 .. (n * l) PROVE ((i - 1) % l) + 1 \in 1 .. l
  <2>1. l > 0 /\ i - 1 \in Int
    BY <1>1, <1>2
  <2>2. (i - 1) % l \in 0 .. (l - 1)
    BY <1>1, <2>1
  <2>. QED BY <1>1, <2>2
<1>4. t = [i \in 1 .. (n * l) |-> t[i]] /\ \A i \in 1 .. (n * l) : t[i] = s[((i - 1) % l) + 1]
  BY DEF Times
<1>5. \A i \in 1 .. (n * l) : Legal(t[i], g, g, O)
  <2>. HIDE DEF t
  <2>. TAKE i \in 1 .. (n * l)
  <2>1. t[i] = s[((i - 1) % l) + 1] /\ ((i - 1) % l) + 1 \in 1 .. l
    BY <1>3, <1>4
  <2>. QED BY <2>1 DEF Still
<1>. HIDE DEF t
<1>6. n * l \in Int
  BY <1>2
<1>. QED BY <1>4, <1>5, <1>6, FunctionStill DEF t

-----------------------------------------------------------------------------
(* The steps scripts are made of. *)
LEMMA NoDraw ==
  ASSUME NEW P \in Pools, NEW x, x.pool = NoPool
  PROVE  Drawn(P, x) = P
<1>1. \A k \in Counts : NoPool[k] = 0
  BY DEF Counts, NoPool
<1>. QED BY <1>1 DEF Pools, Drawn

LEMMA PlainLegal ==
  ASSUME NEW x, x.op \in {"try", "do"}, x.pool = NoPool, x.gone = {}, NEW A, NEW B, NEW O,
         NEW P \in Pools, x.made \subseteq O, x.uses \subseteq A, B \subseteq A \cup x.made
  PROVE  Legal(x, Place(A, P, 0), Place(B, P, 0), O)
<1>1. Drawn(P, x) = P
  BY NoDraw
<1>. DEFINE g == Place(A, P, 0)  h == Place(B, P, 0)
<1>2. g.has = A /\ g.pool = P /\ g.due = 0 /\ h.has = B /\ h.pool = P /\ h.due = 0
  BY DEF Place
<1>. HIDE DEF g, h
<1>. QED BY <1>1, <1>2 DEF Legal, Moves, g, h

LEMMA MakeLegal ==
  ASSUME NEW m, NEW uses, NEW A, NEW B, NEW O, NEW P \in Pools,
         m \in O, uses \subseteq A, B \subseteq A \cup {m}
  PROVE  Legal(Make(m, uses), Place(A, P, 0), Place(B, P, 0), O)
<1>. DEFINE x == Make(m, uses)
<1>1. x.op = "try" /\ x.pool = NoPool /\ x.gone = {} /\ x.made = {m} /\ x.uses = uses
  BY DEF Make, Step
<1>. HIDE DEF x
<1>. QED BY <1>1, PlainLegal DEF x

LEMMA TryLegal ==
  ASSUME NEW uses, NEW A, NEW O, NEW P \in Pools, uses \subseteq A
  PROVE  Legal(Try(uses), Place(A, P, 0), Place(A, P, 0), O)
<1>. DEFINE x == Try(uses)
<1>1. x.op = "try" /\ x.pool = NoPool /\ x.gone = {} /\ x.made = {} /\ x.uses = uses
  BY DEF Try, Step
<1>. HIDE DEF x
<1>. QED BY <1>1, PlainLegal DEF x

LEMMA UseLegal ==
  ASSUME NEW uses, NEW A, NEW O, NEW P \in Pools, uses \subseteq A
  PROVE  Legal(Use(uses), Place(A, P, 0), Place(A, P, 0), O)
<1>. DEFINE x == Use(uses)
<1>1. x.op = "do" /\ x.pool = NoPool /\ x.gone = {} /\ x.made = {} /\ x.uses = uses
  BY DEF Use, Step
<1>. HIDE DEF x
<1>. QED BY <1>1, PlainLegal DEF x

(* A recorded command, whatever it synchronises, stamps or leaves behind.  *)
StepFields ==
  {"op", "need", "ok", "made", "gone", "uses", "accs", "pre", "bars", "pass", "fresh",
   "stamps", "pool", "wins", "callee"}
IsCommand(x, A) ==
  /\ DOMAIN x = StepFields
  /\ x.op = "do" /\ x.pool = NoPool /\ x.gone = {} /\ x.made = {} /\ x.uses \subseteq A

LEMMA CommandLegal ==
  ASSUME NEW x, NEW A, NEW O, NEW P \in Pools, IsCommand(x, A)
  PROVE  Legal(x, Place(A, P, 0), Place(A, P, 0), O)
BY PlainLegal DEF IsCommand

LEMMA CommandIs ==
  ASSUME NEW uses, NEW accs, NEW pass, NEW bars, NEW A,
         uses \subseteq A, \A a \in accs : a.h \in A
  PROVE  IsCommand(Command(uses, accs, pass, bars), A)
BY DEF IsCommand, Command, Step, StepFields

LEMMA CopyIs ==
  ASSUME NEW from, NEW flo, NEW fhi, NEW to, NEW tlo, NEW thi, NEW A, from \in A, to \in A
  PROVE  IsCommand(Copy(from, flo, fhi, to, tlo, thi), A)
<1>1. \A a \in {Rd(from, flo, fhi, "TRANSFER"), Wr(to, tlo, thi, "TRANSFER")} : a.h \in A
  BY DEF Rd, Wr, Access
<1>. QED BY <1>1, CommandIs DEF Copy

LEMMA BarriersIs ==
  ASSUME NEW bars, NEW A
  PROVE  IsCommand(Barriers(bars), A)
BY DEF IsCommand, Barriers, Step, StepFields

LEMMA StampedIs ==
  ASSUME NEW cmd, NEW A, NEW stamps \in BOOLEAN, IsCommand(cmd, A), stamps => Obj("queryPool") \in A
  PROVE  IsCommand(Stamped(cmd, stamps), A)
<1>1. CASE ~stamps
  BY <1>1 DEF Stamped
<1>2. CASE stamps
  <2>. DEFINE u == cmd.uses \cup {Obj("queryPool")}  p == <<cmd.pass, cmd.pass>>
              x == Stamped(cmd, stamps)
  <2>1. x = [cmd EXCEPT !.uses = u, !.stamps = p]
    BY <1>2 DEF Stamped
  <2>2. u \subseteq A
    BY <1>2 DEF IsCommand
  <2>. HIDE DEF u, p, x
  <2>3. IsCommand(x, A)
    BY <2>1, <2>2 DEF IsCommand, StepFields
  <2>. QED BY <2>3 DEF x
<1>. QED BY <1>1, <1>2

LEMMA MarkedIs ==
  ASSUME NEW cmd, NEW A, IsCommand(cmd, A), NEW v
  PROVE  /\ IsCommand([cmd EXCEPT !.bars = v], A) /\ IsCommand([cmd EXCEPT !.pre = v], A)
         /\ IsCommand([cmd EXCEPT !.fresh = v], A)
<1>1. IsCommand([cmd EXCEPT !.bars = v], A)
  BY DEF IsCommand, StepFields
<1>2. IsCommand([cmd EXCEPT !.pre = v], A)
  BY DEF IsCommand, StepFields
<1>3. IsCommand([cmd EXCEPT !.fresh = v], A)
  BY DEF IsCommand, StepFields
<1>. QED BY <1>1, <1>2, <1>3

LEMMA UseIs ==
  ASSUME NEW uses, NEW A, uses \subseteq A
  PROVE  IsCommand(Use(uses), A)
BY DEF IsCommand, Use, Step, StepFields

LEMMA HostFillIs ==
  ASSUME NEW n, NEW hi, NEW pass, NEW A, Mapped(n) \in A
  PROVE  IsCommand(HostFill(n, hi, pass), A)
BY DEF IsCommand, HostFill, Step, StepFields

LEMMA GateLegal ==
  ASSUME NEW need, NEW A, NEW B, NEW O, NEW P \in Pools, B \subseteq A \cup Granted(need)
  PROVE  Legal(Gate(need), Place(A, P, 0), Place(B, P, 0), O)
<1>. DEFINE x == Gate(need)  g == Place(A, P, 0)  h == Place(B, P, 0)
<1>1. x.op = "gate" /\ x.pool = NoPool /\ x.gone = {} /\ x.made = {} /\ x.need = need
  BY DEF Gate, Step
<1>2. g.has = A /\ g.pool = P /\ g.due = 0 /\ h.has = B /\ h.pool = P /\ h.due = 0
  BY DEF Place
<1>. HIDE DEF x, g, h
<1>. QED BY <1>1, <1>2, NoDraw DEF Legal, Moves, x, g, h

LEMMA RequireLegal ==
  ASSUME NEW ok, NEW A, NEW O, NEW P \in Pools
  PROVE  Legal(Require(ok), Place(A, P, 0), Place(A, P, 0), O)
<1>. DEFINE x == Require(ok)  g == Place(A, P, 0)
<1>1. x.op = "gate" /\ x.pool = NoPool /\ x.gone = {} /\ x.made = {}
  BY DEF Require, Step
<1>2. g.has = A /\ g.pool = P /\ g.due = 0
  BY DEF Place
<1>. HIDE DEF x, g
<1>. QED BY <1>1, <1>2, NoDraw DEF Legal, Moves, x, g

LEMMA SubmitLegal ==
  ASSUME NEW uses, NEW A, NEW O, NEW P \in Pools, uses \subseteq A
  PROVE  Legal([Try(uses) EXCEPT !.op = "submit"], Place(A, P, 0), Place(A, P, 1), O)
<1>. DEFINE x == [Try(uses) EXCEPT !.op = "submit"]  g == Place(A, P, 0)  h == Place(A, P, 1)
<1>1. x.op = "submit" /\ x.pool = NoPool /\ x.gone = {} /\ x.made = {} /\ x.uses = uses
  BY DEF Try, Step
<1>2. g.has = A /\ g.pool = P /\ g.due = 0 /\ h.has = A /\ h.pool = P /\ h.due = 1
  BY DEF Place
<1>. HIDE DEF x, g, h
<1>. QED BY <1>1, <1>2, NoDraw DEF Legal, Moves, x, g, h

LEMMA WaitLegal ==
  ASSUME NEW uses, NEW A, NEW O, NEW P \in Pools, uses \subseteq A
  PROVE  Legal([Try(uses) EXCEPT !.op = "wait"], Place(A, P, 1), Place(A, P, 0), O)
<1>. DEFINE x == [Try(uses) EXCEPT !.op = "wait"]  g == Place(A, P, 1)  h == Place(A, P, 0)
<1>1. x.op = "wait" /\ x.pool = NoPool /\ x.gone = {} /\ x.made = {} /\ x.uses = uses
  BY DEF Try, Step
<1>2. g.has = A /\ g.pool = P /\ g.due = 1 /\ h.has = A /\ h.pool = P /\ h.due = 0
  BY DEF Place
<1>. HIDE DEF x, g, h
<1>. QED BY <1>1, <1>2, NoDraw DEF Legal, Moves, x, g, h

LEMMA ReadLegal ==
  ASSUME NEW wins, NEW A, NEW O, NEW P \in Pools, \A w \in wins : Mapped(w.acc.h[2]) \in A
  PROVE  Legal(Read(wins), Place(A, P, 0), Place(A, P, 0), O)
<1>. DEFINE x == Read(wins)  g == Place(A, P, 0)
<1>1. /\ x.op = "read" /\ x.pool = NoPool /\ x.gone = {} /\ x.made = {}
      /\ x.uses = {Mapped(w.acc.h[2]) : w \in wins}
  BY DEF Read, Step
<1>2. g.has = A /\ g.pool = P /\ g.due = 0
  BY DEF Place
<1>3. x.uses \subseteq A
  BY <1>1
<1>. HIDE DEF x, g
<1>. QED BY <1>1, <1>2, <1>3, NoDraw DEF Legal, Moves, x, g

LEMMA UnmapLegal ==
  ASSUME NEW n, NEW A, NEW B, NEW O, NEW P \in Pools, Mapped(n) \in A, Mapped(n) \in O,
         B \subseteq A, Mapped(n) \notin B
  PROVE  Legal(Unmap(n), Place(A, P, 0), Place(B, P, 0), O)
<1>. DEFINE x == Unmap(n)  g == Place(A, P, 0)  h == Place(B, P, 0)
<1>1. /\ x.op = "do" /\ x.pool = NoPool /\ x.gone = {Mapped(n)} /\ x.made = {}
      /\ x.uses = {Mapped(n)}
  BY DEF Unmap, Step
<1>2. g.has = A /\ g.pool = P /\ g.due = 0 /\ h.has = B /\ h.pool = P /\ h.due = 0
  BY DEF Place
<1>. HIDE DEF x, g, h
<1>. QED BY <1>1, <1>2, NoDraw DEF Legal, Moves, x, g, h

(* Rows of the descriptor pool. *)
Row(a, b, c, d, e) == [sets |-> a, buffer |-> b, image |-> c, sampled |-> d, sampler |-> e]

LEMMA RowIsPool ==
  ASSUME NEW a \in Nat, NEW b \in Nat, NEW c \in Nat, NEW d \in Nat, NEW e \in Nat
  PROVE  Row(a, b, c, d, e) \in Pools
BY DEF Row, Pools, Counts

LEMMA NoPoolIsRow == NoPool = Row(0, 0, 0, 0, 0) /\ NoPool \in Pools
<1>1. NoPool = Row(0, 0, 0, 0, 0)
  BY DEF NoPool, Row
<1>. QED BY <1>1, RowIsPool

LEMMA MakePoolLegal ==
  ASSUME NEW a \in Nat, NEW b \in Nat, NEW c \in Nat, NEW d \in Nat, NEW e \in Nat,
         NEW A, NEW B, NEW O, Obj("pool") \in O, B \subseteq A \cup {Obj("pool")}
  PROVE  Legal(MakePool(a, b, c, d, e), Place(A, NoPool, 0), Place(B, Row(a, b, c, d, e), 0), O)
<1>. DEFINE x == MakePool(a, b, c, d, e)  g == Place(A, NoPool, 0)
            h == Place(B, Row(a, b, c, d, e), 0)
<1>1. /\ x.op = "try" /\ x.pool = Row(a, b, c, d, e) /\ x.gone = {} /\ x.made = {Obj("pool")}
      /\ x.uses = {}
  BY DEF MakePool, Make, Step, Row
<1>2. /\ g.has = A /\ g.pool = NoPool /\ g.due = 0
      /\ h.has = B /\ h.pool = Row(a, b, c, d, e) /\ h.due = 0
  BY DEF Place
<1>. HIDE DEF x, g, h
<1>3. Drawn(NoPool, x) = Row(a, b, c, d, e)
  BY <1>1 DEF Drawn, NoPool, Row
<1>4. Row(a, b, c, d, e) \in Pools /\ NoPool \in Pools
  BY RowIsPool, NoPoolIsRow
<1>. QED BY <1>1, <1>2, <1>3, <1>4 DEF Legal, Moves, x, g, h

LEMMA AllocLegal ==
  ASSUME NEW n, NEW a \in Nat, NEW b \in Nat, NEW c \in Nat, NEW d \in Nat, NEW e \in Nat,
         NEW i \in Nat, NEW j \in Nat, NEW k \in Nat, NEW l \in Nat,
         NEW A, NEW O, Obj("pool") \in A, Sets(n) \in A
  PROVE  Legal(AllocSet(n, i, j, k, l), Place(A, Row(a + 1, b + i, c + j, d + k, e + l), 0),
               Place(A, Row(a, b, c, d, e), 0), O)
<1>. DEFINE x == AllocSet(n, i, j, k, l)  P == Row(a + 1, b + i, c + j, d + k, e + l)
            Q == Row(a, b, c, d, e)  g == Place(A, P, 0)  h == Place(A, Q, 0)
<1>1. /\ x.op = "try" /\ x.gone = {} /\ x.made = {} /\ x.uses = {Obj("pool"), Sets(n)}
      /\ x.pool = Row(-1, -i, -j, -k, -l)
  BY DEF AllocSet, Try, Step, Row
<1>2. P \in Pools /\ Q \in Pools
  <2>1. a + 1 \in Nat /\ b + i \in Nat /\ c + j \in Nat /\ d + k \in Nat /\ e + l \in Nat
    OBVIOUS
  <2>. QED BY <2>1, RowIsPool
<1>3. Drawn(P, x) = Q
  <2>. HIDE DEF x
  <2>. QED BY <1>1 DEF Drawn, Row
<1>. HIDE DEF P, Q
<1>4. g.has = A /\ g.pool = P /\ g.due = 0 /\ h.has = A /\ h.pool = Q /\ h.due = 0
  BY DEF Place
<1>5. x.uses \subseteq A
  BY <1>1
<1>. HIDE DEF x, g, h
<1>6. Legal(x, g, h, O)
  BY <1>1, <1>2, <1>3, <1>4, <1>5 DEF Legal, Moves
<1>. QED BY <1>6 DEF x, g, h, P, Q

LEMMA CallLegal ==
  ASSUME NEW A, NEW B, NEW O, Target \subseteq A, Target \subseteq O,
         B \subseteq (A \ Frees(WorldIntoOwned)) \cup {Graphics}
  PROVE  Legal([Step EXCEPT !.op = "call", !.callee = "into"],
               Place(A, NoPool, 0), Place(B, NoPool, 0), O)
<1>. DEFINE x == [Step EXCEPT !.op = "call", !.callee = "into"]
            g == Place(A, NoPool, 0)  h == Place(B, NoPool, 0)
<1>1. /\ x.op = "call" /\ x.callee = "into" /\ x.pool = NoPool /\ x.gone = {} /\ x.made = {}
      /\ x.uses = {}
  BY DEF Step
<1>2. /\ g.has = A /\ g.pool = NoPool /\ g.due = 0 /\ h.has = B /\ h.pool = NoPool /\ h.due = 0
  BY DEF Place
<1>. HIDE DEF x, g, h
<1>. QED BY <1>1, <1>2, NoDraw, NoPoolIsRow DEF Legal, Moves, x, g, h

-----------------------------------------------------------------------------
(* The pieces the scripts share. *)
LEMMA TwoRuns ==
  ASSUME NEW x, NEW y, NEW f, NEW g, NEW h, NEW O, Legal(x, f, g, O), Legal(y, g, h, O)
  PROVE  Runs(<<x, y>>, f, h, O)
<1>1. <<x>> \o <<y>> = <<x, y>>
  <2>. DEFINE S == {x, y}  s == <<x>>  t == <<y>>  u == <<x, y>>  v == s \o t
  <2>1. s \in Seq(S) /\ t \in Seq(S) /\ u \in Seq(S) /\ v \in Seq(S)
    OBVIOUS
  <2>2. /\ Len(v) = 2 /\ v[1] = x /\ v[2] = y
        /\ Len(u) = 2 /\ u[1] = x /\ u[2] = y
    OBVIOUS
  <2>. HIDE DEF S, s, t, u, v
  <2>3. \A i \in 1 .. Len(u) : v[i] = u[i]
    BY <2>2
  <2>4. v = u
    BY <2>1, <2>2, <2>3, SeqEqual
  <2>. QED BY <2>4 DEF s, t, u, v
<1>2. Runs(<<x>>, f, g, O) /\ Runs(<<y>>, g, h, O)
  BY OneRuns
<1>3. Runs(<<x>> \o <<y>>, f, h, O)
  BY <1>2, ThenRuns
<1>. QED BY <1>1, <1>3

LEMMA ThreeRuns ==
  ASSUME NEW x, NEW y, NEW z, NEW e, NEW f, NEW g, NEW h, NEW O,
         Legal(x, e, f, O), Legal(y, f, g, O), Legal(z, g, h, O)
  PROVE  Runs(<<x, y, z>>, e, h, O)
<1>1. <<x, y>> \o <<z>> = <<x, y, z>>
  <2>. DEFINE S == {x, y, z}  s == <<x, y>>  t == <<z>>  u == <<x, y, z>>  v == s \o t
  <2>1. s \in Seq(S) /\ t \in Seq(S) /\ u \in Seq(S) /\ v \in Seq(S)
    OBVIOUS
  <2>2. /\ Len(v) = 3 /\ v[1] = x /\ v[2] = y /\ v[3] = z
        /\ Len(u) = 3 /\ u[1] = x /\ u[2] = y /\ u[3] = z
    OBVIOUS
  <2>. HIDE DEF S, s, t, u, v
  <2>3. \A i \in 1 .. Len(u) : v[i] = u[i]
    BY <2>2
  <2>4. v = u
    BY <2>1, <2>2, <2>3, SeqEqual
  <2>. QED BY <2>4 DEF s, t, u, v
<1>2. Runs(<<x, y>>, e, g, O) /\ Runs(<<z>>, g, h, O)
  BY OneRuns, TwoRuns
<1>3. Runs(<<x, y>> \o <<z>>, e, h, O)
  BY <1>2, ThenRuns
<1>. QED BY <1>1, <1>3

LEMMA FourRuns ==
  ASSUME NEW x, NEW y, NEW z, NEW w, NEW d, NEW e, NEW f, NEW g, NEW h, NEW O,
         Legal(x, d, e, O), Legal(y, e, f, O), Legal(z, f, g, O), Legal(w, g, h, O)
  PROVE  Runs(<<x, y, z, w>>, d, h, O)
<1>1. <<x, y>> \o <<z, w>> = <<x, y, z, w>>
  <2>. DEFINE S == {x, y, z, w}  s == <<x, y>>  t == <<z, w>>  u == <<x, y, z, w>>  v == s \o t
  <2>1. s \in Seq(S) /\ t \in Seq(S) /\ u \in Seq(S) /\ v \in Seq(S)
    OBVIOUS
  <2>2. /\ Len(v) = 4 /\ v[1] = x /\ v[2] = y /\ v[3] = z /\ v[4] = w
        /\ Len(u) = 4 /\ u[1] = x /\ u[2] = y /\ u[3] = z /\ u[4] = w
    OBVIOUS
  <2>. HIDE DEF S, s, t, u, v
  <2>3. \A i \in 1 .. Len(u) : v[i] = u[i]
    BY <2>2
  <2>4. v = u
    BY <2>1, <2>2, <2>3, SeqEqual
  <2>. QED BY <2>4 DEF s, t, u, v
<1>2. Runs(<<x, y>>, d, f, O) /\ Runs(<<z, w>>, f, h, O)
  BY TwoRuns
<1>3. Runs(<<x, y>> \o <<z, w>>, d, h, O)
  BY <1>2, ThenRuns
<1>. QED BY <1>1, <1>3

LEMMA SixRuns ==
  ASSUME NEW x1, NEW x2, NEW x3, NEW x4, NEW x5, NEW x6,
         NEW g0, NEW g1, NEW g2, NEW g3, NEW g4, NEW g5, NEW g6, NEW O,
         Legal(x1, g0, g1, O), Legal(x2, g1, g2, O), Legal(x3, g2, g3, O),
         Legal(x4, g3, g4, O), Legal(x5, g4, g5, O), Legal(x6, g5, g6, O)
  PROVE  Runs(<<x1, x2, x3, x4, x5, x6>>, g0, g6, O)
<1>1. <<x1, x2, x3>> \o <<x4, x5, x6>> = <<x1, x2, x3, x4, x5, x6>>
  <2>. DEFINE S == {x1, x2, x3, x4, x5, x6}  s == <<x1, x2, x3>>  t == <<x4, x5, x6>>
              u == <<x1, x2, x3, x4, x5, x6>>  v == s \o t
  <2>1. s \in Seq(S) /\ t \in Seq(S) /\ u \in Seq(S) /\ v \in Seq(S)
    OBVIOUS
  <2>2. /\ Len(v) = 6 /\ v[1] = x1 /\ v[2] = x2 /\ v[3] = x3 /\ v[4] = x4 /\ v[5] = x5 /\ v[6] = x6
        /\ Len(u) = 6 /\ u[1] = x1 /\ u[2] = x2 /\ u[3] = x3 /\ u[4] = x4 /\ u[5] = x5 /\ u[6] = x6
    OBVIOUS
  <2>. HIDE DEF S, s, t, u, v
  <2>3. \A i \in 1 .. Len(u) : v[i] = u[i]
    BY <2>2
  <2>4. v = u
    BY <2>1, <2>2, <2>3, SeqEqual
  <2>. QED BY <2>4 DEF s, t, u, v
<1>2. Runs(<<x1, x2, x3>>, g0, g3, O) /\ Runs(<<x4, x5, x6>>, g3, g6, O)
  BY ThreeRuns
<1>3. Runs(<<x1, x2, x3>> \o <<x4, x5, x6>>, g0, g6, O)
  BY <1>2, ThenRuns
<1>. QED BY <1>1, <1>3

LEMMA NoneStill ==
  ASSUME NEW g, NEW O
  PROVE  Still(<<>>, g, O)
<1>1. <<>> \in Seq({}) /\ Len(<<>>) = 0
  OBVIOUS
<1>2. \A i \in 1 .. Len(<<>>) : FALSE
  BY <1>1
<1>. QED BY <1>1, <1>2 DEF Still, IsScript

LEMMA NoneRuns ==
  ASSUME NEW g, NEW O
  PROVE  Runs(<<>>, g, g, O)
BY NoneStill, StillRuns

LEMMA BufferRuns ==
  ASSUME NEW n, NEW A, NEW P \in Pools, NEW O, OwnedBuffer(n) \subseteq O
  PROVE  Runs(Buffer(n), Place(A, P, 0), Place(A \cup OwnedBuffer(n), P, 0), O)
<1>. DEFINE B == A \cup {Buf(n)}  C == A \cup OwnedBuffer(n)
<1>1. Buf(n) \in O /\ Mem(n) \in O /\ C = B \cup {Mem(n)} /\ {Buf(n), Mem(n)} \subseteq C
  BY DEF OwnedBuffer
<1>2. Legal(Make(Buf(n), {}), Place(A, P, 0), Place(B, P, 0), O)
  BY <1>1, MakeLegal
<1>3. Legal(Make(Mem(n), {Buf(n)}), Place(B, P, 0), Place(C, P, 0), O)
  BY <1>1, MakeLegal
<1>4. Legal(Try({Buf(n), Mem(n)}), Place(C, P, 0), Place(C, P, 0), O)
  BY <1>1, TryLegal
<1>. HIDE DEF B, C
<1>5. Runs(Buffer(n), Place(A, P, 0), Place(C, P, 0), O)
  BY <1>2, <1>3, <1>4, ThreeRuns DEF Buffer
<1>. QED BY <1>5 DEF C

OwnedHost(n) == OwnedBuffer(n) \cup {Mapped(n)}

LEMMA HostBufferRuns ==
  ASSUME NEW n, NEW A, NEW P \in Pools, NEW O, OwnedHost(n) \subseteq O
  PROVE  Runs(HostBuffer(n), Place(A, P, 0), Place(A \cup OwnedHost(n), P, 0), O)
<1>. DEFINE B == A \cup OwnedBuffer(n)  C == A \cup OwnedHost(n)
<1>1. Mapped(n) \in O /\ OwnedBuffer(n) \subseteq O /\ C = B \cup {Mapped(n)} /\ Mem(n) \in B
  BY DEF OwnedHost, OwnedBuffer
<1>2. Runs(Buffer(n), Place(A, P, 0), Place(B, P, 0), O)
  BY <1>1, BufferRuns
<1>3. Legal(Make(Mapped(n), {Mem(n)}), Place(B, P, 0), Place(C, P, 0), O)
  BY <1>1, MakeLegal
<1>. HIDE DEF B, C
<1>4. Runs(<<Make(Mapped(n), {Mem(n)})>>, Place(B, P, 0), Place(C, P, 0), O)
  BY <1>3, OneRuns
<1>5. Runs(HostBuffer(n), Place(A, P, 0), Place(C, P, 0), O)
  BY <1>2, <1>4, ThenRuns DEF HostBuffer
<1>. QED BY <1>5 DEF C

LEMMA ImageRuns ==
  ASSUME NEW n, NEW A, NEW P \in Pools, NEW O, {Img(n), Mem(n)} \subseteq O
  PROVE  Runs(Image(n), Place(A, P, 0), Place(A \cup {Img(n), Mem(n)}, P, 0), O)
<1>. DEFINE B == A \cup {Img(n)}  C == A \cup {Img(n), Mem(n)}
<1>1. Img(n) \in O /\ Mem(n) \in O /\ C = B \cup {Mem(n)} /\ {Img(n), Mem(n)} \subseteq C
  OBVIOUS
<1>2. Legal(Make(Img(n), {}), Place(A, P, 0), Place(B, P, 0), O)
  BY <1>1, MakeLegal
<1>3. Legal(Make(Mem(n), {Img(n)}), Place(B, P, 0), Place(C, P, 0), O)
  BY <1>1, MakeLegal
<1>4. Legal(Try({Img(n), Mem(n)}), Place(C, P, 0), Place(C, P, 0), O)
  BY <1>1, TryLegal
<1>. HIDE DEF B, C
<1>5. Runs(Image(n), Place(A, P, 0), Place(C, P, 0), O)
  BY <1>2, <1>3, <1>4, ThreeRuns DEF Image
<1>. QED BY <1>5 DEF C

(* An image and its view. *)
LEMMA TargetRuns ==
  ASSUME NEW n, NEW A, NEW P \in Pools, NEW O, OwnedImage(n) \subseteq O
  PROVE  Runs(Image(n) \o ViewOf(View(n), n), Place(A, P, 0), Place(A \cup OwnedImage(n), P, 0), O)
<1>. DEFINE B == A \cup {Img(n), Mem(n)}  C == A \cup OwnedImage(n)
<1>1. View(n) \in O /\ {Img(n), Mem(n)} \subseteq O /\ C = B \cup {View(n)}
      /\ {Img(n), Mem(n)} \subseteq B
  BY DEF OwnedImage
<1>2. Runs(Image(n), Place(A, P, 0), Place(B, P, 0), O)
  BY <1>1, ImageRuns
<1>3. Legal(Make(View(n), {Img(n), Mem(n)}), Place(B, P, 0), Place(C, P, 0), O)
  BY <1>1, MakeLegal
<1>. HIDE DEF B, C
<1>4. Runs(ViewOf(View(n), n), Place(B, P, 0), Place(C, P, 0), O)
  BY <1>3, OneRuns DEF ViewOf
<1>5. Runs(Image(n) \o ViewOf(View(n), n), Place(A, P, 0), Place(C, P, 0), O)
  BY <1>2, <1>4, ThenRuns
<1>. QED BY <1>5 DEF C

LEMMA PipelineRuns ==
  ASSUME NEW n, NEW A, NEW P \in Pools, NEW O, OwnedPipeline(n) \subseteq O
  PROVE  Runs(ComputePipeline(n), Place(A, P, 0), Place(A \cup OwnedPipeline(n), P, 0), O)
<1>. DEFINE B == A \cup {Module(n)}  C == B \cup {Sets(n)}  D == C \cup {Layout(n)}
            E == A \cup OwnedPipeline(n)
<1>1. /\ Module(n) \in O /\ Sets(n) \in O /\ Layout(n) \in O /\ Pipe(n) \in O
      /\ E = D \cup {Pipe(n)} /\ {Sets(n)} \subseteq C /\ {Module(n), Layout(n)} \subseteq D
  BY DEF OwnedPipeline
<1>2. Legal(Make(Module(n), {}), Place(A, P, 0), Place(B, P, 0), O)
  BY <1>1, MakeLegal
<1>3. Legal(Make(Sets(n), {}), Place(B, P, 0), Place(C, P, 0), O)
  BY <1>1, MakeLegal
<1>4. Legal(Make(Layout(n), {Sets(n)}), Place(C, P, 0), Place(D, P, 0), O)
  BY <1>1, MakeLegal
<1>5. Legal(Make(Pipe(n), {Module(n), Layout(n)}), Place(D, P, 0), Place(E, P, 0), O)
  BY <1>1, MakeLegal
<1>. HIDE DEF B, C, D, E
<1>6. Runs(ComputePipeline(n), Place(A, P, 0), Place(E, P, 0), O)
  BY <1>2, <1>3, <1>4, <1>5, FourRuns DEF ComputePipeline
<1>. QED BY <1>6 DEF E

LEMMA CommandPoolRuns ==
  ASSUME NEW p, NEW q, NEW A, NEW P \in Pools, NEW O, Obj(p) \in O, q \in A
  PROVE  Runs(CommandPool(p, q), Place(A, P, 0), Place(A \cup {Obj(p)}, P, 0), O)
<1>. DEFINE B == A \cup {Obj(p)}
<1>1. Legal(Make(Obj(p), {q}), Place(A, P, 0), Place(B, P, 0), O)
  BY MakeLegal
<1>2. Legal(Try({Obj(p)}), Place(B, P, 0), Place(B, P, 0), O)
  BY TryLegal
<1>. HIDE DEF B
<1>3. Runs(CommandPool(p, q), Place(A, P, 0), Place(B, P, 0), O)
  BY <1>1, <1>2, TwoRuns DEF CommandPool
<1>. QED BY <1>3 DEF B

LEMMA RecordedRuns ==
  ASSUME NEW p, NEW f, NEW q, NEW c, NEW A, NEW P \in Pools, NEW O,
         Obj(p) \in A, q \in A, Obj(f) \in O, Still(c, Place(A, P, 0), O)
  PROVE  Runs(Recorded(p, f, q, c), Place(A, P, 0), Place(A \cup {Obj(f)}, P, 0), O)
<1>. DEFINE B == A \cup {Obj(f)}
            t == <<Try({Obj(p)}), Make(Obj(f), {}),
                   [Try({q, Obj(p), Obj(f)}) EXCEPT !.op = "submit"],
                   [Try({Obj(f)}) EXCEPT !.op = "wait"]>>
<1>0. {Obj(p)} \subseteq A /\ {q, Obj(p), Obj(f)} \subseteq B /\ {Obj(f)} \subseteq B
  OBVIOUS
<1>1. Legal(Try({Obj(p)}), Place(A, P, 0), Place(A, P, 0), O)
  BY <1>0, TryLegal
<1>2. Legal(Make(Obj(f), {}), Place(A, P, 0), Place(B, P, 0), O)
  BY MakeLegal
<1>3. Legal([Try({q, Obj(p), Obj(f)}) EXCEPT !.op = "submit"], Place(B, P, 0), Place(B, P, 1), O)
  BY <1>0, SubmitLegal
<1>4. Legal([Try({Obj(f)}) EXCEPT !.op = "wait"], Place(B, P, 1), Place(B, P, 0), O)
  BY <1>0, WaitLegal
<1>. HIDE DEF B
<1>5. Runs(t, Place(A, P, 0), Place(B, P, 0), O)
  BY <1>1, <1>2, <1>3, <1>4, FourRuns
<1>6. Runs(<<Try({Obj(p)})>>, Place(A, P, 0), Place(A, P, 0), O)
  BY <1>1, OneRuns
<1>7. Runs(c, Place(A, P, 0), Place(A, P, 0), O)
  BY StillRuns
<1>8. Runs(<<Try({Obj(p)})>> \o c, Place(A, P, 0), Place(A, P, 0), O)
  BY <1>6, <1>7, ThenRuns
<1>9. Recorded(p, f, q, c) = (<<Try({Obj(p)})>> \o c) \o t
  BY DEF Recorded
<1>. HIDE DEF t
<1>10. Runs((<<Try({Obj(p)})>> \o c) \o t, Place(A, P, 0), Place(B, P, 0), O)
  BY <1>5, <1>8, ThenRuns
<1>. QED BY <1>9, <1>10 DEF B

LEMMA LoadedRuns ==
  ASSUME NEW A, NEW P \in Pools, NEW O, <<"device", "device">> \in A
  PROVE  Runs(Loaded, Place(A, P, 0), Place(A, P, 0), O)
<1>1. Legal(Try({<<"device", "device">>}), Place(A, P, 0), Place(A, P, 0), O)
  BY TryLegal
<1>. QED BY <1>1, OneRuns DEF Loaded

Stamp(stamps) == IF stamps THEN {Obj("queryPool")} ELSE {}

LEMMA QueryPoolRuns ==
  ASSUME NEW stamps \in BOOLEAN, NEW A, NEW P \in Pools, NEW O, Obj("queryPool") \in O
  PROVE  Runs(QueryPool(stamps), Place(A, P, 0), Place(A \cup Stamp(stamps), P, 0), O)
<1>1. CASE stamps
  <2>1. Legal(Make(Obj("queryPool"), {}), Place(A, P, 0), Place(A \cup {Obj("queryPool")}, P, 0), O)
    BY MakeLegal
  <2>. QED BY <1>1, <2>1, OneRuns DEF QueryPool, Stamp
<1>2. CASE ~stamps
  <2>1. QueryPool(stamps) = <<>> /\ A \cup Stamp(stamps) = A
    BY <1>2 DEF QueryPool, Stamp
  <2>. QED BY <2>1, NoneRuns
<1>. QED BY <1>1, <1>2

LEMMA StillCommand ==
  ASSUME NEW v, NEW A, NEW P \in Pools, NEW O,
         IsCommand(v, A)
  PROVE  Still(<<v>>, Place(A, P, 0), O)
<1>1. <<v>> \in Seq({v}) /\ Len(<<v>>) = 1
  OBVIOUS
<1>2. IsScript(<<v>>)
  BY <1>1 DEF IsScript
<1>3. \A i \in 1 .. 1 : <<v>>[i] \in {v}
  OBVIOUS
<1>4. \A c \in {v} : Legal(c, Place(A, P, 0), Place(A, P, 0), O)
  BY CommandLegal
<1>. QED BY <1>1, <1>2, <1>3, <1>4 DEF Still

LEMMA StillTwo ==
  ASSUME NEW v, NEW w, NEW A, NEW P \in Pools, NEW O,
         IsCommand(v, A), IsCommand(w, A)
  PROVE  Still(<<v, w>>, Place(A, P, 0), O)
<1>1. <<v, w>> \in Seq({v, w}) /\ Len(<<v, w>>) = 2
  OBVIOUS
<1>2. IsScript(<<v, w>>)
  BY <1>1 DEF IsScript
<1>3. \A i \in 1 .. 2 : <<v, w>>[i] \in {v, w}
  OBVIOUS
<1>4. \A c \in {v, w} : Legal(c, Place(A, P, 0), Place(A, P, 0), O)
  BY CommandLegal
<1>. QED BY <1>1, <1>2, <1>3, <1>4 DEF Still

LEMMA StillThree ==
  ASSUME NEW v, NEW w, NEW x, NEW A, NEW P \in Pools, NEW O,
         IsCommand(v, A), IsCommand(w, A), IsCommand(x, A)
  PROVE  Still(<<v, w, x>>, Place(A, P, 0), O)
<1>1. <<v, w, x>> \in Seq({v, w, x}) /\ Len(<<v, w, x>>) = 3
  OBVIOUS
<1>2. IsScript(<<v, w, x>>)
  BY <1>1 DEF IsScript
<1>3. \A i \in 1 .. 3 : <<v, w, x>>[i] \in {v, w, x}
  OBVIOUS
<1>4. \A c \in {v, w, x} : Legal(c, Place(A, P, 0), Place(A, P, 0), O)
  BY CommandLegal
<1>. QED BY <1>1, <1>2, <1>3, <1>4 DEF Still

LEMMA StillFive ==
  ASSUME NEW v, NEW w, NEW x, NEW y, NEW z, NEW A, NEW P \in Pools, NEW O,
         IsCommand(v, A), IsCommand(w, A), IsCommand(x, A), IsCommand(y, A), IsCommand(z, A)
  PROVE  Still(<<v, w, x, y, z>>, Place(A, P, 0), O)
<1>1. <<v, w, x, y, z>> \in Seq({v, w, x, y, z}) /\ Len(<<v, w, x, y, z>>) = 5
  OBVIOUS
<1>2. IsScript(<<v, w, x, y, z>>)
  BY <1>1 DEF IsScript
<1>3. \A i \in 1 .. 5 : <<v, w, x, y, z>>[i] \in {v, w, x, y, z}
  OBVIOUS
<1>4. \A c \in {v, w, x, y, z} : Legal(c, Place(A, P, 0), Place(A, P, 0), O)
  BY CommandLegal
<1>. QED BY <1>1, <1>2, <1>3, <1>4 DEF Still

LEMMA ThreeThen ==
  ASSUME NEW r, NEW s, NEW t,
         NEW a, NEW b, NEW c, NEW d, NEW O,
         Runs(r, a, b, O), Runs(s, b, c, O), Runs(t, c, d, O)
  PROVE  Runs(r \o s \o t, a, d, O)
<1>2. Runs(r \o s, a, c, O)
  BY ThenRuns
<1>. QED BY <1>2, ThenRuns

LEMMA FourThen ==
  ASSUME NEW r, NEW s, NEW t, NEW u,
         NEW a, NEW b, NEW c, NEW d, NEW e, NEW O,
         Runs(r, a, b, O), Runs(s, b, c, O), Runs(t, c, d, O), Runs(u, d, e, O)
  PROVE  Runs(r \o s \o t \o u, a, e, O)
<1>2. Runs(r \o s, a, c, O)
  BY ThenRuns
<1>3. Runs(r \o s \o t, a, d, O)
  BY <1>2, ThenRuns
<1>. QED BY <1>3, ThenRuns

LEMMA FiveThen ==
  ASSUME NEW r, NEW s, NEW t, NEW u, NEW v,
         NEW a, NEW b, NEW c, NEW d, NEW e, NEW f, NEW O,
         Runs(r, a, b, O), Runs(s, b, c, O), Runs(t, c, d, O), Runs(u, d, e, O), Runs(v, e, f, O)
  PROVE  Runs(r \o s \o t \o u \o v, a, f, O)
<1>2. Runs(r \o s, a, c, O)
  BY ThenRuns
<1>3. Runs(r \o s \o t, a, d, O)
  BY <1>2, ThenRuns
<1>4. Runs(r \o s \o t \o u, a, e, O)
  BY <1>3, ThenRuns
<1>. QED BY <1>4, ThenRuns

LEMMA SixThen ==
  ASSUME NEW r, NEW s, NEW t, NEW u, NEW v, NEW w,
         NEW a, NEW b, NEW c, NEW d, NEW e, NEW f, NEW g, NEW O,
         Runs(r, a, b, O), Runs(s, b, c, O), Runs(t, c, d, O), Runs(u, d, e, O), Runs(v, e, f, O), Runs(w, f, g, O)
  PROVE  Runs(r \o s \o t \o u \o v \o w, a, g, O)
<1>2. Runs(r \o s, a, c, O)
  BY ThenRuns
<1>3. Runs(r \o s \o t, a, d, O)
  BY <1>2, ThenRuns
<1>4. Runs(r \o s \o t \o u, a, e, O)
  BY <1>3, ThenRuns
<1>5. Runs(r \o s \o t \o u \o v, a, f, O)
  BY <1>4, ThenRuns
<1>. QED BY <1>5, ThenRuns

LEMMA FreesAll ==
  ASSUME NEW O
  PROVE  O \subseteq Frees(O) /\ \A n : Mem(n) \in O => Mapped(n) \in Frees(O)
<1>1. ASSUME NEW n, Mem(n) \in O PROVE Mapped(n) \in Frees(O)
  <2>1. Mem(n)[1] = "memory" /\ Mem(n)[2] = n
    BY DEF Mem
  <2>. QED BY <1>1, <2>1 DEF Frees
<1>. QED BY <1>1 DEF Frees

(* The device's part of what a gate grants. *)
Dev == Granted("available")

LEMMA DevHas == <<"device", "device">> \in Dev /\ Compute \in Dev
BY DEF Dev, Granted

LEMMA OpenRuns ==
  ASSUME NEW A, NEW P \in Pools, NEW O
  PROVE  Runs(<<Gate("available")>> \o Loaded, Place(A, P, 0), Place(A \cup Dev, P, 0), O)
<1>1. Legal(Gate("available"), Place(A, P, 0), Place(A \cup Dev, P, 0), O)
  BY GateLegal DEF Dev
<1>2. Runs(<<Gate("available")>>, Place(A, P, 0), Place(A \cup Dev, P, 0), O)
  BY <1>1, OneRuns
<1>3. Runs(Loaded, Place(A \cup Dev, P, 0), Place(A \cup Dev, P, 0), O)
  BY LoadedRuns, DevHas
<1>. QED BY <1>2, <1>3, ThenRuns

-----------------------------------------------------------------------------
(* runParityDispatch *)
LEMMA ParitySetupRuns ==
  ASSUME NEW A, NEW O, OwnedHost("buffer") \subseteq O, OwnedPipeline("parity") \subseteq O,
         Obj("pool") \in O
  PROVE  Runs(ParitySetup, Place(A, NoPool, 0),
              Place(A \cup OwnedHost("buffer") \cup OwnedPipeline("parity") \cup {Obj("pool")},
                    NoPool, 0), O)
<1>. DEFINE B == A \cup OwnedHost("buffer")  C == B \cup OwnedPipeline("parity")
            D == C \cup {Obj("pool")}  R == Row(1, 1, 0, 0, 0)
<1>1. NoPool \in Pools /\ NoPool = Row(0, 0, 0, 0, 0)
  BY NoPoolIsRow
<1>2. Mapped("buffer") \in B /\ {Buf("buffer")} \subseteq D /\ Obj("pool") \in D /\ Sets("parity") \in D
  BY DEF OwnedHost, OwnedBuffer, OwnedPipeline
<1>3. Runs(HostBuffer("buffer"), Place(A, NoPool, 0), Place(B, NoPool, 0), O)
  BY <1>1, HostBufferRuns
<1>4. Runs(ComputePipeline("parity"), Place(B, NoPool, 0), Place(C, NoPool, 0), O)
  BY <1>1, PipelineRuns
<1>. HIDE DEF B, C, D
<1>5. Runs(<<HostFill("buffer", Full, Pass("input", 0))>>, Place(B, NoPool, 0), Place(B, NoPool, 0), O)
  BY <1>1, <1>2, HostFillIs, StillCommand, StillRuns
<1>6. Legal(MakePool(1, 1, 0, 0, 0), Place(C, NoPool, 0), Place(D, R, 0), O)
  BY MakePoolLegal DEF D
<1>7. Legal(AllocSet("parity", 1, 0, 0, 0), Place(D, R, 0), Place(D, NoPool, 0), O)
  <2>1. Legal(AllocSet("parity", 1, 0, 0, 0), Place(D, Row(0 + 1, 0 + 1, 0 + 0, 0 + 0, 0 + 0), 0),
              Place(D, Row(0, 0, 0, 0, 0), 0), O)
    BY <1>2, AllocLegal
  <2>. QED BY <1>1, <2>1
<1>8. Legal(Use({Buf("buffer")}), Place(D, NoPool, 0), Place(D, NoPool, 0), O)
  BY <1>1, <1>2, UseLegal
<1>. HIDE DEF R
<1>9. Runs(<<MakePool(1, 1, 0, 0, 0), AllocSet("parity", 1, 0, 0, 0), Use({Buf("buffer")})>>,
           Place(C, NoPool, 0), Place(D, NoPool, 0), O)
  BY <1>6, <1>7, <1>8, ThreeRuns
<1>10. Runs(ParitySetup, Place(A, NoPool, 0), Place(D, NoPool, 0), O)
  BY <1>3, <1>4, <1>5, <1>9, FourThen DEF ParitySetup
<1>. QED BY <1>10 DEF B, C, D

(* A program that gets through has waited for what it submitted. *)
Completes(s, A, O) == \E h : h.due = 0 /\ Runs(s, Place(A, NoPool, 0), h, O)

LEMMA CompletesFrom ==
  ASSUME NEW s, NEW A, NEW O, NEW B, NEW P, Runs(s, Place(A, NoPool, 0), Place(B, P, 0), O)
  PROVE  Completes(s, A, O)
<1>. DEFINE h == Place(B, P, 0)
<1>1. h.due = 0
  BY DEF Place
<1>. HIDE DEF h
<1>. QED BY <1>1 DEF Completes, h

(* Commands on a timed queue and an untimed one. *)
LEMMA TimedRuns ==
  ASSUME NEW stamps \in BOOLEAN, NEW c, NEW A, NEW P \in Pools, NEW O,
         Compute \in A, {Obj("cmdPool"), Obj("queryPool"), Obj("fence")} \subseteq O,
         Still(c, Place(A \cup {Obj("cmdPool")} \cup Stamp(stamps), P, 0), O)
  PROVE  Runs(CommandPool("cmdPool", Compute) \o QueryPool(stamps)
              \o Recorded("cmdPool", "fence", Compute, c),
              Place(A, P, 0),
              Place(A \cup {Obj("cmdPool")} \cup Stamp(stamps) \cup {Obj("fence")}, P, 0), O)
<1>. DEFINE B == A \cup {Obj("cmdPool")}  C == B \cup Stamp(stamps)  D == C \cup {Obj("fence")}
<1>1. Compute \in C /\ Obj("cmdPool") \in C
  OBVIOUS
<1>2. Runs(CommandPool("cmdPool", Compute), Place(A, P, 0), Place(B, P, 0), O)
  BY CommandPoolRuns
<1>3. Runs(QueryPool(stamps), Place(B, P, 0), Place(C, P, 0), O)
  BY QueryPoolRuns
<1>. HIDE DEF C
<1>4. Runs(Recorded("cmdPool", "fence", Compute, c), Place(C, P, 0), Place(D, P, 0), O)
  <2>1. Still(c, Place(C, P, 0), O)
    BY DEF C
  <2>. QED BY <1>1, <2>1, RecordedRuns
<1>. HIDE DEF B, D
<1>5. Runs(CommandPool("cmdPool", Compute) \o QueryPool(stamps)
           \o Recorded("cmdPool", "fence", Compute, c), Place(A, P, 0), Place(D, P, 0), O)
  BY <1>2, <1>3, <1>4, ThreeThen
<1>. QED BY <1>5 DEF B, C, D

LEMMA UntimedRuns ==
  ASSUME NEW p, NEW f, NEW c, NEW A, NEW P \in Pools, NEW O,
         Graphics \in A, Obj(p) \in O, Obj(f) \in O, Still(c, Place(A \cup {Obj(p)}, P, 0), O)
  PROVE  Runs(CommandPool(p, Graphics) \o Recorded(p, f, Graphics, c),
              Place(A, P, 0), Place(A \cup {Obj(p)} \cup {Obj(f)}, P, 0), O)
<1>. DEFINE B == A \cup {Obj(p)}  C == B \cup {Obj(f)}
<1>1. Graphics \in B /\ Obj(p) \in B
  OBVIOUS
<1>2. Runs(CommandPool(p, Graphics), Place(A, P, 0), Place(B, P, 0), O)
  BY CommandPoolRuns
<1>. HIDE DEF B
<1>3. Runs(Recorded(p, f, Graphics, c), Place(B, P, 0), Place(C, P, 0), O)
  <2>1. Still(c, Place(B, P, 0), O)
    BY DEF B
  <2>. QED BY <1>1, <2>1, RecordedRuns
<1>. HIDE DEF C
<1>4. Runs(CommandPool(p, Graphics) \o Recorded(p, f, Graphics, c), Place(A, P, 0), Place(C, P, 0), O)
  BY <1>2, <1>3, ThenRuns
<1>. QED BY <1>4 DEF B, C

LEMMA WindowMap ==
  ASSUME NEW n, NEW lo, NEW hi, NEW pass
  PROVE  Mapped(Window(n, lo, hi, pass).acc.h[2]) = Mapped(n)
BY DEF Window, Rd, Access, Buf

LEMMA ParityCompletes ==
  ASSUME NEW stamps \in BOOLEAN
  PROVE  Completes(ParityScript(stamps), {}, Frees(ParityOwned))
<1>. DEFINE O == Frees(ParityOwned)
            B == {} \cup Dev
            C == B \cup OwnedHost("buffer") \cup OwnedPipeline("parity") \cup {Obj("pool")}
            U == C \cup {Obj("cmdPool")} \cup Stamp(stamps)
            D == U \cup {Obj("fence")}
            k == Stamped(Command({Pipe("parity"), Layout("parity")},
                                 {Wr(Buf("buffer"), 0, Full, "COMPUTE")}, Pass("parity", 0),
                                 <<Barrier({"COMPUTE"}, TRUE, {"HOST"}, {"R"})>>), stamps)
<1>1. /\ OwnedHost("buffer") \subseteq O /\ OwnedPipeline("parity") \subseteq O /\ Obj("pool") \in O
      /\ {Obj("cmdPool"), Obj("queryPool"), Obj("fence")} \subseteq O
  BY FreesAll DEF ParityOwned, OwnedHost
<1>2. /\ Compute \in C /\ {Pipe("parity"), Layout("parity")} \subseteq U /\ Buf("buffer") \in U
      /\ (stamps => Obj("queryPool") \in U) /\ Mapped("buffer") \in D
  BY DevHas DEF OwnedHost, OwnedBuffer, OwnedPipeline, Stamp
<1>. HIDE DEF O
<1>3. NoPool \in Pools
  BY NoPoolIsRow
<1>4. Runs(<<Gate("available")>> \o Loaded, Place({}, NoPool, 0), Place(B, NoPool, 0), O)
  BY <1>3, OpenRuns
<1>5. Runs(ParitySetup, Place(B, NoPool, 0), Place(C, NoPool, 0), O)
  BY <1>1, ParitySetupRuns
<1>. HIDE DEF B, C
<1>6. Still(<<k>>, Place(U, NoPool, 0), O)
  <2>. HIDE DEF U
  <2>1. \A a \in {Wr(Buf("buffer"), 0, Full, "COMPUTE")} : a.h \in U
    BY <1>2 DEF Wr, Access
  <2>2. IsCommand(Command({Pipe("parity"), Layout("parity")},
                          {Wr(Buf("buffer"), 0, Full, "COMPUTE")}, Pass("parity", 0),
                          <<Barrier({"COMPUTE"}, TRUE, {"HOST"}, {"R"})>>), U)
    BY <1>2, <2>1, CommandIs
  <2>3. IsCommand(k, U)
    BY <1>2, <2>2, StampedIs
  <2>. HIDE DEF k
  <2>. QED BY <1>3, <2>3, StillCommand
<1>7. Runs(ParityCommands(stamps), Place(C, NoPool, 0), Place(D, NoPool, 0), O)
  <2>1. ParityCommands(stamps) = CommandPool("cmdPool", Compute) \o QueryPool(stamps)
              \o Recorded("cmdPool", "fence", Compute, <<k>>)
    BY DEF ParityCommands
  <2>. HIDE DEF k
  <2>. QED BY <1>1, <1>2, <1>3, <1>6, <2>1, TimedRuns
<1>. HIDE DEF D
<1>8. Runs(<<Read({Window("buffer", 0, Full, Pass("parity", 0))})>>,
           Place(D, NoPool, 0), Place(D, NoPool, 0), O)
  <2>1. \A w \in {Window("buffer", 0, Full, Pass("parity", 0))} : Mapped(w.acc.h[2]) \in D
    BY <1>2, WindowMap
  <2>2. Legal(Read({Window("buffer", 0, Full, Pass("parity", 0))}),
              Place(D, NoPool, 0), Place(D, NoPool, 0), O)
    BY <1>3, <2>1, ReadLegal
  <2>. QED BY <2>2, OneRuns
<1>9. Runs(ParityScript(stamps), Place({}, NoPool, 0), Place(D, NoPool, 0), O)
  BY <1>4, <1>5, <1>7, <1>8, FourThen DEF ParityScript
<1>. QED BY <1>9, CompletesFrom DEF O

-----------------------------------------------------------------------------
(* runMeshExec *)
LEMMA MeshCompletes ==
  ASSUME NEW p
  PROVE  Completes(MeshExecScript(p), {}, Frees(MeshExecOwned))
<1>. DEFINE O == Frees(MeshExecOwned)
            B == {} \cup Dev
            G == B \cup Granted("mesh")
            C == G \cup OwnedImage("color")
            D == C \cup OwnedHost("staging")
            E == D \cup {Obj("renderPass")}
            F == E \cup {Obj("framebuffer")}
            H == F \cup {Module("mesh")}
            I == H \cup {Layout("mesh")}
            J == I \cup {Pipe("mesh")}
            K == J \cup {Obj("cmdPool")}
            L == K \cup {Obj("fence")}
            r == Require(p.width # 0 /\ p.height # 0 /\ p.width % 2 = 0)
            d == Command({Obj("framebuffer"), Pipe("mesh")},
                         {Wr(Img("color"), 0, Full, "COLOR")}, Pass("draw", 0), <<PassLeave>>)
            x == [d EXCEPT !.pre = <<PassEnter>>]
            y == Copy(Img("color"), 0, Full, Buf("staging"), 0, Full)
            N(Z) == Place(Z, NoPool, 0)
<1>1. /\ OwnedImage("color") \subseteq O /\ OwnedHost("staging") \subseteq O
      /\ {Obj("renderPass"), Obj("framebuffer"), Module("mesh"), Layout("mesh"), Pipe("mesh"),
          Obj("cmdPool"), Obj("fence")} \subseteq O
  BY FreesAll DEF MeshExecOwned, OwnedHost, OwnedGraphics
<1>2. /\ <<"device", "device">> \in G /\ Graphics \in J /\ {Obj("renderPass"), View("color")} \subseteq E
      /\ {Module("mesh"), Layout("mesh"), Obj("renderPass")} \subseteq I
      /\ {Obj("framebuffer"), Pipe("mesh")} \subseteq K /\ Img("color") \in K /\ Buf("staging") \in K
      /\ Mapped("staging") \in L
  BY DevHas DEF OwnedHost, OwnedBuffer, OwnedImage, Granted
<1>. HIDE DEF O
<1>3. NoPool \in Pools
  BY NoPoolIsRow
<1>4. Runs(<<Gate("available"), Gate("mesh"), r>>, N({}), N(G), O)
  <2>1. Legal(Gate("available"), N({}), N(B), O)
    BY <1>3, GateLegal DEF Dev
  <2>2. Legal(Gate("mesh"), N(B), N(G), O)
    BY <1>3, GateLegal
  <2>3. Legal(r, N(G), N(G), O)
    BY <1>3, RequireLegal
  <2>. HIDE DEF B, G, r
  <2>. QED BY <2>1, <2>2, <2>3, ThreeRuns
<1>5. Runs(Loaded, N(G), N(G), O)
  BY <1>2, <1>3, LoadedRuns
<1>6. Runs(MeshTarget, N(G), N(D), O)
  <2>1. Runs(Image("color") \o ViewOf(View("color"), "color"), N(G), N(C), O)
    BY <1>1, <1>3, TargetRuns
  <2>2. Runs(HostBuffer("staging"), N(C), N(D), O)
    BY <1>1, <1>3, HostBufferRuns
  <2>. HIDE DEF G, C, D
  <2>. QED BY <2>1, <2>2, ThenRuns DEF MeshTarget
<1>7. Runs(MeshPass, N(D), N(F), O)
  <2>1. Legal(Make(Obj("renderPass"), {}), N(D), N(E), O)
    BY <1>1, <1>3, MakeLegal
  <2>2. Legal(Make(Obj("framebuffer"), {Obj("renderPass"), View("color")}), N(E), N(F), O)
    BY <1>1, <1>2, <1>3, MakeLegal
  <2>. HIDE DEF D, E, F
  <2>. QED BY <2>1, <2>2, TwoRuns DEF MeshPass
<1>8. Runs(MeshPipeline, N(F), N(J), O)
  <2>1. Legal(Make(Module("mesh"), {}), N(F), N(H), O)
    BY <1>1, <1>3, MakeLegal
  <2>2. Legal(Make(Layout("mesh"), {}), N(H), N(I), O)
    BY <1>1, <1>3, MakeLegal
  <2>3. Legal(Make(Pipe("mesh"), {Module("mesh"), Layout("mesh"), Obj("renderPass")}), N(I), N(J), O)
    BY <1>1, <1>2, <1>3, MakeLegal
  <2>. HIDE DEF F, H, I, J
  <2>. QED BY <2>1, <2>2, <2>3, ThreeRuns DEF MeshPipeline
<1>9. Runs(MeshCommands, N(J), N(L), O)
  <2>. HIDE DEF J
  <2>1. \A a \in {Wr(Img("color"), 0, Full, "COLOR")} : a.h \in K
    BY <1>2 DEF Wr, Access
  <2>2. IsCommand(d, K)
    BY <1>2, <2>1, CommandIs
  <2>3. IsCommand(x, K) /\ IsCommand(y, K)
    BY <1>2, <2>2, MarkedIs, CopyIs
  <2>4. MeshCommands = CommandPool("cmdPool", Graphics)
                       \o Recorded("cmdPool", "fence", Graphics, <<x, y>>)
    BY DEF MeshCommands
  <2>. HIDE DEF d, x, y
  <2>5. Still(<<x, y>>, Place(K, NoPool, 0), O)
    BY <1>3, <2>3, StillTwo
  <2>. QED BY <1>1, <1>2, <1>3, <2>4, <2>5, UntimedRuns
<1>10. Runs(<<Read({Window("staging", 0, Full, Pass("draw", 0))})>>, N(L), N(L), O)
  <2>. HIDE DEF L
  <2>1. \A w \in {Window("staging", 0, Full, Pass("draw", 0))} : Mapped(w.acc.h[2]) \in L
    BY <1>2, WindowMap
  <2>2. Legal(Read({Window("staging", 0, Full, Pass("draw", 0))}), N(L), N(L), O)
    BY <1>3, <2>1, ReadLegal
  <2>. QED BY <2>2, OneRuns
<1>11. MeshExecScript(p) = <<Gate("available"), Gate("mesh"), r>> \o Loaded \o MeshTarget
          \o MeshPass \o MeshPipeline \o MeshCommands
          \o <<Read({Window("staging", 0, Full, Pass("draw", 0))})>>
  BY DEF MeshExecScript
<1>. HIDE DEF r, G, D, F, J, L
<1>12. Runs(<<Gate("available"), Gate("mesh"), r>> \o Loaded \o MeshTarget
          \o MeshPass \o MeshPipeline \o MeshCommands, N({}), N(L), O)
  BY <1>4, <1>5, <1>6, <1>7, <1>8, <1>9, SixThen
<1>13. Runs(MeshExecScript(p), N({}), N(L), O)
  BY <1>10, <1>11, <1>12, ThenRuns
<1>. QED BY <1>13, CompletesFrom DEF O

-----------------------------------------------------------------------------
(* renderWorldViewInto.  Geometry leaves its buffers and no mapping. *)
Meshed(A) ==
  ((A \cup OwnedHost("vertices")) \cup OwnedHost("indices"))
    \ {Mapped("vertices"), Mapped("indices")}
Drawable(p, A) == IF p.geometry THEN Meshed(A) ELSE A

LEMMA GeometryRuns ==
  ASSUME NEW p, NEW A, NEW O, OwnedHost("vertices") \subseteq O, OwnedHost("indices") \subseteq O
  PROVE  Runs(Geometry(p), Place(A, NoPool, 0), Place(Drawable(p, A), NoPool, 0), O)
<1>0. NoPool \in Pools
  BY NoPoolIsRow
<1>1. CASE ~p.geometry
  <2>1. Geometry(p) = <<>> /\ Drawable(p, A) = A
    BY <1>1 DEF Geometry, Drawable
  <2>. QED BY <2>1, NoneRuns
<1>2. CASE p.geometry
  <2>. DEFINE B == A \cup OwnedHost("vertices")  C == B \cup OwnedHost("indices")
              D == C \ {Mapped("vertices")}  E == D \ {Mapped("indices")}
              N(Z) == Place(Z, NoPool, 0)
              v == HostFill("vertices", Full, Pass("mesh", 0))
              i == HostFill("indices", Full, Pass("mesh", 0))
  <2>1. /\ Geometry(p) = <<Try({})>> \o HostBuffer("vertices") \o HostBuffer("indices")
                         \o <<v, i, Unmap("vertices"), Unmap("indices")>>
        /\ Drawable(p, A) = E
    <3>1. Drawable(p, A) = E
      <4>1. Drawable(p, A) = Meshed(A)
        BY <1>2 DEF Drawable
      <4>. QED BY <4>1 DEF Meshed
    <3>. HIDE DEF E
    <3>. QED BY <1>2, <3>1, Zenon DEF Geometry
  <2>2. /\ Mapped("vertices") \in C /\ Mapped("indices") \in C /\ Mapped("indices") \in D
        /\ Mapped("vertices") \in O /\ Mapped("indices") \in O
        /\ D \subseteq C /\ E \subseteq D /\ Mapped("vertices") \notin D /\ Mapped("indices") \notin E
    <3>1. Mapped("vertices") # Mapped("indices")
      BY DEF Mapped
    <3>. QED BY <3>1 DEF OwnedHost
  <2>3. Runs(<<Try({})>>, N(A), N(A), O)
    BY <1>0, TryLegal, OneRuns
  <2>4. Runs(HostBuffer("vertices"), N(A), N(B), O)
    BY <1>0, HostBufferRuns
  <2>5. Runs(HostBuffer("indices"), N(B), N(C), O)
    BY <1>0, HostBufferRuns
  <2>. HIDE DEF B, C, D, E
  <2>6. Legal(v, N(C), N(C), O) /\ Legal(i, N(C), N(C), O)
    BY <1>0, <2>2, HostFillIs, CommandLegal
  <2>7. Legal(Unmap("vertices"), N(C), N(D), O)
    BY <1>0, <2>2, UnmapLegal
  <2>8. Legal(Unmap("indices"), N(D), N(E), O)
    BY <1>0, <2>2, UnmapLegal
  <2>. HIDE DEF v, i
  <2>9. Runs(<<v, i, Unmap("vertices"), Unmap("indices")>>, N(C), N(E), O)
    BY <2>6, <2>7, <2>8, FourRuns
  <2>10. Runs(<<Try({})>> \o HostBuffer("vertices") \o HostBuffer("indices")
              \o <<v, i, Unmap("vertices"), Unmap("indices")>>, N(A), N(E), O)
    BY <2>3, <2>4, <2>5, <2>9, FourThen
  <2>. QED BY <2>1, <2>10
<1>. QED BY <1>1, <1>2

LEMMA DrawableHas ==
  ASSUME NEW p, NEW A
  PROVE  /\ \A h \in A : h[1] # "map" => h \in Drawable(p, A)
         /\ p.geometry => Buf("vertices") \in Drawable(p, A) /\ Buf("indices") \in Drawable(p, A)
<1>1. ASSUME NEW h, h[1] # "map" PROVE h # Mapped("vertices") /\ h # Mapped("indices")
  <2>1. Mapped("vertices")[1] = "map" /\ Mapped("indices")[1] = "map"
    BY DEF Mapped
  <2>. QED BY <1>1, <2>1
<1>2. Buf("vertices")[1] # "map" /\ Buf("indices")[1] # "map"
  BY DEF Buf
<1>3. CASE p.geometry
  <2>1. Drawable(p, A) = Meshed(A)
    BY <1>3 DEF Drawable
  <2>. QED BY <1>1, <1>2, <2>1 DEF Meshed, OwnedHost, OwnedBuffer
<1>4. CASE ~p.geometry
  BY <1>4 DEF Drawable
<1>. QED BY <1>3, <1>4

LEMMA NotMapped ==
  /\ \A n : View(n)[1] = "view" /\ Img(n)[1] = "image" /\ Mem(n)[1] = "memory"
  /\ Graphics[1] = "device" /\ Compute[1] = "device" /\ <<"device", "device">>[1] = "device"
BY DEF View, Img, Mem, Graphics, Compute

LEMMA IntoCompletes ==
  ASSUME NEW p
  PROVE  \E h : /\ h.due = 0 /\ Graphics \in h.has
                /\ Runs(WorldIntoScript(p), Place(Target, NoPool, 0), h, Frees(WorldIntoOwned))
<1>. DEFINE O == Frees(WorldIntoOwned)
            B == Target \cup Dev
            G == B \cup Granted("graphics")
            C == Drawable(p, G)
            D == C \cup OwnedImage("depth")
            E == D \cup {Obj("renderPass")}
            F == E \cup {Obj("framebuffer")}
            H == F \cup {Module("world")}
            I == H \cup {Layout("world")}
            J == I \cup {Pipe("world")}
            K == J \cup {Obj("cmdPool")}
            L == K \cup {Obj("fence")}
            r == Require(p.width # 0 /\ p.height # 0)
            u == {Obj("framebuffer"), View("target")}
                    \cup (IF p.geometry THEN {Pipe("world")} ELSE {})
            a == {Wr(Img("target"), 0, Full, "COLOR"), Wr(Img("depth"), 0, Full, "DEPTH")}
                    \cup (IF p.geometry THEN {Rd(Buf("vertices"), 0, Full, "VERTEX"),
                                              Rd(Buf("indices"), 0, Full, "VERTEX")} ELSE {})
            d == Command(u, a, Pass("draw", 0), <<PassLeave>>)
            x == [d EXCEPT !.pre = <<WorldPassEnter>>]
            N(Z) == Place(Z, NoPool, 0)
<1>1. /\ OwnedHost("vertices") \subseteq O /\ OwnedHost("indices") \subseteq O
      /\ OwnedImage("depth") \subseteq O
      /\ {Obj("renderPass"), Obj("framebuffer"), Module("world"), Layout("world"), Pipe("world"),
          Obj("cmdPool"), Obj("fence")} \subseteq O
  <2>1. Mem("vertices") \in WorldIntoOwned /\ Mem("indices") \in WorldIntoOwned
    BY DEF WorldIntoOwned, OwnedBuffer
  <2>2. Mapped("vertices") \in O /\ Mapped("indices") \in O
    BY <2>1, FreesAll
  <2>. QED BY <2>2, FreesAll DEF WorldIntoOwned, OwnedHost, OwnedGraphics
<1>2. /\ <<"device", "device">> \in G /\ Graphics \in G /\ View("target") \in G /\ Img("target") \in G
  BY DevHas DEF Granted, Target
<1>3. /\ Graphics \in C /\ View("target") \in C /\ Img("target") \in C
      /\ p.geometry => Buf("vertices") \in C /\ Buf("indices") \in C
  <2>. HIDE DEF G
  <2>. QED BY <1>2, DrawableHas, NotMapped
<1>4. NoPool \in Pools
  BY NoPoolIsRow
<1>5. Runs(<<Gate("available"), Gate("graphics"), r>>, N(Target), N(G), O)
  <2>1. Legal(Gate("available"), N(Target), N(B), O)
    BY <1>4, GateLegal DEF Dev
  <2>2. Legal(Gate("graphics"), N(B), N(G), O)
    BY <1>4, GateLegal
  <2>3. Legal(r, N(G), N(G), O)
    BY <1>4, RequireLegal
  <2>. HIDE DEF B, G, r, O
  <2>. QED BY <2>1, <2>2, <2>3, ThreeRuns
<1>. HIDE DEF G, O
<1>6. Runs(Loaded, N(G), N(G), O)
  BY <1>2, <1>4, LoadedRuns
<1>7. Runs(Geometry(p), N(G), N(C), O)
  BY <1>1, GeometryRuns
<1>. HIDE DEF C
<1>8. /\ {Obj("renderPass"), View("target"), View("depth")} \subseteq E
      /\ {Module("world"), Layout("world"), Obj("renderPass")} \subseteq I
      /\ Graphics \in J /\ {Obj("framebuffer"), View("target"), Pipe("world")} \subseteq K
      /\ Img("target") \in K /\ Img("depth") \in K
      /\ p.geometry => Buf("vertices") \in K /\ Buf("indices") \in K
      /\ Graphics \in L
  BY <1>3 DEF OwnedImage
<1>9. Runs(DepthTarget, N(C), N(D), O)
  BY <1>1, <1>4, TargetRuns DEF DepthTarget
<1>10. Runs(WorldPass, N(D), N(F), O)
  <2>1. Legal(Make(Obj("renderPass"), {}), N(D), N(E), O)
    BY <1>1, <1>4, MakeLegal
  <2>2. Legal(Make(Obj("framebuffer"), {Obj("renderPass"), View("target"), View("depth")}),
              N(E), N(F), O)
    BY <1>1, <1>4, <1>8, MakeLegal
  <2>. HIDE DEF D, E, F
  <2>. QED BY <2>1, <2>2, TwoRuns DEF WorldPass
<1>11. Runs(WorldPipeline, N(F), N(J), O)
  <2>1. Legal(Make(Module("world"), {}), N(F), N(H), O)
    BY <1>1, <1>4, MakeLegal
  <2>2. Legal(Make(Layout("world"), {}), N(H), N(I), O)
    BY <1>1, <1>4, MakeLegal
  <2>3. Legal(Make(Pipe("world"), {Module("world"), Layout("world"), Obj("renderPass")}),
              N(I), N(J), O)
    BY <1>1, <1>4, <1>8, MakeLegal
  <2>. HIDE DEF F, H, I, J
  <2>. QED BY <2>1, <2>2, <2>3, ThreeRuns DEF WorldPipeline
<1>12. Runs(WorldCommands(p), N(J), N(L), O)
  <2>. HIDE DEF J
  <2>1. u \subseteq K /\ \A b \in a : b.h \in K
    <3>. HIDE DEF K
    <3>1. CASE p.geometry
      BY <1>8, <3>1 DEF Wr, Rd, Access
    <3>2. CASE ~p.geometry
      BY <1>8, <3>2 DEF Wr, Rd, Access
    <3>. QED BY <3>1, <3>2
  <2>2. WorldCommands(p) = CommandPool("cmdPool", Graphics)
                           \o Recorded("cmdPool", "fence", Graphics, <<x>>)
    BY DEF WorldCommands
  <2>. HIDE DEF u, a
  <2>3. IsCommand(d, K)
    BY <2>1, CommandIs
  <2>. HIDE DEF d
  <2>4. IsCommand(x, K)
    BY <2>3, MarkedIs
  <2>. HIDE DEF x
  <2>5. Still(<<x>>, Place(K, NoPool, 0), O)
    BY <1>4, <2>4, StillCommand
  <2>. QED BY <1>1, <1>4, <1>8, <2>2, <2>5, UntimedRuns
<1>13. WorldIntoScript(p) = <<Gate("available"), Gate("graphics"), r>> \o Loaded \o Geometry(p)
          \o DepthTarget \o WorldPass \o WorldPipeline \o WorldCommands(p)
  BY DEF WorldIntoScript
<1>. HIDE DEF r, D, F, J, L
<1>14. Runs(<<Gate("available"), Gate("graphics"), r>> \o Loaded \o Geometry(p)
          \o DepthTarget \o WorldPass \o WorldPipeline, N(Target), N(J), O)
  BY <1>5, <1>6, <1>7, <1>9, <1>10, <1>11, SixThen
<1>15. Runs(WorldIntoScript(p), N(Target), N(L), O)
  BY <1>12, <1>13, <1>14, ThenRuns
<1>16. Place(L, NoPool, 0).due = 0 /\ Place(L, NoPool, 0).has = L
  BY DEF Place
<1>. QED BY <1>8, <1>15, <1>16 DEF O

(* What renderWorldViewInto destroys is its own: its caller's target and   *)
(* the device's handles stay.                                              *)
LEMMA KeptByInto ==
  ASSUME NEW h \in OwnedImage("target") \cup Dev \cup {Graphics}
  PROVE  h \notin Frees(WorldIntoOwned)
<1>1. h[1] # "map" /\ h \notin WorldIntoOwned
  <2>1. CASE h \in OwnedImage("target")
    BY <2>1 DEF OwnedImage, WorldIntoOwned, OwnedBuffer, OwnedGraphics, Img, Mem, View, Buf,
                Module, Layout, Pipe, Obj
  <2>2. CASE h \in Dev \cup {Graphics}
    BY <2>2 DEF OwnedImage, WorldIntoOwned, OwnedBuffer, OwnedGraphics, Img, Mem, View, Buf,
                Module, Layout, Pipe, Obj, Dev, Granted, Graphics, Compute
  <2>. QED BY <2>1, <2>2
<1>2. \A n : Mapped(n)[1] = "map"
  BY DEF Mapped
<1>. QED BY <1>1, <1>2 DEF Frees

(* renderWorldView *)
LEMMA ViewCompletes ==
  ASSUME NEW p
  PROVE  Completes(WorldViewScript(p), {}, Frees(WorldViewOwned))
<1>. DEFINE O == Frees(WorldViewOwned)
            B == {} \cup Dev
            C == B \cup OwnedImage("target")
            D == (C \ Frees(WorldIntoOwned)) \cup {Graphics}
            E == D \cup OwnedHost("staging")
            K == E \cup {Obj("readPool")}
            L == K \cup {Obj("readFence")}
            x == [Step EXCEPT !.op = "call", !.callee = "into"]
            y == Copy(Img("target"), 0, Full, Buf("staging"), 0, Full)
            N(Z) == Place(Z, NoPool, 0)
<1>1. /\ OwnedImage("target") \subseteq O /\ OwnedHost("staging") \subseteq O
      /\ Obj("readPool") \in O /\ Obj("readFence") \in O
  BY FreesAll DEF WorldViewOwned, OwnedHost
<1>. HIDE DEF O
<1>2. NoPool \in Pools
  BY NoPoolIsRow
<1>3. Runs(<<Gate("available")>> \o Loaded, N({}), N(B), O)
  BY <1>2, OpenRuns
<1>4. Runs(OffscreenTarget, N(B), N(C), O)
  BY <1>1, <1>2, TargetRuns DEF OffscreenTarget
<1>5. Runs(<<x>>, N(C), N(D), O)
  <2>1. Target \subseteq C /\ Target \subseteq O
    BY <1>1 DEF Target, OwnedImage
  <2>. HIDE DEF C
  <2>2. Legal(x, N(C), N(D), O)
    BY <2>1, CallLegal
  <2>. HIDE DEF x, D
  <2>. QED BY <2>2, OneRuns
<1>6. Graphics \in D /\ Img("target") \in D
  <2>1. Img("target") \in OwnedImage("target")
    BY DEF OwnedImage
  <2>2. Img("target") \notin Frees(WorldIntoOwned)
    BY <2>1, KeptByInto
  <2>. QED BY <2>1, <2>2
<1>. HIDE DEF D
<1>7. Runs(HostBuffer("staging"), N(D), N(E), O)
  BY <1>1, <1>2, HostBufferRuns
<1>8. Graphics \in E /\ Img("target") \in K /\ Buf("staging") \in K /\ Mapped("staging") \in L
  BY <1>6 DEF OwnedHost, OwnedBuffer
<1>10. Runs(<<Read({Window("staging", 0, Full, Pass("draw", 0))})>>, N(L), N(L), O)
  <2>. HIDE DEF L
  <2>1. \A w \in {Window("staging", 0, Full, Pass("draw", 0))} : Mapped(w.acc.h[2]) \in L
    BY <1>8, WindowMap
  <2>2. Legal(Read({Window("staging", 0, Full, Pass("draw", 0))}), N(L), N(L), O)
    BY <1>2, <2>1, ReadLegal
  <2>. QED BY <2>2, OneRuns
<1>. DEFINE c == Recorded("readPool", "readFence", Graphics, <<y>>)
            q == CommandPool("readPool", Graphics)
            z == <<Read({Window("staging", 0, Full, Pass("draw", 0))})>>
<1>11. /\ Readback = HostBuffer("staging") \o q \o c \o z
       /\ WorldViewScript(p) = <<Gate("available")>> \o Loaded \o OffscreenTarget \o <<x>> \o Readback
  BY DEF Readback, WorldViewScript
<1>12. Runs(Readback, N(D), N(L), O)
  <2>1. PICK M : Runs(q, N(E), M, O) /\ Runs(c, M, N(L), O)
    <3>1. Runs(q, N(E), N(K), O)
      BY <1>1, <1>2, <1>8, CommandPoolRuns
    <3>2. Runs(c, N(K), N(L), O)
      <4>1. IsCommand(y, K) /\ Graphics \in K /\ Obj("readPool") \in K
        BY <1>8, CopyIs
      <4>. HIDE DEF y, K
      <4>2. Still(<<y>>, Place(K, NoPool, 0), O)
        BY <1>2, <4>1, StillCommand
      <4>. QED BY <1>1, <1>2, <4>1, <4>2, RecordedRuns
    <3>. HIDE DEF K, E, q, c, L
    <3>. QED BY <3>1, <3>2
  <2>. HIDE DEF q, c, z, E, L
  <2>. QED BY <1>7, <1>10, <1>11, <2>1, FourThen DEF z
<1>. HIDE DEF x, L, C, B
<1>13. Runs(WorldViewScript(p), N({}), N(L), O)
  BY <1>3, <1>4, <1>5, <1>11, <1>12, FourThen
<1>. QED BY <1>13, CompletesFrom DEF O

-----------------------------------------------------------------------------
(* The benches: numbers of levels, and pieces that repeat. *)
LEMMA Log2IsNat ==
  ASSUME NEW n
  PROVE  Log2(n) \in Nat
<1>0. 1 \in Int /\ ExtentBits \in Int
  BY DEF ExtentBits
<1>1. IsFiniteSet(1 .. ExtentBits)
  BY <1>0, FS_Interval
<1>. DEFINE S == {k \in 1 .. ExtentBits : 2 ^ k <= n}
<1>2. S \subseteq 1 .. ExtentBits
  OBVIOUS
<1>. HIDE DEF S
<1>3. Cardinality(S) \in Nat
  BY <1>1, <1>2, FS_Subset, FS_CardinalityType
<1>. QED BY <1>3 DEF Log2, S

LEMMA MipsIsPositive ==
  ASSUME NEW n
  PROVE  Mips(n) \in Nat /\ Mips(n) - 1 \in Nat /\ Mips(n) = (Mips(n) - 1) + 1
BY Log2IsNat DEF Mips

LEMMA CascadesIsNat ==
  ASSUME NEW p
  PROVE  Cascades(p) \in Nat
<1>. DEFINE l == Log2(p.extent)
<1>1. l \in Nat
  BY Log2IsNat
<1>2. Levels(p) \subseteq 0 .. l
  BY DEF Levels
<1>. HIDE DEF l
<1>3. IsFiniteSet(0 .. l)
  BY <1>1, FS_Interval
<1>. QED BY <1>2, <1>3, FS_Subset, FS_CardinalityType DEF Cascades

LEMMA FunctionRuns ==
  ASSUME NEW n \in Nat, NEW f, NEW s, s = [i \in 1 .. n |-> f[i]], NEW tr, NEW O,
         \A i \in 1 .. n : Legal(f[i], tr[i - 1], tr[i], O)
  PROVE  Runs(s, tr[0], tr[n], O)
<1>. DEFINE S == {f[i] : i \in 1 .. n}
<1>1. s \in Seq(S) /\ Len(s) = n
  <2>1. \A i \in 1 .. n : f[i] \in S
    OBVIOUS
  <2>. HIDE DEF S
  <2>2. [i \in 1 .. n |-> f[i]] \in Seq(S)
    BY <2>1
  <2>3. Len([i \in 1 .. n |-> f[i]]) = n
    OBVIOUS
  <2>. QED BY <2>2, <2>3
<1>2. \A i \in 1 .. n : s[i] = f[i]
  OBVIOUS
<1>. HIDE DEF S
<1>3. Traces(tr, s, tr[0], tr[n], O)
  BY <1>1, <1>2 DEF Traces
<1>. QED BY <1>1, <1>3 DEF Runs, IsScript

LevelsBelow(k) == {Level(i) : i \in 0 .. (k - 1)}

LEMMA LevelsRun ==
  ASSUME NEW m \in Nat, NEW A, NEW P \in Pools, NEW O, LevelsBelow(m) \subseteq O,
         {Img("radiance"), Mem("radiance")} \subseteq A
  PROVE  Runs(UpTo(m, LAMBDA i : Make(Level(i - 1), {Img("radiance"), Mem("radiance")})),
              Place(A, P, 0), Place(A \cup LevelsBelow(m), P, 0), O)
<1>. DEFINE U == {Img("radiance"), Mem("radiance")}
            s == UpTo(m, LAMBDA i : Make(Level(i - 1), U))
            tr == [k \in 0 .. m |-> Place(A \cup LevelsBelow(k), P, 0)]
<1>1. s = [i \in 1 .. m |-> s[i]] /\ \A i \in 1 .. m : s[i] = Make(Level(i - 1), U)
  BY DEF UpTo
<1>2. \A k \in 0 .. m : tr[k] = Place(A \cup LevelsBelow(k), P, 0)
  OBVIOUS
<1>3. ASSUME NEW i \in 1 .. m PROVE Legal(s[i], tr[i - 1], tr[i], O)
  <2>. DEFINE B == A \cup LevelsBelow(i - 1)  C == A \cup LevelsBelow(i)
  <2>1. Level(i - 1) \in O /\ U \subseteq B /\ C \subseteq B \cup {Level(i - 1)}
    <3>1. i - 1 \in 0 .. (m - 1)
      OBVIOUS
    <3>2. Level(i - 1) \in LevelsBelow(m)
      BY <3>1 DEF LevelsBelow
    <3>3. ASSUME NEW j \in 0 .. (i - 1) PROVE j = i - 1 \/ j \in 0 .. ((i - 1) - 1)
      OBVIOUS
    <3>4. LevelsBelow(i) \subseteq LevelsBelow(i - 1) \cup {Level(i - 1)}
      BY <3>3 DEF LevelsBelow
    <3>. QED BY <3>2, <3>4
  <2>2. s[i] = Make(Level(i - 1), U) /\ tr[i - 1] = Place(B, P, 0) /\ tr[i] = Place(C, P, 0)
    <3>. HIDE DEF tr, s, U
    <3>1. i \in 0 .. m /\ i - 1 \in 0 .. m
      OBVIOUS
    <3>. QED BY <1>1, <1>2, <3>1
  <2>. HIDE DEF tr, s, U, B, C
  <2>3. Legal(Make(Level(i - 1), U), Place(B, P, 0), Place(C, P, 0), O)
    BY <2>1, MakeLegal
  <2>. QED BY <2>2, <2>3
<1>4. LevelsBelow(0) = {}
  BY DEF LevelsBelow
<1>5. tr[0] = Place(A, P, 0) /\ tr[m] = Place(A \cup LevelsBelow(m), P, 0)
  <2>1. 0 \in 0 .. m /\ m \in 0 .. m /\ A \cup LevelsBelow(0) = A
    BY <1>4
  <2>. HIDE DEF tr
  <2>. QED BY <1>2, <2>1
<1>. HIDE DEF tr, s
<1>6. Runs(s, tr[0], tr[m], O)
  BY <1>1, <1>3, FunctionRuns
<1>. QED BY <1>5, <1>6 DEF s

LEMMA RadianceRuns ==
  ASSUME NEW m \in Nat, NEW A, NEW P \in Pools, NEW O, OwnedRadiance(m) \subseteq O
  PROVE  Runs(RadianceImage(m), Place(A, P, 0), Place(A \cup OwnedRadiance(m), P, 0), O)
<1>. DEFINE B == A \cup {Img("radiance"), Mem("radiance")}
            C == B \cup LevelsBelow(m)  D == C \cup {View("radiance")}
            E == A \cup OwnedRadiance(m)
            u == UpTo(m, LAMBDA i : Make(Level(i - 1), {Img("radiance"), Mem("radiance")}))
<1>1. /\ {Img("radiance"), Mem("radiance")} \subseteq O /\ LevelsBelow(m) \subseteq O
      /\ View("radiance") \in O /\ Obj("sampler") \in O
      /\ {Img("radiance"), Mem("radiance")} \subseteq B
      /\ {Img("radiance"), Mem("radiance")} \subseteq C /\ E = D \cup {Obj("sampler")}
  BY DEF OwnedRadiance, OwnedImage, LevelsBelow
<1>2. Runs(Image("radiance"), Place(A, P, 0), Place(B, P, 0), O)
  BY <1>1, ImageRuns
<1>3. Runs(u, Place(B, P, 0), Place(C, P, 0), O)
  BY <1>1, LevelsRun
<1>4. Legal(Make(View("radiance"), {Img("radiance"), Mem("radiance")}),
            Place(C, P, 0), Place(D, P, 0), O)
  BY <1>1, MakeLegal
<1>5. Legal(Make(Obj("sampler"), {}), Place(D, P, 0), Place(E, P, 0), O)
  BY <1>1, MakeLegal
<1>6. RadianceImage(m) = Image("radiance") \o u \o ViewOf(View("radiance"), "radiance")
                         \o <<Make(Obj("sampler"), {})>>
  BY DEF RadianceImage
<1>. HIDE DEF B, C, D, E, u
<1>7. /\ Runs(ViewOf(View("radiance"), "radiance"), Place(C, P, 0), Place(D, P, 0), O)
      /\ Runs(<<Make(Obj("sampler"), {})>>, Place(D, P, 0), Place(E, P, 0), O)
  BY <1>4, <1>5, OneRuns DEF ViewOf
<1>8. Runs(RadianceImage(m), Place(A, P, 0), Place(E, P, 0), O)
  BY <1>2, <1>3, <1>6, <1>7, FourThen
<1>. QED BY <1>8 DEF E

(* The sets of the mip pass, drawn from what the others leave. *)
LEMMA MipSetsRun ==
  ASSUME NEW m \in Nat, NEW A, NEW O, Obj("pool") \in A, Sets("mip") \in A
  PROVE  Runs(UpTo(m, LAMBDA i : AllocSet("mip", 0, 2, 0, 0)),
              Place(A, Row(m, 0, 2 * m, 0, 0), 0), Place(A, NoPool, 0), O)
<1>. DEFINE s == UpTo(m, LAMBDA i : AllocSet("mip", 0, 2, 0, 0))
            tr == [k \in 0 .. m |-> Place(A, Row(m - k, 0, 2 * (m - k), 0, 0), 0)]
<1>1. s = [i \in 1 .. m |-> s[i]] /\ \A i \in 1 .. m : s[i] = AllocSet("mip", 0, 2, 0, 0)
  BY DEF UpTo
<1>2. \A k \in 0 .. m : tr[k] = Place(A, Row(m - k, 0, 2 * (m - k), 0, 0), 0)
  OBVIOUS
<1>3. ASSUME NEW i \in 1 .. m PROVE Legal(s[i], tr[i - 1], tr[i], O)
  <2>. DEFINE a == m - i  c == 2 * (m - i)
  <2>1. a \in Nat /\ c \in Nat
    OBVIOUS
  <2>2. m - (i - 1) = a + 1 /\ 2 * (m - (i - 1)) = c + 2
    OBVIOUS
  <2>3. tr[i - 1] = Place(A, Row(a + 1, 0 + 0, c + 2, 0 + 0, 0 + 0), 0)
    <3>1. i - 1 \in 0 .. m
      OBVIOUS
    <3>2. tr[i - 1] = Place(A, Row(m - (i - 1), 0, 2 * (m - (i - 1)), 0, 0), 0)
      BY <1>2, <3>1
    <3>. QED BY <2>2, <3>2
  <2>4. tr[i] = Place(A, Row(a, 0, c, 0, 0), 0)
    BY <1>2
  <2>5. s[i] = AllocSet("mip", 0, 2, 0, 0)
    BY <1>1
  <2>. HIDE DEF a, c, tr, s
  <2>6. Legal(AllocSet("mip", 0, 2, 0, 0), Place(A, Row(a + 1, 0 + 0, c + 2, 0 + 0, 0 + 0), 0),
              Place(A, Row(a, 0, c, 0, 0), 0), O)
    BY <2>1, AllocLegal
  <2>. QED BY <2>3, <2>4, <2>5, <2>6
<1>4. tr[0] = Place(A, Row(m, 0, 2 * m, 0, 0), 0) /\ tr[m] = Place(A, NoPool, 0)
  <2>1. 0 \in 0 .. m /\ m \in 0 .. m /\ m - 0 = m /\ m - m = 0 /\ 2 * 0 = 0
    OBVIOUS
  <2>2. tr[0] = Place(A, Row(m - 0, 0, 2 * (m - 0), 0, 0), 0)
        /\ tr[m] = Place(A, Row(m - m, 0, 2 * (m - m), 0, 0), 0)
    BY <1>2, <2>1
  <2>. QED BY <2>1, <2>2, NoPoolIsRow
<1>. HIDE DEF tr, s
<1>5. Runs(s, tr[0], tr[m], O)
  BY <1>1, <1>3, FunctionRuns
<1>. QED BY <1>4, <1>5 DEF s

(* Passes.  What the passes on the volume touch. *)
Ready(names, A, stamps) ==
  /\ \A n \in names : Pipe(n) \in A /\ Layout(n) \in A
  /\ stamps => Obj("queryPool") \in A

LEMMA DispatchIs ==
  ASSUME NEW n, NEW accs, NEW pass, NEW stamps \in BOOLEAN, NEW A, NEW names,
         Ready(names, A, stamps), n \in names, \A a \in accs : a.h \in A
  PROVE  IsCommand(Dispatch(n, accs, pass, stamps), A)
<1>. DEFINE c == Command({Pipe(n), Layout(n)}, accs, pass, <<Isolate>>)
<1>1. {Pipe(n), Layout(n)} \subseteq A /\ (stamps => Obj("queryPool") \in A)
  BY DEF Ready
<1>2. IsCommand(c, A)
  BY <1>1, CommandIs
<1>3. Dispatch(n, accs, pass, stamps) = Stamped(c, stamps)
  BY DEF Dispatch
<1>. HIDE DEF c
<1>. QED BY <1>1, <1>2, <1>3, StampedIs

LEMMA RdWr ==
  ASSUME NEW h, NEW lo, NEW hi, NEW stage0, NEW w
  PROVE  Rd(h, lo, hi, stage0).h = h /\ Wr(h, lo, hi, stage0).h = h /\ Access(h, lo, hi, stage0, w).h = h
BY DEF Rd, Wr, Access

LEMMA VolumeStill ==
  ASSUME NEW p, NEW stamps \in BOOLEAN, NEW A, NEW P \in Pools, NEW O,
         Ready({"inject", "mip"}, A, stamps), Buf("scene") \in A, Img("radiance") \in A
  PROVE  Still(VolumePasses(p, stamps), Place(A, P, 0), O)
<1>. DEFINE s == UpTo(Mips(p.extent) - 1, LAMBDA i : MipPass(i, stamps))
            m == Mips(p.extent) - 1
<1>1. IsCommand(InjectPass(p, stamps), A)
  <2>1. \A a \in {Rd(Buf("scene"), 0, SceneBytes(p), "COMPUTE"),
                  Wr(Img("radiance"), 0, 1, "COMPUTE")} : a.h \in A
    BY RdWr
  <2>. QED BY <2>1, DispatchIs DEF InjectPass
<1>2. ASSUME NEW i PROVE IsCommand(MipPass(i, stamps), A)
  <2>1. \A a \in {Rd(Img("radiance"), i - 1, i, "COMPUTE"),
                  Wr(Img("radiance"), i, i + 1, "COMPUTE")} : a.h \in A
    BY RdWr
  <2>. QED BY <2>1, DispatchIs DEF MipPass
<1>3. m \in Int
  BY MipsIsPositive
<1>4. s = [i \in 1 .. m |-> s[i]] /\ \A i \in 1 .. m : s[i] = MipPass(i, stamps)
  BY DEF UpTo
<1>5. VolumePasses(p, stamps) = <<InjectPass(p, stamps)>> \o s
  BY DEF VolumePasses
<1>. HIDE DEF s, m
<1>6. \A i \in 1 .. m : Legal(s[i], Place(A, P, 0), Place(A, P, 0), O)
  BY <1>2, <1>4, CommandLegal
<1>7. Still(s, Place(A, P, 0), O)
  BY <1>3, <1>4, <1>6, FunctionStill
<1>8. Still(<<InjectPass(p, stamps)>>, Place(A, P, 0), O)
  BY <1>1, StillCommand
<1>. QED BY <1>5, <1>7, <1>8, StillThen

LEMMA UploadStill ==
  ASSUME NEW p, NEW A, NEW P \in Pools, NEW O,
         {Buf("staging"), Buf("scene"), Img("radiance")} \subseteq A
  PROVE  Still(Upload(p), Place(A, P, 0), O)
<1>. DEFINE c == Copy(Buf("staging"), 0, SceneBytes(p), Buf("scene"), 0, SceneBytes(p))
            x == [c EXCEPT !.bars = <<ToShader>>]
            u == Use({Img("radiance")})
            y == [u EXCEPT !.fresh = {Transition(Img("radiance"), Mips(p.extent), ToGeneral)}]
<1>1. IsCommand(c, A) /\ IsCommand(u, A)
  BY CopyIs, UseIs
<1>2. Upload(p) = <<x, y>>
  BY DEF Upload
<1>. HIDE DEF c, u
<1>3. IsCommand(x, A) /\ IsCommand(y, A)
  BY <1>1, MarkedIs
<1>. HIDE DEF x, y
<1>. QED BY <1>2, <1>3, StillTwo

LEMMA ClearStatsIs ==
  ASSUME NEW b, NEW A, Buf("stats") \in A
  PROVE  IsCommand(ClearStats(b), A)
<1>1. {} \subseteq A /\ \A a \in {Wr(Buf("stats"), 0, b, "TRANSFER")} : a.h \in A
  BY RdWr
<1>. QED BY <1>1, CommandIs DEF ClearStats

-----------------------------------------------------------------------------
(* runVctBench *)
VctHas == {Buf("staging"), Buf("scene"), Buf("gather"), Buf("stats"), Img("radiance")}

LEMMA TraceIs ==
  ASSUME NEW p, NEW counters \in BOOLEAN, NEW stamps \in BOOLEAN, NEW A,
         Ready({"inject", "mip", "trace"}, A, stamps), VctHas \subseteq A
  PROVE  IsCommand(TracePass(p, counters, stamps), A)
<1>. DEFINE accs == {Rd(Img("radiance"), 0, Mips(p.extent), "COMPUTE"),
                     Wr(Buf("gather"), 0, GatherBytes(p), "COMPUTE")}
                    \cup (IF counters THEN {Wr(Buf("stats"), 0, 4, "COMPUTE")} ELSE {})
<1>1. TracePass(p, counters, stamps)
        = Dispatch("trace", accs, Pass("coneGather", IF counters THEN 1 ELSE 0), stamps)
  BY DEF TracePass
<1>2. \A a \in accs : a.h \in A
  BY RdWr DEF VctHas
<1>. HIDE DEF accs
<1>. QED BY <1>1, <1>2, DispatchIs

LEMMA VctCommandsStill ==
  ASSUME NEW p, p.iterations \in Nat, NEW stamps \in BOOLEAN, NEW A, NEW P \in Pools, NEW O,
         Ready({"inject", "mip", "trace"}, A, stamps), VctHas \subseteq A
  PROVE  Still(Upload(p) \o Times(p.iterations + 1, VctSequence(p, stamps))
               \o VctInstrumented(p) \o VctReadback(p), Place(A, P, 0), O)
<1>1. Still(Upload(p), Place(A, P, 0), O)
  BY UploadStill DEF VctHas
<1>2. Ready({"inject", "mip"}, A, stamps) /\ Ready({"inject", "mip", "trace"}, A, FALSE)
  BY DEF Ready
<1>3. Still(VctSequence(p, stamps), Place(A, P, 0), O)
  <2>1. Still(VolumePasses(p, stamps), Place(A, P, 0), O)
    BY <1>2, VolumeStill DEF VctHas
  <2>2. Still(<<TracePass(p, FALSE, stamps)>>, Place(A, P, 0), O)
    BY TraceIs, StillCommand
  <2>. QED BY <2>1, <2>2, StillThen DEF VctSequence
<1>4. p.iterations + 1 \in Nat
  OBVIOUS
<1>5. Still(Times(p.iterations + 1, VctSequence(p, stamps)), Place(A, P, 0), O)
  BY <1>3, <1>4, TimesStill
<1>6. Still(VctInstrumented(p), Place(A, P, 0), O)
  <2>. DEFINE t == TracePass(p, TRUE, FALSE)  x == [t EXCEPT !.bars = <<ToCopy>>]
              c == Copy(Buf("stats"), 0, 4, Buf("staging"), 8, 12)
  <2>1. IsCommand(t, A)
    BY <1>2, TraceIs
  <2>2. IsCommand(c, A) /\ IsCommand(ClearStats(4), A)
    BY CopyIs, ClearStatsIs DEF VctHas
  <2>3. VctInstrumented(p) = <<ClearStats(4), x, c>>
    BY DEF VctInstrumented
  <2>. HIDE DEF t, c
  <2>4. IsCommand(x, A)
    BY <2>1, MarkedIs
  <2>. HIDE DEF x
  <2>. QED BY <2>2, <2>3, <2>4, StillThree
<1>7. Still(VctReadback(p), Place(A, P, 0), O)
  <2>. DEFINE top == Mips(p.extent) - 1
              x == Copy(Img("radiance"), top, top + 1, Buf("staging"), 0, 4)
              y == Copy(Buf("gather"), 0, 16 * GatherSampleCount,
                        Buf("staging"), 16, 16 + 16 * GatherSampleCount)
              b == Barriers(<<ToCopy>>)
  <2>1. IsCommand(b, A) /\ IsCommand(x, A) /\ IsCommand(y, A)
    BY BarriersIs, CopyIs DEF VctHas
  <2>2. VctReadback(p) = IF ~p.readback THEN <<>> ELSE <<b, x, y>>
    BY Zenon DEF VctReadback
  <2>. HIDE DEF b, x, y
  <2>3. Still(<<b, x, y>>, Place(A, P, 0), O)
    BY <2>1, StillThree
  <2>4. Still(<<>>, Place(A, P, 0), O)
    BY NoneStill
  <2>5. VctReadback(p) = <<>> \/ VctReadback(p) = <<b, x, y>>
    BY <2>2, Zenon
  <2>. QED BY <2>3, <2>4, <2>5
<1>. DEFINE q == Times(p.iterations + 1, VctSequence(p, stamps))
<1>. HIDE DEF q
<1>8. Still(Upload(p) \o q, Place(A, P, 0), O)
  BY <1>1, <1>5, StillThen DEF q
<1>9. Still(Upload(p) \o q \o VctInstrumented(p), Place(A, P, 0), O)
  BY <1>6, <1>8, StillThen
<1>10. Still(Upload(p) \o q \o VctInstrumented(p) \o VctReadback(p), Place(A, P, 0), O)
  BY <1>7, <1>9, StillThen
<1>. QED BY <1>10 DEF q

LEMMA VctReadRuns ==
  ASSUME NEW p, NEW A, NEW P \in Pools, NEW O, Mapped("staging") \in A
  PROVE  Runs(VctRead(p), Place(A, P, 0), Place(A, P, 0), O)
<1>. DEFINE a == {Window("staging", 8, 12, Pass("coneGather", 1))}
            b == {Window("staging", 0, 4, TopMip(p)),
                  Window("staging", 16, 16 + 16 * GatherSampleCount, Pass("coneGather", 1))}
            w == a \cup (IF p.readback THEN b ELSE {})
<1>1. \A x \in a \cup b : Mapped(x.acc.h[2]) \in A
  BY WindowMap
<1>2. VctRead(p) = <<Read(w)>>
  BY DEF VctRead
<1>. HIDE DEF a, b
<1>3. \A x \in w : Mapped(x.acc.h[2]) \in A
  BY <1>1
<1>. HIDE DEF w
<1>4. Legal(Read(w), Place(A, P, 0), Place(A, P, 0), O)
  BY <1>3, ReadLegal
<1>. QED BY <1>2, <1>4, OneRuns

LEMMA VctBuffersRun ==
  ASSUME NEW p, NEW A, NEW P \in Pools, NEW O, OwnedHost("staging") \subseteq O,
         \A n \in {"scene", "gather", "stats"} : OwnedBuffer(n) \subseteq O
  PROVE  Runs(VctBuffers(p), Place(A, P, 0),
              Place(A \cup OwnedHost("staging") \cup OwnedBuffer("scene") \cup OwnedBuffer("gather")
                    \cup OwnedBuffer("stats"), P, 0), O)
<1>. DEFINE B == A \cup OwnedHost("staging")  C == B \cup OwnedBuffer("scene")
            D == C \cup OwnedBuffer("gather")  E == D \cup OwnedBuffer("stats")
            f == HostFill("staging", SceneBytes(p), Pass("scene", 0))
<1>1. Runs(HostBuffer("staging"), Place(A, P, 0), Place(B, P, 0), O)
  BY HostBufferRuns
<1>2. /\ Runs(Buffer("scene"), Place(B, P, 0), Place(C, P, 0), O)
      /\ Runs(Buffer("gather"), Place(C, P, 0), Place(D, P, 0), O)
      /\ Runs(Buffer("stats"), Place(D, P, 0), Place(E, P, 0), O)
  BY BufferRuns
<1>3. Mapped("staging") \in E
  BY DEF OwnedHost
<1>. HIDE DEF B, C, D, E
<1>4. Runs(<<f>>, Place(E, P, 0), Place(E, P, 0), O)
  BY <1>3, HostFillIs, StillCommand, StillRuns
<1>5. Runs(VctBuffers(p), Place(A, P, 0), Place(E, P, 0), O)
  BY <1>1, <1>2, <1>4, FiveThen DEF VctBuffers
<1>. QED BY <1>5 DEF B, C, D, E

(* The pool the bench makes holds every set it allocates, and no more. *)
LEMMA VctDescriptorsRun ==
  ASSUME NEW k \in Nat, k - 1 \in Nat, NEW A, NEW O, Obj("pool") \in O,
         Sets("inject") \in A, Sets("trace") \in A, Sets("mip") \in A,
         {Buf("scene"), Buf("gather"), Buf("stats"), View("radiance"), Obj("sampler")}
           \cup LevelsBelow(k) \subseteq A
  PROVE  Runs(VctDescriptors(k), Place(A, NoPool, 0), Place(A \cup {Obj("pool")}, NoPool, 0), O)
<1>. DEFINE B == A \cup {Obj("pool")}  m == k - 1
            u == {Buf("scene"), Buf("gather"), Buf("stats"), View("radiance"), Obj("sampler")}
                 \cup LevelsBelow(k)
<1>1. /\ NoPool \in Pools /\ Obj("pool") \in B /\ Sets("inject") \in B /\ Sets("trace") \in B
      /\ Sets("mip") \in B /\ u \subseteq B /\ m \in Nat
  BY NoPoolIsRow
<1>2. VctDescriptors(k) = <<MakePool(1 + m + 1, 3, 1 + 2 * m, 1, 1),
                            AllocSet("inject", 1, 1, 0, 0), AllocSet("trace", 2, 0, 1, 1)>>
                          \o UpTo(m, LAMBDA i : AllocSet("mip", 0, 2, 0, 0)) \o <<Use(u)>>
  BY DEF VctDescriptors, LevelsBelow
<1>. HIDE DEF u, m
<1>3. Legal(MakePool(1 + m + 1, 3, 1 + 2 * m, 1, 1), Place(A, NoPool, 0),
            Place(B, Row(1 + m + 1, 3, 1 + 2 * m, 1, 1), 0), O)
  <2>1. 1 + m + 1 \in Nat /\ 1 + 2 * m \in Nat
    BY <1>1
  <2>. QED BY <2>1, MakePoolLegal
<1>. HIDE DEF B
<1>4. Legal(AllocSet("inject", 1, 1, 0, 0), Place(B, Row(1 + m + 1, 3, 1 + 2 * m, 1, 1), 0),
            Place(B, Row(m + 1, 2, 2 * m, 1, 1), 0), O)
  <2>1. m + 1 \in Nat /\ 2 * m \in Nat
    BY <1>1
  <2>2. Legal(AllocSet("inject", 1, 1, 0, 0),
              Place(B, Row((m + 1) + 1, 2 + 1, 2 * m + 1, 1 + 0, 1 + 0), 0),
              Place(B, Row(m + 1, 2, 2 * m, 1, 1), 0), O)
    BY <1>1, <2>1, AllocLegal
  <2>3. (m + 1) + 1 = 1 + m + 1 /\ 2 + 1 = 3 /\ 2 * m + 1 = 1 + 2 * m /\ 1 + 0 = 1
    BY <1>1
  <2>. QED BY <2>2, <2>3
<1>5. Legal(AllocSet("trace", 2, 0, 1, 1), Place(B, Row(m + 1, 2, 2 * m, 1, 1), 0),
            Place(B, Row(m, 0, 2 * m, 0, 0), 0), O)
  <2>1. 2 * m \in Nat
    BY <1>1
  <2>2. Legal(AllocSet("trace", 2, 0, 1, 1),
              Place(B, Row(m + 1, 0 + 2, 2 * m + 0, 0 + 1, 0 + 1), 0),
              Place(B, Row(m, 0, 2 * m, 0, 0), 0), O)
    BY <1>1, <2>1, AllocLegal
  <2>3. 0 + 2 = 2 /\ 2 * m + 0 = 2 * m /\ 0 + 1 = 1
    BY <1>1
  <2>. QED BY <2>2, <2>3
<1>6. Runs(<<MakePool(1 + m + 1, 3, 1 + 2 * m, 1, 1),
             AllocSet("inject", 1, 1, 0, 0), AllocSet("trace", 2, 0, 1, 1)>>,
           Place(A, NoPool, 0), Place(B, Row(m, 0, 2 * m, 0, 0), 0), O)
  BY <1>3, <1>4, <1>5, ThreeRuns
<1>7. Runs(UpTo(m, LAMBDA i : AllocSet("mip", 0, 2, 0, 0)),
           Place(B, Row(m, 0, 2 * m, 0, 0), 0), Place(B, NoPool, 0), O)
  BY <1>1, MipSetsRun
<1>8. Runs(<<Use(u)>>, Place(B, NoPool, 0), Place(B, NoPool, 0), O)
  BY <1>1, UseLegal, OneRuns
<1>. DEFINE s == UpTo(m, LAMBDA i : AllocSet("mip", 0, 2, 0, 0))
<1>. HIDE DEF s
<1>9. Runs(VctDescriptors(k), Place(A, NoPool, 0), Place(B, NoPool, 0), O)
  BY <1>2, <1>6, <1>7, <1>8, ThreeThen DEF s
<1>. QED BY <1>9 DEF B

LEMMA TimedThen ==
  ASSUME NEW s, NEW f, NEW stamps \in BOOLEAN, NEW c, NEW A, NEW P \in Pools, NEW O,
         Runs(s, f, Place(A, P, 0), O),
         Compute \in A, {Obj("cmdPool"), Obj("queryPool"), Obj("fence")} \subseteq O,
         Still(c, Place(A \cup {Obj("cmdPool")} \cup Stamp(stamps), P, 0), O)
  PROVE  Runs(s \o CommandPool("cmdPool", Compute) \o QueryPool(stamps)
              \o Recorded("cmdPool", "fence", Compute, c), f,
              Place(A \cup {Obj("cmdPool")} \cup Stamp(stamps) \cup {Obj("fence")}, P, 0), O)
<1>. DEFINE B == A \cup {Obj("cmdPool")}  C == B \cup Stamp(stamps)  D == C \cup {Obj("fence")}
<1>1. Compute \in C /\ Obj("cmdPool") \in C
  OBVIOUS
<1>2. Runs(CommandPool("cmdPool", Compute), Place(A, P, 0), Place(B, P, 0), O)
  BY CommandPoolRuns
<1>3. Runs(QueryPool(stamps), Place(B, P, 0), Place(C, P, 0), O)
  BY QueryPoolRuns
<1>. HIDE DEF C
<1>4. Runs(Recorded("cmdPool", "fence", Compute, c), Place(C, P, 0), Place(D, P, 0), O)
  <2>1. Still(c, Place(C, P, 0), O)
    BY DEF C
  <2>. QED BY <1>1, <2>1, RecordedRuns
<1>. HIDE DEF B, D
<1>5. Runs(s \o CommandPool("cmdPool", Compute) \o QueryPool(stamps)
           \o Recorded("cmdPool", "fence", Compute, c), f, Place(D, P, 0), O)
  BY <1>2, <1>3, <1>4, FourThen
<1>. QED BY <1>5 DEF B, C, D

LEMMA VctCompletes ==
  ASSUME NEW p, p.iterations \in Nat, NEW stamps \in BOOLEAN
  PROVE  Completes(VctScript(p, stamps), {}, Frees(VctOwned(p)))
<1>. DEFINE O == Frees(VctOwned(p))
            k == Mips(p.extent)
            B == {} \cup Dev
            C == B \cup OwnedHost("staging") \cup OwnedBuffer("scene") \cup OwnedBuffer("gather")
                 \cup OwnedBuffer("stats")
            D == C \cup OwnedRadiance(k)
            E == D \cup OwnedPipeline("inject")
            F == E \cup OwnedPipeline("mip")
            G == F \cup OwnedPipeline("trace")
            H == G \cup {Obj("pool")}
            U == H \cup {Obj("cmdPool")} \cup Stamp(stamps)
            L == U \cup {Obj("fence")}
            r == Require(p.sceneSize = p.extent * p.extent * p.extent)
            c == Upload(p) \o Times(p.iterations + 1, VctSequence(p, stamps))
                 \o VctInstrumented(p) \o VctReadback(p)
            N(Z) == Place(Z, NoPool, 0)
<1>1. /\ OwnedHost("staging") \subseteq O
      /\ \A n \in {"scene", "gather", "stats"} : OwnedBuffer(n) \subseteq O
      /\ \A n \in {"inject", "mip", "trace"} : OwnedPipeline(n) \subseteq O
      /\ OwnedRadiance(k) \subseteq O /\ Obj("pool") \in O
      /\ {Obj("cmdPool"), Obj("queryPool"), Obj("fence")} \subseteq O
  <2>. DEFINE X == UNION {OwnedBuffer(n) : n \in {"staging", "scene", "gather", "stats"}}
              Y == UNION {OwnedPipeline(n) : n \in {"inject", "mip", "trace"}}
              Z == {Mapped("staging"), Obj("pool"), Obj("cmdPool"), Obj("queryPool"), Obj("fence")}
  <2>1. VctOwned(p) = X \cup Y \cup OwnedRadiance(k) \cup Z
    BY DEF VctOwned
  <2>2. \A n \in {"staging", "scene", "gather", "stats"} : OwnedBuffer(n) \subseteq X
    OBVIOUS
  <2>3. \A n \in {"inject", "mip", "trace"} : OwnedPipeline(n) \subseteq Y
    OBVIOUS
  <2>4. VctOwned(p) \subseteq O
    BY FreesAll
  <2>. HIDE DEF O, k, X, Y
  <2>. QED BY <2>1, <2>2, <2>3, <2>4 DEF OwnedHost
<1>2. k \in Nat /\ k - 1 \in Nat
  BY MipsIsPositive
<1>. HIDE DEF O, k
<1>3. NoPool \in Pools
  BY NoPoolIsRow
<1>4. Runs(<<Gate("available"), r>>, N({}), N(B), O)
  <2>1. Legal(Gate("available"), N({}), N(B), O)
    BY <1>3, GateLegal DEF Dev
  <2>2. Legal(r, N(B), N(B), O)
    BY <1>3, RequireLegal
  <2>. HIDE DEF B, r
  <2>. QED BY <2>1, <2>2, TwoRuns
<1>5. Runs(Loaded, N(B), N(B), O)
  BY <1>3, LoadedRuns, DevHas
<1>6. Runs(VctBuffers(p), N(B), N(C), O)
  BY <1>1, <1>3, VctBuffersRun
<1>7. Runs(RadianceImage(k), N(C), N(D), O)
  BY <1>1, <1>2, <1>3, RadianceRuns
<1>8. Runs(VctPipelines, N(D), N(G), O)
  <2>1. Runs(ComputePipeline("inject"), N(D), N(E), O)
    BY <1>1, <1>3, PipelineRuns
  <2>2. Runs(ComputePipeline("mip"), N(E), N(F), O)
    BY <1>1, <1>3, PipelineRuns
  <2>3. Runs(ComputePipeline("trace"), N(F), N(G), O)
    BY <1>1, <1>3, PipelineRuns
  <2>. HIDE DEF D, E, F, G
  <2>. QED BY <2>1, <2>2, <2>3, ThreeThen DEF VctPipelines
<1>9. /\ Sets("inject") \in G /\ Sets("trace") \in G /\ Sets("mip") \in G /\ Compute \in H
      /\ {Buf("scene"), Buf("gather"), Buf("stats"), View("radiance"), Obj("sampler")}
           \cup LevelsBelow(k) \subseteq G
      /\ VctHas \subseteq U /\ Mapped("staging") \in L
  BY DevHas DEF OwnedPipeline, OwnedHost, OwnedBuffer, OwnedRadiance, OwnedImage, LevelsBelow, VctHas
<1>10. Ready({"inject", "mip", "trace"}, U, stamps)
  BY DEF Ready, OwnedPipeline, Stamp
<1>. HIDE DEF G
<1>11. Runs(VctDescriptors(k), N(G), N(H), O)
  BY <1>1, <1>2, <1>9, VctDescriptorsRun
<1>. HIDE DEF H
<1>12. Still(c, Place(U, NoPool, 0), O)
  <2>. HIDE DEF U
  <2>. QED BY <1>3, <1>9, <1>10, VctCommandsStill
<1>. DEFINE s == <<Gate("available"), r>> \o Loaded \o VctBuffers(p) \o RadianceImage(k)
                 \o VctPipelines \o VctDescriptors(k)
<1>13. Runs(s, N({}), N(H), O)
  <2>. HIDE DEF r, B, C, D
  <2>. QED BY <1>4, <1>5, <1>6, <1>7, <1>8, <1>11, SixThen
<1>14. VctScript(p, stamps) = s \o CommandPool("cmdPool", Compute) \o QueryPool(stamps)
              \o Recorded("cmdPool", "fence", Compute, c) \o VctRead(p)
  BY DEF VctScript, k
<1>. HIDE DEF s, c
<1>15. Runs(s \o CommandPool("cmdPool", Compute) \o QueryPool(stamps)
              \o Recorded("cmdPool", "fence", Compute, c), N({}), N(L), O)
  BY <1>1, <1>3, <1>9, <1>12, <1>13, TimedThen
<1>. HIDE DEF L
<1>16. Runs(VctRead(p), N(L), N(L), O)
  BY <1>3, <1>9, VctReadRuns
<1>17. Runs(VctScript(p, stamps), N({}), N(L), O)
  BY <1>14, <1>15, <1>16, ThenRuns
<1>. QED BY <1>17, CompletesFrom DEF O

-----------------------------------------------------------------------------
(* runRcBench *)
RcHas ==
  {Buf("staging"), Buf("scene"), Buf("cascades"), Buf("cubes"), Buf("sampleOut"), Buf("stats"),
   Img("radiance")}

LEMMA RcPassesAre ==
  ASSUME NEW p, NEW counters \in BOOLEAN, NEW stamps \in BOOLEAN, NEW A,
         Ready(RcPipes, A, stamps), RcHas \subseteq A, NEW i
  PROVE  /\ IsCommand(MarchPass(p, i, counters, stamps), A)
         /\ IsCommand(MergePass(p, i, stamps), A)
         /\ IsCommand(ResolvePass(p, stamps), A) /\ IsCommand(SamplePass(p, stamps), A)
<1>0. "march" \in RcPipes /\ "merge" \in RcPipes /\ "resolve" \in RcPipes /\ "sample" \in RcPipes
  BY DEF RcPipes
<1>. DEFINE c == Entries(p, i, TRUE)  d == Entries(p, i + 1, FALSE)  e == Entries(p, 0, FALSE)
<1>e. c.h = Buf("cascades") /\ d.h = Buf("cascades") /\ e.h = Buf("cascades")
  BY DEF Entries, Access
<1>1. IsCommand(MarchPass(p, i, counters, stamps), A)
  <2>. DEFINE accs == {Rd(Img("radiance"), 0, Mips(p.extent), "COMPUTE"), c}
                \cup (IF counters THEN {Wr(Buf("stats"), 4 * i, 4 * i + 4, "COMPUTE")} ELSE {})
  <2>1. MarchPass(p, i, counters, stamps) = Dispatch("march", accs, Pass("march", i), stamps)
    BY DEF MarchPass
  <2>2. \A a \in accs : a.h \in A
    <3>. HIDE DEF c, d, e
    <3>. QED BY <1>e, RdWr DEF RcHas
  <2>. HIDE DEF accs
  <2>. QED BY <1>0, <2>1, <2>2, DispatchIs
<1>2. IsCommand(MergePass(p, i, stamps), A)
  <2>. DEFINE accs == {d, c}
  <2>1. MergePass(p, i, stamps) = Dispatch("merge", accs, Pass("merge", i), stamps)
    BY DEF MergePass
  <2>2. \A a \in accs : a.h \in A
    <3>. HIDE DEF c, d, e
    <3>. QED BY <1>e, RdWr DEF RcHas
  <2>. HIDE DEF accs
  <2>. QED BY <1>0, <2>1, <2>2, DispatchIs
<1>3. IsCommand(ResolvePass(p, stamps), A)
  <2>. DEFINE accs == {e, Wr(Buf("cubes"), 0, Full, "COMPUTE")}
  <2>1. ResolvePass(p, stamps) = Dispatch("resolve", accs, Pass("resolve", 0), stamps)
    BY DEF ResolvePass
  <2>2. \A a \in accs : a.h \in A
    <3>. HIDE DEF c, d, e
    <3>. QED BY <1>e, RdWr DEF RcHas
  <2>. HIDE DEF accs
  <2>. QED BY <1>0, <2>1, <2>2, DispatchIs
<1>4. IsCommand(SamplePass(p, stamps), A)
  <2>1. \A a \in {Rd(Buf("cubes"), 0, Full, "COMPUTE"),
                  Wr(Buf("sampleOut"), 0, 16 * p.width * p.height, "COMPUTE")} : a.h \in A
    BY RdWr DEF RcHas
  <2>. QED BY <1>0, <2>1, DispatchIs DEF SamplePass
<1>. QED BY <1>1, <1>2, <1>3, <1>4

LEMMA RcLevelsStill ==
  ASSUME NEW p, NEW counters \in BOOLEAN, NEW stamps \in BOOLEAN, NEW A, NEW P \in Pools, NEW O,
         Ready(RcPipes, A, stamps), RcHas \subseteq A
  PROVE  /\ Still(Marches(p, counters, stamps), Place(A, P, 0), O)
         /\ Still(Merges(p, stamps), Place(A, P, 0), O)
<1>. DEFINE n == Cascades(p)  m == n - 1  s == Marches(p, counters, stamps)  t == Merges(p, stamps)
<1>1. n \in Int /\ m \in Int
  BY CascadesIsNat
<1>2. s = [i \in 1 .. n |-> s[i]] /\ \A i \in 1 .. n : s[i] = MarchPass(p, i - 1, counters, stamps)
  BY DEF Marches, UpTo
<1>3. t = [i \in 1 .. m |-> t[i]] /\ \A i \in 1 .. m : t[i] = MergePass(p, n - 1 - i, stamps)
  BY DEF Merges, UpTo
<1>. HIDE DEF n, m, s, t
<1>4. \A i \in 1 .. n : Legal(s[i], Place(A, P, 0), Place(A, P, 0), O)
  <2>. TAKE i \in 1 .. n
  <2>1. s[i] = MarchPass(p, i - 1, counters, stamps)
    BY <1>2
  <2>2. IsCommand(MarchPass(p, i - 1, counters, stamps), A)
    BY RcPassesAre
  <2>. QED BY <2>1, <2>2, CommandLegal
<1>5. \A i \in 1 .. m : Legal(t[i], Place(A, P, 0), Place(A, P, 0), O)
  <2>. TAKE i \in 1 .. m
  <2>1. t[i] = MergePass(p, n - 1 - i, stamps)
    BY <1>3
  <2>2. IsCommand(MergePass(p, n - 1 - i, stamps), A)
    BY RcPassesAre
  <2>. QED BY <2>1, <2>2, CommandLegal
<1>6. Still(s, Place(A, P, 0), O)
  BY <1>1, <1>2, <1>4, FunctionStill
<1>7. Still(t, Place(A, P, 0), O)
  BY <1>1, <1>3, <1>5, FunctionStill
<1>. QED BY <1>6, <1>7 DEF s, t

LEMMA RcSequenceStill ==
  ASSUME NEW p, NEW stamps \in BOOLEAN, NEW A, NEW P \in Pools, NEW O,
         Ready(RcPipes, A, stamps), RcHas \subseteq A
  PROVE  Still(RcSequence(p, stamps), Place(A, P, 0), O)
<1>. DEFINE v == VolumePasses(p, stamps)  s == Marches(p, FALSE, stamps)  t == Merges(p, stamps)
            e == <<ResolvePass(p, stamps), SamplePass(p, stamps)>>
<1>1. Still(v, Place(A, P, 0), O)
  <2>1. Ready({"inject", "mip"}, A, stamps)
    BY DEF Ready, RcPipes
  <2>. QED BY <2>1, VolumeStill DEF RcHas
<1>2. Still(s, Place(A, P, 0), O) /\ Still(t, Place(A, P, 0), O)
  BY RcLevelsStill
<1>3. Still(e, Place(A, P, 0), O)
  BY RcPassesAre, StillTwo
<1>4. RcSequence(p, stamps) = v \o s \o t \o e
  BY DEF RcSequence
<1>. HIDE DEF v, s, t, e
<1>5. Still(v \o s, Place(A, P, 0), O)
  BY <1>1, <1>2, StillThen
<1>6. Still(v \o s \o t, Place(A, P, 0), O)
  BY <1>2, <1>5, StillThen
<1>. QED BY <1>3, <1>4, <1>6, StillThen

LEMMA RcInstrumentedStill ==
  ASSUME NEW p, NEW A, NEW P \in Pools, NEW O, Ready(RcPipes, A, FALSE), RcHas \subseteq A
  PROVE  Still(RcInstrumented(p), Place(A, P, 0), O)
<1>. DEFINE z == <<ClearStats(4 * Cascades(p))>>  v == VolumePasses(p, FALSE)
            s == Marches(p, TRUE, FALSE)
            w == <<Barriers(<<ToCopy>>), CopyWindow(PreOff), Barriers(<<FromCopy>>)>>
            t == Merges(p, FALSE)
            x == <<Barriers(<<ToCopy>>), CopyWindow(PostOff), Barriers(<<FromCopy>>)>>
            a == Copy(Buf("stats"), 0, 4 * Cascades(p), Buf("staging"), 0, 4 * Cascades(p))
            b == Copy(Buf("sampleOut"), 0, 16 * GatherSampleCount,
                      Buf("staging"), SampleOff, SampleOff + 16 * GatherSampleCount)
            e == <<ResolvePass(p, FALSE), SamplePass(p, FALSE), Barriers(<<ToCopy>>), a, b>>
            g == Place(A, P, 0)
<1>1. Still(v, g, O)
  <2>1. Ready({"inject", "mip"}, A, FALSE)
    BY DEF Ready, RcPipes
  <2>. QED BY <2>1, VolumeStill DEF RcHas
<1>2. Still(s, g, O) /\ Still(t, g, O)
  BY RcLevelsStill
<1>3. Still(z, g, O)
  BY ClearStatsIs, StillCommand DEF RcHas
<1>4. \A off : IsCommand(CopyWindow(off), A)
  BY CopyIs DEF CopyWindow, RcHas
<1>5. Still(w, g, O) /\ Still(x, g, O)
  BY <1>4, BarriersIs, StillThree
<1>6. Still(e, g, O)
  <2>1. IsCommand(a, A) /\ IsCommand(b, A)
    BY CopyIs DEF RcHas
  <2>2. IsCommand(ResolvePass(p, FALSE), A) /\ IsCommand(SamplePass(p, FALSE), A)
    BY RcPassesAre
  <2>3. IsCommand(Barriers(<<ToCopy>>), A)
    BY BarriersIs
  <2>. HIDE DEF a, b
  <2>. QED BY <2>1, <2>2, <2>3, StillFive
<1>7. RcInstrumented(p) = z \o v \o s \o w \o t \o x \o e
  BY DEF RcInstrumented
<1>. HIDE DEF z, v, s, w, t, x, e, g
<1>8. Still(z \o v, g, O)
  BY <1>1, <1>3, StillThen
<1>9. Still(z \o v \o s, g, O)
  BY <1>2, <1>8, StillThen
<1>10. Still(z \o v \o s \o w, g, O)
  BY <1>5, <1>9, StillThen
<1>11. Still(z \o v \o s \o w \o t, g, O)
  BY <1>2, <1>10, StillThen
<1>12. Still(z \o v \o s \o w \o t \o x, g, O)
  BY <1>5, <1>11, StillThen
<1>13. Still(z \o v \o s \o w \o t \o x \o e, g, O)
  BY <1>6, <1>12, StillThen
<1>. QED BY <1>7, <1>13 DEF g

LEMMA RcCommandsStill ==
  ASSUME NEW p, p.iterations \in Nat, NEW stamps \in BOOLEAN, NEW A, NEW P \in Pools, NEW O,
         Ready(RcPipes, A, stamps), RcHas \subseteq A
  PROVE  Still(Upload(p) \o Times(p.iterations + 1, RcSequence(p, stamps)) \o RcInstrumented(p),
               Place(A, P, 0), O)
<1>. DEFINE q == Times(p.iterations + 1, RcSequence(p, stamps))
<1>1. Still(Upload(p), Place(A, P, 0), O)
  BY UploadStill DEF RcHas
<1>2. p.iterations + 1 \in Nat
  OBVIOUS
<1>3. Still(q, Place(A, P, 0), O)
  BY <1>2, RcSequenceStill, TimesStill
<1>4. Still(RcInstrumented(p), Place(A, P, 0), O)
  <2>1. Ready(RcPipes, A, FALSE)
    BY DEF Ready
  <2>. QED BY <2>1, RcInstrumentedStill
<1>. HIDE DEF q
<1>5. Still(Upload(p) \o q, Place(A, P, 0), O)
  BY <1>1, <1>3, StillThen
<1>6. Still(Upload(p) \o q \o RcInstrumented(p), Place(A, P, 0), O)
  BY <1>4, <1>5, StillThen
<1>. QED BY <1>6 DEF q

LEMMA RcReadRuns ==
  ASSUME NEW p, NEW A, NEW P \in Pools, NEW O, Mapped("staging") \in A
  PROVE  Runs(RcRead(p), Place(A, P, 0), Place(A, P, 0), O)
<1>. DEFINE a == {Window("staging", 4 * i, 4 * i + 4, Pass("march", i)) : i \in Levels(p)}
            b == {Window("staging", PreOff, PreOff + 16 * ReadbackEntries, Pass("march", 0)),
                     Window("staging", PostOff, PostOff + 16 * ReadbackEntries,
                            IF Cascades(p) = 1 THEN Pass("march", 0) ELSE Pass("merge", 0)),
                     Window("staging", SampleOff, SampleOff + 16 * GatherSampleCount,
                            Pass("sample", 0))}
            w == a \cup (IF p.readback THEN b ELSE {})
<1>1. \A x \in a : Mapped(x.acc.h[2]) \in A
  BY WindowMap
<1>2. \A x \in b : Mapped(x.acc.h[2]) \in A
  BY WindowMap
<1>3. RcRead(p) = <<Read(w)>>
  BY DEF RcRead
<1>. HIDE DEF a, b
<1>4. \A x \in w : Mapped(x.acc.h[2]) \in A
  BY <1>1, <1>2
<1>. HIDE DEF w
<1>5. Legal(Read(w), Place(A, P, 0), Place(A, P, 0), O)
  BY <1>4, ReadLegal
<1>. QED BY <1>3, <1>5, OneRuns

LEMMA RcBuffersRun ==
  ASSUME NEW p, NEW A, NEW P \in Pools, NEW O, OwnedHost("staging") \subseteq O,
         \A n \in {"scene", "cascades", "cubes", "sampleOut", "stats"} : OwnedBuffer(n) \subseteq O
  PROVE  Runs(RcBuffers(p), Place(A, P, 0),
              Place(A \cup OwnedHost("staging") \cup OwnedBuffer("scene")
                    \cup OwnedBuffer("cascades") \cup OwnedBuffer("cubes")
                    \cup OwnedBuffer("sampleOut") \cup OwnedBuffer("stats"), P, 0), O)
<1>. DEFINE B == A \cup OwnedHost("staging")  C == B \cup OwnedBuffer("scene")
            D == C \cup OwnedBuffer("cascades")  E == D \cup OwnedBuffer("cubes")
            F == E \cup OwnedBuffer("sampleOut")  G == F \cup OwnedBuffer("stats")
            f == HostFill("staging", SceneBytes(p), Pass("scene", 0))
            s == HostBuffer("staging") \o Buffer("scene") \o Buffer("cascades") \o Buffer("cubes")
                 \o Buffer("sampleOut") \o Buffer("stats")
<1>1. Runs(HostBuffer("staging"), Place(A, P, 0), Place(B, P, 0), O)
  BY HostBufferRuns
<1>2. /\ Runs(Buffer("scene"), Place(B, P, 0), Place(C, P, 0), O)
      /\ Runs(Buffer("cascades"), Place(C, P, 0), Place(D, P, 0), O)
      /\ Runs(Buffer("cubes"), Place(D, P, 0), Place(E, P, 0), O)
      /\ Runs(Buffer("sampleOut"), Place(E, P, 0), Place(F, P, 0), O)
      /\ Runs(Buffer("stats"), Place(F, P, 0), Place(G, P, 0), O)
  BY BufferRuns
<1>3. Mapped("staging") \in G
  BY DEF OwnedHost
<1>. HIDE DEF B, C, D, E, F, G
<1>4. Runs(<<f>>, Place(G, P, 0), Place(G, P, 0), O)
  BY <1>3, HostFillIs, StillCommand, StillRuns
<1>5. Runs(s, Place(A, P, 0), Place(G, P, 0), O)
  BY <1>1, <1>2, SixThen
<1>6. RcBuffers(p) = s \o <<f>>
  BY DEF RcBuffers
<1>. HIDE DEF s, f
<1>7. Runs(RcBuffers(p), Place(A, P, 0), Place(G, P, 0), O)
  BY <1>4, <1>5, <1>6, ThenRuns
<1>. QED BY <1>7 DEF B, C, D, E, F, G

LEMMA RcDescriptorsRun ==
  ASSUME NEW k \in Nat, k - 1 \in Nat, NEW A, NEW O, Obj("pool") \in O,
         \A n \in RcPipes : Sets(n) \in A,
         {Buf(n) : n \in {"scene", "cascades", "cubes", "sampleOut", "stats"}}
           \cup {View("radiance"), Obj("sampler")} \cup LevelsBelow(k) \subseteq A
  PROVE  Runs(RcDescriptors(k), Place(A, NoPool, 0), Place(A \cup {Obj("pool")}, NoPool, 0), O)
<1>. DEFINE B == A \cup {Obj("pool")}  m == k - 1
            u == {Buf(n) : n \in {"scene", "cascades", "cubes", "sampleOut", "stats"}}
                 \cup {View("radiance"), Obj("sampler")} \cup LevelsBelow(k)
            w == MakePool(1 + m + 4, 8, 1 + 2 * m, 1, 1)
            t == UpTo(m, LAMBDA i : AllocSet("mip", 0, 2, 0, 0))
<1>1. /\ NoPool \in Pools /\ Obj("pool") \in B /\ u \subseteq B /\ m \in Nat
      /\ Sets("inject") \in B /\ Sets("march") \in B /\ Sets("merge") \in B
      /\ Sets("resolve") \in B /\ Sets("sample") \in B /\ Sets("mip") \in B
  BY NoPoolIsRow DEF RcPipes
<1>2. RcDescriptors(k) = <<w, AllocSet("inject", 1, 1, 0, 0), AllocSet("march", 2, 0, 1, 1),
                           AllocSet("merge", 1, 0, 0, 0), AllocSet("resolve", 2, 0, 0, 0),
                           AllocSet("sample", 2, 0, 0, 0)>> \o t \o <<Use(u)>>
  BY DEF RcDescriptors, LevelsBelow
<1>3. Legal(w, Place(A, NoPool, 0), Place(B, Row(1 + m + 4, 8, 1 + 2 * m, 1, 1), 0), O)
  <2>. HIDE DEF m
  <2>1. 1 + m + 4 \in Nat /\ 1 + 2 * m \in Nat
    BY <1>1
  <2>. QED BY <2>1, MakePoolLegal
<1>. HIDE DEF B, u, m, w
<1>4. /\ m + 1 \in Nat /\ m + 2 \in Nat /\ m + 3 \in Nat /\ m + 4 \in Nat /\ 2 * m \in Nat
      /\ (m + 4) + 1 = 1 + m + 4 /\ (m + 3) + 1 = m + 4 /\ (m + 2) + 1 = m + 3 /\ (m + 1) + 1 = m + 2
      /\ 2 * m + 1 = 1 + 2 * m /\ 2 * m + 0 = 2 * m
      /\ 0 + 0 = 0 /\ 1 + 0 = 1 /\ 0 + 1 = 1 /\ 0 + 2 = 2 /\ 2 + 2 = 4 /\ 4 + 1 = 5 /\ 5 + 2 = 7 /\ 7 + 1 = 8
  BY <1>1
<1>5. Legal(AllocSet("inject", 1, 1, 0, 0), Place(B, Row(1 + m + 4, 8, 1 + 2 * m, 1, 1), 0),
            Place(B, Row(m + 4, 7, 2 * m, 1, 1), 0), O)
  <2>1. Legal(AllocSet("inject", 1, 1, 0, 0), Place(B, Row((m + 4) + 1, 7 + 1, 2 * m + 1, 1 + 0, 1 + 0), 0),
              Place(B, Row(m + 4, 7, 2 * m, 1, 1), 0), O)
    BY <1>1, <1>4, AllocLegal
  <2>. QED BY <1>4, <2>1
<1>6. Legal(AllocSet("march", 2, 0, 1, 1), Place(B, Row(m + 4, 7, 2 * m, 1, 1), 0),
            Place(B, Row(m + 3, 5, 2 * m, 0, 0), 0), O)
  <2>1. Legal(AllocSet("march", 2, 0, 1, 1), Place(B, Row((m + 3) + 1, 5 + 2, 2 * m + 0, 0 + 1, 0 + 1), 0),
              Place(B, Row(m + 3, 5, 2 * m, 0, 0), 0), O)
    BY <1>1, <1>4, AllocLegal
  <2>. QED BY <1>4, <2>1
<1>7. Legal(AllocSet("merge", 1, 0, 0, 0), Place(B, Row(m + 3, 5, 2 * m, 0, 0), 0),
            Place(B, Row(m + 2, 4, 2 * m, 0, 0), 0), O)
  <2>1. Legal(AllocSet("merge", 1, 0, 0, 0), Place(B, Row((m + 2) + 1, 4 + 1, 2 * m + 0, 0 + 0, 0 + 0), 0),
              Place(B, Row(m + 2, 4, 2 * m, 0, 0), 0), O)
    BY <1>1, <1>4, AllocLegal
  <2>. QED BY <1>4, <2>1
<1>8. Legal(AllocSet("resolve", 2, 0, 0, 0), Place(B, Row(m + 2, 4, 2 * m, 0, 0), 0),
            Place(B, Row(m + 1, 2, 2 * m, 0, 0), 0), O)
  <2>1. Legal(AllocSet("resolve", 2, 0, 0, 0), Place(B, Row((m + 1) + 1, 2 + 2, 2 * m + 0, 0 + 0, 0 + 0), 0),
              Place(B, Row(m + 1, 2, 2 * m, 0, 0), 0), O)
    BY <1>1, <1>4, AllocLegal
  <2>. QED BY <1>4, <2>1
<1>9. Legal(AllocSet("sample", 2, 0, 0, 0), Place(B, Row(m + 1, 2, 2 * m, 0, 0), 0),
            Place(B, Row(m, 0, 2 * m, 0, 0), 0), O)
  <2>1. Legal(AllocSet("sample", 2, 0, 0, 0), Place(B, Row(m + 1, 0 + 2, 2 * m + 0, 0 + 0, 0 + 0), 0),
              Place(B, Row(m, 0, 2 * m, 0, 0), 0), O)
    BY <1>1, <1>4, AllocLegal
  <2>. QED BY <1>4, <2>1
<1>10. Runs(<<w, AllocSet("inject", 1, 1, 0, 0), AllocSet("march", 2, 0, 1, 1),
              AllocSet("merge", 1, 0, 0, 0), AllocSet("resolve", 2, 0, 0, 0),
              AllocSet("sample", 2, 0, 0, 0)>>,
            Place(A, NoPool, 0), Place(B, Row(m, 0, 2 * m, 0, 0), 0), O)
  BY <1>3, <1>5, <1>6, <1>7, <1>8, <1>9, SixRuns
<1>11. Runs(t, Place(B, Row(m, 0, 2 * m, 0, 0), 0), Place(B, NoPool, 0), O)
  BY <1>1, MipSetsRun
<1>12. Runs(<<Use(u)>>, Place(B, NoPool, 0), Place(B, NoPool, 0), O)
  BY <1>1, UseLegal, OneRuns
<1>. HIDE DEF t
<1>13. Runs(RcDescriptors(k), Place(A, NoPool, 0), Place(B, NoPool, 0), O)
  BY <1>2, <1>10, <1>11, <1>12, ThreeThen
<1>. QED BY <1>13 DEF B

LEMMA RcGatesRun ==
  ASSUME NEW p, NEW A, NEW O
  PROVE  Runs(RcGates(p), Place(A, NoPool, 0), Place(A, NoPool, 0), O)
<1>. DEFINE g == Place(A, NoPool, 0)
<1>1. \A ok : Legal(Require(ok), g, g, O)
  BY RequireLegal, NoPoolIsRow
<1>2. PICK a, b, c, d, e, f : RcGates(p) = <<Require(a), Require(b), Require(c), Require(d),
                                            Require(e), Require(f)>>
  BY Zenon DEF RcGates
<1>. HIDE DEF g
<1>3. Runs(RcGates(p), g, g, O)
  BY <1>1, <1>2, SixRuns
<1>. QED BY <1>3 DEF g

LEMMA RcCompletes ==
  ASSUME NEW p, p.iterations \in Nat, NEW stamps \in BOOLEAN
  PROVE  Completes(RcScript(p, stamps), {}, Frees(RcOwned(p)))
<1>. DEFINE O == Frees(RcOwned(p))
            k == Mips(p.extent)
            B == {} \cup Dev
            C == B \cup OwnedHost("staging") \cup OwnedBuffer("scene")
                    \cup OwnedBuffer("cascades") \cup OwnedBuffer("cubes")
                    \cup OwnedBuffer("sampleOut") \cup OwnedBuffer("stats")
            D == C \cup OwnedRadiance(k)
            E1 == D \cup OwnedPipeline("inject")
            E2 == E1 \cup OwnedPipeline("mip")
            E3 == E2 \cup OwnedPipeline("march")
            E4 == E3 \cup OwnedPipeline("merge")
            E5 == E4 \cup OwnedPipeline("resolve")
            G == E5 \cup OwnedPipeline("sample")
            H == G \cup {Obj("pool")}
            U == H \cup {Obj("cmdPool")} \cup Stamp(stamps)
            L == U \cup {Obj("fence")}
            c == Upload(p) \o Times(p.iterations + 1, RcSequence(p, stamps)) \o RcInstrumented(p)
            r == <<Require(Levels(p) # {}), Require(RcShape(p))>>
            N(Z) == Place(Z, NoPool, 0)
<1>1. /\ OwnedHost("staging") \subseteq O
      /\ \A n \in {"scene", "cascades", "cubes", "sampleOut", "stats"} : OwnedBuffer(n) \subseteq O
      /\ \A n \in RcPipes : OwnedPipeline(n) \subseteq O
      /\ OwnedRadiance(k) \subseteq O /\ Obj("pool") \in O
      /\ {Obj("cmdPool"), Obj("queryPool"), Obj("fence")} \subseteq O
  <2>. DEFINE X == UNION {OwnedBuffer(n) : n \in {"staging", "scene", "cascades", "cubes", "sampleOut",
                                                  "stats"}}
              Y == UNION {OwnedPipeline(n) : n \in RcPipes}
              Z == {Mapped("staging"), Obj("pool"), Obj("cmdPool"), Obj("queryPool"), Obj("fence")}
  <2>1. RcOwned(p) = X \cup Y \cup OwnedRadiance(k) \cup Z
    BY DEF RcOwned
  <2>2. \A n \in {"staging", "scene", "cascades", "cubes", "sampleOut", "stats"} : OwnedBuffer(n) \subseteq X
    OBVIOUS
  <2>3. \A n \in RcPipes : OwnedPipeline(n) \subseteq Y
    OBVIOUS
  <2>4. RcOwned(p) \subseteq O
    BY FreesAll
  <2>. HIDE DEF O, k, X, Y
  <2>. QED BY <2>1, <2>2, <2>3, <2>4 DEF OwnedHost
<1>2. k \in Nat /\ k - 1 \in Nat
  BY MipsIsPositive
<1>. HIDE DEF O, k
<1>3. NoPool \in Pools
  BY NoPoolIsRow
<1>4. Runs(<<Gate("available")>>, N({}), N(B), O)
  <2>1. Legal(Gate("available"), N({}), N(B), O)
    BY <1>3, GateLegal DEF Dev
  <2>. QED BY <2>1, OneRuns
<1>5. Runs(RcGates(p), N(B), N(B), O)
  BY RcGatesRun
<1>6. Runs(Loaded, N(B), N(B), O)
  BY <1>3, LoadedRuns, DevHas
<1>7. Runs(r, N(B), N(B), O)
  BY <1>3, RequireLegal, TwoRuns
<1>8. Runs(RcBuffers(p), N(B), N(C), O)
  BY <1>1, <1>3, RcBuffersRun
<1>9. Runs(RadianceImage(k), N(C), N(D), O)
  BY <1>1, <1>2, <1>3, RadianceRuns
<1>10. Runs(RcPipelines, N(D), N(G), O)
  <2>1. \A n \in RcPipes : \A A : Runs(ComputePipeline(n), N(A), N(A \cup OwnedPipeline(n)), O)
    BY <1>1, <1>3, PipelineRuns
  <2>2. /\ "inject" \in RcPipes /\ "mip" \in RcPipes /\ "march" \in RcPipes /\ "merge" \in RcPipes
        /\ "resolve" \in RcPipes /\ "sample" \in RcPipes
    BY DEF RcPipes
  <2>3. /\ Runs(ComputePipeline("inject"), N(D), N(E1), O)
        /\ Runs(ComputePipeline("mip"), N(E1), N(E2), O)
        /\ Runs(ComputePipeline("march"), N(E2), N(E3), O)
        /\ Runs(ComputePipeline("merge"), N(E3), N(E4), O)
        /\ Runs(ComputePipeline("resolve"), N(E4), N(E5), O)
        /\ Runs(ComputePipeline("sample"), N(E5), N(G), O)
    BY <2>1, <2>2
  <2>. HIDE DEF D, E1, E2, E3, E4, E5, G
  <2>. QED BY <2>3, SixThen DEF RcPipelines
<1>11. /\ \A n \in RcPipes : OwnedPipeline(n) \subseteq G
       /\ Compute \in H /\ RcHas \subseteq U /\ Mapped("staging") \in L
       /\ {Buf(n) : n \in {"scene", "cascades", "cubes", "sampleOut", "stats"}}
           \cup {View("radiance"), Obj("sampler")} \cup LevelsBelow(k) \subseteq G
  <2>1. \A n \in RcPipes : OwnedPipeline(n) \subseteq G
    BY DEF RcPipes
  <2>2. Compute \in C /\ Mapped("staging") \in C /\ RcHas \ {Img("radiance")} \subseteq C
        /\ {Buf(n) : n \in {"scene", "cascades", "cubes", "sampleOut", "stats"}} \subseteq C
    BY DevHas DEF OwnedHost, OwnedBuffer, RcHas
  <2>3. Img("radiance") \in D /\ View("radiance") \in D /\ Obj("sampler") \in D /\ LevelsBelow(k) \subseteq D
    BY DEF OwnedRadiance, OwnedImage, LevelsBelow
  <2>4. C \subseteq D /\ D \subseteq G /\ G \subseteq H /\ H \subseteq U /\ U \subseteq L
    OBVIOUS
  <2>. HIDE DEF C, D, G, H, U, L
  <2>. QED BY <2>1, <2>2, <2>3, <2>4
<1>12. Ready(RcPipes, U, stamps) /\ \A n \in RcPipes : Sets(n) \in G
  <2>1. G \subseteq U /\ (stamps => Obj("queryPool") \in U)
    BY DEF Stamp
  <2>. HIDE DEF G, U
  <2>. QED BY <1>11, <2>1 DEF Ready, OwnedPipeline
<1>. HIDE DEF G
<1>13. Runs(RcDescriptors(k), N(G), N(H), O)
  BY <1>1, <1>2, <1>11, <1>12, RcDescriptorsRun
<1>. HIDE DEF H
<1>14. Still(c, Place(U, NoPool, 0), O)
  <2>. HIDE DEF U
  <2>. QED BY <1>3, <1>11, <1>12, RcCommandsStill
<1>. DEFINE t == <<Gate("available")>> \o RcGates(p) \o Loaded \o r
            s == t \o RcBuffers(p) \o RadianceImage(k) \o RcPipelines \o RcDescriptors(k)
<1>. HIDE DEF r, B, C, D
<1>15. Runs(t, N({}), N(B), O)
  BY <1>4, <1>5, <1>6, <1>7, FourThen
<1>16. RcScript(p, stamps) = s \o CommandPool("cmdPool", Compute) \o QueryPool(stamps)
              \o Recorded("cmdPool", "fence", Compute, c) \o RcRead(p)
  BY DEF RcScript, k, r
<1>. HIDE DEF t
<1>17. Runs(s, N({}), N(H), O)
  BY <1>8, <1>9, <1>10, <1>13, <1>15, FiveThen
<1>. HIDE DEF s, c
<1>18. Runs(s \o CommandPool("cmdPool", Compute) \o QueryPool(stamps)
              \o Recorded("cmdPool", "fence", Compute, c), N({}), N(L), O)
  BY <1>1, <1>3, <1>11, <1>14, <1>17, TimedThen
<1>. HIDE DEF L
<1>19. Runs(RcRead(p), N(L), N(L), O)
  BY <1>3, <1>11, RcReadRuns
<1>20. Runs(RcScript(p, stamps), N({}), N(L), O)
  BY <1>16, <1>18, <1>19, ThenRuns
<1>. QED BY <1>20, CompletesFrom DEF O

-----------------------------------------------------------------------------
(* The script a request runs, and a trace of places along it.  Only the    *)
(* world view calls another program, into a target of its own.             *)
Start(q) == IF q.prog = "into" THEN Target ELSE {}

Follows(tr, q, s) ==
  \E h : /\ h.due = 0 /\ (q.prog = "into" => Graphics \in h.has)
         /\ Traces(tr, s, Place(Start(q), NoPool, 0), h, FreedBy(q))

Along(q, s) == CHOOSE tr : Follows(tr, q, s)

LEMMA ScriptIs ==
  ASSUME NEW q \in Requests \cup Nested, report.timestamps \in BOOLEAN
  PROVE  Script(q) = ScriptOf(q, report.timestamps)
<1>. DEFINE b == report.timestamps  t == <<q, b, ScriptOf(q, b)>>
            s == CHOOSE s \in Scripts : s[1] = q /\ s[2] = b
<1>1. t \in Scripts /\ t[1] = q /\ t[2] = b
  BY DEF Scripts
<1>2. s \in Scripts /\ s[1] = q /\ s[2] = b
  BY <1>1
<1>. HIDE DEF s
<1>3. PICK r \in Requests \cup Nested, c \in BOOLEAN : s = <<r, c, ScriptOf(r, c)>>
  BY <1>2 DEF Scripts
<1>4. r = q /\ c = b /\ s[3] = ScriptOf(r, c)
  BY <1>2, <1>3
<1>. QED BY <1>4 DEF Script, s

LEMMA Kinds ==
  /\ \A q \in Requests : q.prog \in {"parity", "mesh", "view", "vct", "rc"}
                         /\ (q.prog \in {"vct", "rc"} => q.iterations \in Nat)
  /\ \A q \in Nested : q.prog = "into"
  /\ \A q \in Requests : q.prog = "view" => [q EXCEPT !.prog = "into"] \in Nested
<1>1. ASSUME NEW q \in Nested PROVE q.prog = "into"
  <2>1. PICK r \in Requests : q = [r EXCEPT !.prog = "into"]
    BY DEF Nested
  <2>2. "prog" \in DOMAIN r
    BY RequestsAssumption
  <2>. QED BY <2>1, <2>2
<1>2. ASSUME NEW q \in Requests, q.prog = "view" PROVE [q EXCEPT !.prog = "into"] \in Nested
  BY <1>2 DEF Nested
<1>. QED BY <1>1, <1>2, RequestsAssumption

LEMMA FreedIs ==
  ASSUME NEW q
  PROVE  FreedBy(q) = Frees(OwnedBy(q))
BY DEF FreedBy, Frees

LEMMA FollowsFrom ==
  ASSUME NEW q, NEW s, q.prog # "into", Completes(s, {}, FreedBy(q))
  PROVE  IsScript(s) /\ \E tr : Follows(tr, q, s)
<1>1. PICK h : h.due = 0 /\ Runs(s, Place({}, NoPool, 0), h, FreedBy(q))
  BY DEF Completes
<1>2. IsScript(s) /\ \E tr : Traces(tr, s, Place({}, NoPool, 0), h, FreedBy(q))
  BY <1>1 DEF Runs
<1>. QED BY <1>1, <1>2 DEF Follows, Start

LEMMA HasTrace ==
  ASSUME NEW q \in Requests \cup Nested, NEW b \in BOOLEAN
  PROVE  IsScript(ScriptOf(q, b)) /\ \E tr : Follows(tr, q, ScriptOf(q, b))
<1>0. q.prog \in {"parity", "mesh", "view", "into", "vct", "rc"}
  BY Kinds
<1>1. CASE q.prog = "parity"
  <2>1. ScriptOf(q, b) = ParityScript(b) /\ OwnedBy(q) = ParityOwned
    BY <1>1 DEF ScriptOf, OwnedBy
  <2>. QED BY <1>1, <2>1, ParityCompletes, FreedIs, FollowsFrom
<1>2. CASE q.prog = "mesh"
  <2>1. ScriptOf(q, b) = MeshExecScript(q) /\ OwnedBy(q) = MeshExecOwned
    BY <1>2 DEF ScriptOf, OwnedBy
  <2>. QED BY <1>2, <2>1, MeshCompletes, FreedIs, FollowsFrom
<1>3. CASE q.prog = "view"
  <2>1. ScriptOf(q, b) = WorldViewScript(q) /\ OwnedBy(q) = WorldViewOwned
    BY <1>3 DEF ScriptOf, OwnedBy
  <2>. QED BY <1>3, <2>1, ViewCompletes, FreedIs, FollowsFrom
<1>4. CASE q.prog = "vct"
  <2>1. ScriptOf(q, b) = VctScript(q, b) /\ OwnedBy(q) = VctOwned(q)
    BY <1>4 DEF ScriptOf, OwnedBy
  <2>2. q.iterations \in Nat
    BY <1>4, Kinds
  <2>. QED BY <1>4, <2>1, <2>2, VctCompletes, FreedIs, FollowsFrom
<1>5. CASE q.prog = "rc"
  <2>1. ScriptOf(q, b) = RcScript(q, b) /\ OwnedBy(q) = RcOwned(q)
    BY <1>5 DEF ScriptOf, OwnedBy
  <2>2. q.iterations \in Nat
    BY <1>5, Kinds
  <2>. QED BY <1>5, <2>1, <2>2, RcCompletes, FreedIs, FollowsFrom
<1>6. CASE q.prog = "into"
  <2>1. ScriptOf(q, b) = WorldIntoScript(q) /\ FreedBy(q) = Frees(WorldIntoOwned)
    BY <1>6, FreedIs DEF ScriptOf, OwnedBy
  <2>2. PICK h : /\ h.due = 0 /\ Graphics \in h.has
                 /\ Runs(WorldIntoScript(q), Place(Target, NoPool, 0), h, Frees(WorldIntoOwned))
    BY IntoCompletes
  <2>3. Start(q) = Target
    BY <1>6 DEF Start
  <2>. QED BY <2>1, <2>2, <2>3 DEF Follows, Runs
<1>. QED BY <1>0, <1>1, <1>2, <1>3, <1>4, <1>5, <1>6

LEMMA OnlyViewCalls ==
  ASSUME NEW q \in Requests \cup Nested, Img("target") \in FreedBy(q)
  PROVE  q \in Requests /\ q.prog = "view"
<1>0. q.prog \in {"parity", "mesh", "view", "into", "vct", "rc"} /\ (q.prog # "into" => q \in Requests)
  BY Kinds
<1>1. Img("target") \in OwnedBy(q)
  <2>1. \A n : Mapped(n) # Img("target")
    BY DEF Mapped, Img
  <2>. QED BY <2>1, FreedIs DEF Frees
<1>2. /\ \A n : Buf(n) # Img("target") /\ Mem(n) # Img("target") /\ Mapped(n) # Img("target")
      /\ \A n : View(n) # Img("target") /\ Obj(n) # Img("target") /\ Level(n) # Img("target")
      /\ \A n : Module(n) # Img("target") /\ Sets(n) # Img("target") /\ Layout(n) # Img("target")
      /\ \A n : Pipe(n) # Img("target")
  BY DEF Buf, Mem, Mapped, View, Obj, Level, Module, Sets, Layout, Pipe, Img
<1>3. /\ Img("color") # Img("target") /\ Img("depth") # Img("target")
      /\ Img("radiance") # Img("target")
  BY DEF Img
<1>4. CASE q.prog = "parity"
  BY <1>1, <1>2, <1>4 DEF OwnedBy, ParityOwned, OwnedBuffer, OwnedPipeline
<1>5. CASE q.prog = "mesh"
  BY <1>1, <1>2, <1>3, <1>5 DEF OwnedBy, MeshExecOwned, OwnedImage, OwnedBuffer, OwnedGraphics
<1>6. CASE q.prog = "into"
  BY <1>1, <1>2, <1>3, <1>6 DEF OwnedBy, WorldIntoOwned, OwnedImage, OwnedBuffer, OwnedGraphics
<1>7. CASE q.prog = "vct"
  BY <1>1, <1>2, <1>3, <1>7 DEF OwnedBy, VctOwned, OwnedRadiance, OwnedImage, OwnedBuffer, OwnedPipeline
<1>8. CASE q.prog = "rc"
  BY <1>1, <1>2, <1>3, <1>8 DEF OwnedBy, RcOwned, OwnedRadiance, OwnedImage, OwnedBuffer, OwnedPipeline
<1>. QED BY <1>0, <1>4, <1>5, <1>6, <1>7, <1>8

-----------------------------------------------------------------------------
(* Running the scripts.  The program on top has what its trace says it has *)
(* at this step, and the pool and the fence are as the trace says; one     *)
(* that failed is at its end with nothing left to wait for.  Under it is   *)
(* at most the world view that called it, whose own objects it leaves      *)
(* alone.                                                                  *)
StampOK == report.timestamps \in BOOLEAN

Length(q) == Len(Script(q))
At(q, i) == Along(q, Script(q))[i - 1]

IsFrame(f) ==
  /\ DOMAIN f = {"req", "at", "ok"} /\ f.req \in Requests \cup Nested
  /\ f.at \in Nat /\ f.ok \in BOOLEAN

Has(A) == A \subseteq live \cup DeviceHandles

Follow(q, i) ==
  /\ i \in 1 .. (Length(q) + 1)
  /\ Has(At(q, i).has) /\ pool = At(q, i).pool
  /\ gpu.fence # "none" => At(q, i).due = 1

Sound(f) ==
  \/ f.ok /\ Follow(f.req, f.at)
  \/ ~f.ok /\ f.at = Length(f.req) + 1 /\ gpu.fence = "none"

Caller(c, f) ==
  /\ IsFrame(c) /\ c.req \in Requests /\ c.ok
  /\ c.at \in 1 .. Length(c.req) /\ Script(c.req)[c.at].op = "call"
  /\ f.req = [c.req EXCEPT !.prog = "into"] /\ f.req \in Nested
  /\ Has(At(c.req, c.at).has \ FreedBy(f.req))
  /\ live \subseteq FreedBy(c.req) \cup FreedBy(f.req)

Alone(f) == frames = <<f>> /\ f.req \in Requests /\ live \subseteq FreedBy(f.req)
Called(f) == \E c : frames = <<c, f>> /\ Caller(c, f)

Busy(f) ==
  /\ stage \in {"up", "down"} /\ IsFrame(f) /\ Sound(f)
  /\ Alone(f) \/ Called(f)

Rest == frames = <<>> /\ live = {} /\ pool = NoPool /\ gpu.fence = "none"

RunInv ==
  /\ StampOK /\ DOMAIN gpu = {"fence", "orphan", "lost"}
  /\ Rest \/ \E f : Busy(f)

(* The report's timestamps are a flag, whatever section sets it. *)
LEMMA StampSteps ==
  ASSUME DeviceInv, StampOK, [Next]_vars
  PROVE  StampOK'
<1>1. DOMAIN report = Fields
  BY DEF DeviceInv
<1>2. ASSUME NEW w, report' = [report EXCEPT !.failureReason = w] PROVE StampOK'
  BY <1>1, <1>2, FieldsAre DEF StampOK
<1>3. CASE LoadRuntime
  BY <1>2, <1>3 DEF LoadRuntime, GiveUp, Finish, StampOK
<1>4. CASE CreateInstance
  <2>1. CASE report' = [report EXCEPT !.instanceApi = driver.loader]
    BY <1>1, <2>1, FieldsAre DEF StampOK
  <2>. QED BY <1>2, <1>4, <2>1 DEF CreateInstance, GiveUp, Finish
<1>5. CASE PickPhysical
  <2>1. ASSUME NEW d, report' = [report EXCEPT !.discreteGpu = d, !.timestamps = TRUE] PROVE StampOK'
    BY <1>1, <2>1, FieldsAre DEF StampOK
  <2>. QED BY <1>2, <1>5, <2>1 DEF PickPhysical, GiveUp, Finish
<1>6. CASE PickFamilies
  <2>1. ASSUME NEW c, NEW g, NEW b,
               report' = [report EXCEPT !.computeQueueFamily = c, !.graphicsQueueFamily = g,
                                        !.timestamps = report.timestamps /\ b]
        PROVE  StampOK'
    <3>. DEFINE t == report.timestamps /\ b
    <3>1. t \in BOOLEAN
      OBVIOUS
    <3>2. report' = [report EXCEPT !.computeQueueFamily = c, !.graphicsQueueFamily = g, !.timestamps = t]
      BY <2>1
    <3>. HIDE DEF t
    <3>3. report'.timestamps = t
      BY <1>1, <3>2, FieldsAre
    <3>. QED BY <3>1, <3>3 DEF StampOK
  <2>. QED BY <1>2, <1>6, <2>1 DEF PickFamilies, GiveUp, Finish
<1>7. CASE GateTiers
  <2>1. ASSUME NEW m, NEW p, report' = [report EXCEPT !.meshExecBlocked = m, !.presentBlocked = p]
        PROVE  StampOK'
    BY <1>1, <2>1, FieldsAre DEF StampOK
  <2>. QED BY <1>7, <2>1 DEF GateTiers
<1>8. CASE CreateLogical
  <2>1. ASSUME NEW r, DOMAIN r = Fields, r.timestamps \in BOOLEAN,
               \/ report' = [r EXCEPT !.available = TRUE]
               \/ report' = [r EXCEPT !.failureReason = "vkCreateDevice failed"]
        PROVE  StampOK'
    BY <2>1, FieldsAre DEF StampOK
  <2>2. ASSUME NEW m, NEW p, report' = [report EXCEPT !.meshPipelineReady = m, !.presentReady = p,
                                                      !.available = TRUE]
        PROVE  StampOK'
    BY <1>1, <2>2, FieldsAre DEF StampOK
  <2>. DEFINE why == IF wants.mesh THEN TierFailed ELSE report.meshExecBlocked
              fallen == IF wants.mesh \/ wants.present
                        THEN [report EXCEPT !.meshExecBlocked = why, !.presentBlocked = TierFailed]
                        ELSE report
  <2>3. DOMAIN fallen = Fields /\ fallen.timestamps \in BOOLEAN
    <3>1. CASE wants.mesh \/ wants.present
      <4>1. fallen = [report EXCEPT !.meshExecBlocked = why, !.presentBlocked = TierFailed]
        BY <3>1
      <4>. HIDE DEF why, fallen
      <4>. QED BY <1>1, <4>1, FieldsAre DEF StampOK
    <3>2. CASE ~ (wants.mesh \/ wants.present)
      BY <1>1, <3>2 DEF StampOK
    <3>. QED BY <3>1, <3>2
  <2>4. \/ report' = [report EXCEPT !.meshPipelineReady = wants.mesh, !.presentReady = wants.present,
                                    !.available = TRUE]
        \/ report' = [fallen EXCEPT !.available = TRUE]
        \/ report' = [fallen EXCEPT !.failureReason = "vkCreateDevice failed"]
    BY <1>8 DEF CreateLogical, Finish
  <2>. HIDE DEF fallen
  <2>. QED BY <2>1, <2>2, <2>3, <2>4
<1>9. CASE DestroyDevice
  BY <1>9 DEF DestroyDevice, EmptyReport, StampOK
<1>10. CASE UNCHANGED deviceVars
  BY <1>10 DEF deviceVars, StampOK
<1>. QED BY <1>3, <1>4, <1>5, <1>6, <1>7, <1>8, <1>9, <1>10, DeviceSteps DEF BringUp

(* A program that has passed i - 1 steps of its script is at At(q, i). *)
LEMMA TraceFacts ==
  ASSUME NEW q \in Requests \cup Nested, StampOK
  PROVE  /\ Length(q) \in Nat
         /\ At(q, 1) = Place(Start(q), NoPool, 0)
         /\ At(q, Length(q) + 1).due = 0
         /\ q.prog = "into" => Graphics \in At(q, Length(q) + 1).has
         /\ \A i \in 1 .. Length(q) : Legal(Script(q)[i], At(q, i), At(q, i + 1), FreedBy(q))
<1>. DEFINE s == Script(q)  tr == Along(q, s)
<1>1. IsScript(s) /\ \E t : Follows(t, q, s)
  BY ScriptIs, HasTrace DEF StampOK
<1>. HIDE DEF s
<1>2. Follows(tr, q, s)
  BY <1>1 DEF Along
<1>. HIDE DEF tr
<1>3. PICK h : /\ h.due = 0 /\ (q.prog = "into" => Graphics \in h.has)
               /\ Traces(tr, s, Place(Start(q), NoPool, 0), h, FreedBy(q))
  BY <1>2 DEF Follows
<1>4. Len(s) \in Nat
  BY <1>1, ScriptFacts
<1>5. /\ tr[0] = Place(Start(q), NoPool, 0) /\ tr[Len(s)] = h
      /\ \A i \in 1 .. Len(s) : Legal(s[i], tr[i - 1], tr[i], FreedBy(q))
  BY <1>3 DEF Traces
<1>6. Length(q) = Len(s) /\ \A i : At(q, i) = tr[i - 1]
  BY DEF Length, At, s, tr
<1>7. /\ At(q, 1) = tr[0] /\ At(q, Length(q) + 1) = tr[Len(s)]
      /\ \A i \in 1 .. Length(q) : At(q, i) = tr[i - 1] /\ At(q, i + 1) = tr[i]
  <2>1. 1 - 1 = 0 /\ (Len(s) + 1) - 1 = Len(s) /\ \A i \in 1 .. Len(s) : (i + 1) - 1 = i
    BY <1>4
  <2>. QED BY <1>6, <2>1
<1>. QED BY <1>3, <1>4, <1>5, <1>6, <1>7 DEF s

Advance(f) == [f EXCEPT !.at = @ + 1]
GiveIn(f) == [f EXCEPT !.at = Length(f.req) + 1, !.ok = FALSE]

LEMMA TopFacts ==
  ASSUME NEW f, Busy(f)
  PROVE  /\ Running /\ Top = f
         /\ GoOn => frames' = [frames EXCEPT ![Len(frames)] = Advance(f)]
         /\ Fail => frames' = [frames EXCEPT ![Len(frames)] = GiveIn(f)]
<1>1. frames = <<f>> \/ \E c : frames = <<c, f>>
  BY DEF Busy, Alone, Called
<1>2. Running /\ Top = f
  BY <1>1 DEF Running, Top
<1>3. frames[Len(frames)] = f
  BY <1>2 DEF Top
<1>. QED BY <1>2, <1>3 DEF GoOn, Fail, Advance, GiveIn, Code, Length

LEMMA NewFrame ==
  ASSUME NEW f, IsFrame(f), StampOK
  PROVE  /\ IsFrame(Advance(f)) /\ Advance(f).req = f.req /\ Advance(f).at = f.at + 1
         /\ Advance(f).ok = f.ok
         /\ IsFrame(GiveIn(f)) /\ GiveIn(f).req = f.req /\ GiveIn(f).at = Length(f.req) + 1
         /\ GiveIn(f).ok = FALSE
<1>1. Length(f.req) \in Nat
  BY TraceFacts DEF IsFrame
<1>2. /\ Advance(f).req = f.req /\ Advance(f).at = f.at + 1 /\ Advance(f).ok = f.ok
      /\ DOMAIN Advance(f) = {"req", "at", "ok"}
  BY DEF IsFrame, Advance
<1>3. /\ GiveIn(f).req = f.req /\ GiveIn(f).at = Length(f.req) + 1 /\ GiveIn(f).ok = FALSE
      /\ DOMAIN GiveIn(f) = {"req", "at", "ok"}
  BY DEF IsFrame, GiveIn
<1>4. f.at + 1 \in Nat /\ Length(f.req) + 1 \in Nat
  BY <1>1 DEF IsFrame
<1>. QED BY <1>2, <1>3, <1>4 DEF IsFrame

(* The device is as it was: so are scripts and traces. *)
LEMMA SameScripts ==
  ASSUME UNCHANGED deviceVars
  PROVE  /\ \A q : Script(q)' = Script(q) /\ Length(q)' = Length(q)
         /\ \A q, i : At(q, i)' = At(q, i)
         /\ DeviceHandles' = DeviceHandles /\ stage' = stage /\ (StampOK => StampOK')
BY DEF deviceVars, Script, Length, At, DeviceHandles, StampOK

(* The program on top takes a step of its own: its caller, if it has one,  *)
(* still has what it had.                                                  *)
LEMMA TopSteps ==
  ASSUME NEW f, Busy(f), NEW e, IsFrame(e), e.req = f.req, Sound(e)',
         frames' = [frames EXCEPT ![Len(frames)] = e], UNCHANGED deviceVars,
         live' \subseteq live \cup FreedBy(f.req), live \subseteq live' \cup FreedBy(f.req)
  PROVE  Busy(e)'
<1>1. stage' \in {"up", "down"} /\ IsFrame(e)'
  BY SameScripts DEF Busy, IsFrame
<1>2. CASE Alone(f)
  <2>1. frames' = <<e>>
    BY <1>2 DEF Alone
  <2>2. Alone(e)'
    BY <1>2, <2>1 DEF Alone
  <2>. QED BY <1>1, <2>2 DEF Busy
<1>3. CASE Called(f)
  <2>1. PICK c : frames = <<c, f>> /\ Caller(c, f)
    BY <1>3 DEF Called
  <2>2. frames' = <<c, e>>
    BY <2>1
  <2>3. Has(At(c.req, c.at).has \ FreedBy(f.req))'
    BY <2>1, SameScripts DEF Caller, Has
  <2>4. /\ IsFrame(c)' /\ c.req \in Requests /\ c.ok
        /\ c.at \in 1 .. Length(c.req)' /\ Script(c.req)'[c.at].op = "call"
        /\ e.req = [c.req EXCEPT !.prog = "into"] /\ e.req \in Nested
        /\ live' \subseteq FreedBy(c.req) \cup FreedBy(e.req)
    BY <2>1, SameScripts DEF Caller, IsFrame
  <2>5. Caller(c, e)'
    BY <2>3, <2>4 DEF Caller
  <2>. QED BY <1>1, <2>2, <2>5 DEF Busy, Called
<1>. QED BY <1>2, <1>3 DEF Busy

(* Where a program that is not finished is.                                *)
LEMMA AtPlace ==
  ASSUME NEW f, Busy(f), StampOK, AtStep
  PROVE  /\ f.ok /\ f.req \in Requests \cup Nested /\ f.at \in 1 .. Length(f.req)
         /\ Now = Script(f.req)[f.at]
         /\ Follow(f.req, f.at)
         /\ Legal(Now, At(f.req, f.at), At(f.req, f.at + 1), FreedBy(f.req))
<1>1. Top = f /\ IsFrame(f) /\ Sound(f)
  BY TopFacts DEF Busy
<1>2. f.req \in Requests \cup Nested /\ Length(f.req) \in Nat /\ f.at \in Nat
  BY <1>1, TraceFacts DEF IsFrame
<1>3. ~ (f.at > Length(f.req)) /\ Now = Script(f.req)[f.at]
  BY <1>1 DEF AtStep, Finished, Code, Now, Length
<1>4. f.ok /\ Follow(f.req, f.at)
  BY <1>1, <1>2, <1>3 DEF Sound
<1>5. f.at \in 1 .. Length(f.req)
  BY <1>2, <1>3, <1>4 DEF Follow
<1>. QED BY <1>2, <1>3, <1>4, <1>5, TraceFacts

LEMMA GoesOn ==
  ASSUME NEW f, RunInv, Busy(f), AtStep, GoOn, UNCHANGED deviceVars,
         DOMAIN gpu' = {"fence", "orphan", "lost"},
         Has(At(f.req, f.at + 1).has)', pool' = At(f.req, f.at + 1).pool,
         gpu'.fence # "none" => At(f.req, f.at + 1).due = 1,
         live' \subseteq live \cup FreedBy(f.req), live \subseteq live' \cup FreedBy(f.req)
  PROVE  RunInv'
<1>. DEFINE e == Advance(f)
<1>1. /\ f.ok /\ f.req \in Requests \cup Nested /\ f.at \in 1 .. Length(f.req) /\ IsFrame(f)
      /\ StampOK /\ Length(f.req) \in Nat
  BY AtPlace, TraceFacts DEF RunInv, Busy
<1>2. IsFrame(e) /\ e.req = f.req /\ e.at = f.at + 1 /\ e.ok = f.ok
  BY <1>1, NewFrame
<1>3. frames' = [frames EXCEPT ![Len(frames)] = e]
  BY TopFacts
<1>. HIDE DEF e
<1>4. e.at \in 1 .. (Length(f.req) + 1)
  BY <1>1, <1>2
<1>5. Follow(e.req, e.at)'
  BY <1>2, <1>4, SameScripts DEF Follow
<1>6. Sound(e)'
  BY <1>1, <1>2, <1>5 DEF Sound
<1>7. Busy(e)'
  BY <1>2, <1>3, <1>6, TopSteps
<1>. QED BY <1>1, <1>7, SameScripts DEF RunInv

LEMMA Fails ==
  ASSUME NEW f, RunInv, Busy(f), AtStep, Fail, UNCHANGED deviceVars, live' = live,
         DOMAIN gpu' = {"fence", "orphan", "lost"}, gpu'.fence = "none"
  PROVE  RunInv'
<1>0. PICK e : e = GiveIn(f)
  OBVIOUS
<1>1. IsFrame(f) /\ StampOK
  BY DEF RunInv, Busy
<1>2. IsFrame(e) /\ e.req = f.req /\ e.at = Length(f.req) + 1 /\ e.ok = FALSE
  BY <1>0, <1>1, NewFrame
<1>3. frames' = [frames EXCEPT ![Len(frames)] = e]
  BY <1>0, TopFacts
<1>4. Sound(e)'
  BY <1>2, SameScripts DEF Sound
<1>5. Busy(e)'
  BY <1>2, <1>3, <1>4, TopSteps
<1>. QED BY <1>1, <1>5, SameScripts DEF RunInv

-----------------------------------------------------------------------------
(* One lemma per step of a program. *)
LEMMA GateStep ==
  ASSUME NEW f, DeviceInv, RunInv, Busy(f), TakeGate
  PROVE  RunInv'
<1>. DEFINE g == At(f.req, f.at)  h == At(f.req, f.at + 1)
<1>1. AtStep /\ Now.op = "gate" /\ UNCHANGED <<deviceVars, live, pool, gpu>>
  BY DEF TakeGate
<1>2. Follow(f.req, f.at) /\ Legal(Now, g, h, FreedBy(f.req))
  BY <1>1, AtPlace DEF RunInv
<1>. HIDE DEF g, h
<1>3. g.due = 0 /\ h.due = 0 /\ h.pool = g.pool /\ h.has \subseteq g.has \cup Granted(Now.need)
  BY <1>1, <1>2 DEF Legal, Moves
<1>4. Has(g.has) /\ pool = g.pool /\ gpu.fence = "none"
  BY <1>2, <1>3 DEF Follow, g
<1>5. CASE Passable(Now) /\ GoOn
  <2>1. Granted(Now.need) \subseteq DeviceHandles
    <3>1. CASE Now.need = "available"
      <4>1. report.available
        BY <1>5, <3>1 DEF Passable
      <4>2. {"device", "queue"} \subseteq objects
        BY <4>1 DEF DeviceInv, Backed
      <4>. QED BY <3>1, <4>2 DEF Granted, DeviceHandles, Compute
    <3>2. CASE Now.need \in {"mesh", "graphics"}
      <4>1. report.meshPipelineReady \/ report.presentReady
        BY <1>5, <3>2 DEF Passable
      <4>2. "graphicsQueue" \in objects
        BY <4>1 DEF DeviceInv, Backed
      <4>3. Granted(Now.need) = {Graphics}
        BY <3>2 DEF Granted
      <4>. QED BY <4>2, <4>3 DEF DeviceHandles, Graphics
    <3>3. CASE Now.need \notin {"available", "mesh", "graphics"}
      BY <3>3 DEF Granted
    <3>. QED BY <3>1, <3>2, <3>3
  <2>2. Has(h.has)'
    BY <1>1, <1>3, <1>4, <2>1, SameScripts DEF Has, h
  <2>. QED BY <1>1, <1>3, <1>4, <1>5, <2>2, GoesOn DEF RunInv, h
<1>6. CASE Fail
  BY <1>1, <1>4, <1>6, Fails DEF RunInv
<1>. QED BY <1>5, <1>6 DEF TakeGate

LEMMA SucceedStep ==
  ASSUME NEW f, RunInv, Busy(f), Succeed
  PROVE  RunInv'
<1>. DEFINE g == At(f.req, f.at)  h == At(f.req, f.at + 1)
<1>1. /\ AtStep /\ Now.op \in {"try", "do"} /\ UNCHANGED <<deviceVars, gpu>> /\ GoOn
      /\ live' = (live \ Now.gone) \cup Now.made /\ pool' = Drawn(pool, Now)
  BY DEF Succeed
<1>2. Follow(f.req, f.at) /\ Legal(Now, g, h, FreedBy(f.req))
  BY <1>1, AtPlace DEF RunInv
<1>. HIDE DEF g, h
<1>3. g.due = 0 /\ h.due = 0 /\ h.has \subseteq (g.has \ Now.gone) \cup Now.made
  BY <1>1, <1>2 DEF Legal, Moves
<1>4. /\ Has(g.has) /\ pool = g.pool /\ gpu.fence = "none"
      /\ h.pool = Drawn(g.pool, Now) /\ Now.made \subseteq FreedBy(f.req) /\ Now.gone \subseteq FreedBy(f.req)
  BY <1>2, <1>3 DEF Follow, Legal, g
<1>5. DeviceHandles' = DeviceHandles
  BY <1>1, SameScripts
<1>6. Has(h.has)' /\ live' \subseteq live \cup FreedBy(f.req) /\ live \subseteq live' \cup FreedBy(f.req)
  <2>1. h.has' = h.has
    BY <1>1, SameScripts DEF h
  <2>. QED BY <1>1, <1>3, <1>4, <1>5, <2>1 DEF Has
<1>. QED BY <1>1, <1>3, <1>4, <1>6, GoesOn DEF RunInv, h

LEMMA CallFailsStep ==
  ASSUME NEW f, RunInv, Busy(f), CallFails
  PROVE  RunInv'
<1>. DEFINE g == At(f.req, f.at)  h == At(f.req, f.at + 1)
<1>1. AtStep /\ Now.op \in {"try", "submit"} /\ UNCHANGED <<deviceVars, live, gpu>> /\ Fail
  BY DEF CallFails
<1>2. Follow(f.req, f.at) /\ Legal(Now, g, h, FreedBy(f.req))
  BY <1>1, AtPlace DEF RunInv
<1>. HIDE DEF g, h
<1>3. g.due = 0
  BY <1>1, <1>2 DEF Legal, Moves
<1>4. gpu.fence = "none"
  BY <1>2, <1>3 DEF Follow, g
<1>. QED BY <1>1, <1>4, Fails DEF RunInv

(* A step that leaves the objects and the pool as they are. *)
LEMMA KeepsAll ==
  ASSUME NEW f, RunInv, Busy(f), AtStep, GoOn, UNCHANGED <<deviceVars, live, pool>>,
         DOMAIN gpu' = {"fence", "orphan", "lost"},
         At(f.req, f.at + 1).has \subseteq At(f.req, f.at).has,
         At(f.req, f.at + 1).pool = At(f.req, f.at).pool,
         gpu'.fence # "none" => At(f.req, f.at + 1).due = 1
  PROVE  RunInv'
<1>. DEFINE g == At(f.req, f.at)  h == At(f.req, f.at + 1)
<1>1. Follow(f.req, f.at)
  BY AtPlace DEF RunInv
<1>. HIDE DEF g, h
<1>2. DeviceHandles' = DeviceHandles /\ h.has' = h.has
  BY SameScripts DEF h
<1>3. Has(g.has) /\ pool = g.pool /\ h.has \subseteq g.has /\ h.pool = g.pool
  BY <1>1 DEF Follow, g, h
<1>4. Has(h.has)' /\ pool' = h.pool
  BY <1>2, <1>3 DEF Has
<1>. QED BY <1>4, GoesOn DEF h

LEMMA SubmitStep ==
  ASSUME NEW f, RunInv, Busy(f), Submit
  PROVE  RunInv'
<1>. DEFINE g == At(f.req, f.at)  h == At(f.req, f.at + 1)
<1>1. /\ AtStep /\ Now.op = "submit" /\ UNCHANGED <<deviceVars, live, pool>> /\ GoOn
      /\ gpu' = [gpu EXCEPT !.fence = "pending"]
  BY DEF Submit
<1>2. Legal(Now, g, h, FreedBy(f.req))
  BY <1>1, AtPlace DEF RunInv
<1>. HIDE DEF g, h
<1>3. h.due = 1 /\ h.pool = g.pool /\ h.has \subseteq g.has
  BY <1>1, <1>2 DEF Legal, Moves
<1>4. DOMAIN gpu' = {"fence", "orphan", "lost"}
  BY <1>1 DEF RunInv
<1>. QED BY <1>1, <1>3, <1>4, KeepsAll DEF g, h

LEMMA WaitStep ==
  ASSUME NEW f, RunInv, Busy(f), Wait
  PROVE  RunInv'
<1>. DEFINE g == At(f.req, f.at)  h == At(f.req, f.at + 1)
<1>1. /\ AtStep /\ Now.op = "wait" /\ UNCHANGED <<deviceVars, live, pool>> /\ GoOn
      /\ gpu' = [gpu EXCEPT !.fence = "none"]
  BY DEF Wait
<1>2. Legal(Now, g, h, FreedBy(f.req))
  BY <1>1, AtPlace DEF RunInv
<1>. HIDE DEF g, h
<1>3. h.pool = g.pool /\ h.has \subseteq g.has
  BY <1>1, <1>2 DEF Legal, Moves
<1>4. DOMAIN gpu' = {"fence", "orphan", "lost"} /\ gpu'.fence = "none"
  BY <1>1 DEF RunInv
<1>. QED BY <1>1, <1>3, <1>4, KeepsAll DEF g, h

LEMMA ReadStep ==
  ASSUME NEW f, RunInv, Busy(f), ReadResult
  PROVE  RunInv'
<1>. DEFINE g == At(f.req, f.at)  h == At(f.req, f.at + 1)
<1>1. AtStep /\ Now.op = "read" /\ UNCHANGED <<deviceVars, live, pool, gpu>> /\ GoOn
  BY DEF ReadResult
<1>2. Follow(f.req, f.at) /\ Legal(Now, g, h, FreedBy(f.req))
  BY <1>1, AtPlace DEF RunInv
<1>. HIDE DEF g, h
<1>3. g.due = 0 /\ h.pool = g.pool /\ h.has \subseteq g.has
  BY <1>1, <1>2 DEF Legal, Moves
<1>4. DOMAIN gpu' = {"fence", "orphan", "lost"} /\ gpu'.fence = "none"
  BY <1>1, <1>2, <1>3 DEF RunInv, Follow, g
<1>. QED BY <1>1, <1>3, <1>4, KeepsAll DEF g, h

LEMMA WaitFailsStep ==
  ASSUME NEW f, RunInv, Busy(f), WaitFails
  PROVE  RunInv'
<1>1. AtStep /\ UNCHANGED <<deviceVars, live>> /\ Fail
  BY DEF WaitFails
<1>2. PICK o : gpu' = [gpu EXCEPT !.fence = "none", !.orphan = o]
  BY DEF WaitFails
<1>3. DOMAIN gpu' = {"fence", "orphan", "lost"} /\ gpu'.fence = "none"
  BY <1>2 DEF RunInv
<1>. QED BY <1>1, <1>3, Fails

(* The GPU finishes, or is lost: what the program is owed does not change. *)
LEMMA GpuStep ==
  ASSUME NEW f, RunInv, Busy(f), UNCHANGED <<deviceVars, frames, live, pool>>,
         DOMAIN gpu' = {"fence", "orphan", "lost"}, gpu.fence = "none" => gpu'.fence = "none"
  PROVE  RunInv'
<1>1. Sound(f)'
  <2>1. CASE f.ok /\ Follow(f.req, f.at)
    <3>1. Follow(f.req, f.at)'
      BY <2>1, SameScripts DEF Follow, Has
    <3>. QED BY <2>1, <3>1 DEF Sound
  <2>2. CASE ~f.ok /\ f.at = Length(f.req) + 1 /\ gpu.fence = "none"
    BY <2>2, SameScripts DEF Sound
  <2>. QED BY <2>1, <2>2 DEF Busy, Sound
<1>2. Alone(f) => Alone(f)'
  BY DEF Alone
<1>3. Called(f) => Called(f)'
  <2>. SUFFICES ASSUME NEW c, frames = <<c, f>>, Caller(c, f) PROVE frames' = <<c, f>> /\ Caller(c, f)'
    BY DEF Called
  <2>1. Has(At(c.req, c.at).has \ FreedBy(f.req))'
    BY SameScripts DEF Caller, Has
  <2>. QED BY <2>1, SameScripts DEF Caller, IsFrame
<1>4. Busy(f)'
  BY <1>1, <1>2, <1>3, SameScripts DEF Busy, IsFrame
<1>. QED BY <1>4, SameScripts DEF RunInv

LEMMA AtRest ==
  ASSUME Rest
  PROVE  ~Running /\ ~AtStep /\ ~Finished
BY DEF Rest, Running, AtStep, Finished

LEMMA GpuSteps ==
  ASSUME RunInv, Retire \/ RetireOrphan \/ Lose
  PROVE  RunInv'
<1>1. UNCHANGED <<deviceVars, frames, live, pool>>
  BY DEF Retire, RetireOrphan, Lose
<1>2. DOMAIN gpu' = {"fence", "orphan", "lost"} /\ (gpu.fence = "none" => gpu'.fence = "none")
  BY DEF Retire, RetireOrphan, Lose, RunInv
<1>3. CASE Rest
  BY <1>1, <1>2, <1>3, SameScripts DEF Rest, RunInv
<1>4. ASSUME NEW f, Busy(f) PROVE RunInv'
  BY <1>1, <1>2, <1>4, GpuStep
<1>. QED BY <1>3, <1>4 DEF RunInv

(* A program called starts with nothing of its own. *)
LEMMA Entered ==
  ASSUME NEW q \in Requests \cup Nested, StampOK
  PROVE  /\ IsFrame(Enter(q)) /\ Enter(q).req = q
         /\ Has(Start(q)) /\ pool = NoPool /\ gpu.fence = "none" => Sound(Enter(q))
<1>1. Enter(q).req = q /\ Enter(q).at = 1 /\ Enter(q).ok = TRUE /\ IsFrame(Enter(q))
  BY DEF Enter, IsFrame
<1>2. Length(q) \in Nat /\ At(q, 1) = Place(Start(q), NoPool, 0)
  BY TraceFacts
<1>3. ASSUME Has(Start(q)), pool = NoPool, gpu.fence = "none" PROVE Follow(q, 1)
  BY <1>2, <1>3 DEF Follow, Place
<1>. QED BY <1>1, <1>3 DEF Sound

LEMMA BeginStep ==
  ASSUME NEW q \in Requests, RunInv, Begin(q)
  PROVE  RunInv'
<1>1. /\ stage \in {"up", "down"} /\ ~Running /\ frames' = <<Enter(q)>>
      /\ UNCHANGED <<deviceVars, live, pool, gpu>>
  BY DEF Begin
<1>2. Rest /\ StampOK
  BY <1>1, TopFacts DEF RunInv
<1>3. Start(q) = {}
  BY Kinds DEF Start
<1>4. IsFrame(Enter(q)) /\ Enter(q).req = q /\ Sound(Enter(q))
  BY <1>2, <1>3, Entered DEF Has, Rest
<1>5. PICK e : e = Enter(q)
  OBVIOUS
<1>6. Sound(e)'
  BY <1>1, <1>4, <1>5, SameScripts DEF Sound, Follow, Has
<1>7. IsFrame(e)' /\ Alone(e)' /\ stage' \in {"up", "down"}
  BY <1>1, <1>2, <1>4, <1>5, SameScripts DEF IsFrame, Alone, Rest
<1>. QED BY <1>1, <1>2, <1>6, <1>7, SameScripts DEF RunInv, Busy

LEMMA CallStep ==
  ASSUME NEW f, RunInv, Busy(f), Call
  PROVE  RunInv'
<1>. DEFINE g == At(f.req, f.at)  h == At(f.req, f.at + 1)
<1>1. /\ AtStep /\ Now.op = "call" /\ UNCHANGED <<deviceVars, live, pool, gpu>>
      /\ frames' = Append(frames, Enter([Top.req EXCEPT !.prog = Now.callee]))
  BY DEF Call
<1>2. /\ f.ok /\ f.req \in Requests \cup Nested /\ f.at \in 1 .. Length(f.req) /\ IsFrame(f)
      /\ Now = Script(f.req)[f.at] /\ Follow(f.req, f.at) /\ Legal(Now, g, h, FreedBy(f.req))
      /\ StampOK /\ Top = f
  BY <1>1, AtPlace, TopFacts DEF RunInv, Busy
<1>. HIDE DEF g, h
<1>3. /\ Now.callee = "into" /\ g.due = 0 /\ g.pool = NoPool /\ Target \subseteq g.has
      /\ Target \subseteq FreedBy(f.req)
  BY <1>1, <1>2 DEF Legal, Moves
<1>4. f.req \in Requests /\ f.req.prog = "view"
  BY <1>2, <1>3, OnlyViewCalls DEF Target
<1>. DEFINE q == [f.req EXCEPT !.prog = "into"]
<1>5. q \in Nested /\ q.prog = "into" /\ Start(q) = Target
  BY <1>4, Kinds DEF Start
<1>. HIDE DEF q
<1>6. Has(g.has) /\ pool = NoPool /\ gpu.fence = "none"
  BY <1>2, <1>3 DEF Follow, g
<1>7. PICK e : e = Enter(q)
  OBVIOUS
<1>8. IsFrame(e) /\ e.req = q /\ Sound(e)
  <2>1. Has(Start(q))
    BY <1>3, <1>5, <1>6 DEF Has
  <2>. QED BY <1>2, <1>5, <1>6, <1>7, <2>1, Entered
<1>9. Sound(e)'
  BY <1>1, <1>8, SameScripts DEF Sound, Follow, Has
<1>10. frames = <<f>> /\ live \subseteq FreedBy(f.req)
  <2>1. ~Called(f)
    <3>1. f.req.prog # "into"
      BY <1>4
    <3>. QED BY <3>1, Kinds DEF Called, Caller
  <2>. QED BY <2>1 DEF Busy, Alone
<1>11. frames' = <<f, e>>
  <2>1. frames' = Append(<<f>>, e)
    BY <1>1, <1>2, <1>3, <1>7, <1>10 DEF q
  <2>2. Append(<<f>>, e) = <<f, e>>
    <3>1. <<f>> \in Seq({f, e}) /\ Len(<<f>>) = 1 /\ <<f>>[1] = f /\ e \in {f, e}
      OBVIOUS
    <3>. DEFINE a == Append(<<f>>, e)  b == <<f, e>>
    <3>2. a \in Seq({f, e}) /\ Len(a) = 2 /\ a[1] = f /\ a[2] = e
      BY <3>1, AppendProperties
    <3>3. b \in Seq({f, e}) /\ Len(b) = 2 /\ b[1] = f /\ b[2] = e
      OBVIOUS
    <3>. HIDE DEF a, b
    <3>4. Len(a) = Len(b) /\ \A i \in 1 .. Len(a) : a[i] = b[i]
      BY <3>2, <3>3
    <3>5. a = b
      BY <3>2, <3>3, <3>4, SeqEqual
    <3>. QED BY <3>5 DEF a, b
  <2>. QED BY <2>1, <2>2
<1>12. Has(g.has \ FreedBy(q))'
  <2>1. g.has' = g.has /\ DeviceHandles' = DeviceHandles
    BY <1>1, SameScripts DEF g
  <2>. QED BY <1>1, <1>6, <2>1 DEF Has
<1>13. Caller(f, e)'
  <2>1. IsFrame(f)' /\ f.req \in Requests /\ f.ok
    BY <1>2, <1>4 DEF IsFrame
  <2>2. f.at \in 1 .. Length(f.req)' /\ Script(f.req)'[f.at].op = "call"
    BY <1>1, <1>2, SameScripts
  <2>3. e.req = [f.req EXCEPT !.prog = "into"] /\ e.req \in Nested
    BY <1>5, <1>8 DEF q
  <2>4. live' \subseteq FreedBy(f.req) \cup FreedBy(e.req)
    BY <1>1, <1>10
  <2>5. Has(At(f.req, f.at).has \ FreedBy(e.req))'
    BY <1>8, <1>12 DEF g
  <2>. QED BY <2>1, <2>2, <2>3, <2>4, <2>5 DEF Caller
<1>14. Busy(e)'
  <2>1. stage' \in {"up", "down"} /\ IsFrame(e)'
    BY <1>1, <1>8, SameScripts DEF Busy, IsFrame
  <2>. QED BY <1>9, <1>11, <1>13, <2>1 DEF Busy, Called
<1>. QED BY <1>1, <1>2, <1>14, SameScripts DEF RunInv

(* A program returns.  The call it ends is over when nothing called it;    *)
(* else its caller has again what it had, and, if all went well, the       *)
(* graphics queue that the callee has seen.                                *)
LEMMA AtEnd ==
  ASSUME NEW f, Busy(f), StampOK, Finished
  PROVE  /\ gpu.fence = "none" /\ Length(f.req) \in Nat /\ f.at = Length(f.req) + 1
         /\ f.ok /\ f.req.prog = "into" => Graphics \in live \cup DeviceHandles
<1>1. Top = f /\ IsFrame(f) /\ Sound(f)
  BY TopFacts DEF Busy
<1>2. /\ f.req \in Requests \cup Nested /\ Length(f.req) \in Nat /\ f.at \in Nat
      /\ At(f.req, Length(f.req) + 1).due = 0
      /\ f.req.prog = "into" => Graphics \in At(f.req, Length(f.req) + 1).has
  BY <1>1, TraceFacts DEF IsFrame
<1>3. f.at > Length(f.req)
  BY <1>1 DEF Finished, Code, Length
<1>4. CASE f.ok /\ Follow(f.req, f.at)
  <2>1. f.at = Length(f.req) + 1
    BY <1>2, <1>3, <1>4 DEF Follow
  <2>2. gpu.fence = "none" /\ Has(At(f.req, Length(f.req) + 1).has)
    BY <1>2, <1>4, <2>1 DEF Follow
  <2>. QED BY <1>2, <2>1, <2>2 DEF Has
<1>5. CASE ~f.ok /\ f.at = Length(f.req) + 1 /\ gpu.fence = "none"
  BY <1>2, <1>5
<1>. QED BY <1>1, <1>4, <1>5 DEF Sound

LEMMA ReturnStep ==
  ASSUME NEW f, RunInv, Busy(f), Return
  PROVE  RunInv'
<1>0. Top = f /\ StampOK /\ IsFrame(f)
  BY TopFacts DEF RunInv, Busy
<1>1. /\ Finished /\ UNCHANGED <<deviceVars, gpu>>
      /\ live' = live \ FreedBy(f.req) /\ pool' = NoPool
      /\ \/ Front(frames) = <<>> /\ frames' = <<>>
         \/ /\ Front(frames) # <<>>
            /\ frames' = [Front(frames) EXCEPT ![Len(Front(frames))] = Resume(@, f.ok)]
  BY <1>0 DEF Return
<1>2. gpu.fence = "none" /\ (f.ok /\ f.req.prog = "into" => Graphics \in live \cup DeviceHandles)
  BY <1>0, <1>1, AtEnd
<1>3. StampOK' /\ DOMAIN gpu' = {"fence", "orphan", "lost"} /\ gpu'.fence = "none"
  BY <1>1, <1>2, SameScripts DEF RunInv
<1>4. CASE Alone(f)
  <2>1. Front(frames) = <<>>
    BY <1>4 DEF Alone, Front
  <2>2. Rest'
    BY <1>1, <1>3, <1>4, <2>1 DEF Alone, Rest
  <2>. QED BY <1>3, <2>2 DEF RunInv
<1>5. CASE Called(f)
  <2>1. PICK c : frames = <<c, f>> /\ Caller(c, f)
    BY <1>5 DEF Called
  <2>2. Front(frames) = <<c>>
    <3>. DEFINE s == <<c, f>>  a == SubSeq(s, 1, 1)  b == <<c>>
    <3>1. s \in Seq({c, f}) /\ Len(s) = 2 /\ s[1] = c
      OBVIOUS
    <3>2. b \in Seq({c, f}) /\ Len(b) = 1 /\ b[1] = c
      OBVIOUS
    <3>. HIDE DEF s, b
    <3>3. a \in Seq({c, f}) /\ Len(a) = 1 /\ a[1] = c
      BY <3>1
    <3>4. Front(frames) = a
      BY <2>1, <3>1 DEF Front, s
    <3>. HIDE DEF a
    <3>5. Len(a) = Len(b) /\ \A i \in 1 .. Len(a) : a[i] = b[i]
      BY <3>2, <3>3
    <3>6. a = b
      BY <3>2, <3>3, <3>5, SeqEqual
    <3>. QED BY <3>4, <3>6 DEF b
  <2>3. PICK e : e = Resume(c, f.ok)
    OBVIOUS
  <2>4. frames' = <<e>>
    BY <1>1, <2>2, <2>3
  <2>5. /\ IsFrame(c) /\ c.req \in Requests /\ c.ok /\ c.at \in 1 .. Length(c.req)
        /\ Script(c.req)[c.at].op = "call" /\ f.req = [c.req EXCEPT !.prog = "into"]
        /\ f.req \in Nested /\ Has(At(c.req, c.at).has \ FreedBy(f.req))
        /\ live \subseteq FreedBy(c.req) \cup FreedBy(f.req)
    BY <2>1 DEF Caller
  <2>6. f.req.prog = "into" /\ FreedBy(f.req) = Frees(WorldIntoOwned)
    <3>1. f.req.prog = "into"
      BY <2>5, Kinds
    <3>. QED BY <3>1, FreedIs DEF OwnedBy
  <2>7. live' \subseteq FreedBy(c.req) /\ stage' \in {"up", "down"}
    BY <1>1, <2>5, SameScripts DEF Busy
  <2>8. ASSUME IsFrame(e), e.req = c.req, Sound(e)' PROVE RunInv'
    <3>1. Alone(e)' /\ IsFrame(e)'
      BY <2>4, <2>5, <2>7, <2>8 DEF Alone, IsFrame
    <3>2. Busy(e)'
      BY <2>7, <2>8, <3>1 DEF Busy
    <3>. QED BY <1>3, <3>2 DEF RunInv
  <2>9. CASE f.ok
    <3>. DEFINE x == Script(c.req)[c.at]  g == At(c.req, c.at)  h == At(c.req, c.at + 1)
    <3>1. e = Advance(c)
      BY <2>3, <2>9 DEF Resume, Advance
    <3>2. /\ IsFrame(e) /\ e.req = c.req /\ e.at = c.at + 1 /\ e.ok = c.ok
          /\ Length(c.req) \in Nat
      BY <1>0, <2>5, <3>1, NewFrame, TraceFacts
    <3>3. Legal(x, g, h, FreedBy(c.req))
      BY <1>0, <2>5, TraceFacts
    <3>. HIDE DEF x, g, h
    <3>4. /\ h.pool = NoPool /\ h.has \subseteq (g.has \ Frees(WorldIntoOwned)) \cup {Graphics}
      <4>1. x.op = "call"
        BY <2>5 DEF x
      <4>. QED BY <3>3, <4>1 DEF Legal, Moves
    <3>5. Graphics \in live' \cup DeviceHandles
      <4>1. Graphics \notin Frees(WorldIntoOwned)
        BY KeptByInto
      <4>. QED BY <1>1, <1>2, <2>6, <2>9, <4>1
    <3>6. Has(h.has)'
      <4>1. h.has' = h.has /\ DeviceHandles' = DeviceHandles
        BY <1>1, SameScripts DEF h
      <4>2. g.has \ Frees(WorldIntoOwned) \subseteq live \cup DeviceHandles
        BY <2>5, <2>6 DEF Has, g
      <4>. QED BY <1>1, <2>6, <3>4, <3>5, <4>1, <4>2 DEF Has
    <3>7. Follow(c.req, c.at + 1)'
      <4>1. c.at + 1 \in 1 .. (Length(c.req) + 1)
        BY <2>5, <3>2
      <4>2. At(c.req, c.at + 1)' = h /\ Length(c.req)' = Length(c.req)
        BY <1>1, SameScripts DEF h
      <4>3. Has(At(c.req, c.at + 1).has)'
        BY <3>6 DEF h
      <4>. QED BY <1>1, <1>3, <3>4, <4>1, <4>2, <4>3 DEF Follow
    <3>8. Sound(e)'
      BY <2>5, <3>2, <3>7 DEF Sound
    <3>. QED BY <2>8, <3>2, <3>8
  <2>10. CASE ~f.ok
    <3>1. e = GiveIn(c)
      BY <2>3, <2>10 DEF Resume, GiveIn, Length
    <3>2. /\ IsFrame(e) /\ e.req = c.req /\ e.at = Length(c.req) + 1 /\ e.ok = FALSE
      BY <1>0, <2>5, <3>1, NewFrame
    <3>3. Sound(e)'
      BY <1>1, <1>3, <3>2, SameScripts DEF Sound
    <3>. QED BY <2>8, <3>2, <3>3
  <2>. QED BY <2>9, <2>10
<1>. QED BY <1>4, <1>5 DEF Busy

-----------------------------------------------------------------------------
LEMMA RunInvInit == Init => RunInv
BY DEF Init, DeviceInit, EmptyReport, RunInv, StampOK, Rest, Idle

LEMMA RunInvSteps ==
  ASSUME DeviceInv, RunInv, [Next]_vars
  PROVE  RunInv'
<1>1. CASE BringUpStep
  <2>1. stage \in Sections /\ UNCHANGED programVars
    BY <1>1, BringUpSteps DEF BringUpStep
  <2>2. Rest
    BY <2>1 DEF RunInv, Busy, Sections
  <2>3. Rest' /\ DOMAIN gpu' = {"fence", "orphan", "lost"}
    BY <2>1, <2>2 DEF Rest, RunInv, programVars
  <2>4. StampOK'
    BY StampSteps DEF RunInv
  <2>. QED BY <2>3, <2>4 DEF RunInv
<1>2. CASE Shutdown
  <2>1. Rest
    BY <1>2, TopFacts DEF RunInv, Shutdown
  <2>2. Rest' /\ DOMAIN gpu' = {"fence", "orphan", "lost"}
    BY <1>2, <2>1 DEF Rest, Shutdown, Idle
  <2>3. StampOK'
    BY StampSteps DEF RunInv
  <2>. QED BY <2>2, <2>3 DEF RunInv
<1>3. CASE UNCHANGED vars
  <2>1. UNCHANGED <<deviceVars, frames, live, pool, gpu>>
    BY <1>3 DEF vars, programVars
  <2>2. CASE Rest
    BY <2>1, <2>2, SameScripts DEF Rest, RunInv
  <2>3. ASSUME NEW f, Busy(f) PROVE RunInv'
    BY <2>1, <2>3, GpuStep DEF RunInv
  <2>. QED BY <2>2, <2>3 DEF RunInv
<1>4. ASSUME NEW q \in Requests, Begin(q) PROVE RunInv'
  BY <1>4, BeginStep
<1>5. CASE Retire \/ RetireOrphan \/ Lose
  BY <1>5, GpuSteps
<1>6. CASE TakeGate \/ Succeed \/ CallFails \/ Submit \/ Wait \/ WaitFails \/ ReadResult \/ Call \/ Return
  <2>1. AtStep \/ Finished
    BY <1>6 DEF TakeGate, Succeed, CallFails, Submit, Wait, WaitFails, ReadResult, Call, Return
  <2>2. PICK f : Busy(f)
    BY <2>1, AtRest DEF RunInv
  <2>. QED BY <1>6, <2>2, GateStep, SucceedStep, CallFailsStep, SubmitStep, WaitStep, WaitFailsStep,
              ReadStep, CallStep, ReturnStep
<1>. QED BY <1>1, <1>2, <1>3, <1>4, <1>5, <1>6 DEF Next, Gone

LEMMA RunInvHolds == Spec => [](DeviceInv /\ RunInv)
<1>1. Init => DeviceInv /\ RunInv
  BY DeviceInit0, RunInvInit DEF Init
<1>2. DeviceInv /\ RunInv /\ [Next]_vars => (DeviceInv /\ RunInv)'
  BY DeviceSteps, RunInvSteps
<1>. QED BY <1>1, <1>2, PTL DEF Spec

(* Nothing a program made is left when it has returned, on whatever path,  *)
(* and a program returns only when nothing it submitted is still pending   *)
(* that it could have waited for ("EVERY failure path exits through the    *)
(* same clean ladder", compute.cpp:122-125): for every driver, every set   *)
(* of requests and every combination of failing calls, the nested call of  *)
(* renderWorldViewInto included.                                           *)
THEOREM NothingIsLeaked == Spec => []NothingLeaked
<1>1. RunInv => NothingLeaked
  <2>. SUFFICES ASSUME RunInv PROVE NothingLeaked
    OBVIOUS
  <2>1. CASE Rest
    BY <2>1, AtRest DEF Rest, NothingLeaked
  <2>2. ASSUME NEW f, Busy(f) PROVE NothingLeaked
    <3>1. Running
      BY <2>2, TopFacts
    <3>2. Finished => gpu.fence = "none"
      BY <2>2, AtEnd DEF RunInv
    <3>. QED BY <3>1, <3>2 DEF NothingLeaked
  <2>. QED BY <2>1, <2>2 DEF RunInv
<1>. QED BY <1>1, RunInvHolds, PTL

(* Every Vulkan call of every program is given handles that exist, and the *)
(* descriptor pool has room for each set drawn from it ("several creates   *)
(* were unchecked and could feed VK_NULL_HANDLE into later calls",         *)
(* compute.cpp:122-124): whatever the extent, the iterations and the       *)
(* cascades asked for.                                                     *)
THEOREM EveryCallIsValid == Spec => []CallsAreValid
<1>1. RunInv => CallsAreValid
  <2>. SUFFICES ASSUME RunInv, AtStep, Now.op # "gate"
                PROVE  /\ Now.uses \subseteq live \cup DeviceHandles
                       /\ \A k \in DOMAIN pool : Drawn(pool, Now)[k] >= 0
    BY DEF CallsAreValid
  <2>1. PICK f : Busy(f)
    BY AtRest DEF RunInv
  <2>. DEFINE g == At(f.req, f.at)  h == At(f.req, f.at + 1)
  <2>2. Follow(f.req, f.at) /\ Legal(Now, g, h, FreedBy(f.req))
    BY <2>1, AtPlace DEF RunInv
  <2>3. Has(g.has) /\ pool = g.pool
    BY <2>2 DEF Follow
  <2>. HIDE DEF g, h
  <2>4. Now.uses \subseteq g.has /\ g.pool \in Pools /\ h.pool \in Pools /\ h.pool = Drawn(g.pool, Now)
    BY <2>2 DEF Legal
  <2>5. ASSUME NEW k \in DOMAIN pool PROVE Drawn(pool, Now)[k] >= 0
    <3>1. k \in Counts /\ h.pool[k] \in Nat /\ h.pool = Drawn(pool, Now)
      BY <2>3, <2>4, <2>5 DEF Pools
    <3>. QED BY <3>1
  <2>. QED BY <2>3, <2>4, <2>5 DEF Has
<1>. QED BY <1>1, RunInvHolds, PTL
=============================================================================
