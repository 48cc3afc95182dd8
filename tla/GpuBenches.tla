----------------------------- MODULE GpuBenches -----------------------------
(* runVctBench and runRcBench (bench.cpp) as scripts.  Both upload a scene,*)
(* voxelise it into an image with a mip chain and time a sequence of       *)
(* passes, repeated; then once more, untimed, with the counters on and the *)
(* readbacks between the passes.                                           *)
EXTENDS GpuPrograms

(* How often n can be halved before 1 or 0 is left.                        *)
ExtentBits == 30      \* for n below 2^31
Log2(n) == Cardinality({k \in 1 .. ExtentBits : 2 ^ k <= n})

Mips(extent) == 1 + Log2(extent)
SceneBytes(p) == 4 * p.extent * p.extent * p.extent
PowerOfTwo(n) == n # 0 /\ n = 2 ^ Log2(n)

Times(n, seq) == [i \in 1 .. (n * Len(seq)) |-> seq[((i - 1) % Len(seq)) + 1]]
UpTo(n, F(_)) == [i \in 1 .. n |-> F(i)]

-----------------------------------------------------------------------------
(* The radiance volume: image, a view per level and one of all, sampler.   *)
RadianceImage(mips) ==
  Image("radiance")
  \o UpTo(mips, LAMBDA i : Make(Level(i - 1), {Img("radiance"), Mem("radiance")}))
  \o ViewOf(View("radiance"), "radiance")
  \o <<Make(Obj("sampler"), {})>>

OwnedRadiance(mips) ==
  OwnedImage("radiance") \cup {Level(i) : i \in 0 .. (mips - 1)} \cup {Obj("sampler")}

(* Scene upload and the transition of every level to GENERAL.              *)
ToShader == Barrier({"TRANSFER"}, TRUE, {"COMPUTE"}, {"R"})
ToGeneral == Barrier({}, FALSE, {"COMPUTE"}, {"R", "W"})

Upload(p) ==
  <<[Copy(Buf("staging"), 0, SceneBytes(p), Buf("scene"), 0, SceneBytes(p))
       EXCEPT !.bars = <<ToShader>>],
    [Use({Img("radiance")}) EXCEPT
       !.fresh = {Transition(Img("radiance"), Mips(p.extent), ToGeneral)}]>>

(* Mutant: the barrier orders execution and makes nothing visible. *)
IsolateExecutionOnly == Barrier({"COMPUTE"}, FALSE, {"COMPUTE"}, {"R", "W"})

(* stampedDispatch and plainDispatch: two stamps around a dispatch and the *)
(* barrier that isolates the next one.                                     *)
Isolate == Barrier({"COMPUTE"}, TRUE, {"COMPUTE"}, {"R", "W"})
Dispatch(n, accs, pass, stamps) ==
  Stamped(Command({Pipe(n), Layout(n)}, accs, pass, <<Isolate>>), stamps)

InjectPass(p, stamps) ==
  Dispatch("inject", {Rd(Buf("scene"), 0, SceneBytes(p), "COMPUTE"),
                      Wr(Img("radiance"), 0, 1, "COMPUTE")}, Pass("inject", 0), stamps)
MipPass(i, stamps) ==
  Dispatch("mip", {Rd(Img("radiance"), i - 1, i, "COMPUTE"),
                   Wr(Img("radiance"), i, i + 1, "COMPUTE")}, Pass("mip", i), stamps)
VolumePasses(p, stamps) ==
  <<InjectPass(p, stamps)>> \o UpTo(Mips(p.extent) - 1, LAMBDA i : MipPass(i, stamps))

TopMip(p) == IF Mips(p.extent) = 1 THEN Pass("inject", 0) ELSE Pass("mip", Mips(p.extent) - 1)

(* The counters are cleared and then written by shaders.                   *)
ClearStats(bytes) ==
  Command({}, {Wr(Buf("stats"), 0, bytes, "TRANSFER")}, Pass("fill", 0),
          <<Barrier({"TRANSFER"}, TRUE, {"COMPUTE"}, {"R", "W"})>>)

ToCopy   == Barrier({"COMPUTE"}, TRUE, {"TRANSFER"}, {"R"})
FromCopy == Barrier({"TRANSFER"}, TRUE, {"COMPUTE"}, {"R", "W"})

-----------------------------------------------------------------------------
(* runVctBench *)
GatherSampleCount == 8
GatherBytes(p) == 16 * p.width * p.height

VctBuffers(p) ==
  HostBuffer("staging") \o Buffer("scene") \o Buffer("gather") \o Buffer("stats")
  \o <<HostFill("staging", SceneBytes(p), Pass("scene", 0))>>

VctPipelines == ComputePipeline("inject") \o ComputePipeline("mip") \o ComputePipeline("trace")

VctDescriptors(mips) ==
  <<MakePool(1 + (mips - 1) + 1, 3, 1 + 2 * (mips - 1), 1, 1),
    AllocSet("inject", 1, 1, 0, 0), AllocSet("trace", 2, 0, 1, 1)>>
  \o UpTo(mips - 1, LAMBDA i : AllocSet("mip", 0, 2, 0, 0))
  \o <<Use({Buf("scene"), Buf("gather"), Buf("stats"), View("radiance"), Obj("sampler")}
           \cup {Level(i) : i \in 0 .. (mips - 1)})>>

(* A gather of the volume; with the counters on it also writes stats.      *)
TracePass(p, counters, stamps) ==
  Dispatch("trace", {Rd(Img("radiance"), 0, Mips(p.extent), "COMPUTE"),
                     Wr(Buf("gather"), 0, GatherBytes(p), "COMPUTE")}
                    \cup (IF counters THEN {Wr(Buf("stats"), 0, 4, "COMPUTE")} ELSE {}),
           Pass("coneGather", IF counters THEN 1 ELSE 0), stamps)

VctSequence(p, stamps) == VolumePasses(p, stamps) \o <<TracePass(p, FALSE, stamps)>>

VctPasses(p) ==
  <<Pass("inject", 0)>> \o UpTo(Mips(p.extent) - 1, LAMBDA i : Pass("mip", i))
  \o <<Pass("coneGather", 0)>>

VctInstrumented(p) ==
  <<ClearStats(4),
    [TracePass(p, TRUE, FALSE) EXCEPT !.bars = <<ToCopy>>],
    Copy(Buf("stats"), 0, 4, Buf("staging"), 8, 12)>>

VctReadback(p) ==
  IF ~p.readback THEN <<>>
  ELSE LET top == Mips(p.extent) - 1 IN
       <<Barriers(<<ToCopy>>),
         Copy(Img("radiance"), top, top + 1, Buf("staging"), 0, 4),
         Copy(Buf("gather"), 0, 16 * GatherSampleCount,
              Buf("staging"), 16, 16 + 16 * GatherSampleCount)>>

VctRead(p) ==
  <<Read({Window("staging", 8, 12, Pass("coneGather", 1))}
         \cup (IF p.readback
               THEN {Window("staging", 0, 4, TopMip(p)),
                     Window("staging", 16, 16 + 16 * GatherSampleCount, Pass("coneGather", 1))}
               ELSE {}))>>

VctScript(p, stamps) ==
  <<Gate("available"), Require(p.sceneSize = p.extent * p.extent * p.extent)>> \o Loaded
  \o VctBuffers(p) \o RadianceImage(Mips(p.extent)) \o VctPipelines
  \o VctDescriptors(Mips(p.extent))
  \o CommandPool("cmdPool", Compute) \o QueryPool(stamps)
  \o Recorded("cmdPool", "fence", Compute,
       Upload(p) \o Times(p.iterations + 1, VctSequence(p, stamps))
       \o VctInstrumented(p) \o VctReadback(p))
  \o VctRead(p)

VctOwned(p) ==
  (UNION {OwnedBuffer(n) : n \in {"staging", "scene", "gather", "stats"}})
  \cup (UNION {OwnedPipeline(n) : n \in {"inject", "mip", "trace"}})
  \cup OwnedRadiance(Mips(p.extent))
  \cup {Mapped("staging"), Obj("pool"), Obj("cmdPool"), Obj("queryPool"), Obj("fence")}

-----------------------------------------------------------------------------
(* runRcBench: the cascade geometry.  A level is added while the probe     *)
(* grid keeps two probes an axis and until the reach of the level before   *)
(* covers the diagonal; sqrt(3) is compared squared.                       *)
ReachEnd(p, i) == p.r0 * (p.scale ^ (i + 1) - 1)       \* times scale - 1
ProbesAxis(p, i) == p.extent \div (p.spacing * 2 ^ i)
Levels(p) ==
  {i \in 0 .. Log2(p.extent) :
     /\ ProbesAxis(p, i) >= 2
     /\ \A j \in 0 .. (i - 1) :
          ReachEnd(p, j) ^ 2 < 3 * (p.extent * (p.scale - 1)) ^ 2}
Cascades(p) == Cardinality(Levels(p))
DirCount(p, i) == (p.octa * 2 ^ i) ^ 2
Rays(p, i) == ProbesAxis(p, i) ^ 3 * DirCount(p, i)
Offset(p, i) == MapThenSumSet(LAMBDA j : Rays(p, j), 0 .. (i - 1))

(* Group counts, and entries that 32 bits can index (the sum is compared   *)
(* by its upper half).                                                     *)
GroupLimit == 65535
RcShape(p) ==
  \A i \in Levels(p) :
    /\ (ProbesAxis(p, i) ^ 3 + 63) \div 64 <= GroupLimit /\ DirCount(p, i) <= GroupLimit
    /\ (Offset(p, i) + Rays(p, i)) \div 2 ^ 16 < 2 ^ 16

RcGates(p) ==
  <<Require(p.sceneSize = p.extent * p.extent * p.extent), Require(PowerOfTwo(p.extent)),
    Require(PowerOfTwo(p.spacing) /\ p.spacing < p.extent), Require(p.octa >= 2),
    Require(p.scale >= 2 /\ p.r0 > 0), Require(p.iterations # 0)>>

ReadbackEntries == 512
PreOff == 4096
(* Mutant: the second window starts inside the first. *)
PostOffOverlapping == 8192
PostOff == 12288
SampleOff == 20480

RcBuffers(p) ==
  HostBuffer("staging") \o Buffer("scene") \o Buffer("cascades") \o Buffer("cubes")
  \o Buffer("sampleOut") \o Buffer("stats")
  \o <<HostFill("staging", SceneBytes(p), Pass("scene", 0))>>

RcPipes == {"inject", "mip", "march", "merge", "resolve", "sample"}
RcPipelines ==
  ComputePipeline("inject") \o ComputePipeline("mip") \o ComputePipeline("march")
  \o ComputePipeline("merge") \o ComputePipeline("resolve") \o ComputePipeline("sample")

RcDescriptors(mips) ==
  <<MakePool(1 + (mips - 1) + 4, 8, 1 + 2 * (mips - 1), 1, 1),
    AllocSet("inject", 1, 1, 0, 0), AllocSet("march", 2, 0, 1, 1), AllocSet("merge", 1, 0, 0, 0),
    AllocSet("resolve", 2, 0, 0, 0), AllocSet("sample", 2, 0, 0, 0)>>
  \o UpTo(mips - 1, LAMBDA i : AllocSet("mip", 0, 2, 0, 0))
  \o <<Use({Buf(n) : n \in {"scene", "cascades", "cubes", "sampleOut", "stats"}}
           \cup {View("radiance"), Obj("sampler")} \cup {Level(i) : i \in 0 .. (mips - 1)})>>

Entries(p, i, w) ==
  Access(Buf("cascades"), Offset(p, i), Offset(p, i + 1), "COMPUTE", w)

MarchPass(p, i, counters, stamps) ==
  Dispatch("march", {Rd(Img("radiance"), 0, Mips(p.extent), "COMPUTE"), Entries(p, i, TRUE)}
                    \cup (IF counters THEN {Wr(Buf("stats"), 4 * i, 4 * i + 4, "COMPUTE")} ELSE {}),
           Pass("march", i), stamps)
MergePass(p, i, stamps) ==
  Dispatch("merge", {Entries(p, i + 1, FALSE), Entries(p, i, TRUE)}, Pass("merge", i), stamps)
ResolvePass(p, stamps) ==
  Dispatch("resolve", {Entries(p, 0, FALSE), Wr(Buf("cubes"), 0, Full, "COMPUTE")},
           Pass("resolve", 0), stamps)
SamplePass(p, stamps) ==
  Dispatch("sample", {Rd(Buf("cubes"), 0, Full, "COMPUTE"),
                      Wr(Buf("sampleOut"), 0, 16 * p.width * p.height, "COMPUTE")},
           Pass("sample", 0), stamps)

Marches(p, counters, stamps) ==
  UpTo(Cascades(p), LAMBDA i : MarchPass(p, i - 1, counters, stamps))
(* Mutant: the merges go up. *)
MergesUpwards(p, stamps) ==
  UpTo(Cascades(p) - 1, LAMBDA i : MergePass(p, i - 1, stamps))
Merges(p, stamps) ==      \* from the last but one down to level 0
  UpTo(Cascades(p) - 1, LAMBDA i : MergePass(p, Cascades(p) - 1 - i, stamps))

RcSequence(p, stamps) ==
  VolumePasses(p, stamps) \o Marches(p, FALSE, stamps) \o Merges(p, stamps)
  \o <<ResolvePass(p, stamps), SamplePass(p, stamps)>>

RcPasses(p) ==
  <<Pass("inject", 0)>> \o UpTo(Mips(p.extent) - 1, LAMBDA i : Pass("mip", i))
  \o UpTo(Cascades(p), LAMBDA i : Pass("march", i - 1))
  \o UpTo(Cascades(p) - 1, LAMBDA i : Pass("merge", Cascades(p) - 1 - i))
  \o <<Pass("resolve", 0), Pass("sample", 0)>>

(* The window of cascade 0, copied out in entries of 16 bytes. *)
CopyWindow(off) ==
  Copy(Buf("cascades"), 0, ReadbackEntries, Buf("staging"), off, off + 16 * ReadbackEntries)

RcInstrumented(p) ==
  <<ClearStats(4 * Cascades(p))>> \o VolumePasses(p, FALSE) \o Marches(p, TRUE, FALSE)
  \o <<Barriers(<<ToCopy>>), CopyWindow(PreOff), Barriers(<<FromCopy>>)>>
  \o Merges(p, FALSE)
  \o <<Barriers(<<ToCopy>>), CopyWindow(PostOff), Barriers(<<FromCopy>>)>>
  \o <<ResolvePass(p, FALSE), SamplePass(p, FALSE), Barriers(<<ToCopy>>),
       Copy(Buf("stats"), 0, 4 * Cascades(p), Buf("staging"), 0, 4 * Cascades(p)),
       Copy(Buf("sampleOut"), 0, 16 * GatherSampleCount,
            Buf("staging"), SampleOff, SampleOff + 16 * GatherSampleCount)>>

(* The windows the host reads: a word of stats per level, the windows.     *)
RcRead(p) ==
  <<Read({Window("staging", 4 * i, 4 * i + 4, Pass("march", i)) : i \in Levels(p)}
         \cup (IF p.readback
               THEN {Window("staging", PreOff, PreOff + 16 * ReadbackEntries, Pass("march", 0)),
                     Window("staging", PostOff, PostOff + 16 * ReadbackEntries,
                            IF Cascades(p) = 1 THEN Pass("march", 0) ELSE Pass("merge", 0)),
                     Window("staging", SampleOff, SampleOff + 16 * GatherSampleCount,
                            Pass("sample", 0))}
               ELSE {}))>>

RcScript(p, stamps) ==
  <<Gate("available")>> \o RcGates(p) \o Loaded
  \o <<Require(Levels(p) # {}), Require(RcShape(p))>>
  \o RcBuffers(p) \o RadianceImage(Mips(p.extent)) \o RcPipelines
  \o RcDescriptors(Mips(p.extent))
  \o CommandPool("cmdPool", Compute) \o QueryPool(stamps)
  \o Recorded("cmdPool", "fence", Compute,
       Upload(p) \o Times(p.iterations + 1, RcSequence(p, stamps)) \o RcInstrumented(p))
  \o RcRead(p)

(* Mutant: a buffer added to the program and not to its Resources. *)
RcOwnedButCubes(p) ==
  (UNION {OwnedBuffer(n) : n \in {"staging", "scene", "cascades", "sampleOut", "stats"}})
  \cup (UNION {OwnedPipeline(n) : n \in RcPipes})
  \cup OwnedRadiance(Mips(p.extent))
  \cup {Mapped("staging"), Obj("pool"), Obj("cmdPool"), Obj("queryPool"), Obj("fence")}

RcOwned(p) ==
  (UNION {OwnedBuffer(n) : n \in {"staging", "scene", "cascades", "cubes", "sampleOut", "stats"}})
  \cup (UNION {OwnedPipeline(n) : n \in RcPipes})
  \cup OwnedRadiance(Mips(p.extent))
  \cup {Mapped("staging"), Obj("pool"), Obj("cmdPool"), Obj("queryPool"), Obj("fence")}
=============================================================================
