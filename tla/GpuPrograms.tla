---------------------------- MODULE GpuPrograms -----------------------------
(* The one-shot GPU programs of src/vk as scripts: runParityDispatch       *)
(* (compute.cpp), runMeshExec (meshexec.cpp), renderWorldView and the      *)
(* renderWorldViewInto it calls (worldview.cpp), runVctBench and runRcBench*)
(* (bench.cpp).  A script lists, in the order of the code, every call that *)
(* makes an object, can fail, or records a command, with what it uses and  *)
(* which memory it touches; OneShot runs them.                             *)
EXTENDS GpuSync

(* An object is a kind and a name; a mapping counts as an object.          *)
Buf(n)    == <<"buffer", n>>
Mem(n)    == <<"memory", n>>
Mapped(n) == <<"map", n>>
Img(n)    == <<"image", n>>
View(n)   == <<"view", n>>
Level(i)  == <<"level", i>>          \* a view of one mip level
Pipe(n)   == <<"pipeline", n>>
Layout(n) == <<"layout", n>>
Sets(n)   == <<"setLayout", n>>
Module(n) == <<"module", n>>
Obj(n)    == <<"object", n>>
Graphics  == <<"device", "graphicsQueue">>
Compute   == <<"device", "queue">>

NoPool  == [sets |-> 0, buffer |-> 0, image |-> 0, sampled |-> 0, sampler |-> 0]
Pass(n, i) == <<n, i>>               \* what a write leaves behind
NoPass  == Pass("none", 0)
Copied  == Pass("copy", 0)           \* whatever the step reads

(* One step.  op says how OneShot runs it:                                 *)
(*   "gate"   an early return unless `need` holds of the device report     *)
(*   "try"    a call that can fail; made is what it makes when it succeeds *)
(*   "do"     a call without a result, most often a recorded command       *)
(*   "submit", "wait", "read", "call" as their names say                   *)
Step == [op |-> "do", need |-> "", ok |-> TRUE, made |-> {}, gone |-> {},
         uses |-> {}, accs |-> {}, pre |-> <<>>, bars |-> <<>>, pass |-> NoPass,
         fresh |-> {}, stamps |-> <<>>, pool |-> NoPool, wins |-> {}, callee |-> ""]

Gate(need)     == [Step EXCEPT !.op = "gate", !.need = need]
Require(ok)    == [Step EXCEPT !.op = "gate", !.need = "parameters", !.ok = ok]
Try(uses)      == [Step EXCEPT !.op = "try", !.uses = uses]
Make(h, uses)  == [Step EXCEPT !.op = "try", !.made = {h}, !.uses = uses]
Use(uses)      == [Step EXCEPT !.uses = uses]
Command(uses, accs, pass, bars) ==
  [Step EXCEPT !.uses = uses \cup {a.h : a \in accs}, !.accs = accs,
               !.pass = pass, !.bars = bars]

(* vkCmdCopyBuffer and vkCmdCopyImageToBuffer. *)
Copy(from, flo, fhi, to, tlo, thi) ==
  Command({}, {Rd(from, flo, fhi, "TRANSFER"), Wr(to, tlo, thi, "TRANSFER")}, Copied, <<>>)

Barriers(bars) == [Step EXCEPT !.bars = bars]

(* The host writes mapped memory before the submission, which makes it     *)
(* visible to the device.                                                  *)
HostFill(n, hi, pass) ==
  [Step EXCEPT !.uses = {Mapped(n)}, !.accs = {Wr(Buf(n), 0, hi, "HOST")}, !.pass = pass]

(* The host reads windows of mapped memory, each said to hold what one     *)
(* pass wrote, and the program reports that it ran.                        *)
Window(n, lo, hi, pass) == [acc |-> Rd(Buf(n), lo, hi, "HOST"), pass |-> pass]
Read(wins) ==
  [Step EXCEPT !.op = "read", !.wins = wins, !.accs = {w.acc : w \in wins},
               !.uses = {Mapped(w.acc.h[2]) : w \in wins}]

(* makeBuffer and createBuffer: the buffer, a memory type and the memory,  *)
(* the bind; a host buffer is mapped as well.                              *)
Buffer(n)     == <<Make(Buf(n), {}), Make(Mem(n), {Buf(n)}), Try({Buf(n), Mem(n)})>>
HostBuffer(n) == Buffer(n) \o <<Make(Mapped(n), {Mem(n)})>>
Image(n)      == <<Make(Img(n), {}), Make(Mem(n), {Img(n)}), Try({Img(n), Mem(n)})>>
ViewOf(v, n)  == <<Make(v, {Img(n), Mem(n)})>>

OwnedBuffer(n) == {Buf(n), Mem(n)}
OwnedImage(n)  == {Img(n), Mem(n), View(n)}

(* makeComputePipeline: four objects, each needing the ones before it.     *)
ComputePipeline(n) ==
  <<Make(Module(n), {}), Make(Sets(n), {}), Make(Layout(n), {Sets(n)}),
    Make(Pipe(n), {Module(n), Layout(n)})>>
OwnedPipeline(n) == {Module(n), Sets(n), Layout(n), Pipe(n)}

(* The descriptor pool is filled once and drawn down by every set.         *)
MakePool(sets, b, i, t, s) ==
  [Make(Obj("pool"), {}) EXCEPT
     !.pool = [sets |-> sets, buffer |-> b, image |-> i, sampled |-> t, sampler |-> s]]
AllocSet(n, b, i, t, s) ==
  [Try({Obj("pool"), Sets(n)}) EXCEPT
     !.pool = [sets |-> -1, buffer |-> -b, image |-> -i, sampled |-> -t, sampler |-> -s]]

(* Command pool and buffer; begin, commands, end; fence, submit, wait.     *)
CommandPool(cp, queue) == <<Make(Obj(cp), {queue}), Try({Obj(cp)})>>
Recorded(cp, fence, queue, commands) ==
  <<Try({Obj(cp)})>> \o commands \o
  <<Try({Obj(cp)}), Make(Obj(fence), {}),
    [Try({queue, Obj(cp), Obj(fence)}) EXCEPT !.op = "submit"],
    [Try({Obj(fence)}) EXCEPT !.op = "wait"]>>

QueryPool(stamps) == IF stamps THEN <<Make(Obj("queryPool"), {})>> ELSE <<>>
Stamped(cmd, stamps) ==
  IF stamps
  THEN [cmd EXCEPT !.uses = @ \cup {Obj("queryPool")}, !.stamps = <<cmd.pass, cmd.pass>>]
  ELSE cmd

Loaded == <<Try({<<"device", "device">>})>>    \* fn.load and getMemProps

Full == 1   \* a resource whose parts are never told apart has one unit

-----------------------------------------------------------------------------
(* runParityDispatch *)
ParitySetup ==
  HostBuffer("buffer") \o <<HostFill("buffer", Full, Pass("input", 0))>>
  \o ComputePipeline("parity")
  \o <<MakePool(1, 1, 0, 0, 0), AllocSet("parity", 1, 0, 0, 0), Use({Buf("buffer")})>>

ParityCommands(stamps) ==
  CommandPool("cmdPool", Compute) \o QueryPool(stamps)
  \o Recorded("cmdPool", "fence", Compute,
       <<Stamped(Command({Pipe("parity"), Layout("parity")},
                         {Wr(Buf("buffer"), 0, Full, "COMPUTE")}, Pass("parity", 0),
                         <<Barrier({"COMPUTE"}, TRUE, {"HOST"}, {"R"})>>), stamps)>>)

ParityScript(stamps) ==
  <<Gate("available")>> \o Loaded \o ParitySetup \o ParityCommands(stamps)
  \o <<Read({Window("buffer", 0, Full, Pass("parity", 0))})>>

ParityOwned ==
  OwnedBuffer("buffer") \cup {Mapped("buffer")} \cup OwnedPipeline("parity")
  \cup {Obj("pool"), Obj("cmdPool"), Obj("queryPool"), Obj("fence")}

-----------------------------------------------------------------------------
(* runMeshExec.  The render pass has an external dependency on each side,  *)
(* so that neither the clear nor the copy races the drawing.               *)
MeshTarget == Image("color") \o ViewOf(View("color"), "color") \o HostBuffer("staging")

MeshPass ==
  <<Make(Obj("renderPass"), {}), Make(Obj("framebuffer"), {Obj("renderPass"), View("color")})>>

MeshPipeline ==
  <<Make(Module("mesh"), {}), Make(Layout("mesh"), {}),
    Make(Pipe("mesh"), {Module("mesh"), Layout("mesh"), Obj("renderPass")})>>

PassEnter == Barrier({"COLOR"}, FALSE, {"COLOR"}, {"W"})
PassLeave == Barrier({"COLOR"}, TRUE, {"TRANSFER"}, {"R"})

MeshCommands ==
  CommandPool("cmdPool", Graphics)
  \o Recorded("cmdPool", "fence", Graphics,
       <<[Command({Obj("framebuffer"), Pipe("mesh")},
                  {Wr(Img("color"), 0, Full, "COLOR")}, Pass("draw", 0), <<PassLeave>>)
            EXCEPT !.pre = <<PassEnter>>],
         Copy(Img("color"), 0, Full, Buf("staging"), 0, Full)>>)

MeshExecScript(p) ==
  <<Gate("available"), Gate("mesh"),
    Require(p.width # 0 /\ p.height # 0 /\ p.width % 2 = 0)>>
  \o Loaded \o MeshTarget \o MeshPass \o MeshPipeline \o MeshCommands
  \o <<Read({Window("staging", 0, Full, Pass("draw", 0))})>>

OwnedGraphics(n) == {Module(n), Layout(n), Pipe(n), Obj("renderPass"), Obj("framebuffer")}

MeshExecOwned ==
  OwnedImage("color") \cup OwnedBuffer("staging") \cup {Mapped("staging")}
  \cup OwnedGraphics("mesh") \cup {Obj("cmdPool"), Obj("fence")}

-----------------------------------------------------------------------------
(* renderWorldViewInto, into the view of the caller's image: geometry when *)
(* some chunk has any, mapped only while it is copied in; a depth target;  *)
(* one draw per chunk.                                                     *)
Unmap(n) == [Step EXCEPT !.uses = {Mapped(n)}, !.gone = {Mapped(n)}]

Geometry(p) ==
  IF ~p.geometry THEN <<>>
  ELSE <<Try({})>>                       \* at most 2^31 - 1 vertices
       \o HostBuffer("vertices") \o HostBuffer("indices")
       \o <<HostFill("vertices", Full, Pass("mesh", 0)), HostFill("indices", Full, Pass("mesh", 0)),
            Unmap("vertices"), Unmap("indices")>>

DepthTarget == Image("depth") \o ViewOf(View("depth"), "depth")

WorldPass ==
  <<Make(Obj("renderPass"), {}),
    Make(Obj("framebuffer"), {Obj("renderPass"), View("target"), View("depth")})>>

WorldPipeline ==
  <<Make(Module("world"), {}), Make(Layout("world"), {}),
    Make(Pipe("world"), {Module("world"), Layout("world"), Obj("renderPass")})>>

WorldPassEnter == Barrier({"COLOR", "DEPTH"}, FALSE, {"COLOR", "DEPTH"}, {"W"})

WorldCommands(p) ==
  CommandPool("cmdPool", Graphics)
  \o Recorded("cmdPool", "fence", Graphics,
       <<[Command({Obj("framebuffer"), View("target")}
                    \cup (IF p.geometry THEN {Pipe("world")} ELSE {}),
                  {Wr(Img("target"), 0, Full, "COLOR"), Wr(Img("depth"), 0, Full, "DEPTH")}
                    \cup (IF p.geometry THEN {Rd(Buf("vertices"), 0, Full, "VERTEX"),
                                              Rd(Buf("indices"), 0, Full, "VERTEX")} ELSE {}),
                  Pass("draw", 0), <<PassLeave>>)
            EXCEPT !.pre = <<WorldPassEnter>>]>>)

(* Mutant: only the device is gated, not its graphics tiers. *)
WorldIntoScriptUngated(p) ==
  <<Gate("available"), Require(p.width # 0 /\ p.height # 0)>>
  \o Loaded \o Geometry(p) \o DepthTarget \o WorldPass \o WorldPipeline \o WorldCommands(p)

WorldIntoScript(p) ==
  <<Gate("available"), Gate("graphics"), Require(p.width # 0 /\ p.height # 0)>>
  \o Loaded \o Geometry(p) \o DepthTarget \o WorldPass \o WorldPipeline \o WorldCommands(p)

WorldIntoOwned ==
  OwnedBuffer("vertices") \cup OwnedBuffer("indices") \cup OwnedImage("depth")
  \cup OwnedGraphics("world") \cup {Obj("cmdPool"), Obj("fence")}

(* renderWorldView: an offscreen target around it, then a second small     *)
(* submission that copies the image out.                                   *)
OffscreenTarget == Image("target") \o ViewOf(View("target"), "target")

Readback ==
  HostBuffer("staging")
  \o CommandPool("readPool", Graphics)
  \o Recorded("readPool", "readFence", Graphics,
       <<Copy(Img("target"), 0, Full, Buf("staging"), 0, Full)>>)
  \o <<Read({Window("staging", 0, Full, Pass("draw", 0))})>>

WorldViewScript(p) ==
  <<Gate("available")>> \o Loaded \o OffscreenTarget
  \o <<[Step EXCEPT !.op = "call", !.callee = "into"]>>
  \o Readback

WorldViewOwned ==
  OwnedImage("target") \cup OwnedBuffer("staging")
  \cup {Mapped("staging"), Obj("readPool"), Obj("readFence")}
=============================================================================
