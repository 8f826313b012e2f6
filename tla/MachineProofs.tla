--------------------------- MODULE MachineProofs ----------------------------
(***************************************************************************)
(* The code that something else may watch or change between two of its     *)
(* accesses, for every value of the constants.                             *)
(*                                                                         *)
(* Ring buffer: as the kernel uses it, one call at a time, it implements a *)
(* bounded FIFO queue and never touches a slot in the wrong state.         *)
(* Timer driver: it is right for every word size, tick length and range of *)
(* the clock.  Trap path: every task has a processor of its own, and the   *)
(* PMP grants it its own region and no more.                               *)
(***************************************************************************)
EXTENDS Channel, Clint, Switch, TLAPS

-----------------------------------------------------------------------------
(* Addresses *)

\* A frame's address identifies the task on whose stack it lies.
LEMMA AtFrameAddr ==
  ASSUME NEW t \in Task
  PROVE  At(FrameAddr(t)) = t
<1>1. \A u \in Task : FrameAddr(u) = FrameAddr(t) => u = t
  BY DEF FrameAddr
<1> QED
  BY <1>1 DEF At

\* Allocating and releasing a frame move between the top of a stack and its frame.
LEMMA Offsets ==
  ASSUME NEW t \in Task
  PROVE  Offset(StackTop(t), -1) = FrameAddr(t) /\ Offset(FrameAddr(t), 1) = StackTop(t)
BY DEF Offset, StackTop, FrameAddr

\* What block_and_restart takes from mepc is what trap_handler added.
LEMMA BackAndForth ==
  ASSUME NEW p \in 0 .. (Places - 1)
  PROVE  /\ (p + 1) % Places \in 0 .. (Places - 1)
         /\ (((p + 1) % Places) - 1) % Places = p
<1>1. Places \in Nat /\ Places > 0
  BY ContextAssumption
<1>2. CASE p + 1 < Places
  <2>1. (p + 1) % Places = p + 1 /\ p % Places = p
    BY <1>1, <1>2
  <2> QED
    BY <1>1, <2>1
<1>3. CASE p + 1 = Places
  <2>1. (p + 1) % Places = 0
    BY <1>1, <1>3
  <2>2. (0 - 1) % Places = Places - 1
    BY <1>1
  <2> QED
    BY <1>1, <1>3, <2>1, <2>2
<1> QED
  BY <1>1, <1>2, <1>3

-----------------------------------------------------------------------------
(* The inductive invariant *)

RegVal ==
  Value \cup {BootStackTop, Scratch} \cup {StackTop(t) : t \in Task} \cup {FrameAddr(t) : t \in Task}

Place == 0 .. (Places - 1)
Mode == {"U", "M"}
Frame == [gpr : [GPR -> RegVal], mepc : Place, mpp : Mode]

CpuType ==
  /\ at \in Stored \cup {"task", "swap", "alloc", "save", "save_sp", "save_csrs"}
  /\ regs \in [GPR -> RegVal] /\ mscratch \in RegVal
  /\ addr \in Place /\ mepc \in Place
  /\ mode \in Mode /\ mpp \in Mode
  /\ frame \in [Task -> Frame]
  /\ stackPtr = [t \in Task |-> FrameAddr(t)]
  /\ current \in Task

\* Where the current task's kernel stack and frame are known to the hart.
StackInv ==
  /\ at \in {"task", "swap", "load_csrs", "load", "load_sp", "mret"} => mscratch = StackTop(current)
  /\ at = "alloc" => regs["sp"] = StackTop(current)
  /\ at \in {"save", "save_sp", "save_csrs", "scratch", "load_csrs", "load", "load_sp"} =>
       regs["sp"] = FrameAddr(current)
  /\ at \in {"handler", "dispatch", "dispatch_other", "restore"} => regs["a0"] = FrameAddr(current)

\* What has been loaded from the frame so far.
ReloadInv ==
  /\ at \in {"load", "load_sp", "mret"} => mepc = frame[current].mepc /\ mpp = frame[current].mpp
  /\ at = "load_sp" => \A r \in GPR \ {"sp"} : regs[r] = frame[current].gpr[r]
  /\ at = "mret" => regs = frame[current].gpr

CpuInv == CpuType /\ StackInv /\ ReloadInv

\* Everything the stubs put into registers is a register value.
LEMMA RegVals ==
  /\ Value \subseteq RegVal /\ Scratch \in RegVal /\ BootStackTop \in RegVal
  /\ \A t \in Task : StackTop(t) \in RegVal /\ FrameAddr(t) \in RegVal
BY DEF RegVal

\* The invariant holds when start_first_task enters the exit stub.
LEMMA CpuInitInv == CpuInit => CpuInv
<1> SUFFICES ASSUME CpuInit PROVE CpuInv
  OBVIOUS
<1>1. PICK e \in Entries :
        frame = [t \in Task |-> [gpr |-> e[t].gpr, mepc |-> e[t].addr, mpp |-> e[t].mode]]
  BY DEF CpuInit
<1>2. e \in [Task -> [gpr : [GPR -> Value], addr : Place, mode : Mode]]
  BY ContextAssumption DEF Place, Mode
<1>3. \A t \in Task : e[t].gpr \in [GPR -> RegVal]
  BY <1>2, RegVals, Zenon
<1>4. frame \in [Task -> Frame]
  BY <1>1, <1>2, <1>3 DEF Frame
<1>5. current \in Task /\ stackPtr = [t \in Task |-> FrameAddr(t)] /\ at = "restore"
  BY DEF CpuInit
<1>6. regs = [[r \in GPR |-> Scratch] EXCEPT !["a0"] = FrameAddr(current)]
  BY <1>5 DEF CpuInit
<1>7. regs \in [GPR -> RegVal] /\ regs["a0"] = FrameAddr(current)
  BY <1>5, <1>6, RegVals DEF GPR
<1>8. mscratch \in RegVal /\ mode \in Mode /\ mpp \in Mode
  BY RegVals DEF CpuInit, Mode
<1>9. addr \in Place /\ mepc \in Place
  BY ContextAssumption DEF CpuInit, Place
<1>10. CpuType
  BY <1>4, <1>5, <1>7, <1>8, <1>9 DEF CpuType, Stored
<1>11. StackInv /\ ReloadInv
  BY <1>5, <1>7 DEF StackInv, ReloadInv
<1> QED
  BY <1>10, <1>11 DEF CpuInv

-----------------------------------------------------------------------------
(* Steps *)

\* The refinement mapping, case by case.
FrameCpu(t) == [gpr |-> frame[t].gpr, addr |-> frame[t].mepc, mode |-> frame[t].mpp]
StubCpu(g) == [gpr |-> g, addr |-> mepc, mode |-> mpp]

CpuCases ==
  /\ \A t \in Task : t # current \/ at \in Stored => CpuOf(t) = FrameCpu(t)
  /\ at = "task" => CpuOf(current) = [gpr |-> regs, addr |-> addr, mode |-> mode]
  /\ at = "swap" => CpuOf(current) = StubCpu(regs)
  /\ at \in {"alloc", "save"} => CpuOf(current) = StubCpu([regs EXCEPT !["sp"] = mscratch])
  /\ at = "save_sp" =>
       CpuOf(current) = StubCpu([frame[current].gpr EXCEPT !["sp"] = mscratch])
  /\ at = "save_csrs" => CpuOf(current) = StubCpu(frame[current].gpr)

\* The refinement mapping, case by case.
LEMMA MappingCases == CpuCases /\ CpuCases'
<1>1. CpuCases
  BY DEF CpuCases, CpuOf, GprOf, FrameCpu, StubCpu, Stored
<1>2. CpuCases'
  BY DEF CpuCases, CpuOf, GprOf, FrameCpu, StubCpu, Stored
<1> QED
  BY <1>1, <1>2

\* A step of the stubs on the current task's frame leaves the others' contexts alone.
LEMMA Others ==
  ASSUME current' = current, \A t \in Task : t # current => frame'[t] = frame[t]
  PROVE  \A t \in Task : t # current => CpuOf(t)' = CpuOf(t)
<1> SUFFICES ASSUME NEW t \in Task, t # current PROVE CpuOf(t)' = CpuOf(t)
  OBVIOUS
<1>1. CpuOf(t) = FrameCpu(t)
  BY MappingCases DEF CpuCases
<1>2. CpuOf(t)' = FrameCpu(t)'
  BY MappingCases DEF CpuCases
<1> QED
  BY <1>1, <1>2 DEF FrameCpu

\* While contexts are in frames, a step that writes no frame changes none of them.
LEMMA Parked ==
  ASSUME at \in Stored, at' \in Stored, frame' = frame
  PROVE  \A t \in Task : CpuOf(t)' = CpuOf(t)
<1> SUFFICES ASSUME NEW t \in Task PROVE CpuOf(t)' = CpuOf(t)
  OBVIOUS
<1>1. CpuOf(t) = FrameCpu(t)
  BY MappingCases DEF CpuCases
<1>2. CpuOf(t)' = FrameCpu(t)'
  BY MappingCases DEF CpuCases
<1> QED
  BY <1>1, <1>2 DEF FrameCpu

cpu == [t \in Task |-> CpuOf(t)]

\* A step keeps the invariant, and is one of the virtual processors' or none.
Simulates == CpuInv' /\ (Virtual!Next \/ UNCHANGED <<cpu, current>>)

\* An instruction of a task is one of its virtual processor.
LEMMA ComputeStep ==
  ASSUME CpuInv, Compute
  PROVE  Simulates
<1> USE DEF CpuInv
<1>1. at = "task" /\ at' = "task" /\ current \in Task /\ regs' \in Contents[current] /\ addr' \in Place
  BY DEF Compute, CpuType, Place
<1>2. regs' \in [GPR -> RegVal]
  BY <1>1, ContextAssumption, RegVals
<1>3. CpuType'
  BY <1>1, <1>2 DEF Compute, CpuType, Stored
<1>4. StackInv' /\ ReloadInv'
  BY <1>1 DEF Compute, StackInv, ReloadInv
<1>5. \A t \in Task : CpuOf(t)' = IF t = current THEN [gpr |-> regs', addr |-> addr', mode |-> mode]
                                                 ELSE CpuOf(t)
  BY <1>1 DEF Compute, CpuOf, GprOf, Stored
<1>6. cpu' = [cpu EXCEPT ![current] = [gpr |-> regs', addr |-> addr', mode |-> cpu[current].mode]]
  <2>1. cpu[current].mode = mode
    BY <1>1 DEF cpu, CpuOf, Stored
  <2> QED
    BY <1>1, <1>5, <2>1, Zenon DEF Compute, cpu
<1>7. Virtual!Compute
  BY <1>1, <1>6, Zenon DEF Virtual!Compute, cpu, Compute, Place
<1> QED
  BY <1>3, <1>4, <1>7 DEF Simulates, Virtual!Next

\* The hardware's trap moves pc and mode into mepc and mpp.
LEMMA TrapStep ==
  ASSUME CpuInv, NEW cause \in Causes, Trap(cause)
  PROVE  Simulates
<1> USE DEF CpuInv
<1>1. CpuType'
  BY DEF Trap, CpuType, Stored, Mode
<1>2. StackInv' /\ ReloadInv'
  BY DEF Trap, StackInv, ReloadInv
<1>3. \A t \in Task : CpuOf(t)' = CpuOf(t)
  BY DEF Trap, CpuOf, GprOf, Stored
<1> QED
  BY <1>1, <1>2, <1>3 DEF Simulates, cpu, Trap

\* Steps of the stub that change no virtual processor.
LEMMA StutterStep ==
  ASSUME CpuType', StackInv', ReloadInv', current' = current, \A t \in Task : CpuOf(t)' = CpuOf(t)
  PROVE  Simulates
BY DEF Simulates, cpu, CpuInv

\* The swap of sp and mscratch keeps both values.
LEMMA SwapSpStep == ASSUME CpuInv, SwapSp PROVE Simulates
<1> USE DEF CpuInv
<1>1. CpuType'
  BY DEF SwapSp, CpuType, Stored, GPR
<1>2. StackInv' /\ ReloadInv'
  BY DEF SwapSp, StackInv, ReloadInv, CpuType, GPR
<1>3. \A t \in Task : CpuOf(t)' = CpuOf(t)
  BY DEF SwapSp, CpuOf, GprOf, Stored, CpuType, GPR
<1> QED
  BY <1>1, <1>2, <1>3, StutterStep DEF SwapSp

\* The frame is below the top of the task's kernel stack.
LEMMA AllocFrameStep == ASSUME CpuInv, AllocFrame PROVE Simulates
<1> USE DEF CpuInv
<1>1. regs' = [regs EXCEPT !["sp"] = FrameAddr(current)] /\ current \in Task
  BY Offsets, Zenon DEF AllocFrame, StackInv, CpuType
<1>2. CpuType'
  BY <1>1, RegVals DEF AllocFrame, CpuType, Stored, GPR
<1>3. StackInv' /\ ReloadInv'
  BY <1>1 DEF AllocFrame, StackInv, ReloadInv, CpuType, GPR
<1>4. \A t \in Task : CpuOf(t)' = CpuOf(t)
  BY <1>1 DEF AllocFrame, CpuOf, GprOf, Stored, CpuType, GPR
<1> QED
  BY <1>2, <1>3, <1>4, StutterStep DEF AllocFrame

\* The stores keep every register but sp, which is in mscratch.
LEMMA SaveGprsStep == ASSUME CpuInv, SaveGprs PROVE Simulates
<1> USE DEF CpuInv
<1>1. current \in Task /\ At(regs["sp"]) = current
  BY AtFrameAddr DEF SaveGprs, StackInv, CpuType
<1>2. frame' = [frame EXCEPT ![current].gpr = [r \in GPR |-> IF r = "sp" THEN @["sp"] ELSE regs[r]]]
  BY <1>1 DEF SaveGprs
<1>3. frame' \in [Task -> Frame]
  BY <1>1, <1>2 DEF CpuType, Frame, GPR
<1>4. CpuType'
  BY <1>3 DEF SaveGprs, CpuType, Stored
<1>5. StackInv' /\ ReloadInv'
  BY DEF SaveGprs, StackInv, ReloadInv
<1>6. \A t \in Task : t # current => frame'[t] = frame[t]
  BY <1>1, <1>2 DEF CpuType
<1>7. [frame'[current].gpr EXCEPT !["sp"] = mscratch] = [regs EXCEPT !["sp"] = mscratch]
  BY <1>1, <1>2, Zenon DEF CpuType, Frame, GPR
<1>8. \A t \in Task : CpuOf(t)' = CpuOf(t)
  <2>1. CpuOf(current) = StubCpu([regs EXCEPT !["sp"] = mscratch])
    BY MappingCases DEF CpuCases, SaveGprs
  <2>2. CpuOf(current)' = StubCpu([frame[current].gpr EXCEPT !["sp"] = mscratch])'
    BY MappingCases DEF CpuCases, SaveGprs, CpuType, Stored
  <2>3. CpuOf(current)' = CpuOf(current)
    BY <1>7, <2>1, <2>2, Zenon DEF SaveGprs, StubCpu, FrameCpu
  <2> QED
    BY <1>6, <2>3, Others DEF SaveGprs
<1> QED
  BY <1>4, <1>5, <1>8, StutterStep DEF SaveGprs

\* The interrupted sp is stored from mscratch.
LEMMA SaveSpStep == ASSUME CpuInv, SaveSp PROVE Simulates
<1> USE DEF CpuInv
<1>1. current \in Task /\ At(regs["sp"]) = current
  BY AtFrameAddr DEF SaveSp, StackInv, CpuType
<1>2. frame' = [frame EXCEPT ![current].gpr["sp"] = mscratch]
  BY <1>1 DEF SaveSp
<1>3. frame' \in [Task -> Frame]
  BY <1>1, <1>2 DEF CpuType, Frame, GPR
<1>4. CpuType'
  BY <1>3 DEF SaveSp, CpuType, Stored, GPR
<1>5. StackInv' /\ ReloadInv'
  BY DEF SaveSp, StackInv, ReloadInv, CpuType, GPR
<1>6. \A t \in Task : t # current => frame'[t] = frame[t]
  BY <1>1, <1>2 DEF CpuType
<1>7. frame'[current].gpr = [frame[current].gpr EXCEPT !["sp"] = mscratch]
  BY <1>1, <1>2 DEF CpuType, Frame
<1>8. \A t \in Task : CpuOf(t)' = CpuOf(t)
  <2>1. CpuOf(current) = StubCpu([frame[current].gpr EXCEPT !["sp"] = mscratch])
    BY MappingCases DEF CpuCases, SaveSp
  <2>2. CpuOf(current)' = StubCpu(frame[current].gpr)'
    BY MappingCases DEF CpuCases, SaveSp, CpuType, Stored
  <2>3. CpuOf(current)' = CpuOf(current)
    BY <1>7, <2>1, <2>2 DEF SaveSp, StubCpu, FrameCpu
  <2> QED
    BY <1>6, <2>3, Others DEF SaveSp
<1> QED
  BY <1>4, <1>5, <1>8, StutterStep DEF SaveSp

\* With mepc and mpp the context is complete.
LEMMA SaveCsrsStep == ASSUME CpuInv, SaveCsrs PROVE Simulates
<1> USE DEF CpuInv
<1>1. current \in Task /\ At(regs["sp"]) = current
  BY AtFrameAddr DEF SaveCsrs, StackInv, CpuType
<1>2. frame' = [frame EXCEPT ![current].mepc = mepc, ![current].mpp = mpp]
  BY <1>1 DEF SaveCsrs
<1>3. frame' \in [Task -> Frame]
  BY <1>1, <1>2, Zenon DEF CpuType, Frame
<1>4. regs' \in [GPR -> RegVal] /\ regs'["a0"] = FrameAddr(current)
  BY RegVals DEF SaveCsrs, CpuType, StackInv, GPR
<1>5. CpuType'
  BY <1>3, <1>4 DEF SaveCsrs, CpuType, Stored
<1>6. StackInv' /\ ReloadInv'
  BY <1>4 DEF SaveCsrs, StackInv, ReloadInv
<1>7. \A t \in Task : t # current => frame'[t] = frame[t]
  BY <1>1, <1>2 DEF CpuType
<1>8. frame'[current] = [gpr |-> frame[current].gpr, mepc |-> mepc, mpp |-> mpp]
  BY <1>1, <1>2, Zenon DEF CpuType, Frame
<1>9. \A t \in Task : CpuOf(t)' = CpuOf(t)
  <2>1. CpuOf(current) = StubCpu(frame[current].gpr)
    BY MappingCases DEF CpuCases, SaveCsrs
  <2>2. CpuOf(current)' = FrameCpu(current)'
    BY MappingCases DEF CpuCases, SaveCsrs, CpuType, Stored
  <2>3. CpuOf(current)' = CpuOf(current)
    BY <1>8, <2>1, <2>2 DEF SaveCsrs, StubCpu, FrameCpu
  <2> QED
    BY <1>7, <2>3, Others, Zenon DEF SaveCsrs
<1> QED
  BY <1>5, <1>6, <1>9, StutterStep DEF SaveCsrs

\* A timer or unhandled interrupt and a fault change no frame.
LEMMA HandlerStep ==
  ASSUME CpuInv, TimerInterrupt \/ UnhandledInterrupt \/ FaultAndHalt
  PROVE  Simulates
<1> USE DEF CpuInv
<1>1. /\ at = "handler" /\ at' \in {"restore", "dispatch", "halted"}
      /\ UNCHANGED <<regs, addr, mode, mscratch, mepc, mcause, mpp, frame, stackPtr, current>>
  BY DEF TimerInterrupt, UnhandledInterrupt, FaultAndHalt, HandlerGoesTo
<1>2. at \in Stored /\ at' \in Stored
  BY <1>1 DEF Stored
<1>3. CpuType'
  BY <1>1, <1>2 DEF CpuType
<1>4. StackInv' /\ ReloadInv'
  BY <1>1 DEF StackInv, ReloadInv
<1> QED
  BY <1>1, <1>2, <1>3, <1>4, Parked, StutterStep

\* A blocking call leaves the caller at its ecall.
LEMMA EcallBlocksStep == ASSUME CpuInv, EcallBlocks PROVE Simulates
<1> USE DEF CpuInv
<1>1. /\ at = "handler" /\ at' = "dispatch_other" /\ current \in Task
      /\ UNCHANGED <<regs, addr, mode, mscratch, mepc, mcause, mpp, stackPtr, current>>
  BY DEF EcallBlocks, HandlerGoesTo, CpuType
<1>2. Caller = current
  BY <1>1, AtFrameAddr DEF Caller, StackInv
<1>3. frame[current].mepc \in 0 .. (Places - 1)
  BY <1>1 DEF CpuType, Frame, Place
<1>4. frame' = [frame EXCEPT ![current].mepc = frame[current].mepc]
  BY <1>2, <1>3, BackAndForth, Zenon DEF EcallBlocks
<1>5. frame' = frame
  BY <1>1, <1>4 DEF CpuType, Frame
<1>6. at \in Stored /\ at' \in Stored
  BY <1>1 DEF Stored
<1>7. CpuType'
  BY <1>1, <1>5, <1>6 DEF CpuType
<1>8. StackInv' /\ ReloadInv'
  BY <1>1 DEF StackInv, ReloadInv
<1> QED
  BY <1>1, <1>5, <1>6, <1>7, <1>8, Parked, StutterStep

\* A completed call sets the results and goes on after the ecall.
LEMMA EcallReturnsStep == ASSUME CpuInv, EcallReturns PROVE Simulates
<1> USE DEF CpuInv
<1>1. /\ at = "handler" /\ at' \in {"restore", "dispatch"} /\ current \in Task
      /\ UNCHANGED <<regs, addr, mode, mscratch, mepc, mcause, mpp, stackPtr, current>>
  BY DEF EcallReturns, HandlerGoesTo, CpuType
<1>2. Caller = current
  BY <1>1, AtFrameAddr DEF Caller, StackInv
<1>3. PICK v \in Result :
        frame' = [frame EXCEPT ![current].gpr["a0"] = v, ![current].mepc = (@ + 1) % Places]
  BY <1>2, Zenon DEF EcallReturns
<1>4. frame[current] \in Frame /\ v \in RegVal
  BY <1>1, ContextAssumption, RegVals DEF CpuType
<1> DEFINE m == (frame[current].mepc + 1) % Places
<1>5. m \in Place
  BY <1>4, BackAndForth DEF Frame, Place
<1>6. frame' = [frame EXCEPT ![current] =
                  [gpr |-> [frame[current].gpr EXCEPT !["a0"] = v], mepc |-> m,
                   mpp |-> frame[current].mpp]]
  <2>1. frame' = [frame EXCEPT ![current].gpr["a0"] = v, ![current].mepc = m]
    BY <1>3
  <2> HIDE DEF m
  <2> DEFINE g == [frame[current].gpr EXCEPT !["a0"] = v]
  <2>2. frame' = [frame EXCEPT ![current].gpr = g, ![current].mepc = m]
    BY <2>1
  <2> HIDE DEF g
  <2> DEFINE h == [frame EXCEPT ![current].gpr = g]
  <2>3. frame' = [h EXCEPT ![current] = [h[current] EXCEPT !.mepc = m]]
    BY <2>2
  <2>4. frame = [u \in Task |-> frame[u]]
    BY DEF CpuType
  <2>5. h = [u \in Task |-> IF u = current THEN [frame[u] EXCEPT !.gpr = g] ELSE frame[u]]
    BY <1>1, <2>4
  <2>6. [frame[current] EXCEPT !.gpr = g] =
          [gpr |-> g, mepc |-> frame[current].mepc, mpp |-> frame[current].mpp]
    BY <1>4 DEF Frame
  <2> HIDE DEF h
  <2>7. [h[current] EXCEPT !.mepc = m] = [gpr |-> g, mepc |-> m, mpp |-> frame[current].mpp]
    <3>1. h[current] = [frame[current] EXCEPT !.gpr = g]
      BY <1>1, <2>5, Zenon
    <3>2. h[current] = [gpr |-> g, mepc |-> frame[current].mepc, mpp |-> frame[current].mpp]
      BY <3>1, <2>6, Zenon
    <3> QED
      BY <3>2
  <2> DEFINE f == [gpr |-> g, mepc |-> m, mpp |-> frame[current].mpp]
  <2>8. frame' = [h EXCEPT ![current] = f]
    BY <2>3, <2>7, Zenon
  <2> HIDE DEF f
  <2>9. frame' = [frame EXCEPT ![current] = f]
    BY <1>1, <2>4, <2>5, <2>8, Zenon
  <2> QED
    BY <2>9 DEF f, g
<1> HIDE DEF m
<1>7. frame' \in [Task -> Frame]
  BY <1>1, <1>4, <1>5, <1>6 DEF CpuType, Frame, GPR
<1>8. at \in Stored /\ at' \in Stored
  BY <1>1 DEF Stored
<1>9. CpuType'
  BY <1>1, <1>7, <1>8 DEF CpuType
<1>10. StackInv' /\ ReloadInv'
  BY <1>1 DEF StackInv, ReloadInv
<1>11. \A t \in Task : t # current => CpuOf(t)' = CpuOf(t)
  BY <1>1, <1>6, Others DEF CpuType
<1>12. CpuOf(current) = FrameCpu(current) /\ CpuOf(current)' = FrameCpu(current)'
  BY <1>1, <1>8, MappingCases DEF CpuCases
<1>13. frame'[current] = [gpr |-> [frame[current].gpr EXCEPT !["a0"] = v], mepc |-> m,
                          mpp |-> frame[current].mpp]
  BY <1>1, <1>6 DEF CpuType
<1>14. cpu[current] = FrameCpu(current)
  BY <1>1, <1>12 DEF cpu
<1>15. CpuOf(current)' = [gpr |-> [cpu[current].gpr EXCEPT !["a0"] = v],
                          addr |-> (cpu[current].addr + 1) % Places, mode |-> cpu[current].mode]
  BY <1>1, <1>12, <1>13, <1>14 DEF FrameCpu, m
<1>16. cpu' = [cpu EXCEPT ![current] = [gpr |-> [cpu[current].gpr EXCEPT !["a0"] = v],
                                        addr |-> (cpu[current].addr + 1) % Places,
                                        mode |-> cpu[current].mode]]
  BY <1>1, <1>11, <1>15, Zenon DEF cpu
<1>17. Virtual!Return
  BY <1>1, <1>16, Zenon DEF Virtual!Return, cpu
<1> QED
  BY <1>9, <1>10, <1>17 DEF Simulates, Virtual!Next

\* Dispatching saves the frame's address and changes tasks, nothing else.
LEMMA SwitchToStep == ASSUME CpuInv, NEW t \in Task, SwitchTo(t) PROVE Simulates
<1> USE DEF CpuInv
<1>1. /\ at \in {"dispatch", "dispatch_other"} /\ at' = "restore" /\ current' = t
      /\ current \in Task
      /\ UNCHANGED <<addr, mode, mscratch, mepc, mcause, mpp, frame>>
  BY DEF SwitchTo, CpuType
<1>2. stackPtr' = stackPtr
  BY <1>1 DEF SwitchTo, StackInv, CpuType
<1>3. regs' \in [GPR -> RegVal] /\ regs'["a0"] = FrameAddr(t)
  BY <1>2, RegVals DEF SwitchTo, CpuType, GPR
<1>4. at \in Stored /\ at' \in Stored
  BY <1>1 DEF Stored
<1>5. CpuType'
  BY <1>1, <1>2, <1>3, <1>4 DEF CpuType
<1>6. StackInv' /\ ReloadInv'
  BY <1>1, <1>3 DEF StackInv, ReloadInv
<1>7. \A u \in Task : CpuOf(u)' = CpuOf(u)
  BY <1>1, <1>4, Parked
<1>8. cpu' = cpu
  BY <1>7 DEF cpu
<1>9. Virtual!Dispatch
  BY <1>1, <1>8 DEF Virtual!Dispatch, cpu
<1> QED
  BY <1>5, <1>6, <1>9 DEF Simulates, Virtual!Next

\* The exit stub starts at the frame the handler returned.
LEMMA RestoreSpStep == ASSUME CpuInv, RestoreSp PROVE Simulates
<1> USE DEF CpuInv
<1>1. at \in Stored /\ at' \in Stored
  BY DEF RestoreSp, Stored
<1>2. CpuType'
  BY <1>1 DEF RestoreSp, CpuType, GPR
<1>3. StackInv' /\ ReloadInv'
  BY DEF RestoreSp, StackInv, ReloadInv, CpuType, GPR
<1> QED
  BY <1>1, <1>2, <1>3, Parked, StutterStep DEF RestoreSp

\* The stack parked in mscratch is the resumed task's.
LEMMA ParkKernelStackStep == ASSUME CpuInv, ParkKernelStack PROVE Simulates
<1> USE DEF CpuInv
<1>1. at \in Stored /\ at' \in Stored
  BY DEF ParkKernelStack, Stored
<1>2. current \in Task /\ regs' = [regs EXCEPT !["t0"] = StackTop(current)]
  BY Offsets, Zenon DEF ParkKernelStack, StackInv, CpuType
<1>3. mscratch' = StackTop(current)
  BY <1>2 DEF ParkKernelStack, CpuType, GPR
<1>4. CpuType'
  BY <1>1, <1>2, <1>3, RegVals DEF ParkKernelStack, CpuType, GPR
<1>5. StackInv' /\ ReloadInv'
  BY <1>2, <1>3 DEF ParkKernelStack, StackInv, ReloadInv, CpuType, GPR
<1> QED
  BY <1>1, <1>4, <1>5, Parked, StutterStep DEF ParkKernelStack

\* mepc and mpp are loaded from the frame.
LEMMA LoadCsrsStep == ASSUME CpuInv, LoadCsrs PROVE Simulates
<1> USE DEF CpuInv
<1>1. at \in Stored /\ at' \in Stored
  BY DEF LoadCsrs, Stored
<1>2. current \in Task /\ At(regs["sp"]) = current
  BY AtFrameAddr DEF LoadCsrs, StackInv, CpuType
<1>3. mepc' = frame[current].mepc /\ mpp' = frame[current].mpp
  BY <1>2 DEF LoadCsrs
<1>4. mepc' \in Place /\ mpp' \in Mode
  BY <1>2, <1>3 DEF CpuType, Frame
<1>5. CpuType'
  BY <1>1, <1>4, RegVals DEF LoadCsrs, CpuType, GPR
<1>6. StackInv' /\ ReloadInv'
  BY <1>3 DEF LoadCsrs, StackInv, ReloadInv, CpuType, GPR
<1> QED
  BY <1>1, <1>5, <1>6, Parked, StutterStep DEF LoadCsrs

\* All registers but sp are loaded from the frame.
LEMMA LoadGprsStep == ASSUME CpuInv, LoadGprs PROVE Simulates
<1> USE DEF CpuInv
<1>1. at \in Stored /\ at' \in Stored
  BY DEF LoadGprs, Stored
<1>2. current \in Task /\ At(regs["sp"]) = current
  BY AtFrameAddr DEF LoadGprs, StackInv, CpuType
<1>3. frame[current].gpr \in [GPR -> RegVal]
  BY <1>2 DEF CpuType, Frame
<1>4. regs' = [r \in GPR |-> IF r = "sp" THEN regs["sp"] ELSE frame[current].gpr[r]]
  BY <1>2 DEF LoadGprs
<1>5. regs' \in [GPR -> RegVal]
  BY <1>3, <1>4 DEF CpuType, GPR
<1>6. CpuType'
  BY <1>1, <1>5 DEF LoadGprs, CpuType
<1>7. StackInv'
  BY <1>4 DEF LoadGprs, StackInv, GPR
<1>8. ReloadInv'
  BY <1>4 DEF LoadGprs, ReloadInv, GPR
<1> QED
  BY <1>1, <1>6, <1>7, <1>8, Parked, StutterStep DEF LoadGprs

\* sp is loaded last, from the frame it addresses.
LEMMA LoadSpStep == ASSUME CpuInv, LoadSp PROVE Simulates
<1> USE DEF CpuInv
<1>1. at \in Stored /\ at' \in Stored
  BY DEF LoadSp, Stored
<1>2. current \in Task /\ At(regs["sp"]) = current
  BY AtFrameAddr DEF LoadSp, StackInv, CpuType
<1>3. frame[current].gpr \in [GPR -> RegVal]
  BY <1>2 DEF CpuType, Frame
<1>4. regs' = [regs EXCEPT !["sp"] = frame[current].gpr["sp"]]
  BY <1>2 DEF LoadSp
<1>5. \A r \in GPR : regs'[r] = frame[current].gpr[r]
  BY <1>4 DEF LoadSp, ReloadInv, CpuType, GPR
<1>6. regs' = frame[current].gpr
  BY <1>3, <1>4, <1>5, Zenon DEF CpuType
<1>7. CpuType'
  BY <1>1, <1>3, <1>6, Zenon DEF LoadSp, CpuType
<1>8. StackInv'
  BY DEF LoadSp, StackInv
<1>9. ReloadInv'
  BY <1>6, Zenon DEF LoadSp, ReloadInv
<1> QED
  BY <1>1, <1>7, <1>8, <1>9, Parked, StutterStep DEF LoadSp

\* mret resumes the context that was saved.
LEMMA MretStep == ASSUME CpuInv, Mret PROVE Simulates
<1> USE DEF CpuInv
<1>1. CpuType'
  BY DEF Mret, CpuType
<1>2. StackInv' /\ ReloadInv'
  BY DEF Mret, StackInv, ReloadInv
<1>3. CpuOf(current) = FrameCpu(current)
  BY MappingCases, SMTT(20), ZenonT(20) DEF Mret, CpuCases, CpuType, Stored
<1>4. CpuOf(current)' = [gpr |-> regs, addr |-> mepc, mode |-> mpp]
  BY MappingCases DEF Mret, CpuCases
<1>5. CpuOf(current)' = CpuOf(current)
  BY <1>3, <1>4 DEF Mret, ReloadInv, FrameCpu
<1>6. \A t \in Task : CpuOf(t)' = CpuOf(t)
  BY <1>5, Others DEF Mret
<1> QED
  BY <1>1, <1>2, <1>6, StutterStep DEF Mret

-----------------------------------------------------------------------------
(* The theorems *)

\* A step of the machine is a step of the trap path: a CSR write of
\* activate_task_region leaves it alone.
LEMMA SwitchRefinesCpu == [SwitchNext]_switchVars => [CpuNext]_cpuVars
<1> SUFFICES ASSUME [SwitchNext]_switchVars PROVE [CpuNext]_cpuVars
  OBVIOUS
<1>1. CASE Activate
  <2>1. current' = current
    BY <1>1 DEF Activate, Pmp!ActivateTaskRegion, Pmp!WriteCsr
  <2> QED
    BY <1>1, <2>1 DEF Activate, cpuVars
<1>2. CASE UNCHANGED switchVars
  BY <1>2 DEF switchVars
<1>3. CASE SwitchNext /\ ~Activate
  BY <1>3 DEF SwitchNext, CpuNext, Dispatch, TrapPath
<1> QED
  BY <1>1, <1>2, <1>3

\* Every step of the trap path is one of the virtual processors or none.
LEMMA CpuStep == CpuInv /\ [CpuNext]_cpuVars => Simulates
<1> SUFFICES ASSUME CpuInv, [CpuNext]_cpuVars PROVE Simulates
  OBVIOUS
<1>1. CASE UNCHANGED cpuVars
  <2>1. CpuType' /\ StackInv' /\ ReloadInv'
    BY <1>1 DEF CpuInv, CpuType, StackInv, ReloadInv, cpuVars
  <2>2. \A t \in Task : CpuOf(t)' = CpuOf(t)
    BY <1>1 DEF CpuOf, GprOf, cpuVars
  <2> QED
    BY <1>1, <2>1, <2>2, StutterStep DEF cpuVars
<1>2. CASE CpuNext
  BY <1>1, <1>2, ComputeStep, TrapStep, SwapSpStep, AllocFrameStep, SaveGprsStep, SaveSpStep,
     SaveCsrsStep, HandlerStep, EcallBlocksStep, EcallReturnsStep, SwitchToStep, RestoreSpStep,
     ParkKernelStackStep, LoadCsrsStep, LoadGprsStep, LoadSpStep, MretStep
     DEF CpuNext, EntryStub, Handler, ExitStub, Halted
<1> QED
  BY <1>1, <1>2

\* The invariant of the trap path: which stack and frame the stubs work on.
THEOREM CpuInvariance == SwitchSpec => []CpuInv
<1>1. SwitchInit => CpuInv
  BY CpuInitInv DEF SwitchInit
<1>2. CpuInv /\ [SwitchNext]_switchVars => CpuInv'
  BY SwitchRefinesCpu, CpuStep DEF Simulates
<1> QED
  BY <1>1, <1>2, PTL DEF SwitchSpec

\* Whenever a task executes, the kernel stack that its next trap will use is
\* its own and empty, and every suspended task's frame lies on its own.
THEOREM KernelStackReadyAlways == SwitchSpec => []KernelStackReady
<1>1. CpuInv => KernelStackReady
  BY DEF CpuInv, CpuType, StackInv, KernelStackReady
<1> QED
  BY CpuInvariance, <1>1, PTL

\* The trap path with PMP switching implements one processor per task: no trap,
\* switch, blocking or restarted call changes what another task computes with.
THEOREM TrapsAreTransparentAlways == SwitchSpec => TrapsAreTransparent
<1>1. SwitchInit => Virtual!Init
  <2> SUFFICES ASSUME SwitchInit PROVE Virtual!Init
    OBVIOUS
  <2>1. PICK e \in Entries :
          frame = [t \in Task |-> [gpr |-> e[t].gpr, mepc |-> e[t].addr, mpp |-> e[t].mode]]
    BY SMTT(20), ZenonT(20) DEF SwitchInit, CpuInit
  <2>2. e \in [Task -> [gpr : [GPR -> Value], addr : Place, mode : Mode]]
    BY ContextAssumption DEF Place, Mode
  <2>3. \A t \in Task : CpuOf(t) = FrameCpu(t)
    BY MappingCases DEF SwitchInit, CpuInit, CpuCases, Stored
  <2>4. \A t \in Task : CpuOf(t) = e[t]
    BY <2>1, <2>2, <2>3, Zenon DEF FrameCpu
  <2>5. [t \in Task |-> CpuOf(t)] = e
    BY <2>2, <2>4
  <2> QED
    BY <2>5 DEF Virtual!Init, SwitchInit, CpuInit
<1>2. CpuInv /\ [SwitchNext]_switchVars => [Virtual!Next]_(Virtual!vars)
  <2>1. CpuInv /\ [SwitchNext]_switchVars => Virtual!Next \/ UNCHANGED <<cpu, current>>
    BY SwitchRefinesCpu, CpuStep, SMTT(20), ZenonT(20) DEF Simulates
  <2> QED
    BY <2>1 DEF Virtual!vars, cpu
<1> QED
  BY <1>1, <1>2, CpuInvariance, PTL DEF SwitchSpec, TrapsAreTransparent, Virtual!Spec

-----------------------------------------------------------------------------
(* The PMP *)

Entry(a, b, c, d) == [addr_lo |-> a, addr_hi |-> b, cfg_lo |-> c, cfg_hi |-> d]
IsEntry(e) == e = Entry(e.addr_lo, e.addr_hi, e.cfg_lo, e.cfg_hi)

\* A task's PMP entries are given by their four registers.
LEMMA EntriesOfTask == ASSUME NEW l PROVE IsEntry(Pmp!TaskEntries(l))
BY DEF IsEntry, Entry, Pmp!TaskEntries, Pmp!EncodeRegion

\* activate_task_region writes the CSRs one by one, with the grant off, before
\* the stub goes on.
PmpInv ==
  /\ csr \in {"disable", "addr_lo", "addr_hi", "cfg_lo", "cfg_hi", "done"}
  /\ csr # "done" => at = "restore"
  /\ IsEntry(pmp)
  /\ csr \in {"addr_lo", "addr_hi", "cfg_lo", "cfg_hi"} => pmp.cfg_hi = "off"
  /\ csr \in {"addr_hi", "cfg_lo", "cfg_hi"} => pmp.addr_lo = Pmp!NewEntries.addr_lo
  /\ csr \in {"cfg_lo", "cfg_hi"} => pmp.addr_hi = Pmp!NewEntries.addr_hi
  /\ csr = "cfg_hi" => pmp.cfg_lo = Pmp!NewEntries.cfg_lo
  /\ csr = "done" => pmp = Pmp!NewEntries
  /\ csr = "disable" => pmp.cfg_hi = "off" \/ \E t \in Task : pmp = Pmp!TaskEntries(layout[t])

\* The privilege mode a task runs in is that of its descriptor.
ModeInv == \A t \in Task : (CpuOf(t).mode = "U") <=> layout[t].user

\* At boot no region is granted and every frame has its task's mode.
LEMMA PmpInitInv == SwitchInit => PmpInv /\ ModeInv
<1> SUFFICES ASSUME SwitchInit PROVE PmpInv /\ ModeInv
  OBVIOUS
<1>1. PmpInv
  BY SMTT(20), ZenonT(20) DEF SwitchInit, CpuInit, Pmp!MemoryInit, PmpInv, IsEntry, Entry
<1>2. \A t \in Task : CpuOf(t) = FrameCpu(t)
  BY MappingCases DEF SwitchInit, CpuInit, CpuCases, Stored
<1>3. ASSUME NEW t \in Task PROVE CpuOf(t).mode = frame[t].mpp
  <2>1. CpuOf(t) = FrameCpu(t)
    BY <1>2
  <2> QED
    BY <2>1 DEF FrameCpu
<1>4. ModeInv
  BY <1>3, Zenon DEF SwitchInit, ModeInv
<1> QED
  BY <1>1, <1>4

\* Each CSR write of activate_task_region keeps the invariant.
LEMMA ActivateInv ==
  ASSUME PmpInv, Activate
  PROVE  PmpInv'
<1> DEFINE new == Pmp!NewEntries
<1>1. new' = new /\ IsEntry(new) /\ at' = at /\ layout' = layout
  BY EntriesOfTask DEF Activate, Pmp!ActivateTaskRegion, Pmp!WriteCsr, Pmp!NewEntries
<1>2. IsEntry(pmp)
  BY DEF PmpInv
<1>3. CASE Pmp!WriteCsr("disable", "addr_lo", [pmp EXCEPT !.cfg_hi = "off"])
  <2>1. pmp' = Entry(pmp.addr_lo, pmp.addr_hi, pmp.cfg_lo, "off")
    BY <1>2, <1>3 DEF IsEntry, Entry, Pmp!WriteCsr
  <2> QED
    BY <1>1, <1>3, <2>1 DEF PmpInv, IsEntry, Entry, Pmp!WriteCsr
<1> HIDE DEF new
<1>4. CASE Pmp!WriteCsr("addr_lo", "addr_hi", [pmp EXCEPT !.addr_lo = new.addr_lo])
  <2>1. pmp' = Entry(new.addr_lo, pmp.addr_hi, pmp.cfg_lo, pmp.cfg_hi)
    BY <1>2, <1>4 DEF IsEntry, Entry, Pmp!WriteCsr
  <2> QED
    BY <1>1, <1>4, <2>1 DEF PmpInv, IsEntry, Entry, Pmp!WriteCsr, new
<1>5. CASE Pmp!WriteCsr("addr_hi", "cfg_lo", [pmp EXCEPT !.addr_hi = new.addr_hi])
  <2>1. pmp' = Entry(pmp.addr_lo, new.addr_hi, pmp.cfg_lo, pmp.cfg_hi)
    BY <1>2, <1>5 DEF IsEntry, Entry, Pmp!WriteCsr
  <2> QED
    BY <1>1, <1>5, <2>1 DEF PmpInv, IsEntry, Entry, Pmp!WriteCsr, new
<1>6. CASE Pmp!WriteCsr("cfg_lo", "cfg_hi", [pmp EXCEPT !.cfg_lo = new.cfg_lo])
  <2>1. pmp' = Entry(pmp.addr_lo, pmp.addr_hi, new.cfg_lo, pmp.cfg_hi)
    BY <1>2, <1>6 DEF IsEntry, Entry, Pmp!WriteCsr
  <2> QED
    BY <1>1, <1>6, <2>1 DEF PmpInv, IsEntry, Entry, Pmp!WriteCsr, new
<1>7. CASE Pmp!WriteCsr("cfg_hi", "done", [pmp EXCEPT !.cfg_hi = new.cfg_hi])
  <2>1. pmp' = Entry(pmp.addr_lo, pmp.addr_hi, pmp.cfg_lo, new.cfg_hi)
    BY <1>2, <1>7 DEF IsEntry, Entry, Pmp!WriteCsr
  <2>2. pmp.addr_lo = new.addr_lo /\ pmp.addr_hi = new.addr_hi /\ pmp.cfg_lo = new.cfg_lo
    BY <1>7 DEF PmpInv, Pmp!WriteCsr, new
  <2>3. pmp' = new
    BY <1>1, <2>1, <2>2 DEF IsEntry, Entry
  <2> QED
    BY <1>1, <1>7, <2>1, <2>3 DEF PmpInv, IsEntry, Entry, Pmp!WriteCsr, new
<1> QED
  BY <1>3, <1>4, <1>5, <1>6, <1>7 DEF Activate, Pmp!ActivateTaskRegion, new

\* The processors never change their privilege mode.
LEMMA ModesFixed ==
  ASSUME CpuInv, [CpuNext]_cpuVars, NEW t \in Task
  PROVE  CpuOf(t)'.mode = CpuOf(t).mode
<1>1. /\ current \in Task /\ cpu[t] = CpuOf(t) /\ cpu'[t] = CpuOf(t)'
      /\ cpu = [u \in Task |-> cpu[u]]
  BY DEF CpuInv, CpuType, cpu
<1>2. Virtual!Compute \/ Virtual!Return \/ cpu' = cpu
  BY CpuStep DEF Simulates, Virtual!Next, Virtual!Dispatch, cpu
<1>3. CASE cpu' = cpu
  BY <1>1, <1>3
<1>4. CASE Virtual!Compute
  <2>1. PICK g \in Contents[current], p \in 0 .. (Places - 1) :
          cpu' = [cpu EXCEPT ![current] = [gpr |-> g, addr |-> p, mode |-> cpu[current].mode]]
    BY <1>4 DEF Virtual!Compute, cpu
  <2>2. cpu'[t].mode = cpu[t].mode
    BY <1>1, <2>1
  <2> QED
    BY <1>1, <2>2
<1>5. CASE Virtual!Return
  <2>1. PICK v \in Result :
          cpu' = [cpu EXCEPT ![current] = [gpr |-> [cpu[current].gpr EXCEPT !["a0"] = v],
                                           addr |-> (cpu[current].addr + 1) % Places,
                                           mode |-> cpu[current].mode]]
    BY <1>5, Zenon DEF Virtual!Return, cpu
  <2>2. cpu'[t].mode = cpu[t].mode
    BY <1>1, <2>1
  <2> QED
    BY <1>1, <2>2
<1> QED
  BY <1>2, <1>3, <1>4, <1>5

\* Every step keeps the invariant of the region switch and the modes.
LEMMA PmpNextInv == CpuInv /\ PmpInv /\ ModeInv /\ [SwitchNext]_switchVars => PmpInv' /\ ModeInv'
<1> SUFFICES ASSUME CpuInv, PmpInv, ModeInv, [SwitchNext]_switchVars PROVE PmpInv' /\ ModeInv'
  OBVIOUS
<1>1. layout' = layout
  BY DEF SwitchNext, Activate, Pmp!ActivateTaskRegion, Pmp!WriteCsr, Dispatch, Pmp!MarkRunning, TrapPath, switchVars
<1>2. \A t \in Task : CpuOf(t)'.mode = CpuOf(t).mode
  BY SwitchRefinesCpu, ModesFixed
<1>3. ModeInv'
  BY <1>1, <1>2, Zenon DEF ModeInv
<1>4. ASSUME NEW t \in Task, Dispatch(t) PROVE PmpInv'
  <2>1. csr = "done" /\ csr' = "disable" /\ pmp' = pmp /\ at' = "restore" /\ current \in Task
    BY <1>4 DEF Dispatch, SwitchTo, Pmp!MarkRunning, CpuInv, CpuType
  <2>2. pmp' = Pmp!TaskEntries(layout'[current])
    BY <1>1, <2>1 DEF PmpInv, Pmp!NewEntries
  <2> QED
    BY <2>1, <2>2 DEF PmpInv
<1>5. CASE csr = "done" /\ UNCHANGED <<layout, csr, pmp, current>>
  BY <1>3, <1>5 DEF PmpInv, Pmp!NewEntries
<1>6. CASE UNCHANGED switchVars
  BY <1>3, <1>6 DEF PmpInv, Pmp!NewEntries, switchVars, cpuVars
<1>7. CASE SwitchNext /\ ~Activate /\ ~\E t \in Task : Dispatch(t)
  BY <1>5, <1>7, Zenon DEF SwitchNext, TrapPath, Compute, Trap, EntryStub, SwapSp, AllocFrame, SaveGprs, SaveSp,
     SaveCsrs, Handler, TimerInterrupt, UnhandledInterrupt, EcallReturns, EcallBlocks, FaultAndHalt,
     HandlerGoesTo, ExitStub, RestoreSp, ParkKernelStack, LoadCsrs, LoadGprs, LoadSp, Mret, Halted,
     cpuVars
<1> QED
  BY <1>3, <1>4, <1>6, <1>7, ActivateInv

-----------------------------------------------------------------------------
(* What the PMP entries grant *)

Pow(k) == 2 ^ k

\* Each power of two is twice the one before, as far as regions are considered.
LEMMA Doubling ==
  ASSUME NEW k \in 0 .. 29
  PROVE  Pow(k) \in Nat \ {0} /\ Pow(k + 1) = 2 * Pow(k)
<1>1. /\ Pow(0) = 1 /\ Pow(1) = 2 /\ Pow(2) = 4 /\ Pow(3) = 8 /\ Pow(4) = 16
      /\ Pow(5) = 32 /\ Pow(6) = 64 /\ Pow(7) = 128 /\ Pow(8) = 256 /\ Pow(9) = 512
      /\ Pow(10) = 1024 /\ Pow(11) = 2048 /\ Pow(12) = 4096 /\ Pow(13) = 8192
      /\ Pow(14) = 16384 /\ Pow(15) = 32768 /\ Pow(16) = 65536 /\ Pow(17) = 131072
      /\ Pow(18) = 262144 /\ Pow(19) = 524288 /\ Pow(20) = 1048576 /\ Pow(21) = 2097152
      /\ Pow(22) = 4194304 /\ Pow(23) = 8388608 /\ Pow(24) = 16777216 /\ Pow(25) = 33554432
      /\ Pow(26) = 67108864 /\ Pow(27) = 134217728 /\ Pow(28) = 268435456
      /\ Pow(29) = 536870912 /\ Pow(30) = 1073741824
  BY DEF Pow
<1>2. \/ k = 0 \/ k = 1 \/ k = 2 \/ k = 3 \/ k = 4 \/ k = 5 \/ k = 6 \/ k = 7 \/ k = 8 \/ k = 9
      \/ k = 10 \/ k = 11 \/ k = 12 \/ k = 13 \/ k = 14 \/ k = 15 \/ k = 16 \/ k = 17 \/ k = 18
      \/ k = 19 \/ k = 20 \/ k = 21 \/ k = 22 \/ k = 23 \/ k = 24 \/ k = 25 \/ k = 26 \/ k = 27
      \/ k = 28 \/ k = 29
  OBVIOUS
<1> QED
  BY <1>1, <1>2

\* A multiple of b has a quotient.
LEMMA Quotient ==
  ASSUME NEW a \in Int, NEW b \in Nat \ {0}, a % b = 0
  PROVE  a \div b \in Int /\ a = b * (a \div b)
<1>1. a \div b \in Int
  OBVIOUS
<1>2. a = b * (a \div b)
  OBVIOUS
<1> QED
  BY <1>1, <1>2

\* A remainder is unique.
LEMMA ModIs ==
  ASSUME NEW a \in Int, NEW b \in Nat \ {0}, NEW c \in Int, NEW r \in 0 .. (b - 1), a = b * c + r
  PROVE  a % b = r
OBVIOUS

\* Powers of two are positive.
LEMMA PowNat == ASSUME NEW k \in 0 .. 30 PROVE Pow(k) \in Nat \ {0}
<1>1. CASE k \in 0 .. 29
  BY <1>1, Doubling
<1>2. CASE k = 30
  BY <1>2 DEF Pow
<1> QED
  BY <1>1, <1>2

\* Powers of two at most k places apart divide one another.
DivideWithin(k) ==
  \A i \in 0 .. 30 : \A j \in i .. 30 : j - i <= k => \E c \in Int : Pow(j) = Pow(i) * c

\* Two such distances make one.
LEMMA DivideTwice == ASSUME NEW k \in Nat, DivideWithin(k) PROVE DivideWithin(2 * k)
<1> SUFFICES ASSUME NEW i \in 0 .. 30, NEW j \in i .. 30, j - i <= 2 * k
             PROVE  \E c \in Int : Pow(j) = Pow(i) * c
  BY DEF DivideWithin
<1>1. PICK m \in i .. 30 : m - i <= k /\ m <= j /\ j - m <= k
  <2>1. CASE j - i <= k
    <3>1. j \in i .. 30 /\ j - i <= k /\ j <= j /\ j - j <= k
      BY <2>1
    <3> QED
      BY <3>1
  <2>2. CASE j - i > k
    <3>1. i + k \in i .. 30 /\ (i + k) - i <= k /\ i + k <= j /\ j - (i + k) <= k
      BY <2>2
    <3> QED
      BY <3>1
  <2> QED
    BY <2>1, <2>2
<1>2. PICK c \in Int : Pow(m) = Pow(i) * c
  BY <1>1 DEF DivideWithin
<1>3. PICK d \in Int : Pow(j) = Pow(m) * d
  BY <1>1 DEF DivideWithin
<1>4. Pow(i) \in Int
  BY PowNat
<1>5. Pow(j) = Pow(i) * (c * d) /\ c * d \in Int
  BY <1>2, <1>3, <1>4
<1> QED
  BY <1>5

\* A power of two divides the greater ones.
LEMMA PowDivides ==
  ASSUME NEW i \in 0 .. 30, NEW j \in i .. 30
  PROVE  \E c \in Int : Pow(j) = Pow(i) * c
<1>1. DivideWithin(1)
  <2> SUFFICES ASSUME NEW a \in 0 .. 30, NEW b \in a .. 30, b - a <= 1
               PROVE  \E c \in Int : Pow(b) = Pow(a) * c
    BY DEF DivideWithin
  <2>1. CASE b = a
    <3>1. Pow(b) = Pow(a) * 1
      BY <2>1, PowNat
    <3> QED
      BY <3>1
  <2>2. CASE b = a + 1
    <3>1. Pow(a) \in Nat \ {0} /\ Pow(a + 1) = 2 * Pow(a)
      BY <2>2, Doubling
    <3>2. Pow(b) = Pow(a) * 2
      BY <2>2, <3>1
    <3> QED
      BY <3>2
  <2> QED
    BY <2>1, <2>2
<1>2. DivideWithin(2)
  BY <1>1, DivideTwice
<1>3. DivideWithin(4)
  BY <1>2, DivideTwice
<1>4. DivideWithin(8)
  BY <1>3, DivideTwice
<1>5. DivideWithin(16)
  BY <1>4, DivideTwice
<1>6. DivideWithin(32)
  BY <1>5, DivideTwice
<1> QED
  BY <1>6 DEF DivideWithin

\* The trailing ones of a NAPOT address tell the size of the region.
LEMMA NapotUnique ==
  ASSUME NEW m \in 3 .. 29, NEW q \in Int, NEW a \in Int, a = Pow(m - 3) * (2 * q + 1),
         NEW n \in 0 .. 29
  PROVE  (a % Pow(n) = 0 /\ a % Pow(n + 1) # 0) <=> n = m - 3
<1> DEFINE h == Pow(m - 3)
<1>1. h \in Nat \ {0} /\ Pow(n) \in Nat \ {0} /\ Pow(n + 1) \in Nat \ {0} /\ Pow(m - 2) = 2 * h
  <2>1. Pow(m - 3) \in Nat \ {0} /\ Pow((m - 3) + 1) = 2 * Pow(m - 3)
    BY Doubling
  <2>2. (m - 3) + 1 = m - 2
    OBVIOUS
  <2> QED
    BY <2>1, <2>2, PowNat
<1>2. a % h = 0 /\ a % (2 * h) = h
  <2> HIDE DEF h
  <2>1. a = h * (2 * q + 1) + 0 /\ 2 * q + 1 \in Int /\ 0 \in 0 .. (h - 1)
    BY <1>1 DEF h
  <2>2. a = (2 * h) * q + h /\ 2 * h \in Nat \ {0} /\ h \in 0 .. ((2 * h) - 1)
    BY <1>1, <2>1
  <2>3. a % h = 0
    BY <1>1, <2>1, ModIs
  <2>4. a % (2 * h) = h
    BY <1>1, <2>2, ModIs
  <2> QED
    BY <2>3, <2>4
<1>3. CASE n = m - 3
  <2>1. n + 1 = m - 2
    BY <1>3
  <2> QED
    BY <1>1, <1>2, <1>3, <2>1
<1>4. CASE n < m - 3
  <2>1. PICK c \in Int : h = Pow(n + 1) * c
    BY <1>4, PowDivides
  <2>2. a = Pow(n + 1) * (c * (2 * q + 1)) + 0 /\ c * (2 * q + 1) \in Int
    BY <1>1, <2>1
  <2>3. 0 \in 0 .. (Pow(n + 1) - 1)
    BY <1>1
  <2>4. a % Pow(n + 1) = 0
    BY <1>1, <2>2, <2>3, ModIs
  <2> QED
    BY <1>4, <2>4
<1>5. CASE n > m - 3
  <2>1. PICK c \in Int : Pow(n) = Pow(m - 2) * c
    BY <1>5, PowDivides
  <2>2. ASSUME a % Pow(n) = 0 PROVE FALSE
    <3>1. PICK d \in Int : a = Pow(n) * d
      BY <1>1, <2>2, Quotient, Zenon
    <3>2. a = (2 * h) * (c * d) + 0 /\ c * d \in Int
      BY <1>1, <2>1, <3>1
    <3>3. 2 * h \in Nat \ {0} /\ 0 \in 0 .. ((2 * h) - 1)
      BY <1>1
    <3>4. a % (2 * h) = 0
      BY <3>2, <3>3, ModIs, Zenon
    <3> QED
      BY <1>1, <1>2, <3>4
  <2>3. n # m - 3
    BY <1>5
  <2> QED
    BY <2>2, <2>3, Zenon
<1> QED
  BY <1>3, <1>4, <1>5

\* Half a region's size less one, in words, for a region that starts at 8 * w.
LEMMA NapotWords ==
  ASSUME NEW w \in Int, NEW h \in Int
  PROVE  (8 * w + ((8 * h) \div 2 - 1)) \div 4 = 2 * w + h - 1
<1>1. (8 * h) \div 2 = 4 * h
  OBVIOUS
<1>2. (4 * (2 * w + h - 1) + 3) \div 4 = 2 * w + h - 1
  OBVIOUS
<1>3. 8 * w + (4 * h - 1) = 4 * (2 * w + h - 1) + 3
  OBVIOUS
<1> QED
  BY <1>1, <1>2, <1>3

\* The address NAPOT registers hold for r stands for the bytes of r.
LEMMA NapotGrant ==
  ASSUME NEW r, r.start \in Nat, r.end \in Nat, Pmp!IsNapot(r)
  PROVE  Pmp!NapotBytes(Pmp!NapotAddr(r)) = Pmp!Bytes(r)
<1> DEFINE size == r.end - r.start
           addr_hi == Pmp!NapotAddr(r)
           a == addr_hi + 1
<1>1. PICK m \in 0 .. 29 : size = Pow(m)
  BY DEF Pmp!IsNapot, Pmp!PowersOfTwo, Pmp!Exponent, Pow
<1>2. size >= 8 /\ r.start % size = 0
  BY DEF Pmp!IsNapot
<1>3. m \in 3 .. 29
  <2>1. Pow(0) = 1 /\ Pow(1) = 2 /\ Pow(2) = 4
    BY DEF Pow
  <2>2. m # 0 /\ m # 1 /\ m # 2
    BY <1>1, <1>2, <2>1
  <2> QED
    BY <2>2
<1> DEFINE h == Pow(m - 3)
<1>4. h \in Nat \ {0} /\ size = 8 * h /\ Pow(m) = 8 * h
  <2>1. /\ Pow(m - 3) \in Nat \ {0} /\ Pow((m - 3) + 1) = 2 * Pow(m - 3)
        /\ Pow((m - 2) + 1) = 2 * Pow(m - 2) /\ Pow((m - 1) + 1) = 2 * Pow(m - 1)
    BY <1>3, Doubling
  <2>2. (m - 3) + 1 = m - 2 /\ (m - 2) + 1 = m - 1 /\ (m - 1) + 1 = m
    OBVIOUS
  <2> QED
    BY <1>1, <2>1, <2>2
<1> DEFINE q == r.start \div size
           w == h * q
<1>5. q \in Int /\ r.start = size * q
  <2>1. size \in Nat \ {0}
    BY <1>4
  <2>2. r.start \in Int /\ r.start % size = 0
    BY <1>2
  <2> HIDE DEF size
  <2> QED
    BY <2>1, <2>2, Quotient, Zenon
<1>6. w \in Int /\ r.start = 8 * w
  <2>1. r.start = (8 * h) * q
    BY <1>4, <1>5, Zenon
  <2> HIDE DEF h, q
  <2> QED
    BY <1>4, <1>5, <2>1
<1>7. h * (2 * q + 1) = 2 * w + h
  <2> HIDE DEF h, q
  <2> QED
    BY <1>4, <1>5
<1> HIDE DEF h, q, w, size
<1>8. addr_hi = 2 * w + h - 1
  <2>1. addr_hi = (8 * w + ((8 * h) \div 2 - 1)) \div 4
    <3>1. r.end - r.start = 8 * h
      BY <1>4 DEF size
    <3> QED
      BY <1>6, <3>1, Zenon DEF Pmp!NapotAddr
  <2> QED
    BY <1>4, <1>6, <2>1, NapotWords
<1> HIDE DEF addr_hi
<1>9. a \in Int /\ a = h * (2 * q + 1)
  BY <1>4, <1>6, <1>7, <1>8
<1> DEFINE k == CHOOSE n \in 0 .. 29 : a % Pow(n) = 0 /\ a % Pow(n + 1) # 0
<1>10. k = m - 3
  <2> DEFINE P(n) == a % Pow(n) = 0 /\ a % Pow(n + 1) # 0
  <2> HIDE DEF a
  <2>1. ASSUME NEW n \in 0 .. 29 PROVE P(n) <=> n = m - 3
    BY <1>3, <1>5, <1>9, NapotUnique, ZenonT(30) DEF h
  <2>2. m - 3 \in 0 .. 29
    BY <1>3
  <2> HIDE DEF P
  <2>3. (CHOOSE n \in 0 .. 29 : P(n)) = m - 3
    BY <2>1, <2>2, Zenon
  <2> QED
    BY <2>3, Zenon DEF P
<1>11. Pmp!NapotBytes(addr_hi) = ((a - Pow(k)) * 4) .. ((a - Pow(k)) * 4 + Pow(k + 3) - 1)
  BY Zenon DEF Pmp!NapotBytes, Pmp!Exponent, Pow
<1> HIDE DEF k
<1>12. Pow(k) = h /\ Pow(k + 3) = 8 * h
  <2>1. (m - 3) + 3 = m
    OBVIOUS
  <2> QED
    BY <1>4, <1>10, <2>1, Zenon DEF h
<1>13. Pmp!NapotBytes(addr_hi) = ((a - h) * 4) .. ((a - h) * 4 + 8 * h - 1)
  BY <1>11, <1>12, Zenon
<1>14. (a - h) * 4 = r.start /\ r.start + 8 * h - 1 = r.end - 1
  BY <1>4, <1>6, <1>8 DEF size
<1> QED
  BY <1>13, <1>14, Zenon DEF Pmp!Bytes, addr_hi

\* encode_region is exact: with the entries of task t in the CSRs, the bytes
\* granted are those of its region, and none for a machine-mode task.
LEMMA EntriesGrant ==
  ASSUME layout \in Layouts, NEW t \in Task, pmp = Pmp!TaskEntries(layout[t])
  PROVE  Pmp!Granted = IF layout[t].user THEN Pmp!Bytes(layout[t].region) ELSE {}
<1> DEFINE r == layout[t].region
<1>1. CASE ~layout[t].user
  <2>1. pmp.cfg_hi = "off"
    <3>1. pmp = Pmp!EncodeRegion([start |-> 0, end |-> 0])
      BY <1>1, Zenon DEF Pmp!TaskEntries
    <3>2. Pmp!EncodeRegion([start |-> 0, end |-> 0]).cfg_hi = "off"
      BY SMTT(30) DEF Pmp!EncodeRegion
    <3> QED
      BY <3>1, <3>2, Zenon
  <2> QED
    BY <1>1, <2>1 DEF Pmp!Granted
<1>2. CASE layout[t].user
  <2>1. /\ r.start \in Nat /\ r.end \in Nat /\ r.start % 4 = 0 /\ r.end % 4 = 0
        /\ pmp = Pmp!EncodeRegion(r)
    <3>1. pmp = Pmp!EncodeRegion(r)
      BY <1>2, Zenon DEF Pmp!TaskEntries
    <3>2. Pmp!IsRange(r) /\ r.start % 4 = 0 /\ r.end % 4 = 0
      BY <1>2, MemoryAssumption, Zenon
    <3>3. r.start \in Nat /\ r.end \in Nat
      BY <3>2 DEF Pmp!IsRange
    <3> QED
      BY <3>1, <3>2, <3>3, Zenon
  <2> HIDE DEF r
  <2>2. CASE r.end <= r.start
    <3>1. pmp.cfg_hi = "off"
      BY <2>1, <2>2, SMTT(30) DEF Pmp!EncodeRegion
    <3>2. Pmp!Bytes(r) = {}
      BY <2>1, <2>2 DEF Pmp!Bytes
    <3> QED
      BY <1>2, <3>1, <3>2 DEF Pmp!Granted, r
  <2>3. CASE ~(r.end <= r.start) /\ Pmp!IsNapot(r)
    <3>1. pmp.cfg_hi = "napot" /\ pmp.addr_hi = Pmp!NapotAddr(r)
      BY <2>1, <2>3 DEF Pmp!EncodeRegion
    <3>2. Pmp!Granted = Pmp!NapotBytes(Pmp!NapotAddr(r))
      BY <3>1 DEF Pmp!Granted
    <3> QED
      BY <1>2, <2>1, <2>3, <3>2, NapotGrant, Zenon DEF r
  <2>4. CASE ~(r.end <= r.start) /\ ~Pmp!IsNapot(r)
    <3>1. pmp.cfg_hi = "tor" /\ pmp.addr_lo = r.start \div 4 /\ pmp.addr_hi = r.end \div 4
      BY <2>1, <2>4, SMTT(30) DEF Pmp!EncodeRegion
    <3>2. (r.start \div 4) * 4 = r.start /\ (r.end \div 4) * 4 = r.end
      BY <2>1
    <3>3. Pmp!Granted = (pmp.addr_lo * 4) .. (pmp.addr_hi * 4 - 1)
      BY <3>1 DEF Pmp!Granted
    <3> QED
      BY <1>2, <3>1, <3>2, <3>3, Zenon DEF Pmp!Bytes, r
  <2> QED
    BY <2>2, <2>3, <2>4
<1> QED
  BY <1>1, <1>2

\* A grant that is switched off grants nothing.
LEMMA OffGrantsNothing == pmp.cfg_hi = "off" => Pmp!Granted = {}
BY DEF Pmp!Granted

-----------------------------------------------------------------------------
(* The grant at every state *)

\* The layout is the one scheduler::init was given, and trap_handler finds in
\* mpp the mode that the entry stub saved.
HandlerInv == layout \in Layouts /\ (at = "handler" => mpp = frame[current].mpp)

\* Only the last step of the entry stub calls trap_handler.
LEMMA EntersHandler ==
  ASSUME CpuNext, ~SaveCsrs
  PROVE  at' # "handler" \/ UNCHANGED cpuVars
<1>1. CASE Compute
  BY <1>1 DEF Compute
<1>2. CASE \E cause \in Causes : Trap(cause)
  BY <1>2 DEF Trap
<1>3. CASE SwapSp \/ AllocFrame \/ SaveGprs \/ SaveSp
  <2>1. at' \in {"alloc", "save", "save_sp", "save_csrs"}
    BY <1>3, Zenon DEF SwapSp, AllocFrame, SaveGprs, SaveSp
  <2> QED
    BY <2>1
<1>4. CASE Handler
  <2>1. at' \in {"restore", "dispatch", "dispatch_other", "halted"}
    BY <1>4, Zenon DEF Handler, HandlerGoesTo, TimerInterrupt, UnhandledInterrupt, EcallReturns,
       EcallBlocks, FaultAndHalt
  <2> QED
    BY <2>1
<1>5. CASE \E t \in Task : SwitchTo(t)
  <2>1. at' = "restore"
    BY <1>5, Zenon DEF SwitchTo
  <2> QED
    BY <2>1
<1>6. CASE ExitStub
  <2>1. at' \in {"scratch", "load_csrs", "load", "load_sp", "mret", "task"}
    BY <1>6, Zenon DEF ExitStub, RestoreSp, ParkKernelStack, LoadCsrs, LoadGprs, LoadSp, Mret
  <2> QED
    BY <2>1
<1>7. CASE Halted
  BY <1>7 DEF Halted
<1> QED
  BY <1>1, <1>2, <1>3, <1>4, <1>5, <1>6, <1>7 DEF CpuNext, EntryStub

\* Every step keeps the layout and the mode that the handler finds.
LEMMA HandlerNextInv == CpuInv /\ HandlerInv /\ [SwitchNext]_switchVars => HandlerInv'
<1> SUFFICES ASSUME CpuInv, HandlerInv, [SwitchNext]_switchVars PROVE HandlerInv'
  OBVIOUS
<1>1. layout' = layout
  BY DEF SwitchNext, Activate, Pmp!ActivateTaskRegion, Pmp!WriteCsr, Dispatch, Pmp!MarkRunning, TrapPath, switchVars
<1> DEFINE M == at = "handler" => mpp = frame[current].mpp
<1>2. ASSUME SaveCsrs PROVE M'
  <2>1. /\ At(regs["sp"]) = current /\ current \in Task /\ frame \in [Task -> Frame]
        /\ mpp' = mpp /\ current' = current
    BY <1>2, AtFrameAddr DEF SaveCsrs, CpuInv, CpuType, StackInv
  <2>2. frame' = [frame EXCEPT ![current].mepc = mepc, ![current].mpp = mpp]
    BY <1>2, <2>1, Zenon DEF SaveCsrs
  <2>3. frame'[current].mpp = mpp
    BY <2>1, <2>2 DEF Frame
  <2> QED
    BY <2>1, <2>3
<1>3. ASSUME UNCHANGED cpuVars PROVE M'
  BY <1>3 DEF HandlerInv, cpuVars
<1>4. M'
  <2>1. CpuNext \/ UNCHANGED cpuVars
    BY SwitchRefinesCpu
  <2>2. SaveCsrs \/ at' # "handler" \/ UNCHANGED cpuVars
    BY <2>1, EntersHandler, Zenon
  <2> QED
    BY <1>2, <1>3, <2>2, Zenon
<1> QED
  BY <1>1, <1>4 DEF HandlerInv

-----------------------------------------------------------------------------
(* Buffers *)

\* A buffer is accepted by a check against ranges within r exactly when the
\* bytes it stands for, wrapped around the address space, all lie in r.
LEMMA OwnBuffer ==
  ASSUME NEW r, Pmp!IsRange(r), NEW s, Pmp!IsRange(s), s.start >= r.start, s.end <= r.end,
         NEW ptr \in 0 .. (AddrSpace - 1), NEW n \in 0 .. (AddrSpace - 1)
  PROVE  Pmp!BufferReadable(ptr, n, {r, s})
           <=> {(ptr + i) % AddrSpace : i \in 0 .. (n - 1)} \subseteq Pmp!Bytes(r)
<1> DEFINE wanted == {(ptr + i) % AddrSpace : i \in 0 .. (n - 1)}
<1>1. /\ AddrSpace \in Nat /\ ptr \in Nat /\ n \in Nat /\ ptr < AddrSpace
      /\ r.start \in Nat /\ r.end \in Nat /\ r.end < AddrSpace /\ s.start \in Nat /\ s.end \in Nat
  BY MemoryAssumption, SMTT(30) DEF Pmp!IsRange
<1>2. ASSUME NEW x \in Nat, x < AddrSpace PROVE x % AddrSpace = x
  BY <1>1, <1>2
<1>3. ASSUME Pmp!BufferReadable(ptr, n, {r, s}) PROVE wanted \subseteq Pmp!Bytes(r)
  <2> SUFFICES ASSUME NEW i \in 0 .. (n - 1) PROVE (ptr + i) % AddrSpace \in Pmp!Bytes(r)
    OBVIOUS
  <2>1. ptr + n < AddrSpace /\ r.start <= ptr /\ ptr + n <= r.end
    BY <1>1, <1>3 DEF Pmp!BufferReadable
  <2>2. ptr + i \in Nat /\ ptr + i < AddrSpace /\ r.start <= ptr + i /\ ptr + i <= r.end - 1
    BY <1>1, <2>1
  <2>3. (ptr + i) % AddrSpace = ptr + i
    BY <1>2, <2>2
  <2> QED
    BY <1>1, <2>2, <2>3 DEF Pmp!Bytes
<1>4. ASSUME wanted \subseteq Pmp!Bytes(r), n # 0 PROVE Pmp!BufferReadable(ptr, n, {r, s})
  <2>1. 0 \in 0 .. (n - 1) /\ ptr + 0 = ptr
    BY <1>1, <1>4
  <2>2. ptr \in Pmp!Bytes(r)
    BY <1>1, <1>2, <1>4, <2>1
  <2>3. r.start <= ptr /\ ptr < r.end
    BY <1>1, <2>2 DEF Pmp!Bytes
  <2>4. ASSUME ptr + n > r.end PROVE FALSE
    <3>1. r.end - ptr \in 0 .. (n - 1) /\ ptr + (r.end - ptr) = r.end
      BY <1>1, <2>3, <2>4
    <3>2. r.end \in Pmp!Bytes(r)
      BY <1>1, <1>2, <1>4, <3>1, Zenon
    <3> QED
      BY <1>1, <3>2 DEF Pmp!Bytes
  <2>5. ptr + n <= r.end
    BY <1>1, <2>4
  <2> QED
    BY <1>1, <2>3, <2>5 DEF Pmp!BufferReadable
<1>5. n = 0 => Pmp!BufferReadable(ptr, n, {r, s})
  BY DEF Pmp!BufferReadable
<1> QED
  BY <1>3, <1>4, <1>5, Zenon

\* Inside one more range, the bytes of an accepted buffer are in that range or in r.
LEMMA OwnOrFlash ==
  ASSUME NEW r, Pmp!IsRange(r), NEW s, Pmp!IsRange(s), s.start >= r.start, s.end <= r.end,
         NEW f, Pmp!IsRange(f),
         NEW ptr \in 0 .. (AddrSpace - 1), NEW n \in 0 .. (AddrSpace - 1),
         Pmp!BufferReadable(ptr, n, {r, s, f})
  PROVE  {(ptr + i) % AddrSpace : i \in 0 .. (n - 1)} \subseteq Pmp!Bytes(r) \cup Pmp!Bytes(f)
<1>1. \/ Pmp!BufferReadable(ptr, n, {r, s})
      \/ Pmp!BufferReadable(ptr, n, {f, f})
  BY DEF Pmp!BufferReadable
<1>2. f.start >= f.start /\ f.end <= f.end
  <2>1. f.start \in Nat /\ f.end \in Nat
    BY DEF Pmp!IsRange
  <2> QED
    BY <2>1
<1> QED
  BY <1>1, <1>2, OwnBuffer, Zenon

-----------------------------------------------------------------------------
(* Isolation *)

\* The inductive invariant of the region switch.
IsolationInv == CpuInv /\ PmpInv /\ ModeInv /\ HandlerInv

\* It holds at every state.
LEMMA Isolation == SwitchSpec => []IsolationInv
<1>1. SwitchInit => PmpInv /\ ModeInv /\ HandlerInv
  <2> SUFFICES ASSUME SwitchInit PROVE HandlerInv
    BY PmpInitInv, ZenonT(40)
  <2>1. layout \in Layouts /\ at = "restore"
    BY DEF SwitchInit, Pmp!MemoryInit, CpuInit
  <2> QED
    BY <2>1 DEF HandlerInv
<1>2. CpuInv /\ PmpInv /\ ModeInv /\ HandlerInv /\ [SwitchNext]_switchVars => PmpInv' /\ ModeInv' /\ HandlerInv'
  BY PmpNextInv, HandlerNextInv
<1> QED
  BY <1>1, <1>2, CpuInvariance, PTL DEF SwitchSpec, IsolationInv

\* Once the CSR writes are done, exactly the current task's region is granted.
LEMMA DoneGrant ==
  ASSUME IsolationInv, csr = "done"
  PROVE  Pmp!Granted = IF layout[current].user THEN Pmp!Bytes(layout[current].region) ELSE {}
BY EntriesGrant DEF IsolationInv, CpuInv, CpuType, PmpInv, HandlerInv, Pmp!NewEntries

\* While a task executes in user mode, the PMP grants exactly the bytes of its
\* region, and while a machine-mode task executes, none: for all layouts
\* check_region_placement accepts.
THEOREM GrantIsExactAlways == SwitchSpec => []GrantIsExact
<1>1. IsolationInv => GrantIsExact
  <2> SUFFICES ASSUME IsolationInv, at = "task"
               PROVE  Pmp!Granted = IF mode = "U" THEN Pmp!Bytes(layout[current].region) ELSE {}
    BY DEF GrantIsExact
  <2>1. current \in Task /\ csr = "done"
    BY DEF IsolationInv, CpuInv, CpuType, PmpInv
  <2>2. CpuOf(current).mode = mode
    <3>1. CpuOf(current) = [gpr |-> regs, addr |-> addr, mode |-> mode]
      BY MappingCases, Zenon DEF CpuCases
    <3> QED
      BY <3>1
  <2>3. (mode = "U") <=> layout[current].user
    BY <2>1, <2>2, Zenon DEF IsolationInv, ModeInv
  <2>4. Pmp!Granted = IF layout[current].user THEN Pmp!Bytes(layout[current].region) ELSE {}
    BY <2>1, DoneGrant
  <2> QED
    BY <2>3, <2>4, Zenon
<1> QED
  BY <1>1, Isolation, PTL

\* At every state, between the CSR writes of activate_task_region too, the PMP
\* grants nothing or the region of one user task.
THEOREM NoTransientGrantAlways == SwitchSpec => []NoTransientGrant
<1>1. IsolationInv => NoTransientGrant
  <2> SUFFICES ASSUME IsolationInv PROVE NoTransientGrant
    OBVIOUS
  <2>1. current \in Task /\ layout \in Layouts
    BY DEF IsolationInv, CpuInv, CpuType, HandlerInv
  <2>2. pmp.cfg_hi = "off" \/ \E t \in Task : pmp = Pmp!TaskEntries(layout[t])
    BY <2>1 DEF IsolationInv, PmpInv, Pmp!NewEntries
  <2>3. CASE pmp.cfg_hi = "off"
    BY <2>3, OffGrantsNothing DEF NoTransientGrant
  <2>4. ASSUME NEW t \in Task, pmp = Pmp!TaskEntries(layout[t]) PROVE NoTransientGrant
    BY <2>1, <2>4, EntriesGrant, Zenon DEF NoTransientGrant
  <2> QED
    BY <2>2, <2>3, <2>4
<1> QED
  BY <1>1, Isolation, PTL

\* When trap_handler serves a user task's system call, the kernel accepts the
\* buffers that lie within what the task may access, and only those: whatever
\* the address and the length are.
THEOREM AcceptedBuffersAreOwnAlways == SwitchSpec => []AcceptedBuffersAreOwn
<1>1. IsolationInv => AcceptedBuffersAreOwn
  <2> DEFINE l == layout[current]
             wanted(ptr, n) == {(ptr + i) % AddrSpace : i \in 0 .. (n - 1)}
  <2> SUFFICES ASSUME IsolationInv, at = "handler", mpp = "U",
                      NEW ptr \in 0 .. (AddrSpace - 1), NEW n \in 0 .. (AddrSpace - 1)
               PROVE  /\ Pmp!BufferReadable(ptr, n, Pmp!WritableRanges(l))
                           <=> wanted(ptr, n) \subseteq Pmp!Granted
                      /\ Pmp!BufferReadable(ptr, n, Pmp!ReadableRanges(l)) =>
                           wanted(ptr, n) \subseteq Pmp!Granted \cup Pmp!Bytes(Flash)
    BY Zenon DEF AcceptedBuffersAreOwn
  <2>1. current \in Task /\ csr = "done" /\ layout \in Layouts /\ mpp = frame[current].mpp
    BY DEF IsolationInv, CpuInv, CpuType, PmpInv, HandlerInv
  <2>2. CpuOf(current).mode = frame[current].mpp
    BY <2>1 DEF CpuOf, Stored
  <2>3. l.user
    BY <2>1, <2>2, Zenon DEF IsolationInv, ModeInv
  <2>4. Pmp!Granted = Pmp!Bytes(l.region)
    BY <2>1, <2>3, DoneGrant
  <2>5. /\ Pmp!IsRange(l.region) /\ Pmp!IsRange(l.stack) /\ Pmp!IsRange(Flash)
        /\ l.stack.start >= l.region.start /\ l.stack.end <= l.region.end
    BY <2>1, <2>3, MemoryAssumption, Zenon
  <2> HIDE DEF l
  <2>6. Pmp!BufferReadable(ptr, n, {l.region, l.stack}) <=> wanted(ptr, n) \subseteq Pmp!Bytes(l.region)
    BY <2>5, OwnBuffer, Zenon
  <2>7. Pmp!BufferReadable(ptr, n, {l.region, l.stack, Flash}) =>
          wanted(ptr, n) \subseteq Pmp!Bytes(l.region) \cup Pmp!Bytes(Flash)
    BY <2>5, OwnOrFlash, ZenonT(30)
  <2> QED
    BY <2>4, <2>6, <2>7, Zenon DEF Pmp!WritableRanges, Pmp!ReadableRanges
<1> QED
  BY <1>1, Isolation, PTL

-----------------------------------------------------------------------------
(* The ring buffer: what the slots hold *)

\* The slot k places after h.
Pos(h, k) == (h + k) % Cap

\* The places after head whose slots hold a value.
LiveOffsets ==
  CASE cons.pc = "advance" -> 1 .. (len - 1)
    [] cons.pc = "release" -> 0 .. (len - 2)
    [] prod.pc = "publish" -> 0 .. len
    [] OTHER -> 0 .. (len - 1)

\* Exactly the live slots hold values.
BufferInv ==
  \A k \in Slot :
    /\ k \in LiveOffsets => buffer[Pos(head, k)] \in Message
    /\ k \notin LiveOffsets => buffer[Pos(head, k)] = Uninit

\* The locals of a send in progress are up to date: nobody else moves.
SendInv ==
  prod.pc # "idle" =>
    /\ cons.pc = "idle" /\ len < Cap /\ prod.len = len /\ prod.value \in Message
    /\ prod.pc \in {"write", "publish"} => prod.head = head
    /\ prod.pc = "publish" => buffer[Pos(head, len)] = prod.value

\* The locals of a receive in progress are up to date.
ReceiveInv ==
  cons.pc # "idle" =>
    /\ prod.pc = "idle" /\ len > 0
    /\ cons.pc \in {"read", "advance"} => cons.head = head
    /\ cons.pc \in {"advance", "release"} => cons.value \in Message

\* The inductive invariant.
RingInv == RingTypeOK /\ BufferInv /\ SendInv /\ ReceiveInv

\* Positions around the ring: reduction, injectivity, and one step further.
LEMMA PosFacts ==
  ASSUME NEW h \in Slot, NEW k \in 0 .. Cap
  PROVE  /\ Pos(h, k) = IF h + k < Cap THEN h + k ELSE (h + k) - Cap
         /\ Pos(h, k) \in Slot
<1> DEFINE x == h + k
<1>1. Cap \in Nat /\ Cap > 0 /\ x \in Int /\ x >= 0 /\ x < 2 * Cap /\ h \in Int /\ k \in Int
  BY ChannelAssumption DEF Slot
<1> HIDE DEF x
<1>2. x % Cap = IF x < Cap THEN x ELSE x - Cap
  BY <1>1
<1>3. QED
  BY <1>1, <1>2 DEF Pos, Slot, x

\* Different places are different slots.
LEMMA PosInjective ==
  ASSUME NEW h \in Slot, NEW j \in Slot, NEW k \in Slot, Pos(h, j) = Pos(h, k)
  PROVE  j = k
<1>1. Cap \in Nat /\ h \in Int /\ 0 <= h /\ h < Cap /\ j \in Int /\ 0 <= j /\ j < Cap
      /\ k \in Int /\ 0 <= k /\ k < Cap /\ j \in 0 .. Cap /\ k \in 0 .. Cap
  BY ChannelAssumption DEF Slot
<1>2. Pos(h, j) = IF h + j < Cap THEN h + j ELSE (h + j) - Cap
  BY <1>1, PosFacts
<1>3. Pos(h, k) = IF h + k < Cap THEN h + k ELSE (h + k) - Cap
  BY <1>1, PosFacts
<1>4. (IF h + j < Cap THEN h + j ELSE (h + j) - Cap)
        = (IF h + k < Cap THEN h + k ELSE (h + k) - Cap)
  BY <1>2, <1>3, Zenon
<1>5. QED
  BY <1>1, <1>4

\* The places after the next slot.
LEMMA PosStep ==
  ASSUME NEW h \in Slot, NEW k \in Slot
  PROVE  /\ (h + 1) % Cap \in Slot
         /\ Pos((h + 1) % Cap, k) = Pos(h, k + 1)
<1>1. Cap \in Nat /\ Cap > 0 /\ h \in Int /\ 0 <= h /\ h < Cap /\ k \in Int /\ 0 <= k /\ k < Cap
  BY ChannelAssumption DEF Slot
<1>2. 1 \in 0 .. Cap /\ k + 1 \in 0 .. Cap /\ k \in 0 .. Cap
  BY <1>1
<1> DEFINE g == (h + 1) % Cap
<1>3. g \in Slot /\ g = IF h + 1 < Cap THEN h + 1 ELSE (h + 1) - Cap
  BY <1>2, PosFacts DEF Pos
<1> HIDE DEF g
<1>4. Pos(g, k) = IF g + k < Cap THEN g + k ELSE (g + k) - Cap
  BY <1>2, <1>3, PosFacts
<1>5. Pos(h, k + 1) = IF h + (k + 1) < Cap THEN h + (k + 1) ELSE (h + (k + 1)) - Cap
  BY <1>2, PosFacts
<1>6. Pos(g, k) = Pos(h, k + 1)
  BY <1>1, <1>3, <1>4, <1>5 DEF Slot
<1>7. QED
  BY <1>3, <1>6 DEF g

\* The slot Cap places on is the slot itself.
LEMMA PosWraps ==
  ASSUME NEW h \in Slot
  PROVE  Pos(h, 0) = h /\ Pos(h, Cap) = h
BY PosFacts, ChannelAssumption DEF Slot

\* The types of the fields, one by one.
LEMMA Types ==
  ASSUME RingTypeOK
  PROVE  /\ Cap \in Nat /\ Cap > 0
         /\ head \in Slot /\ head \in Int /\ len \in Int /\ 0 <= len /\ len <= Cap
         /\ prod.pc \in {"idle", "head", "write", "publish"}
         /\ cons.pc \in {"idle", "head", "read", "advance", "release"}
         /\ prod.len \in 0 .. Cap /\ prod.head \in Slot /\ cons.head \in Slot
         /\ prod.value \in Message \cup {Uninit} /\ cons.value \in Message \cup {Uninit}
         /\ \A k \in Int : k \in Slot <=> 0 <= k /\ k < Cap
BY ChannelAssumption DEF RingTypeOK, Slot

-----------------------------------------------------------------------------
(* The ring buffer: the invariant *)

\* An empty channel with both ends idle.
LEMMA RingInitInv == RingInit => RingInv
<1> SUFFICES ASSUME RingInit PROVE RingInv
  OBVIOUS
<1>1. Cap \in Nat /\ Cap > 0 /\ 0 \in Slot /\ 0 \in 0 .. Cap
  BY ChannelAssumption DEF Slot
<1>2. RingTypeOK
  BY <1>1 DEF RingInit, RingTypeOK, Return
<1>3. BufferInv
  BY <1>1, PosFacts DEF RingInit, BufferInv, LiveOffsets, Slot
<1>4. QED
  BY <1>2, <1>3 DEF RingInit, RingInv, SendInv, ReceiveInv

\* Loading len and head changes no slot and makes the locals true.
LEMMA LoadInv ==
  ASSUME RingInv, ~Interleaved, \/ \E v \in Message : SendLoadLen(v)
                             \/ SendLoadHead \/ ReceiveLoadLen \/ ReceiveLoadHead
  PROVE  RingInv'
<1>1. /\ UNCHANGED <<buffer, head, len>>
      /\ prod.pc # "publish" /\ prod'.pc # "publish"
      /\ cons.pc \notin {"advance", "release"} /\ cons'.pc \notin {"advance", "release"}
  BY Zenon DEF SendLoadLen, SendLoadHead, ReceiveLoadLen, ReceiveLoadHead, ProducerRuns, ConsumerRuns,
         RingInv, RingTypeOK
<1>2. BufferInv'
  BY <1>1 DEF RingInv, BufferInv, LiveOffsets, Pos
<1>3. CASE \E v \in Message : SendLoadLen(v)
  <2>1. PICK v \in Message : SendLoadLen(v)
    BY <1>3
  <2>2. CASE len = Cap
    <3>1. res' = <<"full", v>> /\ UNCHANGED <<prod, cons>>
      BY <2>1, <2>2 DEF SendLoadLen
    <3>2. RingTypeOK'
      BY <1>1, <3>1 DEF RingInv, RingTypeOK, Return
    <3>3. QED BY <1>1, <1>2, <3>1, <3>2 DEF RingInv, SendInv, ReceiveInv, Pos
  <2>3. CASE len # Cap
    <3>1. /\ prod' = [prod EXCEPT !.pc = "head", !.value = v, !.len = len]
          /\ cons.pc = "idle" /\ UNCHANGED <<cons, res>>
      BY <2>1, <2>3, Zenon DEF SendLoadLen, ProducerRuns
    <3>2. /\ prod'.pc = "head" /\ prod'.value = v /\ prod'.len = len
          /\ prod' \in [pc : {"idle", "head", "write", "publish"}, value : Message \cup {Uninit},
                        len : 0 .. Cap, head : Slot]
      BY <3>1, Zenon DEF RingInv, RingTypeOK
    <3>3. RingTypeOK'
      BY <1>1, <3>1, <3>2 DEF RingInv, RingTypeOK
    <3>4. len < Cap
      <4>1. Cap \in Nat /\ len \in Int /\ len <= Cap
        BY Types, Zenon DEF RingInv
      <4>2. QED BY <2>3, <4>1
    <3>5. QED BY <1>1, <1>2, <3>1, <3>2, <3>3, <3>4 DEF RingInv, SendInv, ReceiveInv
  <2>4. QED BY <2>2, <2>3
<1>4. CASE SendLoadHead
  <2>1. RingTypeOK'
    BY <1>1, <1>4, Zenon DEF RingInv, RingTypeOK, SendLoadHead
  <2>2. SendInv' /\ ReceiveInv'
    BY <1>1, <1>4, Types DEF RingInv, RingTypeOK, SendLoadHead, ProducerRuns, SendInv, ReceiveInv, Pos
  <2>3. QED BY <1>2, <2>1, <2>2 DEF RingInv
<1>5. CASE ReceiveLoadLen
  <2>1. RingTypeOK'
    BY <1>1, <1>5 DEF RingInv, RingTypeOK, ReceiveLoadLen, Return
  <2>2. SendInv' /\ ReceiveInv'
    BY <1>1, <1>5, Types DEF RingInv, RingTypeOK, ReceiveLoadLen, ConsumerRuns, SendInv, ReceiveInv, Pos
  <2>3. QED BY <1>2, <2>1, <2>2 DEF RingInv
<1>6. CASE ReceiveLoadHead
  <2>1. RingTypeOK'
    BY <1>1, <1>6, Zenon DEF RingInv, RingTypeOK, ReceiveLoadHead
  <2>2. SendInv' /\ ReceiveInv'
    BY <1>1, <1>6, Types DEF RingInv, RingTypeOK, ReceiveLoadHead, ConsumerRuns, SendInv, ReceiveInv, Pos
  <2>3. QED BY <1>2, <2>1, <2>2 DEF RingInv
<1>7. QED BY <1>3, <1>4, <1>5, <1>6

\* Where a send writes: the first place after the live ones.
LEMMA SendSlotIs ==
  ASSUME RingInv, prod.pc \in {"write", "publish"}
  PROVE  SendSlot = Pos(head, len) /\ len \in Slot /\ cons.pc = "idle"
<1>1. prod.head = head /\ prod.len = len /\ len < Cap /\ cons.pc = "idle"
  BY DEF RingInv, SendInv
<1>2. QED
  BY <1>1, Types DEF RingInv, SendSlot, Pos

\* The write of a send makes the free slot live.
LEMMA SendWriteInv == RingInv /\ SendWrite => RingInv'
<1> SUFFICES ASSUME RingInv, SendWrite PROVE RingInv'
  OBVIOUS
<1> DEFINE p == Pos(head, len)
<1>1. /\ prod.pc = "write" /\ prod'.pc = "publish" /\ cons.pc = "idle" /\ SendSlot = p
      /\ prod'.head = prod.head /\ prod'.len = prod.len /\ prod'.value = prod.value
      /\ prod.value \in Message /\ prod.head = head /\ prod.len = len /\ len < Cap
      /\ buffer' = [buffer EXCEPT ![p] = prod.value] /\ UNCHANGED <<head, len, cons, res>>
  BY SendSlotIs, Zenon DEF RingInv, RingTypeOK, SendInv, SendWrite, ProducerRuns
<1>2. len \in Slot /\ head \in Slot /\ len \in 0 .. Cap /\ p \in Slot
  BY <1>1, Types, PosFacts DEF RingInv
<1>3. RingTypeOK'
  BY <1>1, Zenon DEF RingInv, RingTypeOK, SendWrite
<1>4. ASSUME NEW k \in Slot
      PROVE  buffer'[Pos(head, k)] = IF k = len THEN prod.value ELSE buffer[Pos(head, k)]
  <2>1. k \in 0 .. Cap
    BY ChannelAssumption DEF Slot
  <2>2. Pos(head, k) \in Slot /\ (Pos(head, k) = p => k = len)
    BY <1>2, <2>1, PosFacts, PosInjective
  <2>3. QED BY <1>1, <1>2, <2>2 DEF RingInv, RingTypeOK
<1>5. BufferInv'
  <2>1. LiveOffsets = 0 .. (len - 1) /\ LiveOffsets' = 0 .. len
    BY <1>1 DEF LiveOffsets
  <2>2. \A k \in Slot : k \in 0 .. len <=> k \in 0 .. (len - 1) \/ k = len
    BY <1>2, ChannelAssumption DEF Slot
  <2> HIDE DEF p
  <2>3. ASSUME NEW k \in Slot
        PROVE  /\ k \in 0 .. len => buffer'[Pos(head, k)] \in Message
               /\ k \notin 0 .. len => buffer'[Pos(head, k)] = Uninit
    BY <1>1, <1>2, <1>4, <2>1, <2>2 DEF RingInv, BufferInv
  <2>4. QED BY <1>1, <2>1, <2>3 DEF BufferInv, Pos
<1>6. SendInv' /\ ReceiveInv'
  <2>1. buffer'[Pos(head, len)] = prod.value
    BY <1>2, <1>4
  <2>2. QED BY <1>1, <2>1 DEF SendInv, ReceiveInv, Pos
<1>7. QED BY <1>3, <1>5, <1>6 DEF RingInv

\* Publishing counts the slot just written.
LEMMA SendPublishInv == RingInv /\ SendPublish => RingInv'
<1> SUFFICES ASSUME RingInv, SendPublish PROVE RingInv'
  OBVIOUS
<1>1. /\ prod.pc = "publish" /\ prod'.pc = "idle" /\ cons.pc = "idle" /\ len < Cap
      /\ len' = len + 1 /\ prod.value \in Message /\ UNCHANGED <<buffer, head, cons>>
  BY DEF RingInv, RingTypeOK, SendInv, SendPublish, ProducerRuns
<1>2. RingTypeOK'
  BY <1>1, Types DEF RingInv, RingTypeOK, SendPublish, Return
<1>3. BufferInv'
  <2>1. LiveOffsets = 0 .. len /\ LiveOffsets' = 0 .. ((len + 1) - 1)
    BY <1>1 DEF LiveOffsets
  <2>2. (len + 1) - 1 = len
    BY Types DEF RingInv
  <2>3. QED BY <1>1, <2>1, <2>2 DEF RingInv, BufferInv, Pos
<1>4. QED BY <1>1, <1>2, <1>3 DEF RingInv, SendInv, ReceiveInv

\* Reading moves the first live value out.
LEMMA ReceiveReadInv == RingInv /\ ReceiveRead => RingInv'
<1> SUFFICES ASSUME RingInv, ReceiveRead PROVE RingInv'
  OBVIOUS
<1>1. /\ cons.pc = "read" /\ cons'.pc = "advance" /\ prod.pc = "idle" /\ len > 0
      /\ cons'.head = cons.head /\ cons.head = head /\ cons'.value = buffer[head]
      /\ buffer' = [buffer EXCEPT ![head] = Uninit] /\ UNCHANGED <<head, len, prod, res>>
  BY Zenon DEF RingInv, RingTypeOK, ReceiveInv, ReceiveRead, ConsumerRuns
<1>2. head \in Slot /\ 0 \in Slot /\ Pos(head, 0) = head
  <2>1. head \in Slot
    BY Types, Zenon DEF RingInv
  <2>2. 0 \in Slot
    BY ChannelAssumption DEF Slot
  <2>3. QED BY <2>1, <2>2, PosWraps, Zenon
<1>3. LiveOffsets = 0 .. (len - 1) /\ LiveOffsets' = 1 .. (len - 1)
  BY <1>1 DEF LiveOffsets
<1>4. buffer[head] \in Message
  <2>1. len \in Int
    BY Types, Zenon DEF RingInv
  <2>2. 0 \in 0 .. (len - 1)
    BY <1>1, <2>1
  <2>3. QED BY <1>2, <1>3, <2>2, Zenon DEF RingInv, BufferInv
<1>5. RingTypeOK'
  BY <1>1, <1>4, Zenon DEF RingInv, RingTypeOK, ReceiveRead
<1>6. BufferInv'
  <2>1. ASSUME NEW k \in Slot
        PROVE  buffer'[Pos(head, k)] = IF k = 0 THEN Uninit ELSE buffer[Pos(head, k)]
    <3>1. k \in 0 .. Cap
      BY ChannelAssumption DEF Slot
    <3>2. Pos(head, k) \in Slot /\ (Pos(head, k) = head => k = 0)
      BY <1>2, <3>1, PosFacts, PosInjective
    <3>3. QED BY <1>1, <1>2, <3>2 DEF RingInv, RingTypeOK
  <2>2. \A k \in Slot : k \in 1 .. (len - 1) <=> k \in 0 .. (len - 1) /\ k # 0
    BY Types DEF RingInv, Slot
  <2>3. ASSUME NEW k \in Slot
        PROVE  /\ k \in 1 .. (len - 1) => buffer'[Pos(head, k)] \in Message
               /\ k \notin 1 .. (len - 1) => buffer'[Pos(head, k)] = Uninit
    BY <1>3, <2>1, <2>2, SMTT(20), ZenonT(20) DEF RingInv, BufferInv
  <2>4. QED BY <1>1, <1>3, <2>3 DEF BufferInv, Pos
<1>7. QED BY <1>1, <1>4, <1>5, <1>6 DEF RingInv, SendInv, ReceiveInv

\* Advancing head shifts the live places by one.
LEMMA ReceiveAdvanceInv == RingInv /\ ReceiveAdvance => RingInv'
<1> SUFFICES ASSUME RingInv, ReceiveAdvance PROVE RingInv'
  OBVIOUS
<1>1. /\ cons.pc = "advance" /\ cons'.pc = "release" /\ prod.pc = "idle" /\ len > 0
      /\ cons'.value = cons.value /\ cons.value \in Message /\ cons.head = head
      /\ head' = (head + 1) % Cap /\ UNCHANGED <<buffer, len, prod, res>>
  BY DEF RingInv, RingTypeOK, ReceiveInv, ReceiveAdvance, ConsumerRuns
<1>2. head \in Slot /\ head' \in Slot /\ 0 \in Slot
  <2>1. head \in Slot
    BY Types, Zenon DEF RingInv
  <2>2. 0 \in Slot
    BY ChannelAssumption DEF Slot
  <2>3. QED BY <1>1, <2>1, <2>2, PosStep, Zenon
<1>3. RingTypeOK'
  BY <1>1, <1>2 DEF RingInv, RingTypeOK, ReceiveAdvance
<1>4. LiveOffsets = 1 .. (len - 1) /\ LiveOffsets' = 0 .. (len - 2)
  BY <1>1 DEF LiveOffsets
<1>5. BufferInv'
  <2>1. ASSUME NEW k \in Slot
        PROVE  /\ k \in 0 .. (len - 2) => buffer[Pos(head', k)] \in Message
               /\ k \notin 0 .. (len - 2) => buffer[Pos(head', k)] = Uninit
    <3>1. Pos(head', k) = Pos(head, k + 1)
      BY <1>1, <1>2, PosStep
    <3>2. CASE k + 1 < Cap
      <4>1. k + 1 \in Slot /\ (k + 1 \in 1 .. (len - 1) <=> k \in 0 .. (len - 2))
        BY <3>2, Types DEF RingInv, Slot
      <4>2. QED BY <1>4, <3>1, <4>1 DEF RingInv, BufferInv
    <3>3. CASE k + 1 >= Cap
      <4>1. k + 1 = Cap /\ k \notin 0 .. (len - 2) /\ 0 \notin 1 .. (len - 1)
        BY <3>3, Types DEF RingInv, Slot
      <4>2. Pos(head, k + 1) = Pos(head, 0)
        BY <1>2, <4>1, PosWraps
      <4>3. QED BY <1>2, <1>4, <3>1, <4>1, <4>2 DEF RingInv, BufferInv
    <3>4. k + 1 < Cap \/ k + 1 >= Cap
      BY ChannelAssumption, SMTT(20), ZenonT(20) DEF Slot
    <3>5. QED BY <3>2, <3>3, <3>4, Zenon
  <2>2. QED BY <1>1, <1>4, <2>1 DEF BufferInv, Pos
<1>6. QED BY <1>1, <1>3, <1>5 DEF RingInv, SendInv, ReceiveInv

\* Releasing uncounts the slot that was read.
LEMMA ReceiveReleaseInv == RingInv /\ ReceiveRelease => RingInv'
<1> SUFFICES ASSUME RingInv, ReceiveRelease PROVE RingInv'
  OBVIOUS
<1>1. /\ cons.pc = "release" /\ cons'.pc = "idle" /\ prod.pc = "idle" /\ len > 0
      /\ len' = len - 1 /\ cons.value \in Message /\ UNCHANGED <<buffer, head, prod>>
  BY DEF RingInv, RingTypeOK, ReceiveInv, ReceiveRelease, ConsumerRuns
<1>2. RingTypeOK'
  BY <1>1, Types DEF RingInv, RingTypeOK, ReceiveRelease, Return
<1>3. BufferInv'
  <2>1. LiveOffsets = 0 .. (len - 2) /\ LiveOffsets' = 0 .. ((len - 1) - 1)
    BY <1>1 DEF LiveOffsets
  <2>2. (len - 1) - 1 = len - 2
    BY Types DEF RingInv
  <2>3. QED BY <1>1, <2>1, <2>2 DEF RingInv, BufferInv, Pos
<1>4. QED BY <1>1, <1>2, <1>3 DEF RingInv, SendInv, ReceiveInv

\* Every step preserves the invariant.
LEMMA RingNextInv == ~Interleaved /\ RingInv /\ [RingNext]_ringVars => RingInv'
<1> SUFFICES ASSUME ~Interleaved, RingInv, [RingNext]_ringVars PROVE RingInv'
  OBVIOUS
<1>1. CASE UNCHANGED ringVars
  BY <1>1 DEF ringVars, RingInv, RingTypeOK, BufferInv, SendInv, ReceiveInv, LiveOffsets, Pos
<1>2. QED
  BY <1>1, LoadInv, SendWriteInv, SendPublishInv, ReceiveReadInv, ReceiveAdvanceInv,
     ReceiveReleaseInv DEF RingNext

\* The invariant holds throughout.
LEMMA RingInvAlways ==
  ASSUME ~Interleaved
  PROVE  RingSpec => []RingInv
BY RingInitInv, RingNextInv, PTL DEF RingSpec

\* "len > 0 guarantees slot head holds a value": with one call at a time a
\* receive never moves an uninitialised value out, for every capacity.
THEOREM ReadsInitialisedAlways ==
  ASSUME ~Interleaved
  PROVE  RingSpec => []ReadsInitialised
<1>1. RingInv => ReadsInitialised
  <2> SUFFICES ASSUME RingInv, cons.pc = "read" PROVE buffer[cons.head] # Uninit
    BY DEF ReadsInitialised
  <2>1. cons.head = head /\ len > 0 /\ prod.pc = "idle"
    BY DEF RingInv, ReceiveInv
  <2>2. 0 \in Slot /\ 0 \in LiveOffsets /\ Pos(head, 0) = head
    BY <2>1, Types, PosWraps DEF RingInv, LiveOffsets
  <2>3. QED BY <2>1, <2>2, ChannelAssumption DEF RingInv, BufferInv
<1>2. QED BY <1>1, RingInvAlways, PTL

\* "len < CAP means this slot holds no live value": with one call at a time a
\* send writes only to a free slot, for every capacity.
THEOREM WritesFreeSlotAlways ==
  ASSUME ~Interleaved
  PROVE  RingSpec => []WritesFreeSlot
<1>1. RingInv => WritesFreeSlot
  <2> SUFFICES ASSUME RingInv, prod.pc = "write" PROVE buffer[SendSlot] = Uninit
    BY DEF WritesFreeSlot
  <2>1. SendSlot = Pos(head, len) /\ len \in Slot /\ cons.pc = "idle"
    BY SendSlotIs
  <2>2. len \notin LiveOffsets
    BY <2>1, Types DEF RingInv, LiveOffsets
  <2>3. QED BY <2>1, <2>2 DEF RingInv, BufferInv
<1>2. QED BY <1>1, RingInvAlways, PTL

-----------------------------------------------------------------------------
(* The ring buffer: refinement *)

\* The contents of n slots from h on.
Slots(b, h, n) == [i \in 1 .. n |-> b[(h + i - 1) % Cap]]

\* What a slot may contain.
Cell == Message \cup {Uninit}

\* Slots is a sequence of n elements.
LEMMA SlotsFacts ==
  ASSUME NEW b \in [Slot -> Cell], NEW h \in Slot, NEW n \in 0 .. Cap
  PROVE  /\ Slots(b, h, n) \in Seq(Cell)
         /\ Len(Slots(b, h, n)) = n
         /\ \A i \in 1 .. n : Slots(b, h, n)[i] = b[Pos(h, i - 1)]
<1>1. Cap \in Nat /\ Cap > 0 /\ n \in Nat /\ h \in Int
  BY ChannelAssumption DEF Slot
<1>2. ASSUME NEW i \in 1 .. n
      PROVE  (h + i - 1) % Cap = Pos(h, i - 1) /\ (h + i - 1) % Cap \in Slot
  <2>1. i - 1 \in 0 .. Cap /\ h + i - 1 = h + (i - 1)
    BY <1>1
  <2>2. (h + i - 1) % Cap = Pos(h, i - 1)
    BY <2>1 DEF Pos
  <2>3. QED BY <2>1, <2>2, PosFacts
<1>3. \A i \in 1 .. n : b[(h + i - 1) % Cap] \in Cell
  BY <1>2
<1> DEFINE s == Slots(b, h, n)
<1>4. s \in [1 .. n -> Cell] /\ \A i \in 1 .. n : s[i] = b[(h + i - 1) % Cap]
  BY <1>3 DEF Slots
<1> HIDE DEF s
<1>5. s \in Seq(Cell) /\ Len(s) = n
  BY <1>1, <1>4
<1>6. \A i \in 1 .. n : s[i] = b[Pos(h, i - 1)]
  BY <1>2, <1>4
<1>7. QED BY <1>5, <1>6 DEF s

\* One slot more is one element appended.
LEMMA SlotsAppend ==
  ASSUME NEW b \in [Slot -> Cell], NEW h \in Slot, NEW n \in 0 .. (Cap - 1)
  PROVE  Slots(b, h, n + 1) = Append(Slots(b, h, n), b[Pos(h, n)])
<1> DEFINE s == Slots(b, h, n)
           t == Slots(b, h, n + 1)
<1>1. Cap \in Nat /\ n \in Nat /\ n \in 0 .. Cap /\ n + 1 \in 0 .. Cap /\ (n + 1) - 1 = n
  BY ChannelAssumption
<1>2. /\ s \in Seq(Cell) /\ Len(s) = n
      /\ \A i \in 1 .. n : s[i] = b[Pos(h, i - 1)]
  BY <1>1, SlotsFacts
<1>3. /\ t \in Seq(Cell) /\ Len(t) = n + 1
      /\ \A i \in 1 .. (n + 1) : t[i] = b[Pos(h, i - 1)]
  BY <1>1, SlotsFacts, Zenon
<1>4. b[Pos(h, n)] \in Cell
  BY <1>1, PosFacts
<1> HIDE DEF s, t
<1> DEFINE u == Append(s, b[Pos(h, n)])
<1>5. /\ u \in Seq(Cell) /\ Len(u) = n + 1 /\ u[n + 1] = b[Pos(h, n)]
      /\ \A i \in 1 .. n : u[i] = s[i]
  BY <1>1, <1>2, <1>4, SMTT(30)
<1> HIDE DEF u
<1>6. ASSUME NEW i \in 1 .. (n + 1) PROVE u[i] = t[i]
  <2>1. CASE i = n + 1
    BY <1>1, <1>3, <1>5, <2>1
  <2>2. CASE i # n + 1
    <3>1. i \in 1 .. n
      BY <1>1, <2>2
    <3>2. QED BY <1>2, <1>3, <1>5, <3>1, Zenon
  <2>3. QED BY <2>1, <2>2
<1>7. u = t
  BY <1>3, <1>5, <1>6, SMTT(30)
<1>8. QED BY <1>7 DEF s, t, u

\* Taking the first value out leaves it in front of the other slots.
LEMMA SlotsCons ==
  ASSUME NEW b \in [Slot -> Cell], NEW c \in [Slot -> Cell], NEW h \in Slot, NEW n \in 1 .. Cap,
         \A k \in Slot : k # 0 => c[Pos(h, k)] = b[Pos(h, k)]
  PROVE  <<b[h]>> \o Slots(c, (h + 1) % Cap, n - 1) = Slots(b, h, n)
<1> DEFINE g == (h + 1) % Cap
           s == Slots(c, g, n - 1)
           t == Slots(b, h, n)
<1>1. /\ Cap \in Nat /\ Cap > 0 /\ n \in Nat /\ n \in 0 .. Cap /\ n - 1 \in 0 .. Cap
      /\ 0 \in Slot /\ \A k \in Int : k \in Slot <=> 0 <= k /\ k < Cap
  BY ChannelAssumption DEF Slot
<1>2. g \in Slot /\ \A k \in Slot : Pos(g, k) = Pos(h, k + 1)
  BY <1>1, PosStep
<1> HIDE DEF g
<1>3. /\ Len(s) = n - 1 /\ s \in Seq(Cell)
      /\ \A i \in 1 .. (n - 1) : s[i] = c[Pos(g, i - 1)]
  BY <1>1, <1>2, SlotsFacts, Zenon
<1>4. /\ Len(t) = n /\ t \in Seq(Cell)
      /\ \A i \in 1 .. n : t[i] = b[Pos(h, i - 1)]
  BY <1>1, SlotsFacts, Zenon
<1> HIDE DEF s, t
<1>5. t[1] = b[h]
  BY <1>1, <1>4, PosWraps
<1>6. ASSUME NEW i \in 1 .. (n - 1)
      PROVE  s[i] = t[i + 1]
  <2>1. i - 1 \in Slot /\ i \in Slot /\ i # 0 /\ (i - 1) + 1 = i /\ i + 1 \in 1 .. n /\ (i + 1) - 1 = i
    BY <1>1
  <2>2. Pos(g, i - 1) = Pos(h, i)
    BY <1>2, <2>1
  <2>3. s[i] = c[Pos(h, i)]
    BY <1>3, <2>2
  <2>4. c[Pos(h, i)] = b[Pos(h, i)]
    BY <2>1
  <2>5. t[i + 1] = b[Pos(h, i)]
    BY <1>4, <2>1
  <2>6. QED BY <2>3, <2>4, <2>5
<1>7. <<b[h]>> \o s = t
  <2> DEFINE u == <<b[h]>> \o s
  <2>1. u \in Seq(Cell)
    BY <1>3
  <2>2. Len(u) = n /\ u[1] = b[h] /\ \A i \in 1 .. (n - 1) : u[i + 1] = s[i]
    BY <1>1, <1>3
  <2> HIDE DEF u
  <2>3. ASSUME NEW i \in 1 .. n PROVE u[i] = t[i]
    <3>1. CASE i = 1
      BY <1>5, <2>2, <3>1
    <3>2. CASE i # 1
      <4>1. i - 1 \in 1 .. (n - 1) /\ (i - 1) + 1 = i
        BY <1>1, <3>2
      <4>2. QED BY <1>6, <2>2, <4>1, Zenon
    <3>3. QED BY <3>1, <3>2
  <2>4. u = t
    BY <1>4, <2>1, <2>2, <2>3
  <2>5. QED BY <2>4 DEF u
<1>8. QED BY <1>7 DEF s, t, g

\* The types the refinement needs.
LEMMA BufferTypes ==
  ASSUME RingInv
  PROVE  /\ buffer \in [Slot -> Cell] /\ head \in Slot /\ len \in 0 .. Cap /\ len \in Nat
         /\ cons.value \in Cell /\ Cap \in Nat
BY ChannelAssumption DEF RingInv, RingTypeOK, Cell

\* Loads return "full" or "empty" or change nothing the queue shows.
LEMMA LoadRefines ==
  ASSUME ~Interleaved, RingInv,
         \/ \E v \in Message : SendLoadLen(v)
         \/ SendLoadHead \/ ReceiveLoadLen \/ ReceiveLoadHead
  PROVE  FifoOfChannel!Next \/ (Queued' = Queued /\ res' = res)
<1>1. /\ UNCHANGED <<buffer, head, len>>
      /\ cons.pc \notin {"advance", "release"} /\ cons'.pc \notin {"advance", "release"}
  BY Zenon DEF SendLoadLen, SendLoadHead, ReceiveLoadLen, ReceiveLoadHead, ProducerRuns, ConsumerRuns,
         RingInv, RingTypeOK
<1>2. Queued' = Queued
  BY <1>1 DEF Queued
<1>3. Queued = Slots(buffer, head, len)
  BY <1>1 DEF Queued, Slots
<1>4. Len(Queued) = len /\ Queued \in Seq(Cell)
  BY <1>3, BufferTypes, SlotsFacts
<1>5. CASE \E v \in Message : SendLoadLen(v)
  <2>1. PICK v \in Message : SendLoadLen(v)
    BY <1>5
  <2>2. CASE len = Cap
    <3>1. res' = <<"full", v>> /\ ~(Len(Queued) < Cap)
      BY <1>4, <2>1, <2>2, BufferTypes DEF SendLoadLen
    <3>2. QED BY <1>2, <3>1 DEF FifoOfChannel!Next, FifoOfChannel!TrySend
  <2>3. CASE len # Cap
    BY <1>2, <2>1, <2>3, Zenon DEF SendLoadLen
  <2>4. QED BY <2>2, <2>3
<1>6. CASE SendLoadHead \/ ReceiveLoadHead
  BY <1>2, <1>6 DEF SendLoadHead, ReceiveLoadHead
<1>7. CASE ReceiveLoadLen
  <2>1. CASE len = 0
    <3>1. res' = <<"empty">> /\ Queued = <<>>
      BY <1>4, <1>7, <2>1 DEF ReceiveLoadLen
    <3>2. QED BY <1>2, <3>1 DEF FifoOfChannel!Next, FifoOfChannel!TryReceive
  <2>2. CASE len # 0
    BY <1>2, <1>7, <2>2 DEF ReceiveLoadLen
  <2>3. QED BY <2>1, <2>2
<1>8. QED BY <1>5, <1>6, <1>7

\* The write of a send changes no queued value.
LEMMA SendWriteRefines ==
  ASSUME RingInv, SendWrite
  PROVE  Queued' = Queued /\ res' = res
<1>1. /\ prod.pc = "write" /\ cons.pc = "idle" /\ UNCHANGED <<head, len, cons, res>>
      /\ SendSlot = Pos(head, len) /\ len \in Slot
      /\ buffer' = [buffer EXCEPT ![Pos(head, len)] = prod.value] /\ prod.value \in Message
  BY SendSlotIs, Zenon DEF SendWrite, ProducerRuns, RingInv, SendInv
<1>2. Queued = Slots(buffer, head, len) /\ Queued' = Slots(buffer', head, len)
  BY <1>1 DEF Queued, Slots
<1>3. /\ buffer' \in [Slot -> Cell] /\ Pos(head, len) \in Slot
      /\ buffer \in [Slot -> Cell] /\ head \in Slot /\ len \in 0 .. Cap /\ len \in Nat
  BY <1>1, BufferTypes, PosFacts DEF Cell
<1>4. ASSUME NEW i \in 1 .. len
      PROVE  buffer'[Pos(head, i - 1)] = buffer[Pos(head, i - 1)]
  <2>1. i - 1 \in Slot /\ i - 1 # len /\ i - 1 \in 0 .. Cap
    BY <1>3, BufferTypes DEF Slot
  <2>2. Pos(head, i - 1) \in Slot /\ Pos(head, i - 1) # Pos(head, len)
    BY <1>1, <1>3, <2>1, PosInjective, PosFacts
  <2>3. QED BY <1>1, <1>3, <2>2
<1> DEFINE s == Slots(buffer, head, len)
           t == Slots(buffer', head, len)
<1>5. /\ s \in Seq(Cell) /\ Len(s) = len
      /\ \A i \in 1 .. len : s[i] = buffer[Pos(head, i - 1)]
  BY <1>3, SlotsFacts
<1>6. /\ t \in Seq(Cell) /\ Len(t) = len
      /\ \A i \in 1 .. len : t[i] = buffer'[Pos(head, i - 1)]
  BY <1>3, SlotsFacts
<1> HIDE DEF s, t
<1>7. s = t
  BY <1>4, <1>5, <1>6
<1>8. QED BY <1>1, <1>2, <1>7 DEF s, t

\* Publishing appends the value.
LEMMA SendPublishRefines ==
  ASSUME RingInv, SendPublish
  PROVE  FifoOfChannel!Next
<1>1. /\ prod.pc = "publish" /\ cons.pc = "idle" /\ UNCHANGED <<buffer, head, cons>>
      /\ len' = len + 1 /\ res' = <<"sent", prod.value>> /\ prod.value \in Message
      /\ buffer[Pos(head, len)] = prod.value /\ len < Cap
  BY DEF SendPublish, ProducerRuns, RingInv, SendInv
<1>2. Queued = Slots(buffer, head, len) /\ Queued' = Slots(buffer, head, len + 1)
  BY <1>1 DEF Queued, Slots
<1>3. len \in 0 .. (Cap - 1)
  <2>1. len \in Nat /\ Cap \in Nat
    BY BufferTypes, Zenon
  <2>2. QED BY <1>1, <2>1
<1>4. Queued' = Append(Queued, prod.value) /\ Len(Queued) < Cap
  BY <1>1, <1>2, <1>3, BufferTypes, SlotsAppend, SlotsFacts, Zenon
<1>5. FifoOfChannel!TrySend(prod.value)
  BY <1>1, <1>4 DEF FifoOfChannel!TrySend
<1>6. QED BY <1>1, <1>5 DEF FifoOfChannel!Next

\* Moving the value out of its slot does not take it off the queue.
LEMMA ReceiveReadRefines ==
  ASSUME RingInv, ReceiveRead
  PROVE  Queued' = Queued /\ res' = res
<1>1. /\ cons.pc = "read" /\ cons'.pc = "advance" /\ len > 0 /\ UNCHANGED <<head, len, res>>
      /\ cons'.value = buffer[head] /\ buffer' = [buffer EXCEPT ![head] = Uninit]
  BY Zenon DEF ReceiveRead, ConsumerRuns, RingInv, RingTypeOK, ReceiveInv
<1>2. /\ Queued = Slots(buffer, head, len)
      /\ Queued' = <<buffer[head]>> \o Slots(buffer', (head + 1) % Cap, len - 1)
  <2>1. Queued = Slots(buffer, head, len)
    BY <1>1 DEF Queued, Slots
  <2>2. Queued' = <<cons'.value>> \o Slots(buffer', (head' + 1) % Cap, len' - 1)
    <3>1. cons'.pc = "advance"
      BY <1>1
    <3>2. QED BY <3>1, Zenon DEF Queued, Slots
  <2>3. QED BY <1>1, <2>1, <2>2
<1>3. /\ buffer \in [Slot -> Cell] /\ buffer' \in [Slot -> Cell] /\ head \in Slot /\ len \in 1 .. Cap
  BY <1>1, BufferTypes, SMTT(30) DEF Cell
<1>4. ASSUME NEW k \in Slot, k # 0
      PROVE  buffer'[Pos(head, k)] = buffer[Pos(head, k)]
  <2>1. k \in 0 .. Cap /\ 0 \in Slot
    BY BufferTypes, <1>3 DEF Slot
  <2>2. Pos(head, k) \in Slot /\ Pos(head, k) # head
    BY <1>3, <1>4, <2>1, PosFacts, PosInjective, PosWraps
  <2>3. QED BY <1>1, <1>3, <2>2
<1>5. <<buffer[head]>> \o Slots(buffer', (head + 1) % Cap, len - 1) = Slots(buffer, head, len)
  BY <1>3, <1>4, SlotsCons, Zenon
<1>6. QED BY <1>1, <1>2, <1>5, Zenon

\* Neither does advancing head.
LEMMA ReceiveAdvanceRefines ==
  ASSUME RingInv, ReceiveAdvance
  PROVE  Queued' = Queued /\ res' = res
<1>1. /\ cons.pc = "advance" /\ cons'.pc = "release" /\ UNCHANGED <<buffer, len, res>>
      /\ cons'.value = cons.value /\ head' = (head + 1) % Cap
  BY DEF ReceiveAdvance, ConsumerRuns, RingInv, RingTypeOK, ReceiveInv
<1>2. QED BY <1>1, Zenon DEF Queued

\* Releasing the slot takes the first value off.
LEMMA ReceiveReleaseRefines ==
  ASSUME RingInv, ReceiveRelease
  PROVE  FifoOfChannel!Next
<1>1. /\ cons.pc = "release" /\ cons'.pc = "idle" /\ len > 0 /\ len' = len - 1
      /\ res' = <<"received", cons.value>> /\ UNCHANGED <<buffer, head>>
  BY DEF ReceiveRelease, ConsumerRuns, RingInv, RingTypeOK, ReceiveInv
<1> DEFINE s == Slots(buffer, head, len - 1)
<1>2. Queued = <<cons.value>> \o s /\ Queued' = s
  BY <1>1, Zenon DEF Queued, Slots
<1>3. s \in Seq(Cell) /\ cons.value \in Cell
  <2>1. len - 1 \in 0 .. Cap
    BY <1>1, BufferTypes
  <2>2. QED BY <2>1, BufferTypes, SlotsFacts
<1> HIDE DEF s
<1>4. /\ <<cons.value>> \o s # <<>> /\ Head(<<cons.value>> \o s) = cons.value
      /\ Tail(<<cons.value>> \o s) = s
  BY <1>3
<1>5. QED BY <1>1, <1>2, <1>4 DEF FifoOfChannel!Next, FifoOfChannel!TryReceive

\* With one call at a time the ring buffer implements the bounded FIFO queue:
\* every result try_send and try_receive return is the queue's, for every
\* capacity and every set of values.
THEOREM ImplementsFifoAlways ==
  ASSUME ~Interleaved
  PROVE  RingSpec => ImplementsFifo
<1>1. RingInit => FifoOfChannel!Init
  BY DEF RingInit, FifoOfChannel!Init, Queued
<1>2. RingInv /\ [RingNext]_ringVars => [FifoOfChannel!Next]_<<Queued, res>>
  <2> SUFFICES ASSUME RingInv, [RingNext]_ringVars
               PROVE  FifoOfChannel!Next \/ (Queued' = Queued /\ res' = res)
    OBVIOUS
  <2>1. CASE UNCHANGED ringVars
    BY <2>1 DEF ringVars, Queued
  <2>2. CASE RingNext
    BY <2>2, LoadRefines, SendWriteRefines, SendPublishRefines, ReceiveReadRefines,
       ReceiveAdvanceRefines, ReceiveReleaseRefines DEF RingNext
  <2>3. QED BY <2>1, <2>2
<1>3. QED
  BY <1>1, <1>2, RingInvAlways, PTL DEF RingSpec, ImplementsFifo, FifoOfChannel!Spec

-----------------------------------------------------------------------------
(* The timer: constants *)

\* The constants' types.
LEMMA Constants ==
  Word \in Nat /\ Word > 1 /\ TickCycles \in Nat /\ TickCycles > 0 /\ MaxTime \in Nat
BY ClintAssumption

-----------------------------------------------------------------------------
(* The timer: words *)

\* A time is put together again from its two words.
LEMMA SplitJoin ==
  ASSUME NEW t \in Nat
  PROVE  Hi(t) \in Nat /\ Lo(t) \in 0 .. (Word - 1) /\ Join(Hi(t), Lo(t)) = t
<1>1. Word \in Nat /\ Word > 0
  BY ClintAssumption
<1>2. t \div Word \in Nat /\ t % Word \in 0 .. (Word - 1)
  BY <1>1
<1>3. t = (t \div Word) * Word + (t % Word)
  BY <1>1
<1> QED
  BY <1>2, <1>3 DEF Hi, Lo, Join

\* The high word of the clock never decreases.
LEMMA HiMonotone ==
  ASSUME NEW t \in Nat, NEW u \in Nat, t <= u
  PROVE  Hi(t) <= Hi(u)
<1> DEFINE a == Hi(t)
           b == Hi(u)
<1>1. a \in Nat /\ b \in Nat /\ Word \in Nat /\ Word > 1
  BY SplitJoin, ClintAssumption
<1>2. a * Word <= t /\ u < (b + 1) * Word
  <2>1. a * Word + Lo(t) = t /\ Lo(t) \in 0 .. (Word - 1)
    BY SplitJoin DEF Join
  <2>2. b * Word + Lo(u) = u /\ Lo(u) \in 0 .. (Word - 1)
    BY SplitJoin DEF Join
  <2> HIDE DEF a, b
  <2>3. (b + 1) * Word = b * Word + Word
    BY <1>1
  <2>4. a * Word \in Nat /\ b * Word \in Nat
    BY <1>1
  <2> QED
    BY <1>1, <2>1, <2>2, <2>3, <2>4
<1> HIDE DEF a, b
<1>3. a * Word < (b + 1) * Word
  BY <1>1, <1>2
<1>4. a < b + 1
  BY <1>1, <1>3
<1> QED
  BY <1>1, <1>4 DEF a, b

\* A comparator whose high word is u32::MAX lies beyond the clock and its
\* deadlines, and the high word of a deadline is a word.
LEMMA BelowMax ==
  ASSUME NEW t \in Nat, t <= MaxTime + TickCycles
  PROVE  /\ Hi(t) \in 0 .. (Word - 1)
         /\ \A l \in Nat : t < Join(Word - 1, l)
<1> DEFINE a == Hi(t)
           w == Word - 1
<1>1. a \in Nat /\ w \in Nat /\ Word \in Nat /\ Word > 1
  BY SplitJoin, ClintAssumption
<1>2. a * Word <= t
  BY SplitJoin, <1>1 DEF Join
<1>3. t < w * Word
  BY ClintAssumption
<1>4. a * Word < w * Word
  BY <1>1, <1>2, <1>3
<1> HIDE DEF a
<1>5. a < w
  BY <1>1, <1>4
<1>6. \A l \in Nat : t < w * Word + l
  BY <1>1, <1>3
<1> QED
  BY <1>1, <1>5, <1>6 DEF a, Join

-----------------------------------------------------------------------------
(* The timer: the inductive invariant *)

Reading == {"hi0", "lo", "hi1"}
Rearmed == {"cmp_max", "cmp_lo", "cmp_hi", "handler", "tasks"}

\* Where a reading of the clock stands, and the comparator after each write.
ReadingInv ==
  /\ readAt <= mtime
  /\ pc = "lo" => hi0 <= Hi(mtime)
  /\ pc = "hi1" => hi0 <= Hi(readAt) /\ lo = Lo(readAt)
  /\ pc = "cmp_max" => seen.last = readAt

ComparatorInv ==
  /\ pc \in {"cmp_lo", "cmp_hi"} => cmpHi = Word - 1
  /\ pc \in {"cmp_hi", "handler", "tasks"} => cmpLo = Lo(next)
  /\ pc \in {"handler", "tasks"} => cmpHi = Hi(next)

\* Where the deadline lies: at most one tick ahead of the clock, n ticks after
\* the start, and far enough from the last two readings.
DeadlineInv ==
  /\ next <= mtime + TickCycles
  /\ pc = "boot" => ticks = 0 /\ ~isr
  /\ ~isr => ticks = 0
  /\ ~late /\ (pc \in Rearmed \/ (pc \in Reading /\ isr)) =>
       next = origin + (ticks + 1) * TickCycles
  /\ ~late /\ pc = "hi1" /\ isr => next > readAt

GapInv ==
  /\ pc \in Rearmed => next > seen.last
  /\ pc \in Rearmed /\ ticks >= 1 => next > seen.before + TickCycles
  /\ pc \in Reading /\ isr => next > seen.last + TickCycles /\ mtime + TickCycles >= next
  /\ pc = "hi1" /\ isr => readAt + TickCycles >= next

TimerInv == TimerTypeOK /\ ReadingInv /\ ComparatorInv /\ DeadlineInv /\ GapInv

\* The invariant holds at reset.
LEMMA TimerInitInv == TimerInit => TimerInv
<1> SUFFICES ASSUME TimerInit PROVE TimerInv
  OBVIOUS
<1>1. TimerTypeOK
  <2>1. cmpHi \in 0 .. (Word - 1) /\ cmpLo \in 0 .. (Word - 1) /\ lo \in 0 .. (Word - 1)
    BY Constants DEF TimerInit
  <2>2. seen \in [before : Nat, last : Nat]
    BY DEF TimerInit
  <2>3. mtime \in 0 .. MaxTime /\ next \in Nat /\ ticks \in Nat /\ hi0 \in Nat
    BY Constants DEF TimerInit
  <2>4. readAt \in Nat /\ origin \in Nat
    BY DEF TimerInit
  <2>5. isr \in BOOLEAN /\ late \in BOOLEAN /\ pc \in Accesses \cup {"boot", "handler", "tasks"}
    BY Zenon DEF TimerInit
  <2> QED
    BY <2>1, <2>2, <2>3, <2>4, <2>5 DEF TimerTypeOK
<1>2. ReadingInv /\ ComparatorInv /\ DeadlineInv /\ GapInv
  BY Constants DEF TimerInit, ReadingInv, ComparatorInv, DeadlineInv, GapInv, Reading, Rearmed
<1> QED
  BY <1>1, <1>2 DEF TimerInv

\* A rearmed comparator interrupts only when the deadline has come, and a
\* raised one does not interrupt at all.
LEMMA PendingIsDue ==
  ASSUME TimerInv
  PROVE  NoSpuriousInterrupt /\ NeverLost
<1>1. mtime \in Nat /\ mtime <= MaxTime /\ next \in Nat /\ cmpLo \in Nat
  BY Constants DEF TimerInv, TimerTypeOK
<1>2. CASE pc \in {"cmp_lo", "cmp_hi"}
  <2>1. cmpHi = Word - 1
    BY <1>2 DEF TimerInv, ComparatorInv
  <2>2. mtime < Join(Word - 1, cmpLo)
    BY <1>1, BelowMax, Constants
  <2>3. ~Pending
    BY <2>1, <2>2, <1>1, Constants DEF Pending, Join
  <2> QED
    BY <1>2, <2>3 DEF NoSpuriousInterrupt, NeverLost
<1>3. CASE pc \in {"handler", "tasks"}
  <2>1. Join(cmpHi, cmpLo) = next
    BY <1>1, <1>3, SplitJoin, SMTT(20) DEF TimerInv, ComparatorInv
  <2> QED
    BY <2>1, <1>1, <1>3 DEF TimerInv, DeadlineInv, NoSpuriousInterrupt, NeverLost, Pending
<1> QED
  BY <1>2, <1>3 DEF NoSpuriousInterrupt, NeverLost

\* Every access of the driver and every advance of the clock preserves it.
LEMMA TimerNextInv == TimerInv /\ [TimerNext]_timerVars => TimerInv'
<1> SUFFICES ASSUME TimerInv, [TimerNext]_timerVars PROVE TimerInv'
  OBVIOUS
<1> USE Constants DEF TimerInv, TimerTypeOK, Accesses, Reading, Rearmed
<1>1. CASE Advance
  <2>1. PICK t \in (mtime + 1) .. MaxTime : mtime' = t
    BY <1>1 DEF Advance
  <2>2. TimerTypeOK'
    BY <1>1, <2>1 DEF Advance
  <2>3. mtime \in Nat /\ t \in Nat /\ mtime < t /\ t <= MaxTime
    BY <2>1
  <2>4. Hi(mtime) <= Hi(t) /\ Hi(mtime) \in Nat /\ Hi(t) \in Nat
    BY <2>3, HiMonotone, SplitJoin
  <2>5. ReadingInv'
    <3>1. readAt \in Nat /\ hi0 \in Nat
      BY Zenon
    <3>2. readAt <= mtime => readAt <= t
      BY <2>3, <3>1
    <3>3. hi0 <= Hi(mtime) => hi0 <= Hi(t)
      BY <2>4, <3>1
    <3> QED
      BY <1>1, <2>1, <3>2, <3>3, Zenon DEF Advance, ReadingInv
  <2>6. ComparatorInv'
    BY <1>1 DEF Advance, ComparatorInv
  <2>7. next <= mtime + TickCycles => next <= t + TickCycles
    <3>1. next \in Nat /\ TickCycles \in Nat
      BY Zenon
    <3> QED
      BY <2>3, <3>1
  <2>8. mtime + TickCycles >= next => t + TickCycles >= next
    <3>1. next \in Nat /\ TickCycles \in Nat
      BY Zenon
    <3> QED
      BY <2>3, <3>1
  <2>9. DeadlineInv'
    BY <1>1, <2>1, <2>7, Zenon DEF Advance, DeadlineInv
  <2>10. GapInv'
    BY <1>1, <2>1, <2>8, Zenon DEF Advance, GapInv
  <2> QED
    BY <2>2, <2>5, <2>6, <2>9, <2>10
<1>2. CASE StartTicks
  <2>1. TimerTypeOK'
    BY <1>2, Zenon DEF StartTicks
  <2>2. ReadingInv' /\ ComparatorInv'
    BY <1>2, SMTT(20), ZenonT(20) DEF StartTicks, ReadingInv, ComparatorInv
  <2>3. DeadlineInv' /\ GapInv'
    BY <1>2 DEF StartTicks, DeadlineInv, GapInv
  <2> QED
    BY <2>1, <2>2, <2>3
<1>3. CASE TimerIsr
  <2>1. TimerTypeOK'
    BY <1>3 DEF TimerIsr
  <2>2. mtime >= next
    BY <1>3, PendingIsDue DEF TimerIsr, NoSpuriousInterrupt
  <2>3. ReadingInv' /\ ComparatorInv'
    BY <1>3 DEF TimerIsr, ReadingInv, ComparatorInv
  <2>4. DeadlineInv'
    <3>1. (ticks + 1 + 1) * TickCycles = (ticks + 1) * TickCycles + TickCycles
      OBVIOUS
    <3> QED
      BY <1>3, <2>2, <3>1 DEF TimerIsr, DeadlineInv
  <2>5. GapInv'
    BY <1>3, <2>2 DEF TimerIsr, GapInv
  <2> QED
    BY <2>1, <2>3, <2>4, <2>5
<1>4. CASE ReadHi0
  <2>1. Hi(mtime) \in Nat
    BY SplitJoin
  <2>2. TimerTypeOK'
    BY <1>4, <2>1 DEF ReadHi0
  <2>3. ReadingInv' /\ ComparatorInv'
    BY <1>4, <2>1, SMTT(20), ZenonT(20) DEF ReadHi0, ReadingInv, ComparatorInv
  <2>4. DeadlineInv' /\ GapInv'
    BY <1>4 DEF ReadHi0, DeadlineInv, GapInv
  <2> QED
    BY <2>2, <2>3, <2>4
<1>5. CASE ReadLo
  <2>1. Lo(mtime) \in 0 .. (Word - 1)
    BY SplitJoin
  <2>2. TimerTypeOK'
    BY <1>5, <2>1 DEF ReadLo
  <2>3. ReadingInv' /\ ComparatorInv'
    BY <1>5 DEF ReadLo, ReadingInv, ComparatorInv
  <2>4. DeadlineInv'
    BY <1>5 DEF ReadLo, DeadlineInv
  <2>5. GapInv'
    BY <1>5, SMTT(20), ZenonT(20) DEF ReadLo, GapInv
  <2> QED
    BY <2>2, <2>3, <2>4, <2>5
<1>6. CASE ReadHi1
  <2>1. CASE Hi(mtime) # hi0
    <3>1. TimerTypeOK'
      BY <1>6, <2>1 DEF ReadHi1, Returns
    <3>2. ReadingInv' /\ ComparatorInv'
      BY <1>6, <2>1, SMTT(20), ZenonT(20) DEF ReadHi1, Returns, ReadingInv, ComparatorInv
    <3>3. DeadlineInv' /\ GapInv'
      BY <1>6, <2>1 DEF ReadHi1, Returns, DeadlineInv, GapInv
    <3> QED
      BY <3>1, <3>2, <3>3
  <2>2. CASE Hi(mtime) = hi0
    <3>1. pc = "hi1" /\ readAt \in Nat /\ mtime \in Nat /\ readAt <= mtime
      BY <1>6 DEF ReadHi1, ReadingInv
    <3>2. Hi(readAt) = hi0 /\ lo = Lo(readAt)
      <4>1. hi0 \in Nat /\ hi0 <= Hi(readAt) /\ lo = Lo(readAt)
        BY <3>1, Zenon DEF ReadingInv
      <4>2. Hi(readAt) <= hi0 /\ Hi(readAt) \in Nat
        BY <2>2, <3>1, HiMonotone, SplitJoin, Zenon
      <4> QED
        BY <4>1, <4>2
    <3>3. Join(hi0, lo) = readAt
      BY <3>1, <3>2, SplitJoin
    <3>4. Returns(readAt) /\ UNCHANGED <<mtime, cmpHi, cmpLo, ticks, isr, hi0, lo, readAt, late>>
      BY <1>6, <2>2, <3>3 DEF ReadHi1
    <3>5. next' = Deadline(readAt) /\ Deadline(readAt) \in Nat
      BY <3>4, <3>1 DEF Returns, Deadline
    <3>6. seen' = [before |-> seen.last, last |-> readAt] /\ seen.last \in Nat
      BY <3>4 DEF Returns
    <3>7. pc' = "cmp_max" /\ origin' = IF isr THEN origin ELSE readAt
      BY <3>4 DEF Returns
    <3>8. TimerTypeOK'
      BY <3>1, <3>4, <3>5, <3>6, <3>7, SMTT(20), ZenonT(20)
    <3>9. ReadingInv' /\ ComparatorInv'
      BY <3>1, <3>4, <3>6, <3>7, SMTT(20), ZenonT(20) DEF ReadingInv, ComparatorInv
    <3>10. DeadlineInv'
      <4>1. /\ next \in Nat /\ TickCycles \in Nat /\ next <= mtime + TickCycles
            /\ ~isr => ticks = 0
            /\ ~late /\ isr => next = origin + (ticks + 1) * TickCycles /\ next > readAt
        BY <3>1, Zenon DEF DeadlineInv
      <4>2. next' = IF isr /\ next > readAt THEN next ELSE readAt + TickCycles
        BY <3>5, Zenon DEF Deadline
      <4>3. next' <= mtime + TickCycles
        BY <3>1, <4>1, <4>2
      <4>4. ~late => next' = origin' + (ticks + 1) * TickCycles
        <5>1. CASE isr
          BY <3>7, <4>1, <4>2, <5>1, Zenon
        <5>2. CASE ~isr
          <6>1. ticks = 0 /\ next' = readAt + TickCycles /\ origin' = readAt
            BY <3>7, <4>1, <4>2, <5>2, Zenon
          <6>2. (0 + 1) * TickCycles = TickCycles
            BY <4>1
          <6> QED
            BY <6>1, <6>2, Zenon
        <5> QED
          BY <5>1, <5>2, Zenon
      <4>5. mtime' = mtime /\ ticks' = ticks /\ isr' = isr /\ late' = late /\ pc' = "cmp_max"
        BY <3>4, <3>7, Zenon
      <4> QED
        BY <4>1, <4>3, <4>4, <4>5 DEF DeadlineInv
    <3>11. GapInv'
      <4>1. /\ next \in Nat /\ TickCycles \in Nat /\ TickCycles > 0 /\ ticks \in Nat
            /\ ~isr => ticks = 0
            /\ isr => next > seen.last + TickCycles
        BY <3>1, Zenon DEF DeadlineInv, GapInv
      <4>2. next' = IF isr /\ next > readAt THEN next ELSE readAt + TickCycles
        BY <3>5, Zenon DEF Deadline
      <4>3. next' > readAt /\ (ticks >= 1 => next' > seen.last + TickCycles)
        BY <3>1, <3>6, <4>1, <4>2
      <4>4. /\ seen'.last = readAt /\ seen'.before = seen.last
            /\ ticks' = ticks /\ pc' = "cmp_max"
        BY <3>4, <3>6, <3>7
      <4> QED
        BY <4>3, <4>4 DEF GapInv
    <3> QED
      BY <3>8, <3>9, <3>10, <3>11
  <2> QED
    BY <2>1, <2>2, SMTT(20), ZenonT(20)
<1>7. CASE WriteMax
  <2>1. TimerTypeOK'
    BY <1>7, SMTT(20), ZenonT(20) DEF WriteMax
  <2>2. ReadingInv' /\ ComparatorInv'
    BY <1>7, SMTT(20), ZenonT(20) DEF WriteMax, ReadingInv, ComparatorInv
  <2>3. DeadlineInv' /\ GapInv'
    BY <1>7 DEF WriteMax, DeadlineInv, GapInv
  <2> QED
    BY <2>1, <2>2, <2>3
<1>8. CASE WriteLo
  <2>1. Lo(next) \in 0 .. (Word - 1)
    BY SplitJoin
  <2>2. TimerTypeOK'
    BY <1>8, <2>1, SMTT(20), ZenonT(20) DEF WriteLo
  <2>3. ReadingInv' /\ ComparatorInv'
    BY <1>8, SMTT(20), ZenonT(20) DEF WriteLo, ReadingInv, ComparatorInv
  <2>4. DeadlineInv' /\ GapInv'
    BY <1>8 DEF WriteLo, DeadlineInv, GapInv
  <2> QED
    BY <2>2, <2>3, <2>4
<1>9. CASE WriteHi
  <2>1. next \in Nat /\ next <= MaxTime + TickCycles
    BY DEF DeadlineInv
  <2>2. Hi(next) \in 0 .. (Word - 1)
    BY <2>1, BelowMax
  <2>3. TimerTypeOK'
    BY <1>9, <2>2 DEF WriteHi
  <2>4. ReadingInv' /\ ComparatorInv'
    BY <1>9, SMTT(20), ZenonT(20) DEF WriteHi, ReadingInv, ComparatorInv
  <2>5. DeadlineInv' /\ GapInv'
    BY <1>9 DEF WriteHi, DeadlineInv, GapInv
  <2> QED
    BY <2>3, <2>4, <2>5
<1>10. CASE ReturnToTasks
  <2>1. TimerTypeOK'
    BY <1>10 DEF ReturnToTasks
  <2>2. ReadingInv' /\ ComparatorInv'
    BY <1>10, SMTT(20), ZenonT(20) DEF ReturnToTasks, ReadingInv, ComparatorInv
  <2>3. DeadlineInv' /\ GapInv'
    BY <1>10 DEF ReturnToTasks, DeadlineInv, GapInv
  <2> QED
    BY <2>1, <2>2, <2>3
<1>11. CASE UNCHANGED timerVars
  <2>1. /\ mtime' = mtime /\ cmpHi' = cmpHi /\ cmpLo' = cmpLo /\ next' = next /\ ticks' = ticks
        /\ pc' = pc /\ isr' = isr /\ hi0' = hi0 /\ lo' = lo /\ readAt' = readAt
        /\ origin' = origin /\ late' = late /\ seen' = seen
    BY <1>11, Zenon DEF timerVars
  <2>2. TimerTypeOK'
    BY <2>1, Zenon
  <2>3. ReadingInv'
    BY <2>1, Zenon DEF ReadingInv
  <2>4. ComparatorInv'
    BY <2>1, Zenon DEF ComparatorInv
  <2>5. DeadlineInv'
    BY <2>1, Zenon DEF DeadlineInv
  <2>6. GapInv'
    BY <2>1, Zenon DEF GapInv
  <2> QED
    BY <2>2, <2>3, <2>4, <2>5, <2>6, Zenon
<1> QED
  BY <1>1, <1>2, <1>3, <1>4, <1>5, <1>6, <1>7, <1>8, <1>9, <1>10, <1>11 DEF TimerNext, Step, Stopped

-----------------------------------------------------------------------------
(* The timer: the theorems *)

\* The inductive invariant of the driver: what each access has established.
THEOREM TimerInvAlways == TimerSpec => []TimerInv
<1>1. TimerInv /\ [TimerNext]_timerVars => TimerInv'
  BY TimerNextInv
<1> QED
  BY TimerInitInv, <1>1, PTL DEF TimerSpec

\* get_mtime never returns a torn reading.
THEOREM MtimeReadIsExactAlways == TimerSpec => []MtimeReadIsExact
<1>1. TimerInv => MtimeReadIsExact
  BY DEF TimerInv, ReadingInv, MtimeReadIsExact
<1> QED
  BY TimerInvAlways, <1>1, PTL

\* The loop of get_mtime goes round only as often as the clock carries.
THEOREM RetryNeedsCarryAlways == TimerSpec => RetryNeedsCarry
<1> DEFINE A == pc = "hi1" /\ pc' \notin {"hi1", "cmp_max"} => pc' = "hi0" /\ hi0 < Hi(mtime)
<1>1. TimerInv /\ [TimerNext]_timerVars => [A]_timerVars
  <2> SUFFICES ASSUME TimerInv, TimerNext, pc = "hi1", pc' \notin {"hi1", "cmp_max"}
               PROVE  pc' = "hi0" /\ hi0 < Hi(mtime)
    OBVIOUS
  <2>1. ReadHi1
    BY Zenon DEF TimerNext, Step, StartTicks, TimerIsr, ReadHi0, ReadLo, WriteMax, WriteLo, WriteHi,
                 ReturnToTasks, Advance, Stopped, timerVars
  <2>2. pc' = "hi0" /\ Hi(mtime) # hi0
    BY <2>1, Zenon DEF ReadHi1, Returns
  <2>3. mtime \in Nat /\ readAt \in Nat /\ readAt <= mtime /\ hi0 \in Nat /\ hi0 <= Hi(readAt)
    BY ClintAssumption DEF TimerInv, TimerTypeOK, ReadingInv
  <2>4. Hi(readAt) <= Hi(mtime) /\ Hi(readAt) \in Nat /\ Hi(mtime) \in Nat
    BY <2>3, HiMonotone, SplitJoin
  <2> QED
    BY <2>2, <2>3, <2>4
<1>2. TimerSpec => [][A]_timerVars
  BY <1>1, TimerInvAlways, PTL DEF TimerSpec
<1> QED
  BY <1>2 DEF RetryNeedsCarry

\* Neither the three writes of set_mtimecmp nor what follows them raise an
\* interrupt before the deadline.
THEOREM NoSpuriousInterruptAlways == TimerSpec => []NoSpuriousInterrupt
<1>1. TimerInv => NoSpuriousInterrupt
  BY PendingIsDue
<1> QED
  BY TimerInvAlways, <1>1, PTL

\* The comparator is never left more than one tick ahead of the clock.
THEOREM NeverLostAlways == TimerSpec => []NeverLost
<1>1. TimerInv => NeverLost
  BY PendingIsDue
<1> QED
  BY TimerInvAlways, <1>1, PTL

\* Handling time does not add up: the deadlines stay on the grid.
THEOREM NoDriftAlways == TimerSpec => []NoDrift
<1>1. TimerInv => NoDrift
  <2>1. ASSUME TimerInv, pc \notin {"boot", "hi0", "lo", "hi1"} PROVE pc \in Rearmed
    BY <2>1 DEF TimerInv, TimerTypeOK, Accesses, Rearmed
  <2> QED
    BY <2>1 DEF TimerInv, DeadlineInv, NoDrift
<1> QED
  BY TimerInvAlways, <1>1, PTL

\* A handler that fell behind does not make up for it with a burst.
THEOREM NoBurstAlways == TimerSpec => NoBurst
<1>1. TimerInv /\ [TimerNext]_timerVars => [ticks' # ticks /\ ticks >= 1 => mtime > seen.before + TickCycles]_timerVars
  <2> SUFFICES ASSUME TimerInv, TimerNext, ticks' # ticks, ticks >= 1
               PROVE  mtime > seen.before + TickCycles
    BY SMTT(20)
  <2>1. TimerIsr
    BY Zenon DEF TimerNext, Step, Stopped, timerVars, StartTicks, ReadHi0, ReadLo, ReadHi1, WriteMax, WriteLo,
           WriteHi, ReturnToTasks, Advance
  <2>2. mtime >= next
    BY <2>1, PendingIsDue DEF TimerIsr, NoSpuriousInterrupt
  <2>3. next > seen.before + TickCycles
    BY <2>1 DEF TimerIsr, TimerInv, GapInv, Rearmed
  <2> QED
    BY <2>2, <2>3, Constants DEF TimerInv, TimerTypeOK
<1> QED
  BY TimerInvAlways, <1>1, PTL DEF TimerSpec, NoBurst

=============================================================================
