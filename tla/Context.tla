------------------------------ MODULE Context ------------------------------
(***************************************************************************)
(* The trap path: the assembly stub of context/trap.rs that saves and      *)
(* restores the registers, a few instructions per step, and the handler    *)
(* between its halves, which returns the frame to resume.  Traps do not    *)
(* nest: interrupts are disabled from the trap to mret.                    *)
(* The registers are sp, which the stub borrows for the kernel stack, t0,  *)
(* its scratch register, a0, which passes the frame to and from            *)
(* trap_handler, and "rest" for all others.                                *)
(***************************************************************************)
EXTENDS Integers

CONSTANTS
  Task,     \* registered tasks
  Value,    \* the values of registers
  Contents, \* the register files each task's instructions may produce
  Places,   \* 2^30, the number of instruction addresses
  Result,   \* what a system call may return
  Entries   \* the frames init_frame may build

GPR == {"sp", "t0", "a0", "rest"}

ASSUME ContextAssumption ==
  /\ Places \in Nat \ {0}
  /\ Contents \in [Task -> SUBSET [GPR -> Value]]
  /\ Result \subseteq Value
  /\ Entries \subseteq
       [Task -> [gpr : [GPR -> Value], addr : 0 .. (Places - 1), mode : {"U", "M"}]]

\* An address on a task's kernel stack, counted in trap frames from its top.
\* Other places are told apart only from these.
StackTop(t) == <<"kernel_stack", t, 0>>
FrameAddr(t) == <<"kernel_stack", t, -1>>
Offset(a, n) == <<a[1], a[2], a[3] + n>>
BootStackTop == <<"boot_trap_stack">>
Scratch == <<"scratch">>

VARIABLES
  at,       \* the next part of the stub; "task" while a task executes
  regs,     \* the registers of the hart
  addr,     \* the program counter, while a task executes
  mode,     \* the privilege mode of the hart
  mscratch, mepc, mcause,
  mpp,      \* mstatus.MPP; MPIE is always set
  frame,    \* the trap frame at the top of each kernel stack
  stackPtr, \* stack_ptr of each task: its saved frame
  current   \* CURRENT_TASK_IDX

cpuVars == <<at, regs, addr, mode, mscratch, mepc, mcause, mpp, frame, stackPtr, current>>

\* prepare_frames has built every frame with init_frame; start_first_task
\* enters the restore path with first_frame() in a0.
CpuInit ==
  /\ at = "restore"
  /\ \E e \in Entries :
       frame = [t \in Task |-> [gpr |-> e[t].gpr, mepc |-> e[t].addr, mpp |-> e[t].mode]]
  /\ stackPtr = [t \in Task |-> FrameAddr(t)]
  /\ current \in Task
  /\ regs = [[r \in GPR |-> Scratch] EXCEPT !["a0"] = stackPtr[current]]
  /\ mscratch = BootStackTop
  /\ addr = 0 /\ mepc = 0 /\ mcause = "none" /\ mode = "M" /\ mpp = "M"

\* The frame at address a.
At(a) == CHOOSE t \in Task : FrameAddr(t) = a

-----------------------------------------------------------------------------
(* A task executes *)

Compute ==
  /\ at = "task"
  /\ regs' \in Contents[current]
  /\ addr' \in 0 .. (Places - 1)
  /\ UNCHANGED <<at, mode, mscratch, mepc, mcause, mpp, frame, stackPtr, current>>

\* The hardware takes a trap to M-mode.
Trap(cause) ==
  /\ at = "task"
  /\ mepc' = addr /\ mcause' = cause
  /\ mpp' = mode /\ mode' = "M"
  /\ at' = "swap"
  /\ UNCHANGED <<regs, addr, mscratch, frame, stackPtr, current>>

-----------------------------------------------------------------------------
(* __trap_entry *)

\* csrrw sp, mscratch, sp
SwapSp ==
  /\ at = "swap"
  /\ regs' = [regs EXCEPT !["sp"] = mscratch]
  /\ mscratch' = regs["sp"]
  /\ at' = "alloc"
  /\ UNCHANGED <<addr, mode, mepc, mcause, mpp, frame, stackPtr, current>>

\* addi sp, sp, -144
AllocFrame ==
  /\ at = "alloc"
  /\ regs' = [regs EXCEPT !["sp"] = Offset(regs["sp"], -1)]
  /\ at' = "save"
  /\ UNCHANGED <<addr, mode, mscratch, mepc, mcause, mpp, frame, stackPtr, current>>

\* Faulty variant: t0 is used for the interrupted sp before it is saved.
SaveGprsLate ==
  /\ at = "save"
  /\ frame' = [frame EXCEPT ![At(regs["sp"])].gpr =
                 [r \in GPR |-> IF r = "sp" THEN @["sp"] ELSE
                                IF r = "t0" THEN mscratch ELSE regs[r]]]
  /\ at' = "save_sp"
  /\ UNCHANGED <<regs, addr, mode, mscratch, mepc, mcause, mpp, stackPtr, current>>

SaveGprs ==
  /\ at = "save"
  /\ frame' = [frame EXCEPT ![At(regs["sp"])].gpr =
                 [r \in GPR |-> IF r = "sp" THEN @["sp"] ELSE regs[r]]]
  /\ at' = "save_sp"
  /\ UNCHANGED <<regs, addr, mode, mscratch, mepc, mcause, mpp, stackPtr, current>>

\* The interrupted sp, by way of t0.
SaveSp ==
  /\ at = "save_sp"
  /\ frame' = [frame EXCEPT ![At(regs["sp"])].gpr["sp"] = mscratch]
  /\ regs' = [regs EXCEPT !["t0"] = mscratch]
  /\ at' = "save_csrs"
  /\ UNCHANGED <<addr, mode, mscratch, mepc, mcause, mpp, stackPtr, current>>

\* mepc and mstatus (mcause and mtval, too), by way of t0; then the frame
\* becomes the argument of trap_handler.
SaveCsrs ==
  /\ at = "save_csrs"
  /\ frame' = [frame EXCEPT ![At(regs["sp"])].mepc = mepc, ![At(regs["sp"])].mpp = mpp]
  /\ regs' = [regs EXCEPT !["t0"] = Scratch, !["a0"] = regs["sp"]]
  /\ at' = "handler"
  /\ UNCHANGED <<addr, mode, mscratch, mepc, mcause, mpp, stackPtr, current>>

-----------------------------------------------------------------------------
(* trap_handler returns its argument, the frame of the interrupted task, or *)
(* dispatches; which task is next is the matter of module Kernel.           *)

HandlerGoesTo(next) ==
  /\ at = "handler"
  /\ at' \in next
  /\ UNCHANGED <<regs, addr, mode, mscratch, mepc, mcause, mpp, stackPtr, current>>

TimerInterrupt == mcause = "timer" /\ HandlerGoesTo({"restore", "dispatch"}) /\ UNCHANGED frame

UnhandledInterrupt == mcause = "other" /\ HandlerGoesTo({"restore"}) /\ UNCHANGED frame

Caller == At(regs["a0"])

\* mepc += 4, and the result in a0
EcallReturns ==
  /\ mcause = "ecall" /\ HandlerGoesTo({"restore", "dispatch"})
  /\ \E v \in Result :
       frame' = [frame EXCEPT ![Caller].gpr["a0"] = v, ![Caller].mepc = (@ + 1) % Places]

\* mepc += 4 and, in block_and_restart, mepc -= 4
EcallBlocks ==
  /\ mcause = "ecall" /\ HandlerGoesTo({"dispatch_other"})
  /\ frame' = [frame EXCEPT ![Caller].mepc = (((@ + 1) % Places) - 1) % Places]

\* save_current; then dispatch_next: mark_running and frame_of.  A task that
\* yields or is preempted was requeued and may be picked again.
SwitchTo(t) ==
  /\ at = "dispatch" \/ (at = "dispatch_other" /\ t # current)
  /\ stackPtr' = [stackPtr EXCEPT ![current] = regs["a0"]]
  /\ current' = t
  /\ regs' = [regs EXCEPT !["t0"] = Scratch, !["a0"] = stackPtr'[t]]
  /\ at' = "restore"
  /\ UNCHANGED <<addr, mode, mscratch, mepc, mcause, mpp, frame>>

FaultAndHalt == mcause = "fault" /\ HandlerGoesTo({"halted"}) /\ UNCHANGED frame

-----------------------------------------------------------------------------
(* __restore_context *)

\* mv sp, a0
RestoreSp ==
  /\ at = "restore"
  /\ regs' = [regs EXCEPT !["sp"] = regs["a0"]]
  /\ at' = "scratch"
  /\ UNCHANGED <<addr, mode, mscratch, mepc, mcause, mpp, frame, stackPtr, current>>

\* Faulty variant: the kernel stack of the interrupted task stays in place.
ParkInterruptedStack ==
  /\ at = "scratch"
  /\ regs' = [regs EXCEPT !["t0"] = Offset(regs["sp"], 1)]
  /\ mscratch' = IF mscratch = BootStackTop THEN regs'["t0"] ELSE mscratch
  /\ at' = "load_csrs"
  /\ UNCHANGED <<addr, mode, mepc, mcause, mpp, frame, stackPtr, current>>

\* addi t0, sp, 144; csrw mscratch, t0
ParkKernelStack ==
  /\ at = "scratch"
  /\ regs' = [regs EXCEPT !["t0"] = Offset(regs["sp"], 1)]
  /\ mscratch' = regs'["t0"]
  /\ at' = "load_csrs"
  /\ UNCHANGED <<addr, mode, mepc, mcause, mpp, frame, stackPtr, current>>

LoadCsrs ==
  /\ at = "load_csrs"
  /\ mepc' = frame[At(regs["sp"])].mepc
  /\ mpp' = frame[At(regs["sp"])].mpp
  /\ regs' = [regs EXCEPT !["t0"] = Scratch]
  /\ at' = "load"
  /\ UNCHANGED <<addr, mode, mscratch, mcause, frame, stackPtr, current>>

LoadGprs ==
  /\ at = "load"
  /\ regs' = [r \in GPR |-> IF r = "sp" THEN regs["sp"] ELSE frame[At(regs["sp"])].gpr[r]]
  /\ at' = "load_sp"
  /\ UNCHANGED <<addr, mode, mscratch, mepc, mcause, mpp, frame, stackPtr, current>>

LoadSp ==
  /\ at = "load_sp"
  /\ regs' = [regs EXCEPT !["sp"] = frame[At(regs["sp"])].gpr["sp"]]
  /\ at' = "mret"
  /\ UNCHANGED <<addr, mode, mscratch, mepc, mcause, mpp, frame, stackPtr, current>>

Mret ==
  /\ at = "mret"
  /\ addr' = mepc /\ mode' = mpp
  /\ at' = "task"
  /\ UNCHANGED <<regs, mscratch, mepc, mcause, mpp, frame, stackPtr, current>>

-----------------------------------------------------------------------------
Causes == {"timer", "other", "ecall", "fault"}

EntryStub == SwapSp \/ AllocFrame \/ SaveGprs \/ SaveSp \/ SaveCsrs
Handler == TimerInterrupt \/ UnhandledInterrupt \/ EcallReturns \/ EcallBlocks \/ FaultAndHalt
ExitStub == RestoreSp \/ ParkKernelStack \/ LoadCsrs \/ LoadGprs \/ LoadSp \/ Mret

Halted == at = "halted" /\ UNCHANGED cpuVars

CpuNext ==
  \/ Compute
  \/ \E cause \in Causes : Trap(cause)
  \/ EntryStub
  \/ Handler \/ \E t \in Task : SwitchTo(t)
  \/ ExitStub
  \/ Halted

-----------------------------------------------------------------------------
(* Where the registers of each task are: the refinement mapping *)

\* The registers other than sp, sp, and the CSRs of the current task have
\* been stored in its frame.
Stored == {"handler", "dispatch", "dispatch_other", "restore", "scratch", "load_csrs", "load", "load_sp",
           "mret", "halted"}

GprOf(t) ==
  IF t # current \/ at \in Stored \cup {"save_csrs"} THEN frame[t].gpr
  ELSE IF at \in {"task", "swap"} THEN regs
  ELSE IF at = "save_sp" THEN [frame[t].gpr EXCEPT !["sp"] = mscratch]
  ELSE [regs EXCEPT !["sp"] = mscratch]

CpuOf(t) ==
  [gpr  |-> GprOf(t),
   addr |-> IF t # current \/ at \in Stored THEN frame[t].mepc
            ELSE IF at = "task" THEN addr ELSE mepc,
   mode |-> IF t # current \/ at \in Stored THEN frame[t].mpp
            ELSE IF at = "task" THEN mode ELSE mpp]

Virtual == INSTANCE VirtualCpus WITH cpu <- [t \in Task |-> CpuOf(t)], running <- current

\* Every trap is invisible to the tasks but for the result of a system call:
\* each resumes with its own registers, address and privilege mode, as if it
\* had a processor of its own (__trap_entry, trap_handler, __restore_context).
TrapsAreTransparent == Virtual!Spec

\* "Every frame sits exactly 144 bytes below its task's kernel stack top":
\* while a task executes, mscratch holds the top of that task's kernel stack,
\* and every saved frame is at the top of its own task's.
KernelStackReady ==
  /\ at = "task" => mscratch = StackTop(current)
  /\ \A t \in Task : stackPtr[t] = FrameAddr(t)

=============================================================================
