------------------------------- MODULE Switch -------------------------------
(***************************************************************************)
(* A context switch with memory isolation (feature "pmp"): the trap path   *)
(* of module Context and the PMP of module Memory.  mark_running makes     *)
(* both the switch of tasks and the call of activate_task_region, whose    *)
(* CSR writes end before the handler returns the frame to resume.          *)
(***************************************************************************)
EXTENDS Context

CONSTANTS AddrSpace, Layouts, Flash

VARIABLES layout, csr, pmp

\* CURRENT_TASK_IDX is the task whose region mark_running activates.
Pmp == INSTANCE Memory WITH running <- current

\* check_region_placement let the tasks pass; OML regions are word-aligned,
\* the granularity of pmpaddr, and no larger than the sizes considered.
ASSUME MemoryAssumption ==
  /\ AddrSpace \in Nat /\ Pmp!IsRange(Flash)
  /\ \A ls \in Layouts, t \in Task : LET l == ls[t] IN
       /\ Pmp!IsRange(l.region) /\ Pmp!IsRange(l.stack) /\ l.user \in BOOLEAN
       /\ l.user => /\ l.stack.start >= l.region.start /\ l.stack.end <= l.region.end
                    /\ l.region.start % 4 = 0 /\ l.region.end % 4 = 0
                    /\ l.region.end - l.region.start <= 2 ^ 29

switchVars == <<cpuVars, layout, csr, pmp>>

\* Each frame has the privilege mode of its task's descriptor.
SwitchInit ==
  /\ Pmp!MemoryInit
  /\ CpuInit
  /\ \A t \in Task : (frame[t].mpp = "U") <=> layout[t].user

Dispatch(t) == SwitchTo(t) /\ Pmp!MarkRunning(t)

Activate ==
  /\ Pmp!ActivateTaskRegion
  /\ UNCHANGED <<at, regs, addr, mode, mscratch, mepc, mcause, mpp, frame, stackPtr>>

\* Every other step of the hart comes after the CSR writes.
TrapPath(step) == csr = "done" /\ step /\ UNCHANGED <<layout, csr, pmp>>

SwitchNext ==
  \/ Activate
  \/ \E t \in Task : Dispatch(t)
  \/ TrapPath(Compute)
  \/ \E cause \in Causes : TrapPath(Trap(cause))
  \/ TrapPath(EntryStub)
  \/ TrapPath(Handler)
  \/ TrapPath(ExitStub)
  \/ TrapPath(Halted)

SwitchSpec == SwitchInit /\ [][SwitchNext]_switchVars

-----------------------------------------------------------------------------
(* Properties *)

\* A task in U-mode can access exactly the bytes of its own region, whether
\* the encoding is NAPOT or TOR; while a machine-mode task executes, or one
\* with an empty or inverted region, the entries grant nothing.
GrantIsExact ==
  at = "task" => Pmp!Granted = IF mode = "U" THEN Pmp!Bytes(layout[current].region) ELSE {}

\* "no transient TOR/NAPOT combination of old and new addresses is ever live":
\* between the CSR writes nothing but one task's own region is granted.
NoTransientGrant ==
  Pmp!Granted = {} \/ \E t \in Task : layout[t].user /\ Pmp!Granted = Pmp!Bytes(layout[t].region)

\* A buffer the kernel accepts from a user task's system call holds only bytes
\* that task could access itself, and no buffer inside its region is refused;
\* a buffer that would wrap around the address space is refused.
AcceptedBuffersAreOwn ==
  at = "handler" /\ mcause = "ecall" /\ mpp = "U" =>
    \A ptr \in 0 .. (AddrSpace - 1), len \in 0 .. (AddrSpace - 1) :
      LET l == layout[current]
          wanted == {(ptr + i) % AddrSpace : i \in 0 .. (len - 1)}
      IN  /\ Pmp!BufferReadable(ptr, len, Pmp!WritableRanges(l)) <=> wanted \subseteq Pmp!Granted
          /\ Pmp!BufferReadable(ptr, len, Pmp!ReadableRanges(l)) =>
               wanted \subseteq Pmp!Granted \cup Pmp!Bytes(Flash)

=============================================================================
