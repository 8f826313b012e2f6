------------------------------- MODULE Memory -------------------------------
(***************************************************************************)
(* Memory isolation (feature "pmp"): the PMP entries that grant the        *)
(* running task its region, rewritten CSR by CSR on every switch, and the  *)
(* checks the kernel makes before it touches a buffer on a task's behalf.  *)
(* Addresses are bytes; an address is a usize that wraps at AddrSpace.     *)
(* Entry 0, which grants the flash image, is constant after configure_pmp. *)
(***************************************************************************)
EXTENDS Integers, FiniteSets

CONSTANTS
  AddrSpace, \* 2^32
  Task,      \* registered tasks
  Layouts,   \* the memory layouts of the tasks that are considered
  Flash      \* the flash image, a range

\* Half-open ranges, as in TaskDescriptor.
IsRange(r) == r.start \in 0 .. (AddrSpace - 1) /\ r.end \in 0 .. (AddrSpace - 1)

Bytes(r) == r.start .. (r.end - 1)

VARIABLES
  layout,  \* memory_start/_end, stack_base/_size and mode of each task
  running, \* the task that is dispatched
  csr,     \* the next CSR write of activate_task_region, or "done"
  pmp      \* entries 1 and 2: addr_lo, addr_hi and the mode of each

-----------------------------------------------------------------------------
(* Encoding *)

\* Region sizes up to 2^29 are considered.
Exponent == 0 .. 29
PowersOfTwo == {2 ^ k : k \in Exponent}

IsNapot(r) ==
  LET size == r.end - r.start
  IN  size >= 8 /\ size \in PowersOfTwo /\ r.start % size = 0

\* Faulty variant: the whole size is encoded instead of half of it.
NapotAddrDouble(r) == (r.start + ((r.end - r.start) - 1)) \div 4

\* start is a multiple of size, so start | (size/2 - 1) is a sum.
NapotAddr(r) == (r.start + ((r.end - r.start) \div 2 - 1)) \div 4

EncodeRegion(r) ==
  IF r.end <= r.start THEN [addr_lo |-> 0, addr_hi |-> 0, cfg_lo |-> "off", cfg_hi |-> "off"]
  ELSE IF IsNapot(r)
    THEN [addr_lo |-> 0, addr_hi |-> NapotAddr(r), cfg_lo |-> "off", cfg_hi |-> "napot"]
  ELSE [addr_lo |-> r.start \div 4, addr_hi |-> r.end \div 4, cfg_lo |-> "off", cfg_hi |-> "tor"]

TaskEntries(l) == EncodeRegion(IF l.user THEN l.region ELSE [start |-> 0, end |-> 0])

\* k trailing ones in a NAPOT address encode a region of 2^(k+3) bytes.
NapotBytes(addr) ==
  LET k == CHOOSE n \in Exponent : (addr + 1) % 2 ^ n = 0 /\ (addr + 1) % 2 ^ (n + 1) # 0
      base == ((addr + 1) - 2 ^ k) * 4
  IN  base .. (base + 2 ^ (k + 3) - 1)

\* What entry 2 grants according to the RISC-V privileged specification: TOR
\* reads the address of the entry below whatever its mode.
Granted ==
  CASE pmp.cfg_hi = "off" -> {}
    [] pmp.cfg_hi = "tor" -> (pmp.addr_lo * 4) .. (pmp.addr_hi * 4 - 1)
    [] pmp.cfg_hi = "napot" -> NapotBytes(pmp.addr_hi)

-----------------------------------------------------------------------------
\* configure_pmp has run, and scheduler::init has dispatched the first task.
MemoryInit ==
  /\ layout \in Layouts
  /\ running \in Task
  /\ csr = "disable"
  /\ pmp = [addr_lo |-> 0, addr_hi |-> 0, cfg_lo |-> "off", cfg_hi |-> "off"]

\* mark_running dispatches t and calls activate_task_region.
MarkRunning(t) ==
  /\ csr = "done"
  /\ running' = t
  /\ csr' = "disable"
  /\ UNCHANGED <<layout, pmp>>

NewEntries == TaskEntries(layout[running])

WriteCsr(at, next, entries) == csr = at /\ csr' = next /\ pmp' = entries /\ UNCHANGED <<layout, running>>

\* Faulty variant: the entry stays live while it is rewritten.
ActivateWithoutDisable ==
  \/ WriteCsr("disable", "addr_lo", pmp)
  \/ WriteCsr("addr_lo", "addr_hi", [pmp EXCEPT !.addr_lo = NewEntries.addr_lo])
  \/ WriteCsr("addr_hi", "cfg_lo", [pmp EXCEPT !.addr_hi = NewEntries.addr_hi])
  \/ WriteCsr("cfg_lo", "cfg_hi", [pmp EXCEPT !.cfg_lo = NewEntries.cfg_lo])
  \/ WriteCsr("cfg_hi", "done", [pmp EXCEPT !.cfg_hi = NewEntries.cfg_hi])

ActivateTaskRegion ==
  \/ WriteCsr("disable", "addr_lo", [pmp EXCEPT !.cfg_hi = "off"])
  \/ WriteCsr("addr_lo", "addr_hi", [pmp EXCEPT !.addr_lo = NewEntries.addr_lo])
  \/ WriteCsr("addr_hi", "cfg_lo", [pmp EXCEPT !.addr_hi = NewEntries.addr_hi])
  \/ WriteCsr("cfg_lo", "cfg_hi", [pmp EXCEPT !.cfg_lo = NewEntries.cfg_lo])
  \/ WriteCsr("cfg_hi", "done", [pmp EXCEPT !.cfg_hi = NewEntries.cfg_hi])

-----------------------------------------------------------------------------
(* The checks of the system calls *)

\* Faulty variant: the end of the buffer wraps around.
BufferReadableWraps(ptr, len, ranges) ==
  \/ len = 0
  \/ \E r \in ranges : r.start <= ptr /\ (ptr + len) % AddrSpace <= r.end

\* checked_add fails when the end is not representable.
BufferReadable(ptr, len, ranges) ==
  \/ len = 0
  \/ /\ ptr + len < AddrSpace
     /\ \E r \in ranges : r.start <= ptr /\ ptr + len <= r.end

ReadableRanges(l) == {l.region, l.stack, Flash}
WritableRanges(l) == {l.region, l.stack}

=============================================================================
