-------------------------------- MODULE Boot --------------------------------
(***************************************************************************)
(* The boot sequence of kernel_main: register the application's tasks and  *)
(* the kernel's own, validate the registry, initialise the scheduler with  *)
(* the priorities the build script computed, start the first task.  Boot   *)
(* runs on one stack with interrupts disabled; a step is one iteration of  *)
(* a loop over the registry.  Masks are the sets of their bits.            *)
(***************************************************************************)
EXTENDS Integers, Sequences, FiniteSetsExt, TaskSets

CONSTANTS
  MaxPeripherals, \* MAX_PERIPHERALS
  MaxChannels,    \* MAX_CHANNELS
  Bit,            \* the bits of a mask
  Tables,         \* the application task tables (generated/*.rs) considered
  KernelOwned     \* the tasks boot itself registers, the idle task last

Descriptor ==
  [priority : 0 .. 255, exclusive : SUBSET Bit, required : SUBSET Bit,
   sends : SUBSET Bit, receives : SUBSET Bit, user : BOOLEAN, stackInside : BOOLEAN]

\* The kernel's own tasks hold and require nothing, use no channel and have
\* their stacks in place; without the idle task nothing could be dispatched.
ASSUME BootAssumption ==
  /\ MaxTasks \in Nat /\ MaxPeripherals \in Nat /\ MaxChannels \in Nat
  /\ Bit \subseteq Nat
  /\ Tables \subseteq Seq(Descriptor)
  /\ KernelOwned \in Seq(Descriptor) /\ KernelOwned # <<>>
  /\ \A i \in DOMAIN KernelOwned :
       /\ KernelOwned[i].exclusive = {} /\ KernelOwned[i].required = {}
       /\ KernelOwned[i].sends = {} /\ KernelOwned[i].receives = {}
       /\ KernelOwned[i].user => KernelOwned[i].stackInside

VARIABLES
  table,     \* the application's task table, never changed
  registry,  \* TASK_REGISTRY; TASK_COUNT is its length
  phase,     \* where kernel_main is, "running" or "halted"
  slot,      \* loop variable of the check in progress
  claimed,   \* check_capability_conflicts: peripherals with a holder
  senders,   \* check_channel_conflicts: channels with a sender
  receivers, \* check_channel_conflicts: channels with a receiver
  inherited  \* TaskDescriptor::max_inherited_priority

bootVars == <<table, registry, phase, slot, claimed, senders, receivers, inherited>>

BootInit ==
  /\ table \in Tables
  /\ registry = <<>>
  /\ phase = "register"
  /\ slot = 1
  /\ claimed = {}
  /\ senders = {}
  /\ receivers = {}
  /\ inherited = <<>>

-----------------------------------------------------------------------------
(* Priorities, over the descriptors in slot order. *)

EdgesOf(d) ==
  {e \in (DOMAIN d) \X (DOMAIN d) : e[1] # e[2] /\ d[e[1]].exclusive \cap d[e[2]].required # {}}

MipOf(d) == [i \in DOMAIN d |-> Max({d[u].priority : u \in ReachFrom(DOMAIN d, EdgesOf(d), i)})]

\* Faulty variant: the table starts at the wrong slot.
MipTableShifted ==
  [i \in 1 .. MaxTasks |-> IF i + 1 \in DOMAIN table THEN MipOf(table)[i + 1] ELSE 0]

\* The table of the build script: compute_mip of the application's tasks,
\* cut or zero-padded to MAX_TASKS entries.
MipTable == [i \in 1 .. MaxTasks |-> IF i \in DOMAIN table THEN MipOf(table)[i] ELSE 0]

EffectivePriority(d, m, i) == Max({d[i].priority, m[i]})

-----------------------------------------------------------------------------
\* register_task panics when the registry is full.
RegisterTask ==
  /\ phase = "register" /\ Len(registry) < Len(table) + Len(KernelOwned)
  /\ IF Len(registry) = MaxTasks
       THEN phase' = "halted" /\ UNCHANGED registry
       ELSE registry' = Append(registry, (table \o KernelOwned)[Len(registry) + 1]) /\ UNCHANGED phase
  /\ UNCHANGED <<table, slot, claimed, senders, receivers, inherited>>

\* Only user tasks must have their stack inside their region.
Misplaced(d) == d.user /\ ~d.stackInside

CheckRegionPlacement ==
  /\ phase = "register" /\ Len(registry) = Len(table) + Len(KernelOwned)
  /\ phase' = IF \E i \in DOMAIN registry : Misplaced(registry[i]) THEN "halted" ELSE "capabilities"
  /\ UNCHANGED <<table, registry, slot, claimed, senders, receivers, inherited>>

\* Faulty variant: ids beyond the limit are let through.
ConflictingInRange(ids, taken, limit) == \E id \in ids \cap taken : id < limit

\* One iteration over the registry of a conflict check: ids already has a
\* holder for each id seen, and ids from limit on do not exist.
Conflicting(ids, taken, limit) == ids \cap taken # {} \/ \E id \in ids : id >= limit

\* Faulty variant: what a task requires counts as claimed.
CheckHeldAndRequired ==
  /\ phase = "capabilities" /\ slot <= Len(registry)
  /\ LET ids == registry[slot].exclusive \cup registry[slot].required
     IN  IF Conflicting(ids, claimed, MaxPeripherals)
           THEN phase' = "halted" /\ UNCHANGED <<slot, claimed>>
           ELSE claimed' = claimed \cup ids /\ slot' = slot + 1 /\ UNCHANGED phase
  /\ UNCHANGED <<table, registry, senders, receivers, inherited>>

CheckCapabilityConflicts ==
  /\ phase = "capabilities" /\ slot <= Len(registry)
  /\ IF Conflicting(registry[slot].exclusive, claimed, MaxPeripherals)
       THEN phase' = "halted" /\ UNCHANGED <<slot, claimed>>
       ELSE /\ claimed' = claimed \cup registry[slot].exclusive
            /\ slot' = slot + 1
            /\ UNCHANGED phase
  /\ UNCHANGED <<table, registry, senders, receivers, inherited>>

CapabilityCheckPassed ==
  /\ phase = "capabilities" /\ slot > Len(registry)
  /\ phase' = "channels"
  /\ slot' = 1
  /\ UNCHANGED <<table, registry, claimed, senders, receivers, inherited>>

CheckChannelConflicts ==
  /\ phase = "channels" /\ slot <= Len(registry)
  /\ IF \/ Conflicting(registry[slot].sends, senders, MaxChannels)
        \/ Conflicting(registry[slot].receives, receivers, MaxChannels)
       THEN phase' = "halted" /\ UNCHANGED <<slot, senders, receivers>>
       ELSE /\ senders' = senders \cup registry[slot].sends
            /\ receivers' = receivers \cup registry[slot].receives
            /\ slot' = slot + 1
            /\ UNCHANGED phase
  /\ UNCHANGED <<table, registry, claimed, inherited>>

\* scheduler::init writes the table into the registered slots; PMP, frames
\* and the timer are set up and the first task started.
StartFirstTask ==
  /\ phase = "channels" /\ slot > Len(registry)
  /\ inherited' = [i \in DOMAIN registry |-> MipTable[i]]
  /\ phase' = "running"
  /\ UNCHANGED <<table, registry, slot, claimed, senders, receivers>>

Booted == phase \in {"running", "halted"} /\ UNCHANGED bootVars

BootNext ==
  \/ RegisterTask
  \/ CheckRegionPlacement
  \/ CheckCapabilityConflicts
  \/ CapabilityCheckPassed
  \/ CheckChannelConflicts
  \/ StartFirstTask
  \/ Booted

BootSpec == BootInit /\ [][BootNext]_bootVars

-----------------------------------------------------------------------------
(* Properties *)

AllTasks == table \o KernelOwned

\* No two tasks share an exclusive peripheral or a channel endpoint, every id
\* exists and every user stack is in its region.
Sound(d) ==
  /\ \A i \in DOMAIN d : ~Misplaced(d[i])
  /\ \A i \in DOMAIN d :
       /\ \A id \in d[i].exclusive : id < MaxPeripherals
       /\ \A id \in d[i].sends \cup d[i].receives : id < MaxChannels
  /\ \A i, j \in DOMAIN d : i # j =>
       /\ d[i].exclusive \cap d[j].exclusive = {}
       /\ d[i].sends \cap d[j].sends = {}
       /\ d[i].receives \cap d[j].receives = {}

\* The detectors miss nothing: tasks run only if the whole table is sound and
\* fits the registry.
\* The kernel model's assumption on Sends and Receives rests on this.
RunsOnlyIfSound ==
  phase = "running" => registry = AllTasks /\ Len(registry) <= MaxTasks /\ Sound(registry)

\* The detectors raise no false alarm (a holder and a task that requires what
\* it holds are no conflict): a halt has its reason in the table.
HaltsOnlyIfUnsound == phase = "halted" => Len(AllTasks) > MaxTasks \/ ~Sound(AllTasks)

\* The priorities the scheduler runs with, computed at build time for the
\* application's tasks alone, are those of the complete registry.
PrioritiesCoverTheRegistry ==
  phase = "running" =>
    \A i \in DOMAIN registry :
      EffectivePriority(registry, inherited, i) = EffectivePriority(registry, MipOf(registry), i)

=============================================================================
