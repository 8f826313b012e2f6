------------------------------- MODULE MCBoot -------------------------------
(***************************************************************************)
(* Tables of two and three tasks that differ in what they hold, require    *)
(* and communicate over.  Bit 2 is beyond MaxPeripherals and bit 1 beyond  *)
(* MaxChannels; four tasks and the kernel's two exceed MaxTasks.           *)
(***************************************************************************)
EXTENDS Boot

Plain ==
  [priority |-> 1, exclusive |-> {}, required |-> {}, sends |-> {}, receives |-> {},
   user |-> TRUE, stackInside |-> TRUE]

Holders ==
  {[Plain EXCEPT !.exclusive = x, !.required = r, !.priority = p] :
     x \in {{}, {0}, {1}, {2}}, r \in {{}, {0}, {1}}, p \in {1, 2}}
Talkers == {[Plain EXCEPT !.sends = s, !.receives = r] : s, r \in {{}, {0}, {1}}}
Misfits == {[Plain EXCEPT !.stackInside = FALSE]}

MCTables ==
  UNION {[1 .. 2 -> Holders \cup Talkers \cup Misfits], [1 .. 3 -> Holders],
         [1 .. 3 -> Talkers], [1 .. 4 -> {Plain}]}

\* The fault-demo's rogue task and the idle task.
MCKernelOwned == <<Plain, [Plain EXCEPT !.priority = 0, !.user = FALSE, !.stackInside = FALSE]>>

=============================================================================
