------------------------------ MODULE Channel ------------------------------
(***************************************************************************)
(* The ring buffer of ipc/channel.rs, one access to shared memory per      *)
(* step.  There is one producer and one consumer (check_channel_conflicts).*)
(* On a single hart memory accesses take effect in program order.          *)
(*                                                                         *)
(* Interleaved = FALSE is the kernel's use: sys_send and sys_receive run   *)
(* with interrupts disabled, so a call completes before the other end      *)
(* makes a step.  Interleaved = TRUE is the use the module documentation   *)
(* describes: two tasks share the channel and preempt each other anywhere. *)
(***************************************************************************)
EXTENDS Integers, Sequences

CONSTANTS
  Message,     \* the values sent
  Uninit,      \* content of a slot no value was written to, or moved out of
  Cap,         \* the const parameter CAP
  Interleaved  \* whether the two ends may preempt each other inside a call

ASSUME ChannelAssumption == Cap \in Nat \ {0} /\ Interleaved \in BOOLEAN /\ Uninit \notin Message

Slot == 0 .. (Cap - 1)
Return == {<<"none">>, <<"empty">>} \cup ({"sent", "full", "received"} \X (Message \cup {Uninit}))

VARIABLES
  buffer, \* Channel::buffer
  head,   \* Channel::head
  len,    \* Channel::len
  prod,   \* the producer: its next access and the locals of try_send
  cons,   \* the consumer: its next access and the locals of try_receive
  res     \* result of the call that returned last

ringVars == <<buffer, head, len, prod, cons, res>>

RingTypeOK ==
  /\ buffer \in [Slot -> Message \cup {Uninit}]
  /\ head \in Slot
  /\ len \in 0 .. Cap
  /\ prod \in [pc : {"idle", "head", "write", "publish"}, value : Message \cup {Uninit},
               len : 0 .. Cap, head : Slot]
  /\ cons \in [pc : {"idle", "head", "read", "advance", "release"},
               value : Message \cup {Uninit}, head : Slot]
  /\ res \in Return

RingInit ==
  /\ buffer = [s \in Slot |-> Uninit]
  /\ head = 0
  /\ len = 0
  /\ prod = [pc |-> "idle", value |-> Uninit, len |-> 0, head |-> 0]
  /\ cons = [pc |-> "idle", value |-> Uninit, head |-> 0]
  /\ res = <<"none">>

ProducerRuns(pc) == prod.pc = pc /\ (Interleaved \/ cons.pc = "idle")
ConsumerRuns(pc) == cons.pc = pc /\ (Interleaved \/ prod.pc = "idle")

-----------------------------------------------------------------------------
(* try_send *)

SendLoadLen(v) ==
  /\ ProducerRuns("idle")
  /\ IF len = Cap
       THEN res' = <<"full", v>> /\ UNCHANGED prod
       ELSE /\ prod' = [prod EXCEPT !.pc = "head", !.value = v, !.len = len]
            /\ UNCHANGED res
  /\ UNCHANGED <<buffer, head, len, cons>>

SendLoadHead ==
  /\ ProducerRuns("head")
  /\ prod' = [prod EXCEPT !.pc = "write", !.head = head]
  /\ UNCHANGED <<buffer, head, len, cons, res>>

\* Faulty variant: the write position starts from slot 0.
SendSlotFromZero == prod.len % Cap

\* Faulty variant: the write position is one too far.
SendSlotSkips == (prod.head + prod.len + 1) % Cap

SendSlot == (prod.head + prod.len) % Cap

SendWrite ==
  /\ ProducerRuns("write")
  /\ buffer' = [buffer EXCEPT ![SendSlot] = prod.value]
  /\ prod' = [prod EXCEPT !.pc = "publish"]
  /\ UNCHANGED <<head, len, cons, res>>

SendPublish ==
  /\ ProducerRuns("publish")
  /\ len' = len + 1
  /\ prod' = [prod EXCEPT !.pc = "idle"]
  /\ res' = <<"sent", prod.value>>
  /\ UNCHANGED <<buffer, head, cons>>

-----------------------------------------------------------------------------
(* try_receive *)

ReceiveLoadLen ==
  /\ ConsumerRuns("idle")
  /\ IF len = 0
       THEN res' = <<"empty">> /\ UNCHANGED cons
       ELSE cons' = [cons EXCEPT !.pc = "head"] /\ UNCHANGED res
  /\ UNCHANGED <<buffer, head, len, prod>>

ReceiveLoadHead ==
  /\ ConsumerRuns("head")
  /\ cons' = [cons EXCEPT !.pc = "read", !.head = head]
  /\ UNCHANGED <<buffer, head, len, prod, res>>

\* The value is moved out: the slot is logically uninitialised afterwards.
ReceiveRead ==
  /\ ConsumerRuns("read")
  /\ cons' = [cons EXCEPT !.pc = "advance", !.value = buffer[cons.head]]
  /\ buffer' = [buffer EXCEPT ![cons.head] = Uninit]
  /\ UNCHANGED <<head, len, prod, res>>

ReceiveAdvance ==
  /\ ConsumerRuns("advance")
  /\ head' = (cons.head + 1) % Cap
  /\ cons' = [cons EXCEPT !.pc = "release"]
  /\ UNCHANGED <<buffer, len, prod, res>>

ReceiveRelease ==
  /\ ConsumerRuns("release")
  /\ len' = len - 1
  /\ cons' = [cons EXCEPT !.pc = "idle"]
  /\ res' = <<"received", cons.value>>
  /\ UNCHANGED <<buffer, head, prod>>

RingNext ==
  \/ \E v \in Message : SendLoadLen(v)
  \/ SendLoadHead \/ SendWrite \/ SendPublish
  \/ ReceiveLoadLen \/ ReceiveLoadHead \/ ReceiveRead \/ ReceiveAdvance \/ ReceiveRelease

RingSpec == RingInit /\ [][RingNext]_ringVars

-----------------------------------------------------------------------------
(* Properties *)

\* The values queued: the slots from head on, and before them the value a
\* receive has moved out but not yet released.
Queued ==
  IF cons.pc \in {"advance", "release"}
    THEN LET first == IF cons.pc = "advance" THEN (head + 1) % Cap ELSE head
         IN  <<cons.value>> \o [i \in 1 .. (len - 1) |-> buffer[(first + i - 1) % Cap]]
    ELSE [i \in 1 .. len |-> buffer[(head + i - 1) % Cap]]

FifoOfChannel == INSTANCE Fifo WITH q <- Queued

\* The ring buffer implements a bounded FIFO queue: each call takes effect
\* when it publishes or releases its slot, and returns what the queue returns.
ImplementsFifo == FifoOfChannel!Spec

\* "len > 0 guarantees slot head holds a value written by an earlier
\* try_send": the consumer never moves an uninitialised value out.
ReadsInitialised == cons.pc = "read" => buffer[cons.head] # Uninit

\* "len < CAP means this slot holds no live value, so no initialised T is
\* overwritten": the producer writes only to free slots.
WritesFreeSlot == prod.pc = "write" => buffer[SendSlot] = Uninit

=============================================================================
