-------------------------------- MODULE Fifo --------------------------------
(***************************************************************************)
(* What a channel promises: a first-in first-out queue of at most Cap      *)
(* values between one sender and one receiver.  res is the result of the   *)
(* call that returned last.                                                *)
(***************************************************************************)
EXTENDS Integers, Sequences

CONSTANTS Message, Cap

VARIABLES q, res

Init == q = <<>> /\ res = <<"none">>

TrySend(v) ==
  IF Len(q) < Cap
    THEN q' = Append(q, v) /\ res' = <<"sent", v>>
    ELSE q' = q /\ res' = <<"full", v>>

TryReceive ==
  IF q # <<>>
    THEN q' = Tail(q) /\ res' = <<"received", Head(q)>>
    ELSE q' = q /\ res' = <<"empty">>

Next == TryReceive \/ \E v \in Message : TrySend(v)

Spec == Init /\ [][Next]_<<q, res>>

=============================================================================
