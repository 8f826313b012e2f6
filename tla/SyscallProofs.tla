--------------------------- MODULE SyscallProofs ---------------------------
(***************************************************************************)
(* The system calls on channels, for every task table and topology: a task *)
(* blocked on a channel is woken by the call that unblocks it and its      *)
(* restarted call succeeds; every message is delivered exactly once and in *)
(* order.                                                                  *)
(***************************************************************************)
EXTENDS KernelProofs

-----------------------------------------------------------------------------
(* Blocking and waking on a channel *)

\* A task blocked on a channel holds that endpoint, and has a reason to wait.
WaitOK(t) ==
  \A c \in Chan :
    /\ sched.blockedOn[t] = ReceiveOn(c) => c \in Receives[t] /\ chan[c] = <<>>
    /\ sched.blockedOn[t] = SendOn(c) => c \in Sends[t] /\ Len(chan[c]) = Capacity

\* A task inside a call holds the endpoint, and is blocked or can complete.
CallOK(t) ==
  \/ call[t] = NoCall
  \/ /\ call[t].op = "send" /\ call[t].ch \in Chan /\ call[t].ch \in Sends[t]
     /\ \/ sched.blockedOn[t] = SendOn(call[t].ch)
        \/ sched.blockedOn[t] = NotBlocked /\ Len(chan[call[t].ch]) # Capacity
  \/ /\ call[t].op = "receive" /\ call[t].ch \in Chan /\ call[t].ch \in Receives[t]
     /\ \/ sched.blockedOn[t] = ReceiveOn(call[t].ch)
        \/ sched.blockedOn[t] = NotBlocked /\ chan[call[t].ch] # <<>>

\* No channel holds more than its capacity.
Bounded == \A c \in Chan : Len(chan[c]) <= Capacity

\* The inductive invariant of blocking and waking.
WakeInv == Bounded /\ \A t \in Task : WaitOK(t) /\ CallOK(t)

\* A step that changes no channel and no pending call, and changes a wait only
\* of a task that is outside any call, ending it or turning it into sleep.
LEMMA QuietStep ==
  ASSUME WakeInv, UNCHANGED <<chan, call>>,
         \A t \in Task :
           \/ sched'.blockedOn[t] = sched.blockedOn[t]
           \/ call[t] = NoCall /\ sched'.blockedOn[t] \in {NotBlocked, Asleep}
  PROVE  WakeInv'
<1>1. Bounded'
  BY DEF WakeInv, Bounded
<1>2. ASSUME NEW t \in Task
      PROVE  WaitOK(t)' /\ CallOK(t)'
  <2>0. WaitOK(t) /\ CallOK(t) /\ chan' = chan /\ call' = call
    BY DEF WakeInv
  <2>1. CASE sched'.blockedOn[t] = sched.blockedOn[t]
    BY <2>0, <2>1 DEF WaitOK, CallOK
  <2>2. CASE call[t] = NoCall /\ sched'.blockedOn[t] \in {NotBlocked, Asleep}
    <3>1. WaitOK(t)'
      BY <2>2, ReasonFacts DEF WaitOK
    <3>2. CallOK(t)'
      BY <2>0, <2>2 DEF CallOK
    <3> QED
      BY <3>1, <3>2
  <2> QED
    BY <2>1, <2>2
<1> QED
  BY <1>1, <1>2 DEF WakeInv

\* The timer wakes sleepers only, and no sleeper is inside a call.
LEMMA TimerWake == Inv /\ WakeInv /\ Timer => WakeInv'
<1> SUFFICES ASSUME Inv, WakeInv, Timer
             PROVE  WakeInv'
  OBVIOUS
<1>1. ASSUME NEW t \in Task, sched'.blockedOn[t] # sched.blockedOn[t]
      PROVE  call[t] = NoCall /\ sched'.blockedOn[t] = NotBlocked
  <2>1. t \in Due(sched, NextTick) /\ sched'.blockedOn[t] = NotBlocked
    BY <1>1, TimerStep, Zenon DEF Inv
  <2>2. sched.blockedOn[t] = Asleep
    BY <2>1 DEF Due, Sleepers
  <2>3. CallOK(t)
    BY DEF WakeInv
  <2>4. Asleep # NotBlocked /\ \A c \in Chan : SendOn(c) # Asleep /\ ReceiveOn(c) # Asleep
    BY ReasonFacts DEF Asleep, NotBlocked
  <2> QED
    BY <2>1, <2>2, <2>3, <2>4 DEF CallOK
<1>2. UNCHANGED <<chan, call>>
  BY DEF Timer
<1> QED
  BY <1>1, <1>2, QuietStep

\* A task that goes to sleep is inside no call.
LEMMA SleepWake ==
  ASSUME NEW n \in SleepArgs
  PROVE  Inv /\ WakeInv /\ SysSleep(n) => WakeInv'
<1> SUFFICES ASSUME Inv, WakeInv, SysSleep(n)
             PROVE  WakeInv'
  OBVIOUS
<1>1. \A t \in Task : sched'.blockedOn[t] = IF t = sched.cur THEN Asleep ELSE sched.blockedOn[t]
  BY SleepStep
<1>2. call[sched.cur] = NoCall
  <2>1. call[sched.cur] \in {NoCall} \cup SendCall \cup ReceiveCall
    BY RunningIsTask DEF Inv, DataOK, Running
  <2>2. call[sched.cur] \in {NoCall, [op |-> "sleep", ticks |-> n]}
    BY DEF SysSleep, Executes, Running
  <2>3. [op |-> "sleep", ticks |-> n] \notin SendCall \cup ReceiveCall
    BY DEF SendCall, ReceiveCall
  <2> QED
    BY <2>1, <2>2, <2>3
<1>3. UNCHANGED <<chan, call>>
  BY DEF SysSleep
<1> QED
  BY <1>1, <1>2, <1>3, QuietStep

\* A step that changes no wait, no channel and no call.
LEMMA PassiveWake ==
  ASSUME Inv, WakeInv, UNCHANGED <<chan, call>>, sched'.blockedOn = sched.blockedOn
  PROVE  WakeInv'
BY QuietStep

\* The running task blocks in a call it will restart.
LEMMA BlockWake ==
  ASSUME Inv, WakeInv, Running # Idle, NEW k, NEW reason, BlockAndRestart(k, reason), k.ch \in Chan,
         \/ k.op = "send" /\ reason = SendOn(k.ch) /\ k.ch \in Sends[Running]
            /\ Len(chan[k.ch]) = Capacity
         \/ k.op = "receive" /\ reason = ReceiveOn(k.ch) /\ k.ch \in Receives[Running]
            /\ chan[k.ch] = <<>>
  PROVE  WakeInv'
<1>1. reason \in Reason /\ reason # NotBlocked
  BY ReasonFacts
<1>2. \A t \in Task : sched'.blockedOn[t] = IF t = Running THEN reason ELSE sched.blockedOn[t]
  BY <1>1, BlockStep DEF Inv, BlockAndRestart
<1>3. /\ chan' = chan /\ call \in [Task -> {NoCall} \cup SendCall \cup ReceiveCall]
      /\ call' = [call EXCEPT ![Running] = k]
  BY DEF BlockAndRestart, Inv, DataOK
<1>4. Bounded'
  BY <1>3 DEF WakeInv, Bounded
<1>5. ASSUME NEW t \in Task, t # Running
      PROVE  WaitOK(t)' /\ CallOK(t)'
  <2>1. WaitOK(t) /\ CallOK(t) /\ sched'.blockedOn[t] = sched.blockedOn[t] /\ call'[t] = call[t]
    BY <1>2, <1>3, <1>5 DEF WakeInv
  <2> QED
    BY <1>3, <2>1 DEF WaitOK, CallOK
<1>6. ASSUME NEW t \in Task, t = Running
      PROVE  WaitOK(t)' /\ CallOK(t)'
  <2>1. sched'.blockedOn[t] = reason /\ call'[t] = k
    BY <1>2, <1>3, <1>6
  <2>2. WaitOK(t)'
    BY <1>3, <1>6, <2>1, ReasonFacts DEF WaitOK
  <2>3. CallOK(t)'
    BY <1>3, <1>6, <2>1 DEF CallOK
  <2> QED
    BY <2>2, <2>3
<1> QED
  BY <1>4, <1>5, <1>6 DEF WakeInv

\* A completed send makes the channel nonempty and wakes its receiver.
LEMMA SendWake ==
  ASSUME Inv, WakeInv, NEW k \in SendCall, k.ch \in Chan, k.ch \in Sends[Running],
         Len(chan[k.ch]) # Capacity, FillOutbox(k), SendCompletes(k)
  PROVE  WakeInv'
<1> DEFINE c == k.ch
           me == Running
           q == Append(chan[c], outbox'[c])
<1>1. /\ me \in Task /\ Running = me /\ c \in Chan /\ c \in Sends[me]
      /\ chan \in [Chan -> Seq(0 .. (NumMod - 1))] /\ chan[c] \in Seq(0 .. (NumMod - 1))
      /\ call \in [Task -> {NoCall} \cup SendCall \cup ReceiveCall]
  BY RunningIsTask DEF Inv, DataOK
<1>2. chan' = [chan EXCEPT ![c] = q] /\ call' = [call EXCEPT ![me] = NoCall]
  BY DEF SendCompletes
<1>3. q # <<>> /\ Len(q) = Len(chan[c]) + 1
  <2> DEFINE N == 0 .. (NumMod - 1)
             p == chan[c]
             x == outbox'[c]
  <2>1. p \in Seq(N) /\ x \in N
    BY <1>1, OutboxType
  <2> HIDE DEF N, p, x
  <2>2. Append(p, x) # <<>> /\ Len(Append(p, x)) = Len(p) + 1
    BY <2>1
  <2> QED
    BY <2>2 DEF p, x
<1>4. /\ \A t \in Task : sched'.blockedOn[t] \in {NotBlocked, sched.blockedOn[t]}
      /\ \A t \in Task : sched.blockedOn[t] # ReceiveOn(c) => sched'.blockedOn[t] = sched.blockedOn[t]
      /\ \A t \in Task :
           sched.blockedOn[t] = ReceiveOn(c) /\ (\A u \in Task : sched.blockedOn[u] = ReceiveOn(c) => u = t)
             => sched'.blockedOn[t] = NotBlocked
  BY <1>1, ReasonFacts, WakeStep, Zenon DEF Inv, SendCompletes
<1> HIDE DEF c, me, q
<1>5. \A d \in Chan : chan'[d] = IF d = c THEN q ELSE chan[d]
  BY <1>1, <1>2
<1>6. \A t \in Task : call'[t] = IF t = me THEN NoCall ELSE call[t]
  BY <1>1, <1>2
<1>7. Len(chan[c]) \in Nat /\ Len(chan[c]) < Capacity /\ Capacity \in Nat
  <2>1. Len(chan[c]) \in Nat /\ Len(chan[c]) <= Capacity /\ Capacity \in Nat
    BY <1>1, KernelAssumption DEF WakeInv, Bounded
  <2>2. Len(chan[c]) # Capacity
    BY DEF c
  <2> QED
    BY <2>1, <2>2
<1>8. Bounded'
  <2>1. Len(q) <= Capacity
    BY <1>3, <1>7
  <2> QED
    BY <1>5, <2>1 DEF WakeInv, Bounded
\* me is the only sender, and nobody else who waits to receive waits on c.
<1>9. /\ \A t \in Task : t # me => c \notin Sends[t]
      /\ \A t, u \in Task : c \in Receives[t] /\ c \in Receives[u] => t = u
  BY <1>1, KernelAssumption
<1>10. ASSUME NEW t \in Task
       PROVE  sched'.blockedOn[t] # ReceiveOn(c)
  <2>1. CASE sched.blockedOn[t] = ReceiveOn(c)
    <3>1. \A u \in Task : sched.blockedOn[u] = ReceiveOn(c) => c \in Receives[u]
      BY <1>1 DEF WakeInv, WaitOK
    <3>2. sched'.blockedOn[t] = NotBlocked
      BY <1>4, <1>9, <2>1, <3>1
    <3> QED
      BY <1>1, <3>2, ReasonFacts
  <2>2. CASE sched.blockedOn[t] # ReceiveOn(c)
    BY <1>4, <2>2
  <2> QED
    BY <2>1, <2>2
<1>11. ASSUME NEW t \in Task
       PROVE  WaitOK(t)'
  <2>0. WaitOK(t)
    BY DEF WakeInv
  <2> SUFFICES ASSUME NEW d \in Chan
               PROVE  /\ sched'.blockedOn[t] = ReceiveOn(d) => d \in Receives[t] /\ chan'[d] = <<>>
                      /\ sched'.blockedOn[t] = SendOn(d) => d \in Sends[t] /\ Len(chan'[d]) = Capacity
    BY DEF WaitOK
  <2>1. ASSUME sched'.blockedOn[t] = ReceiveOn(d)
        PROVE  d \in Receives[t] /\ chan'[d] = <<>>
    <3>1. d # c /\ sched.blockedOn[t] = ReceiveOn(d)
      BY <1>4, <1>10, <2>1, ReasonFacts
    <3> QED
      BY <1>5, <2>0, <3>1 DEF WaitOK
  <2>2. ASSUME sched'.blockedOn[t] = SendOn(d)
        PROVE  d \in Sends[t] /\ Len(chan'[d]) = Capacity
    <3>1. sched.blockedOn[t] = SendOn(d)
      BY <1>4, <2>2, ReasonFacts
    <3>2. d \in Sends[t] /\ Len(chan[d]) = Capacity
      BY <2>0, <3>1 DEF WaitOK
    <3>3. d # c
      BY <1>7, <3>2
    <3> QED
      BY <1>5, <3>2, <3>3
  <2> QED
    BY <2>1, <2>2
<1>12. ASSUME NEW t \in Task
       PROVE  CallOK(t)'
  <2>0. CallOK(t)
    BY DEF WakeInv
  <2>1. CASE t = me
    BY <1>6, <2>1 DEF CallOK
  <2>2. CASE t # me
    <3>1. call'[t] = call[t]
      BY <1>6, <2>2
    <3>2. ASSUME call[t].op = "send", call[t].ch \in Chan, call[t].ch \in Sends[t],
                 \/ sched.blockedOn[t] = SendOn(call[t].ch)
                 \/ sched.blockedOn[t] = NotBlocked /\ Len(chan[call[t].ch]) # Capacity
          PROVE  CallOK(t)'
      <4>1. call[t].ch # c
        BY <1>9, <2>2, <3>2
      <4>2. chan'[call[t].ch] = chan[call[t].ch] /\ sched'.blockedOn[t] = sched.blockedOn[t]
        <5>1. sched.blockedOn[t] # ReceiveOn(c)
          BY <1>1, <3>2, <4>1, ReasonFacts
        <5>2. sched'.blockedOn[t] = sched.blockedOn[t]
          BY <1>4, <5>1
        <5>3. chan'[call[t].ch] = chan[call[t].ch]
          BY <1>5, <3>2, <4>1
        <5> QED
          BY <5>2, <5>3
      <4> QED
        BY <3>1, <3>2, <4>2 DEF CallOK
    <3>3. ASSUME call[t].op = "receive", call[t].ch \in Chan, call[t].ch \in Receives[t],
                 \/ sched.blockedOn[t] = ReceiveOn(call[t].ch)
                 \/ sched.blockedOn[t] = NotBlocked /\ chan[call[t].ch] # <<>>
          PROVE  CallOK(t)'
      <4>1. CASE call[t].ch = c
        <5>1. sched'.blockedOn[t] = NotBlocked /\ chan'[c] # <<>>
          BY <1>1, <1>3, <1>4, <1>5, <1>10, <3>3, <4>1
        <5> QED
          BY <3>1, <3>3, <4>1, <5>1 DEF CallOK
      <4>2. CASE call[t].ch # c
        <5>1. chan'[call[t].ch] = chan[call[t].ch] /\ sched'.blockedOn[t] = sched.blockedOn[t]
          <6>1. sched.blockedOn[t] # ReceiveOn(c)
            BY <1>1, <3>3, <4>2, ReasonFacts
          <6>2. sched'.blockedOn[t] = sched.blockedOn[t]
            BY <1>4, <6>1
          <6>3. chan'[call[t].ch] = chan[call[t].ch]
            BY <1>5, <3>3, <4>2
          <6> QED
            BY <6>2, <6>3
        <5> QED
          BY <3>1, <3>3, <5>1 DEF CallOK
      <4> QED
        BY <4>1, <4>2
    <3>4. CASE call[t] = NoCall
      BY <3>1, <3>4 DEF CallOK
    <3> QED
      BY <2>0, <3>2, <3>3, <3>4 DEF CallOK
  <2> QED
    BY <2>1, <2>2
<1> QED
  BY <1>8, <1>11, <1>12 DEF WakeInv

\* A completed receive makes room in the channel and wakes its sender.
LEMMA ReceiveWake ==
  ASSUME Inv, WakeInv, NEW k \in ReceiveCall, k.ch \in Chan, k.ch \in Receives[Running],
         chan[k.ch] # <<>>, ReceiveCompletes(k)
  PROVE  WakeInv'
<1> DEFINE c == k.ch
           me == Running
           q == Tail(chan[c])
<1>1. /\ me \in Task /\ Running = me /\ c \in Chan /\ c \in Receives[me] /\ chan[c] # <<>>
      /\ chan \in [Chan -> Seq(0 .. (NumMod - 1))] /\ chan[c] \in Seq(0 .. (NumMod - 1))
      /\ call \in [Task -> {NoCall} \cup SendCall \cup ReceiveCall]
  BY RunningIsTask DEF Inv, DataOK
<1>2. chan' = [chan EXCEPT ![c] = q] /\ call' = [call EXCEPT ![me] = NoCall]
  BY DEF ReceiveCompletes
<1>3. Len(q) = Len(chan[c]) - 1
  BY <1>1
<1>4. /\ \A t \in Task : sched'.blockedOn[t] \in {NotBlocked, sched.blockedOn[t]}
      /\ \A t \in Task : sched.blockedOn[t] # SendOn(c) => sched'.blockedOn[t] = sched.blockedOn[t]
      /\ \A t \in Task :
           sched.blockedOn[t] = SendOn(c) /\ (\A u \in Task : sched.blockedOn[u] = SendOn(c) => u = t)
             => sched'.blockedOn[t] = NotBlocked
  BY <1>1, ReasonFacts, WakeStep, Zenon DEF Inv, ReceiveCompletes
<1> HIDE DEF c, me, q
<1>5. \A d \in Chan : chan'[d] = IF d = c THEN q ELSE chan[d]
  BY <1>1, <1>2
<1>6. \A t \in Task : call'[t] = IF t = me THEN NoCall ELSE call[t]
  BY <1>1, <1>2
<1>7. Len(q) \in Int /\ Len(q) < Capacity /\ Capacity \in Nat
  <2>1. Len(chan[c]) \in Nat /\ Len(chan[c]) <= Capacity /\ Capacity \in Nat
    BY <1>1, KernelAssumption DEF WakeInv, Bounded
  <2> QED
    BY <1>3, <2>1
<1>8. Bounded'
  <2>1. Len(q) <= Capacity
    BY <1>7
  <2> QED
    BY <1>5, <2>1 DEF WakeInv, Bounded
<1>9. /\ \A t \in Task : t # me => c \notin Receives[t]
      /\ \A t, u \in Task : c \in Sends[t] /\ c \in Sends[u] => t = u
  BY <1>1, KernelAssumption
<1>10. ASSUME NEW t \in Task
       PROVE  sched'.blockedOn[t] # SendOn(c)
  <2>1. CASE sched.blockedOn[t] = SendOn(c)
    <3>1. \A u \in Task : sched.blockedOn[u] = SendOn(c) => c \in Sends[u]
      BY <1>1 DEF WakeInv, WaitOK
    <3>2. sched'.blockedOn[t] = NotBlocked
      BY <1>4, <1>9, <2>1, <3>1
    <3> QED
      BY <1>1, <3>2, ReasonFacts
  <2>2. CASE sched.blockedOn[t] # SendOn(c)
    BY <1>4, <2>2
  <2> QED
    BY <2>1, <2>2
<1>11. ASSUME NEW t \in Task
       PROVE  WaitOK(t)'
  <2>0. WaitOK(t)
    BY DEF WakeInv
  <2> SUFFICES ASSUME NEW d \in Chan
               PROVE  /\ sched'.blockedOn[t] = ReceiveOn(d) => d \in Receives[t] /\ chan'[d] = <<>>
                      /\ sched'.blockedOn[t] = SendOn(d) => d \in Sends[t] /\ Len(chan'[d]) = Capacity
    BY DEF WaitOK
  <2>1. ASSUME sched'.blockedOn[t] = ReceiveOn(d)
        PROVE  d \in Receives[t] /\ chan'[d] = <<>>
    <3>1. sched.blockedOn[t] = ReceiveOn(d)
      BY <1>4, <2>1, ReasonFacts
    <3>2. d \in Receives[t] /\ chan[d] = <<>>
      BY <2>0, <3>1 DEF WaitOK
    <3>3. d # c
      BY <1>1, <3>2
    <3> QED
      BY <1>5, <3>2, <3>3
  <2>2. ASSUME sched'.blockedOn[t] = SendOn(d)
        PROVE  d \in Sends[t] /\ Len(chan'[d]) = Capacity
    <3>1. d # c /\ sched.blockedOn[t] = SendOn(d)
      BY <1>4, <1>10, <2>2, ReasonFacts
    <3> QED
      BY <1>5, <2>0, <3>1 DEF WaitOK
  <2> QED
    BY <2>1, <2>2
<1>12. ASSUME NEW t \in Task
       PROVE  CallOK(t)'
  <2>0. CallOK(t)
    BY DEF WakeInv
  <2>1. CASE t = me
    BY <1>6, <2>1, Zenon DEF CallOK
  <2>2. CASE t # me
    <3>1. call'[t] = call[t]
      BY <1>6, <2>2
    <3>2. ASSUME call[t].op = "receive", call[t].ch \in Chan, call[t].ch \in Receives[t],
                 \/ sched.blockedOn[t] = ReceiveOn(call[t].ch)
                 \/ sched.blockedOn[t] = NotBlocked /\ chan[call[t].ch] # <<>>
          PROVE  CallOK(t)'
      <4>1. call[t].ch # c
        BY <1>9, <2>2, <3>2
      <4>2. chan'[call[t].ch] = chan[call[t].ch] /\ sched'.blockedOn[t] = sched.blockedOn[t]
        <5>1. sched.blockedOn[t] # SendOn(c)
          BY <1>1, <3>2, <4>1, ReasonFacts
        <5>2. sched'.blockedOn[t] = sched.blockedOn[t]
          BY <1>4, <5>1
        <5>3. chan'[call[t].ch] = chan[call[t].ch]
          BY <1>5, <3>2, <4>1
        <5> QED
          BY <5>2, <5>3
      <4> QED
        BY <3>1, <3>2, <4>2 DEF CallOK
    <3>3. ASSUME call[t].op = "send", call[t].ch \in Chan, call[t].ch \in Sends[t],
                 \/ sched.blockedOn[t] = SendOn(call[t].ch)
                 \/ sched.blockedOn[t] = NotBlocked /\ Len(chan[call[t].ch]) # Capacity
          PROVE  CallOK(t)'
      <4>1. CASE call[t].ch = c
        <5>1. sched'.blockedOn[t] = NotBlocked
          BY <1>1, <1>4, <1>10, <3>3, <4>1
        <5>2. Len(chan'[c]) # Capacity
          BY <1>1, <1>5, <1>7
        <5> QED
          BY <3>1, <3>3, <4>1, <5>1, <5>2, SMTT(20) DEF CallOK
      <4>2. CASE call[t].ch # c
        <5>1. chan'[call[t].ch] = chan[call[t].ch] /\ sched'.blockedOn[t] = sched.blockedOn[t]
          <6>1. sched.blockedOn[t] # SendOn(c)
            BY <1>1, <3>3, <4>2, ReasonFacts, SMTT(20), ZenonT(20)
          <6>2. sched'.blockedOn[t] = sched.blockedOn[t]
            BY <1>4, <6>1
          <6>3. chan'[call[t].ch] = chan[call[t].ch]
            BY <1>5, <3>3, <4>2, SMTT(20), ZenonT(20)
          <6> QED
            BY <6>2, <6>3
        <5> QED
          BY <3>1, <3>3, <5>1 DEF CallOK
      <4> QED
        BY <4>1, <4>2
    <3>4. CASE call[t] = NoCall
      BY <3>1, <3>4 DEF CallOK
    <3> QED
      BY <2>0, <3>2, <3>3, <3>4, Zenon DEF CallOK
  <2> QED
    BY <2>1, <2>2
<1> QED
  BY <1>8, <1>11, <1>12 DEF WakeInv

-----------------------------------------------------------------------------
\* boot blocks nobody and fills no channel.
LEMMA InitWake == Init => WakeInv
<1> SUFFICES ASSUME Init
             PROVE  WakeInv
  OBVIOUS
<1>1. /\ \A t \in Task : sched.blockedOn[t] = NotBlocked /\ call[t] = NoCall
      /\ \A c \in Chan : chan[c] = <<>>
  BY BootFacts DEF Init
<1>2. Bounded
  BY <1>1, KernelAssumption DEF Bounded
<1>3. \A t \in Task : WaitOK(t) /\ CallOK(t)
  BY <1>1, ReasonFacts DEF WaitOK, CallOK
<1> QED
  BY <1>2, <1>3 DEF WakeInv

\* Every step preserves the invariant.
LEMMA NextWake == Inv /\ WakeInv /\ [Next]_vars => WakeInv'
<1> SUFFICES ASSUME Inv, WakeInv, [Next]_vars
             PROVE  WakeInv'
  OBVIOUS
<1>0. Running \in Task
  BY RunningIsTask DEF Inv
<1>1. CASE Timer
  BY <1>1, TimerWake
<1>2. CASE SysYield
  <2>1. sched'.blockedOn = sched.blockedOn
    BY <1>2, YieldFacts DEF Inv, SchedOK, SysYield
  <2> QED
    BY <1>2, <2>1, PassiveWake DEF SysYield
<1>3. CASE \E n \in SleepArgs : SysSleep(n)
  BY <1>3, SleepWake
<1>4. CASE UNCHANGED <<sched, chan, call>>
  BY <1>4, PassiveWake
<1>5. CASE \E k \in SendCall : SysSend(k)
  <2>1. PICK k \in SendCall : SysSend(k)
    BY <1>5
  <2>2. CASE UNCHANGED <<sched, chan, call>>
    BY <2>2, PassiveWake
  <2>3. CASE SendCheck(Running, k) = "ok" /\ IsFull(k.ch) /\ BlockAndRestart(k, SendOn(k.ch))
    <3>1. Running # Idle /\ k.op = "send" /\ k.ch \in Chan /\ k.ch \in Sends[Running]
      BY <1>0, <2>1, <2>3, CheckFacts, Zenon DEF SysSend, Executes, SendCall
    <3> QED
      BY <2>3, <3>1, BlockWake DEF IsFull
  <2>4. CASE SendCheck(Running, k) = "ok" /\ ~IsFull(k.ch) /\ FillOutbox(k) /\ SendCompletes(k)
    <3>1. k.ch \in Chan /\ k.ch \in Sends[Running]
      BY <1>0, <2>4, CheckFacts
    <3> QED
      BY <2>4, <3>1, SendWake DEF IsFull
  <2> QED
    BY <2>1, <2>2, <2>3, <2>4 DEF SysSend, Reject
<1>6. CASE \E k \in ReceiveCall : SysReceive(k)
  <2>1. PICK k \in ReceiveCall : SysReceive(k)
    BY <1>6
  <2>2. CASE UNCHANGED <<sched, chan, call>>
    BY <2>2, PassiveWake
  <2>3. CASE ReceiveCheck(Running, k) = "ok" /\ chan[k.ch] = <<>> /\ BlockAndRestart(k, ReceiveOn(k.ch))
    <3>1. Running # Idle /\ k.op = "receive" /\ k.ch \in Chan /\ k.ch \in Receives[Running]
      BY <1>0, <2>1, <2>3, CheckFacts DEF SysReceive, Executes, ReceiveCall
    <3> QED
      BY <2>3, <3>1, BlockWake, SMTT(20)
  <2>4. CASE ReceiveCheck(Running, k) = "ok" /\ chan[k.ch] # <<>> /\ ReceiveCompletes(k)
    <3>1. k.ch \in Chan /\ k.ch \in Receives[Running]
      BY <1>0, <2>4, CheckFacts
    <3> QED
      BY <2>4, <3>1, ReceiveWake
  <2> QED
    BY <2>1, <2>2, <2>3, <2>4 DEF SysReceive, Reject
<1>7. CASE FaultAndHalt
  <2>1. sched'.blockedOn = sched.blockedOn
    BY <1>7 DEF Inv, SchedOK, Settled, Consistent, FaultAndHalt, SchedulerState
  <2> QED
    BY <1>7, <2>1, PassiveWake DEF FaultAndHalt
<1> QED
  BY <1>1, <1>2, <1>3, <1>4, <1>5, <1>6, <1>7
     DEF Next, SysLog, SysNow, SysUnknown, Overflow, Halted, vars

\* Both invariants hold in every reachable state.
LEMMA WakeInvAlways == Spec => [](Inv /\ WakeInv)
<1>1. Init => Inv /\ WakeInv
  BY InitInv, InitWake
<1>2. (Inv /\ WakeInv) /\ [Next]_vars => (Inv /\ WakeInv)'
  BY NextInv, NextWake
<1> QED
  BY <1>1, <1>2, PTL DEF Spec

\* Whoever is blocked on a channel could not go on: no wake-up is lost.
THEOREM NoLostWakeupAlways == Spec => []NoLostWakeup
<1>1. Inv /\ WakeInv => NoLostWakeup
  BY DEF WakeInv, WaitOK, NoLostWakeup, IsFull
<1> QED
  BY <1>1, WakeInvAlways, PTL

\* The call that a woken task executes again completes.
THEOREM RestartSucceedsAlways == Spec => []RestartSucceeds
<1>1. Inv /\ WakeInv => RestartSucceeds
  <2> SUFFICES ASSUME Inv, WakeInv, NEW t \in Task, call[t] # NoCall, Runnable(t)
               PROVE  /\ call[t].op = "send" => ~IsFull(call[t].ch)
                      /\ call[t].op = "receive" => chan[call[t].ch] # <<>>
    BY DEF RestartSucceeds
  <2>1. CallOK(t) /\ sched.blockedOn[t] = NotBlocked
    BY DEF Inv, SchedOK, Settled, Consistent, WakeInv, Runnable
  <2> QED
    BY <2>1, ReasonFacts DEF CallOK, IsFull
<1> QED
  BY <1>1, WakeInvAlways, PTL

-----------------------------------------------------------------------------
(* Delivery *)

\* The tasks that are inside a send on c: blocked in it, or about to restart it.
Pending(c) == {t \in Task : call[t].op = "send" /\ call[t].ch = c}

\* What is queued continues the numbering of what was received, and what was
\* handed over last comes after the queue and the pending send.
DeliveryInv ==
  \A c \in Chan :
    /\ \A i \in 1 .. Len(chan[c]) : chan[c][i] = (inbox[c] + i) % NumMod
    /\ outbox[c] = (inbox[c] + (Len(chan[c]) + Cardinality(Pending(c)))) % NumMod

\* Message numbers on the circle of size NumMod.
LEMMA NumberFacts ==
  ASSUME NEW M \in Nat, NEW a \in Int, 0 <= a, a < M, NEW x \in Int, 0 <= x, x < M
  PROVE  /\ (((a + x) % M) + 1) % M = (a + (x + 1)) % M
         /\ (((a + 1) % M) + x) % M = (a + (x + 1)) % M
<1> DEFINE y == a + x
           z == a + (x + 1)
           v == a + 1
<1>1. /\ M > 0 /\ y \in Int /\ y >= 0 /\ y < 2 * M /\ z \in Int /\ z >= 0 /\ z < 2 * M
      /\ v \in Int /\ v >= 0 /\ v <= M /\ z = y + 1 /\ z = v + x
  OBVIOUS
<1> HIDE DEF y, z, v
<1>2. z % M = IF z < M THEN z ELSE z - M
  BY <1>1, ModFacts
<1>3. y % M = IF y < M THEN y ELSE y - M
  BY <1>1, ModFacts
<1>4. v % M = IF v < M THEN v ELSE v - M
  BY <1>1, ModFacts
<1>5. ((y % M) + 1) % M = z % M
  <2>1. CASE y < M
    BY <1>1, <1>3, <2>1
  <2>2. CASE ~(y < M)
    <3>1. (y % M) + 1 = z - M /\ z - M >= 0 /\ z - M < M /\ z - M \in Int /\ ~(z < M)
      BY <1>1, <1>3, <2>2
    <3>2. (z - M) % M = z - M
      BY <1>1, <3>1, ModFacts
    <3> QED
      BY <1>2, <3>1, <3>2
  <2> QED
    BY <2>1, <2>2
<1>6. ((v % M) + x) % M = z % M
  <2>1. CASE v < M
    BY <1>1, <1>4, <2>1
  <2>2. CASE ~(v < M)
    <3>1. (v % M) + x = z - M /\ z - M >= 0 /\ z - M < M /\ z - M \in Int /\ ~(z < M)
      BY <1>1, <1>4, <2>2
    <3>2. (z - M) % M = z - M
      BY <1>1, <3>1, ModFacts
    <3> QED
      BY <1>2, <3>1, <3>2
  <2> QED
    BY <2>1, <2>2
<1> QED
  BY <1>5, <1>6 DEF y, z, v

\* A channel has at most one sender in a call: its holder.
LEMMA PendingFacts ==
  ASSUME Inv, WakeInv, NEW c \in Chan
  PROVE  /\ \A t \in Pending(c) : c \in Sends[t] /\ Pending(c) = {t} /\ Cardinality(Pending(c)) = 1
         /\ Pending(c) = {} => Cardinality(Pending(c)) = 0
         /\ Cardinality(Pending(c)) \in {0, 1}
<1>1. ASSUME NEW t \in Pending(c)
      PROVE  c \in Sends[t]
  <2>1. t \in Task /\ call[t].op = "send" /\ call[t].ch = c /\ CallOK(t)
    BY DEF Pending, WakeInv
  <2>2. call[t] # NoCall
    BY <2>1 DEF NoCall
  <2> QED
    BY <2>1, <2>2 DEF CallOK
<1>2. \A t \in Pending(c) : Pending(c) = {t}
  <2>1. \A t, u \in Pending(c) : t = u
    <3>1. Pending(c) \subseteq Task
      BY DEF Pending
    <3> QED
      BY <1>1, <3>1, KernelAssumption
  <2> QED
    BY <2>1
<1>3. \A t \in Pending(c) : Cardinality(Pending(c)) = 1
  BY <1>2, FS_Singleton
<1>4. Pending(c) = {} => Cardinality(Pending(c)) = 0
  BY FS_EmptySet
<1> QED
  BY <1>1, <1>2, <1>3, <1>4

\* The numbers the invariant adds up.
LEMMA ChannelNumbers ==
  ASSUME Inv, WakeInv, NEW c \in Chan
  PROVE  /\ inbox[c] \in Int /\ 0 <= inbox[c] /\ inbox[c] < NumMod
         /\ chan[c] \in Seq(0 .. (NumMod - 1)) /\ Len(chan[c]) \in Nat /\ Len(chan[c]) <= Capacity
         /\ NumMod \in Nat /\ Capacity \in Nat /\ Capacity + 1 < NumMod
<1>1. NumMod \in Nat /\ Capacity \in Nat /\ Capacity + 1 < NumMod
  BY KernelAssumption
<1>2. inbox[c] \in 0 .. (NumMod - 1) /\ chan[c] \in Seq(0 .. (NumMod - 1))
  BY DEF Inv, DataOK
<1>3. inbox[c] \in Int /\ 0 <= inbox[c] /\ inbox[c] < NumMod
  BY <1>1, <1>2
<1>4. Len(chan[c]) \in Nat /\ Len(chan[c]) <= Capacity
  BY <1>2 DEF WakeInv, Bounded
<1> QED
  BY <1>1, <1>2, <1>3, <1>4

\* A step that leaves the messages alone and starts or ends no send.
LEMMA QuietDelivery ==
  ASSUME DeliveryInv, UNCHANGED <<chan, inbox, outbox>>, \A c \in Chan : Pending(c)' = Pending(c)
  PROVE  DeliveryInv'
BY DEF DeliveryInv

\* The running task's send, with c its channel: what a fresh call and a
\* restarted one have in common when they reach the channel.
LEMMA SendNumbers ==
  ASSUME Inv, WakeInv, DeliveryInv, NEW k \in SendCall, Executes(k), k.ch \in Chan,
         k.ch \in Sends[Running], FillOutbox(k)
  PROVE  /\ outbox'[k.ch] = (inbox[k.ch] + (Len(chan[k.ch]) + 1)) % NumMod
         /\ \A d \in Chan \ {k.ch} : outbox'[d] = outbox[d]
         /\ Pending(k.ch) \subseteq {Running}
         /\ \A d \in Chan \ {k.ch} : Running \notin Pending(d)
<1> DEFINE c == k.ch
           me == Running
<1>1. /\ me \in Task /\ c \in Chan /\ c \in Sends[me] /\ call[me] \in {NoCall, k}
      /\ outbox \in [Chan -> 0 .. (NumMod - 1)] /\ k.op = "send"
  BY RunningIsTask DEF Inv, DataOK, Executes, SendCall
<1>2. Pending(c) \subseteq {me}
  <2>1. \A t \in Pending(c) : t \in Task /\ c \in Sends[t]
    BY <1>1, PendingFacts, Zenon DEF Pending
  <2> QED
    BY <1>1, <2>1, KernelAssumption
<1>3. \A d \in Chan \ {c} : me \notin Pending(d)
  BY <1>1 DEF Pending, NoCall
<1>4. outbox'[c] = (inbox[c] + (Len(chan[c]) + 1)) % NumMod
  <2>0. outbox[c] = (inbox[c] + (Len(chan[c]) + Cardinality(Pending(c)))) % NumMod
    BY <1>1 DEF DeliveryInv
  <2>1. CASE call[me] = NoCall
    <3>1. Pending(c) = {}
      BY <1>2, <2>1 DEF Pending, NoCall
    <3>2. Cardinality(Pending(c)) = 0
      BY <1>1, <3>1, PendingFacts, Zenon
    <3>3. outbox'[c] = (outbox[c] + 1) % NumMod
      BY <1>1, <2>1 DEF FillOutbox
    <3> DEFINE a == inbox[c]
               x == Len(chan[c])
    <3>4. NumMod \in Nat /\ a \in Int /\ 0 <= a /\ a < NumMod /\ x \in Int /\ 0 <= x /\ x < NumMod
      BY <1>1, ChannelNumbers
    <3>5. outbox[c] = (a + x) % NumMod
      BY <2>0, <3>2, <3>4
    <3> HIDE DEF a, x
    <3>6. (((a + x) % NumMod) + 1) % NumMod = (a + (x + 1)) % NumMod
      BY <3>4, NumberFacts
    <3> QED
      BY <3>3, <3>5, <3>6 DEF a, x
  <2>2. CASE call[me] # NoCall
    <3>1. me \in Pending(c)
      BY <1>1, <2>2 DEF Pending
    <3>2. Cardinality(Pending(c)) = 1
      BY <1>1, <3>1, PendingFacts
    <3>3. outbox' = outbox
      BY <2>2 DEF FillOutbox
    <3> QED
      BY <2>0, <3>2, <3>3
  <2> QED
    BY <2>1, <2>2
<1>5. \A d \in Chan \ {c} : outbox'[d] = outbox[d]
  BY <1>1 DEF FillOutbox
<1> QED
  BY <1>2, <1>3, <1>4, <1>5, SMTT(20), ZenonT(20)

\* A send that blocks.
LEMMA BlockDelivery ==
  ASSUME Inv, WakeInv, DeliveryInv, NEW k \in SendCall, Executes(k), k.ch \in Chan,
         k.ch \in Sends[Running], FillOutbox(k), BlockAndRestart(k, SendOn(k.ch))
  PROVE  DeliveryInv'
<1> DEFINE c == k.ch
           me == Running
<1>1. /\ me \in Task /\ c \in Chan /\ k.op = "send" /\ chan' = chan /\ inbox' = inbox
      /\ call' = [call EXCEPT ![me] = k] /\ call \in [Task -> {NoCall} \cup SendCall \cup ReceiveCall]
  BY RunningIsTask, Zenon DEF Inv, DataOK, SendCall, BlockAndRestart
<1>2. /\ outbox'[c] = (inbox[c] + (Len(chan[c]) + 1)) % NumMod
      /\ \A d \in Chan \ {c} : outbox'[d] = outbox[d]
      /\ Pending(c) \subseteq {me}
      /\ \A d \in Chan \ {c} : me \notin Pending(d)
  BY SendNumbers, Zenon
<1> HIDE DEF c, me
<1>3. \A t \in Task : call'[t] = IF t = me THEN k ELSE call[t]
  BY <1>1
<1>4. Pending(c)' = {me}
  BY <1>1, <1>2, <1>3, Zenon DEF Pending, c
<1>5. \A d \in Chan \ {c} : Pending(d)' = Pending(d)
  BY <1>1, <1>2, <1>3 DEF Pending, c
<1>6. Cardinality({me}) = 1
  BY FS_Singleton, Zenon
<1> SUFFICES ASSUME NEW d \in Chan
             PROVE  /\ \A i \in 1 .. Len(chan'[d]) : chan'[d][i] = (inbox'[d] + i) % NumMod
                    /\ outbox'[d] = (inbox'[d] + (Len(chan'[d]) + Cardinality(Pending(d)'))) % NumMod
  BY Zenon DEF DeliveryInv
<1>7. /\ \A i \in 1 .. Len(chan[d]) : chan[d][i] = (inbox[d] + i) % NumMod
      /\ outbox[d] = (inbox[d] + (Len(chan[d]) + Cardinality(Pending(d)))) % NumMod
  BY DEF DeliveryInv
<1>8. CASE d = c
  BY <1>1, <1>2, <1>4, <1>6, <1>7, <1>8, ZenonT(30)
<1>9. CASE d # c
  <2>1. outbox'[d] = outbox[d] /\ Pending(d)' = Pending(d)
    BY <1>2, <1>5, <1>9
  <2> QED
    BY <1>1, <1>7, <2>1
<1> QED
  BY <1>8, <1>9

\* A send that completes.
LEMMA SendDelivery ==
  ASSUME Inv, WakeInv, DeliveryInv, NEW k \in SendCall, Executes(k), k.ch \in Chan,
         k.ch \in Sends[Running], FillOutbox(k), SendCompletes(k)
  PROVE  DeliveryInv'
<1> DEFINE c == k.ch
           me == Running
           x == outbox'[c]
<1>1. /\ me \in Task /\ c \in Chan /\ inbox' = inbox
      /\ chan' = [chan EXCEPT ![c] = Append(chan[c], x)] /\ chan \in [Chan -> Seq(0 .. (NumMod - 1))]
      /\ call' = [call EXCEPT ![me] = NoCall] /\ call \in [Task -> {NoCall} \cup SendCall \cup ReceiveCall]
  BY RunningIsTask, Zenon DEF Inv, DataOK, SendCompletes
<1>2. /\ x = (inbox[c] + (Len(chan[c]) + 1)) % NumMod
      /\ \A d \in Chan \ {c} : outbox'[d] = outbox[d]
      /\ Pending(c) \subseteq {me}
      /\ \A d \in Chan \ {c} : me \notin Pending(d)
  BY SendNumbers, Zenon
<1>3. x \in 0 .. (NumMod - 1)
  BY <1>1, OutboxType
<1>4. \A t \in Task : call'[t] = IF t = me THEN NoCall ELSE call[t]
  BY <1>1
<1>5. Len(chan[c]) \in Nat /\ chan[c] \in Seq(0 .. (NumMod - 1))
  BY <1>1, ChannelNumbers
<1>6. outbox'[c] = x
  OBVIOUS
<1> HIDE DEF c, me, x
<1>7. Pending(c)' = {}
  BY <1>1, <1>2, <1>4, ZenonT(30) DEF Pending, NoCall
<1>8. \A d \in Chan \ {c} : Pending(d)' = Pending(d)
  BY <1>1, <1>2, <1>4 DEF Pending, NoCall
<1>9. Cardinality({}) = 0
  BY FS_EmptySet
<1>10. chan'[c] = Append(chan[c], x) /\ \A d \in Chan \ {c} : chan'[d] = chan[d]
  BY <1>1
<1>11. /\ Len(chan'[c]) = Len(chan[c]) + 1
       /\ \A i \in 1 .. Len(chan[c]) : chan'[c][i] = chan[c][i]
       /\ chan'[c][Len(chan[c]) + 1] = x
  <2> DEFINE N == 0 .. (NumMod - 1)
             p == chan[c]
  <2>1. p \in Seq(N) /\ x \in N /\ chan'[c] = Append(p, x)
    BY <1>3, <1>5, <1>10
  <2> HIDE DEF N, p
  <2>2. /\ Len(Append(p, x)) = Len(p) + 1
        /\ \A i \in 1 .. Len(p) : Append(p, x)[i] = p[i]
        /\ Append(p, x)[Len(p) + 1] = x
    BY <2>1
  <2> QED
    BY <2>1, <2>2 DEF p
<1> SUFFICES ASSUME NEW d \in Chan
             PROVE  /\ \A i \in 1 .. Len(chan'[d]) : chan'[d][i] = (inbox'[d] + i) % NumMod
                    /\ outbox'[d] = (inbox'[d] + (Len(chan'[d]) + Cardinality(Pending(d)'))) % NumMod
  BY DEF DeliveryInv
<1>12. /\ \A i \in 1 .. Len(chan[d]) : chan[d][i] = (inbox[d] + i) % NumMod
       /\ outbox[d] = (inbox[d] + (Len(chan[d]) + Cardinality(Pending(d)))) % NumMod
  BY DEF DeliveryInv
<1>13. CASE d = c
  <2>1. ASSUME NEW i \in 1 .. Len(chan'[c])
        PROVE  chan'[c][i] = (inbox[c] + i) % NumMod
    <3>1. CASE i = Len(chan[c]) + 1
      BY <1>2, <1>11, <3>1
    <3>2. CASE i # Len(chan[c]) + 1
      <4>1. i \in 1 .. Len(chan[c])
        BY <1>5, <1>11, <3>2
      <4> QED
        BY <1>11, <1>12, <1>13, <4>1
    <3> QED
      BY <3>1, <3>2, Zenon
  <2>2. Len(chan'[c]) + 0 = Len(chan[c]) + 1
    BY <1>5, <1>11
  <2> QED
    BY <1>1, <1>2, <1>6, <1>7, <1>9, <1>13, <2>1, <2>2, Zenon
<1>14. CASE d # c
  <2>1. outbox'[d] = outbox[d] /\ Pending(d)' = Pending(d) /\ chan'[d] = chan[d]
    BY <1>2, <1>8, <1>10, <1>14, SMTT(20)
  <2> QED
    BY <1>1, <1>12, <2>1, ZenonT(30)
<1> QED
  BY <1>13, <1>14, Zenon

\* A receive that completes.
LEMMA ReceiveDelivery ==
  ASSUME Inv, WakeInv, DeliveryInv, NEW k \in ReceiveCall, Executes(k), k.ch \in Chan,
         chan[k.ch] # <<>>, ReceiveCompletes(k)
  PROVE  DeliveryInv'
<1> DEFINE c == k.ch
           me == Running
           p == chan[c]
           a == inbox[c]
<1>1. /\ me \in Task /\ c \in Chan /\ outbox' = outbox /\ k.op = "receive"
      /\ chan' = [chan EXCEPT ![c] = Tail(p)] /\ chan \in [Chan -> Seq(0 .. (NumMod - 1))]
      /\ inbox' = [inbox EXCEPT ![c] = Head(p)] /\ inbox \in [Chan -> 0 .. (NumMod - 1)]
      /\ call' = [call EXCEPT ![me] = NoCall] /\ call \in [Task -> {NoCall} \cup SendCall \cup ReceiveCall]
      /\ call[me] \in {NoCall, k} /\ p # <<>>
  BY RunningIsTask DEF Inv, DataOK, ReceiveCompletes, Executes, ReceiveCall
<1>2. \A t \in Task : call'[t] = IF t = me THEN NoCall ELSE call[t]
  BY <1>1
<1>3. \A d \in Chan : Pending(d)' = Pending(d)
  BY <1>1, <1>2 DEF Pending, NoCall
<1>4. /\ \A d \in Chan : \A i \in 1 .. Len(chan[d]) : chan[d][i] = (inbox[d] + i) % NumMod
      /\ \A d \in Chan : outbox[d] = (inbox[d] + (Len(chan[d]) + Cardinality(Pending(d)))) % NumMod
  BY DEF DeliveryInv
<1>5. /\ p \in Seq(0 .. (NumMod - 1)) /\ Len(p) \in Nat /\ Len(p) <= Capacity
      /\ NumMod \in Nat /\ Capacity \in Nat /\ Capacity + 1 < NumMod
      /\ a \in Int /\ 0 <= a /\ a < NumMod
  BY <1>1, ChannelNumbers
<1>6. /\ chan'[c] = Tail(p) /\ inbox'[c] = Head(p)
      /\ \A d \in Chan \ {c} : chan'[d] = chan[d] /\ inbox'[d] = inbox[d]
  BY <1>1
<1>7. /\ \A i \in 1 .. Len(p) : p[i] = (a + i) % NumMod
      /\ outbox[c] = (a + (Len(p) + Cardinality(Pending(c)))) % NumMod
  BY <1>1, <1>4
<1>8. Cardinality(Pending(c)) \in Int /\ Cardinality(Pending(c)) >= 0 /\ Cardinality(Pending(c)) <= 1
  <2>1. Cardinality(Pending(c)) \in {0, 1}
    BY <1>1, PendingFacts
  <2> QED
    BY <2>1
<1> HIDE DEF c, me, p, a
<1>9. Head(p) = p[1] /\ Len(Tail(p)) = Len(p) - 1 /\ \A i \in 1 .. Len(p) - 1 : Tail(p)[i] = p[i + 1]
  BY <1>1, <1>5
<1>10. Len(p) >= 1
  BY <1>1, <1>5
<1>11. Head(p) = (a + 1) % NumMod
  BY <1>5, <1>7, <1>9, <1>10
<1>12. \A i \in 1 .. Len(p) - 1 : Tail(p)[i] = (((a + 1) % NumMod) + i) % NumMod
  <2> SUFFICES ASSUME NEW i \in 1 .. Len(p) - 1
               PROVE  Tail(p)[i] = (((a + 1) % NumMod) + i) % NumMod
    OBVIOUS
  <2>1. i \in Int /\ 0 <= i /\ i < NumMod /\ i + 1 \in 1 .. Len(p)
    BY <1>5
  <2>2. Tail(p)[i] = (a + (i + 1)) % NumMod
    BY <1>7, <1>9, <2>1
  <2>3. (((a + 1) % NumMod) + i) % NumMod = (a + (i + 1)) % NumMod
    BY <1>5, <2>1, NumberFacts, Zenon
  <2> QED
    BY <2>2, <2>3
<1>13. outbox[c] = (((a + 1) % NumMod) + (Len(Tail(p)) + Cardinality(Pending(c)))) % NumMod
  <2> DEFINE x == Len(Tail(p)) + Cardinality(Pending(c))
  <2>1. x \in Int /\ 0 <= x /\ x < NumMod /\ x + 1 = Len(p) + Cardinality(Pending(c))
    BY <1>5, <1>8, <1>9, <1>10
  <2> HIDE DEF x
  <2>2. (((a + 1) % NumMod) + x) % NumMod = (a + (x + 1)) % NumMod
    BY <1>5, <2>1, NumberFacts, Zenon
  <2>3. outbox[c] = (((a + 1) % NumMod) + x) % NumMod
    BY <1>7, <2>1, <2>2
  <2> QED
    BY <2>3 DEF x
<1> SUFFICES ASSUME NEW d \in Chan
             PROVE  /\ \A i \in 1 .. Len(chan'[d]) : chan'[d][i] = (inbox'[d] + i) % NumMod
                    /\ outbox'[d] = (inbox'[d] + (Len(chan'[d]) + Cardinality(Pending(d)'))) % NumMod
  BY DEF DeliveryInv
<1>14. CASE d = c
  <2>1. chan'[d] = Tail(p) /\ inbox'[d] = (a + 1) % NumMod /\ Len(chan'[d]) = Len(p) - 1
    BY <1>6, <1>9, <1>11, <1>14, SMTT(20)
  <2>2. \A i \in 1 .. Len(chan'[d]) : chan'[d][i] = (inbox'[d] + i) % NumMod
    BY <1>12, <2>1, SMTT(20)
  <2>3. outbox'[d] = (inbox'[d] + (Len(chan'[d]) + Cardinality(Pending(d)'))) % NumMod
    BY <1>1, <1>3, <1>13, <1>14, <2>1, SMTT(20), ZenonT(20)
  <2> QED
    BY <2>2, <2>3
<1>15. CASE d # c
  <2>1. outbox'[d] = outbox[d] /\ Pending(d)' = Pending(d) /\ chan'[d] = chan[d] /\ inbox'[d] = inbox[d]
    BY <1>1, <1>3, <1>6, <1>15, Zenon
  <2> QED
    BY <1>4, <2>1, SMTT(20)
<1> QED
  BY <1>14, <1>15

\* Initially every number is the last one of the circle and nothing is queued.
LEMMA InitDelivery == Init => DeliveryInv
<1> SUFFICES ASSUME Init, NEW c \in Chan
             PROVE  /\ \A i \in 1 .. Len(chan[c]) : chan[c][i] = (inbox[c] + i) % NumMod
                    /\ outbox[c] = (inbox[c] + (Len(chan[c]) + Cardinality(Pending(c)))) % NumMod
  BY DEF DeliveryInv
<1>1. Pending(c) = {}
  BY DEF Init, Pending, NoCall
<1>2. Cardinality(Pending(c)) = 0
  BY <1>1, FS_EmptySet
<1>3. chan[c] = <<>> /\ outbox[c] = inbox[c] /\ inbox[c] \in Int /\ 0 <= inbox[c] /\ inbox[c] < NumMod /\ NumMod \in Nat
  BY KernelAssumption DEF Init
<1>4. Len(chan[c]) = 0
  BY <1>3
<1>5. inbox[c] % NumMod = inbox[c]
  BY <1>3, ModFacts
<1> QED
  BY <1>2, <1>3, <1>4, <1>5

\* Every step preserves the invariant.
LEMMA NextDelivery == Inv /\ WakeInv /\ DeliveryInv /\ [Next]_vars => DeliveryInv'
<1> SUFFICES ASSUME Inv, WakeInv, DeliveryInv, [Next]_vars
             PROVE  DeliveryInv'
  OBVIOUS
<1>0. Running \in Task
  BY RunningIsTask DEF Inv
<1>1. CASE UNCHANGED <<chan, call, inbox, outbox>>
  <2>1. \A c \in Chan : Pending(c)' = Pending(c)
    BY <1>1 DEF Pending
  <2> QED
    BY <1>1, <2>1, QuietDelivery
<1>2. CASE \E k \in SendCall : SysSend(k)
  <2>1. PICK k \in SendCall : SysSend(k)
    BY <1>2
  <2>2. CASE UNCHANGED <<chan, call, inbox, outbox>>
    BY <1>1, <2>2
  <2>3. CASE SendCheck(Running, k) = "ok" /\ BlockAndRestart(k, SendOn(k.ch)) /\ FillOutbox(k)
    <3>1. Executes(k) /\ k.ch \in Chan /\ k.ch \in Sends[Running]
      BY <1>0, <2>1, <2>3, CheckFacts, ZenonT(30) DEF SysSend
    <3> QED
      BY <2>3, <3>1, BlockDelivery, Zenon
  <2>4. CASE SendCheck(Running, k) = "ok" /\ FillOutbox(k) /\ SendCompletes(k)
    <3>1. Executes(k) /\ k.ch \in Chan /\ k.ch \in Sends[Running]
      BY <1>0, <2>1, <2>4, CheckFacts, ZenonT(30) DEF SysSend
    <3> QED
      BY <2>4, <3>1, SendDelivery
  <2> QED
    BY <2>1, <2>2, <2>3, <2>4 DEF SysSend, Reject
<1>3. CASE \E k \in ReceiveCall : SysReceive(k)
  <2>1. PICK k \in ReceiveCall : SysReceive(k)
    BY <1>3
  <2>2. CASE UNCHANGED <<chan, call, inbox, outbox>>
    BY <1>1, <2>2
  <2>3. CASE BlockAndRestart(k, ReceiveOn(k.ch)) /\ UNCHANGED outbox
    <3>1. /\ call' = [call EXCEPT ![Running] = k] /\ call[Running] \in {NoCall, k} /\ k.op = "receive"
          /\ call \in [Task -> {NoCall} \cup SendCall \cup ReceiveCall] /\ UNCHANGED <<chan, inbox, outbox>>
      BY <2>1, <2>3 DEF SysReceive, Executes, BlockAndRestart, ReceiveCall, Inv, DataOK
    <3>2. \A c \in Chan : Pending(c)' = Pending(c)
      BY <1>0, <3>1 DEF Pending, NoCall
    <3> QED
      BY <3>1, <3>2, QuietDelivery, SMTT(20), ZenonT(20)
  <2>4. CASE ReceiveCheck(Running, k) = "ok" /\ chan[k.ch] # <<>> /\ ReceiveCompletes(k)
    <3>1. Executes(k) /\ k.ch \in Chan
      BY <1>0, <2>1, <2>4, CheckFacts, Zenon DEF SysReceive
    <3> QED
      BY <2>4, <3>1, ReceiveDelivery
  <2> QED
    BY <2>1, <2>2, <2>3, <2>4 DEF SysReceive, Reject
<1> QED
  BY <1>1, <1>2, <1>3, Zenon
     DEF Next, Timer, TimerIsr, SysYield, SysSleep, SysLog, SysNow, SysUnknown, Reject, Overflow, FaultAndHalt, Halted, vars

\* Messages are delivered exactly once and in order, whoever blocks and is
\* woken in between.
THEOREM ExactlyOnceInOrderAlways == Spec => []ExactlyOnceInOrder
<1>1. Init => Inv /\ WakeInv /\ DeliveryInv
  BY InitInv, InitWake, InitDelivery
<1>2. (Inv /\ WakeInv /\ DeliveryInv) /\ [Next]_vars => (Inv /\ WakeInv /\ DeliveryInv)'
  BY NextInv, NextWake, NextDelivery, SMTT(20), ZenonT(20)
<1>3. Inv /\ WakeInv /\ DeliveryInv => ExactlyOnceInOrder
  <2> SUFFICES ASSUME Inv, WakeInv, DeliveryInv, NEW c \in Chan
               PROVE  /\ \A i \in DOMAIN chan[c] : chan[c][i] = (inbox[c] + i) % NumMod
                      /\ outbox[c] = (inbox[c] + Len(chan[c]) + Cardinality(Pending(c))) % NumMod
    BY Zenon DEF ExactlyOnceInOrder, Pending
  <2>1. chan[c] \in Seq(0 .. (NumMod - 1)) /\ inbox[c] \in Int /\ Len(chan[c]) \in Nat
    BY ChannelNumbers
  <2>2. Cardinality(Pending(c)) \in {0, 1}
    BY PendingFacts
  <2>3. DOMAIN chan[c] = 1 .. Len(chan[c])
    BY <2>1
  <2>4. inbox[c] + Len(chan[c]) + Cardinality(Pending(c)) = inbox[c] + (Len(chan[c]) + Cardinality(Pending(c)))
    BY <2>1, <2>2
  <2> QED
    BY <2>3, <2>4 DEF DeliveryInv
<1> QED
  BY <1>1, <1>2, <1>3, PTL DEF Spec

=============================================================================
