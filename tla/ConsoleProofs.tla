---------------------------- MODULE ConsoleProofs -----------------------------
(***************************************************************************)
(* Proofs about the console for any number of preemptions of any kinds: a  *)
(* device's lock is held only with interrupts off, and a panic never lets  *)
(* them on again.                                                          *)
(***************************************************************************)
EXTENDS Console, SequenceTheorems, TLAPS

(* The interrupt flag with which context i runs, or will go on when the    *)
(* one above it returns.                                                   *)
Flag(i) == IF i = depth THEN interrupts ELSE stack[i + 1].resume

(* The kernel thread is at the bottom and nowhere else, and a context that *)
(* waits for a lock or holds it has a message for its device.              *)
StackInv ==
  \A i \in 1 .. depth :
    /\ stack[i].kind = "main" <=> i = 1
    /\ stack[i].pc \in {"lock", "write"} => stack[i].todo # <<>>

(* A device's lock is held by the context that is writing to the device.   *)
HolderInv ==
  \A d \in Devices :
    holder[d] # 0 => /\ stack[holder[d]].pc = "write"
                     /\ Head(stack[holder[d]].todo) = d

(* Every context but the kernel thread runs with interrupts off and will   *)
(* leave them off; the kernel thread has them off around a message.        *)
FlagInv ==
  /\ \A i \in 2 .. depth : ~Flag(i) /\ ~stack[i].saved
  /\ stack[1].pc \in {"lock", "write"} => ~Flag(1)

ConsoleInv == TypeOK /\ StackInv /\ HolderInv /\ FlagInv

-----------------------------------------------------------------------------
LEMMA InitInv == Init => ConsoleInv
<1> SUFFICES ASSUME Init PROVE ConsoleInv
  OBVIOUS
<1> DEFINE c == [kind |-> "main", todo |-> <<>>, pc |-> "run",
                 saved |-> FALSE, resume |-> TRUE]
<1>1. c \in Context
  BY DEF Context, Kinds
<1>2. stack = <<c>> /\ depth = 1 /\ stack[1] = c /\ stack \in Seq(Context)
  BY <1>1 DEF Init, depth
<1> QED BY <1>2, ConsoleAssumption
        DEF Init, ConsoleInv, TypeOK, StackInv, HolderInv, FlagInv, Devices

(* What the running context becomes. *)
LEMMA BecomesIs ==
  ASSUME TypeOK, NEW c \in Context, Becomes(c)
  PROVE  /\ stack' \in Seq(Context) /\ depth' = depth /\ depth \in Nat \ {0}
         /\ stack'[depth] = c
         /\ \A i \in 1 .. depth - 1 : stack'[i] = stack[i]
BY DEF TypeOK, Becomes, depth

(* The new context on top of the stack. *)
LEMMA AppendIs ==
  ASSUME TypeOK, NEW c \in Context, stack' = Append(stack, c)
  PROVE  /\ stack' \in Seq(Context) /\ depth' = depth + 1 /\ depth \in Nat \ {0}
         /\ stack'[depth + 1] = c
         /\ \A i \in 1 .. depth : stack'[i] = stack[i]
BY DEF TypeOK, depth

LEMMA EnteredIs ==
  ASSUME TypeOK, NEW kind \in Kinds \ {"main"}
  PROVE  Entered(kind) \in Context
<1>1. CASE kind = "page_fault"
  <2>1. <<"serial", "serial", "serial", "serial">> \in Seq(Devices)
    BY DEF Devices
  <2> QED BY <1>1, <2>1 DEF Messages, Entered, Context, TypeOK
<1>2. CASE kind \in {"nmi", "breakpoint"}
  <2>1. <<"serial">> \in Seq(Devices)
    BY DEF Devices
  <2> QED BY <1>2, <2>1 DEF Messages, Entered, Context, TypeOK
<1>3. CASE kind = "panic"
  <2>1. <<"vga", "vga", "serial", "serial">> \in Seq(Devices)
    BY DEF Devices
  <2> QED BY <1>3, <2>1 DEF Messages, Entered, Context, TypeOK
<1>4. CASE kind \in {"irq", "double_fault"}
  <2>1. Messages(kind) = <<>>
    BY <1>4 DEF Messages
  <2> QED BY <1>4, <2>1 DEF Entered, Context, TypeOK
<1> QED BY <1>1, <1>2, <1>3, <1>4 DEF Kinds

LEMMA TopIs == TypeOK => top \in Context /\ depth \in Nat \ {0}
BY DEF TypeOK, top, depth

(* A step of the running context that keeps its kind and the flag it will  *)
(* restore leaves the stack in order, and the flags of the contexts below. *)
LEMMA BecomesKeeps ==
  ASSUME TypeOK, StackInv, NEW c \in Context, Becomes(c),
         c.kind = top.kind, c.resume = top.resume,
         c.pc \in {"lock", "write"} => c.todo # <<>>
  PROVE  /\ StackInv' /\ stack' \in Seq(Context) /\ stack' # <<>>
         /\ \A i \in 1 .. depth - 1 : Flag(i)' = Flag(i)
         /\ Flag(depth)' = interrupts'
<1>1. /\ stack' \in Seq(Context) /\ depth' = depth /\ depth \in Nat \ {0}
      /\ stack'[depth] = c
      /\ \A i \in 1 .. depth - 1 : stack'[i] = stack[i]
  BY BecomesIs
<1>2. stack' # <<>>
  BY <1>1 DEF depth
<1>3. StackInv'
  BY <1>1 DEF StackInv, top
<1>4. ASSUME NEW i \in 1 .. depth - 1
      PROVE  Flag(i)' = Flag(i)
  <2>1. i + 1 \in 1 .. depth /\ i # depth
    BY <1>1
  <2>2. stack'[i + 1].resume = stack[i + 1].resume
    BY <1>1, <2>1 DEF top
  <2> QED BY <1>1, <2>1, <2>2 DEF Flag
<1> QED BY <1>1, <1>2, <1>3, <1>4 DEF Flag

(* A new context that is not the kernel thread, entered with interrupts    *)
(* switched off, saves the flag of the one it interrupts.                  *)
LEMMA PushKeeps ==
  ASSUME ConsoleInv, depth \in Nat \ {0}, depth' = depth + 1,
         stack' \in Seq(Context), \A i \in 1 .. depth : stack'[i] = stack[i],
         stack'[depth'].kind # "main", stack'[depth'].pc = "run",
         stack'[depth'].saved = FALSE, stack'[depth'].resume = interrupts,
         interrupts' = FALSE, holder' = holder, strikes' \in 0 .. MaxStrikes
  PROVE  ConsoleInv'
<1> USE DEF ConsoleInv
<1>1. TypeOK'
  <2>1. stack' # <<>>
    BY DEF depth
  <2>2. holder' \in [Devices -> 0 .. depth']
    BY DEF TypeOK
  <2> QED BY <2>1, <2>2 DEF TypeOK
<1>2. StackInv'
  BY DEF StackInv
<1>3. HolderInv'
  <2> SUFFICES ASSUME NEW d \in Devices, holder[d] # 0
               PROVE  stack'[holder[d]].pc = "write" /\ Head(stack'[holder[d]].todo) = d
    BY DEF HolderInv
  <2>1. holder[d] \in 1 .. depth
    BY DEF TypeOK
  <2> QED BY <2>1 DEF HolderInv
<1>4. ASSUME NEW i \in 1 .. depth
      PROVE  Flag(i)' = Flag(i)
  <2>1. CASE i = depth
    BY <2>1 DEF Flag
  <2>2. CASE i # depth
    BY <2>2 DEF Flag
  <2> QED BY <2>1, <2>2
<1>5. \A i : i = depth' => Flag(i)' = FALSE
  BY DEF Flag
<1>6. FlagInv'
  <2>1. ASSUME NEW i \in 2 .. depth'
        PROVE  ~Flag(i)' /\ ~stack'[i].saved
    <3>1. CASE i = depth'
      BY <3>1, <1>5
    <3>2. CASE i # depth'
      BY <3>2, <1>4 DEF FlagInv
    <3> QED BY <3>1, <3>2
  <2>2. stack'[1].pc \in {"lock", "write"} => ~Flag(1)'
    BY <1>4 DEF FlagInv
  <2> QED BY <2>1, <2>2 DEF FlagInv
<1> QED BY <1>1, <1>2, <1>3, <1>6

LEMMA EnterKeeps ==
  ASSUME ConsoleInv, NEW kind \in Kinds \ {"main"},
         stack' = Append(stack, Entered(kind)), interrupts' = FALSE,
         holder' = holder, strikes' \in 0 .. MaxStrikes
  PROVE  ConsoleInv'
<1> DEFINE c == Entered(kind)
<1>1. c \in Context
  BY EnteredIs DEF ConsoleInv
<1>2. /\ stack' \in Seq(Context) /\ depth' = depth + 1 /\ depth \in Nat \ {0}
      /\ stack'[depth + 1] = c
      /\ \A i \in 1 .. depth : stack'[i] = stack[i]
  BY <1>1, AppendIs DEF ConsoleInv
<1>3. c.kind # "main" /\ c.pc = "run" /\ c.saved = FALSE /\ c.resume = interrupts
  BY DEF Entered
<1> HIDE DEF c
<1> QED BY <1>2, <1>3, PushKeeps

-----------------------------------------------------------------------------
LEMMA PrintlnKeeps ==
  ASSUME ConsoleInv, NEW d \in MainDevices, println(d)
  PROVE  ConsoleInv'
<1> USE DEF ConsoleInv
<1> DEFINE c == [top EXCEPT !.todo = <<d>>]
<1>1. top \in Context /\ depth \in Nat \ {0}
  BY TopIs
<1>2. d \in Devices
  BY ConsoleAssumption DEF Devices
<1>3. c \in Context /\ c.kind = top.kind /\ c.resume = top.resume
      /\ c.pc = "run" /\ c.saved = top.saved
  <2>1. <<d>> \in Seq(Devices)
    BY <1>2
  <2>2. top.pc = "run"
    BY DEF println
  <2> QED BY <1>1, <2>1, <2>2 DEF Context
<1>4. Becomes(c) /\ top.kind = "main" /\ top.pc = "run"
      /\ UNCHANGED <<interrupts, holder, strikes>>
  BY DEF println
<1> HIDE DEF c
<1>5. /\ depth' = depth /\ stack'[depth] = c
      /\ \A i \in 1 .. depth - 1 : stack'[i] = stack[i]
  BY <1>3, <1>4, BecomesIs
<1>6. /\ StackInv' /\ stack' \in Seq(Context) /\ stack' # <<>>
      /\ \A i \in 1 .. depth - 1 : Flag(i)' = Flag(i)
      /\ Flag(depth)' = interrupts'
  BY <1>3, <1>4, BecomesKeeps
<1>7. TypeOK'
  BY <1>4, <1>5, <1>6 DEF TypeOK
<1>8. HolderInv'
  BY <1>1, <1>4, <1>5 DEF HolderInv, TypeOK, top
<1>9. FlagInv'
  BY <1>1, <1>3, <1>4, <1>5, <1>6 DEF FlagInv, Flag, StackInv, top
<1> QED BY <1>6, <1>7, <1>8, <1>9

LEMMA WithoutInterruptsKeeps ==
  ASSUME ConsoleInv, WithoutInterrupts
  PROVE  ConsoleInv'
<1> USE DEF ConsoleInv
<1> DEFINE c == [top EXCEPT !.pc = "lock", !.saved = interrupts]
<1>1. top \in Context /\ depth \in Nat \ {0} /\ interrupts \in BOOLEAN
  BY TopIs DEF TypeOK
<1>2. c \in Context /\ c.kind = top.kind /\ c.resume = top.resume
      /\ c.pc = "lock" /\ c.saved = interrupts /\ c.todo = top.todo
  BY <1>1 DEF Context
<1>3. Becomes(c) /\ top.todo # <<>> /\ top.pc = "run" /\ interrupts' = FALSE
      /\ UNCHANGED <<holder, strikes>>
  BY DEF WithoutInterrupts
<1> HIDE DEF c
<1>4. /\ depth' = depth /\ stack'[depth] = c
      /\ \A i \in 1 .. depth - 1 : stack'[i] = stack[i]
  BY <1>2, <1>3, BecomesIs
<1>5. /\ StackInv' /\ stack' \in Seq(Context) /\ stack' # <<>>
      /\ \A i \in 1 .. depth - 1 : Flag(i)' = Flag(i)
      /\ Flag(depth)' = interrupts'
  BY <1>2, <1>3, BecomesKeeps
<1>6. TypeOK'
  BY <1>3, <1>4, <1>5 DEF TypeOK
<1>7. HolderInv'
  BY <1>1, <1>3, <1>4 DEF HolderInv, TypeOK, top
<1>8. FlagInv'
  BY <1>1, <1>2, <1>3, <1>4, <1>5 DEF FlagInv, Flag
<1> QED BY <1>5, <1>6, <1>7, <1>8

LEMMA LockKeeps ==
  ASSUME ConsoleInv, Lock
  PROVE  ConsoleInv'
<1> USE DEF ConsoleInv
<1> DEFINE c == [top EXCEPT !.pc = "write"]
           d == Head(top.todo)
<1>1. top \in Context /\ depth \in Nat \ {0}
  BY TopIs
<1>2. c \in Context /\ c.kind = top.kind /\ c.resume = top.resume
      /\ c.pc = "write" /\ c.saved = top.saved /\ c.todo = top.todo
  BY <1>1 DEF Context
<1>3. Becomes(c) /\ top.pc = "lock" /\ holder[d] = 0
      /\ holder' = [holder EXCEPT ![d] = depth]
      /\ UNCHANGED <<interrupts, strikes>>
  BY DEF Lock
<1>4. top.todo \in Seq(Devices) /\ top.todo # <<>>
  BY <1>1, <1>3 DEF Context, StackInv, top
<1>5. d \in Devices /\ Head(c.todo) = d
  BY <1>2, <1>4
<1> HIDE DEF c, d
<1>6. /\ depth' = depth /\ stack'[depth] = c
      /\ \A i \in 1 .. depth - 1 : stack'[i] = stack[i]
  BY <1>2, <1>3, BecomesIs
<1>7. /\ StackInv' /\ stack' \in Seq(Context) /\ stack' # <<>>
      /\ \A i \in 1 .. depth - 1 : Flag(i)' = Flag(i)
      /\ Flag(depth)' = interrupts'
  BY <1>2, <1>3, <1>4, BecomesKeeps
<1>8. TypeOK'
  BY <1>1, <1>3, <1>5, <1>6, <1>7 DEF TypeOK
<1>9. HolderInv'
  <2> SUFFICES ASSUME NEW e \in Devices, holder'[e] # 0
               PROVE  stack'[holder'[e]].pc = "write" /\ Head(stack'[holder'[e]].todo) = e
    BY DEF HolderInv
  <2>1. CASE e = d
    <3>1. holder'[e] = depth
      BY <1>3, <1>5, <2>1 DEF TypeOK
    <3> QED BY <1>2, <1>5, <1>6, <2>1, <3>1
  <2>2. CASE e # d
    <3>1. holder'[e] = holder[e] /\ holder[e] \in 1 .. depth
      BY <1>1, <1>3, <2>2 DEF TypeOK
    <3>2. stack[holder[e]].pc = "write" /\ Head(stack[holder[e]].todo) = e
      BY <3>1 DEF HolderInv
    <3>3. holder[e] # depth
      BY <1>3, <3>2 DEF top
    <3> QED BY <1>1, <1>6, <3>1, <3>2, <3>3
  <2> QED BY <2>1, <2>2
<1>10. FlagInv'
  <2>1. \A i \in 1 .. depth : Flag(i)' = Flag(i) /\ stack'[i].saved = stack[i].saved
    BY <1>1, <1>2, <1>3, <1>6, <1>7 DEF Flag, top
  <2>2. stack'[1].pc \in {"lock", "write"} => stack[1].pc \in {"lock", "write"}
    BY <1>1, <1>3, <1>6 DEF top
  <2> QED BY <1>1, <1>6, <2>1, <2>2 DEF FlagInv
<1> QED BY <1>7, <1>8, <1>9, <1>10

LEMMA WriteAndUnlockKeeps ==
  ASSUME ConsoleInv, WriteAndUnlock
  PROVE  ConsoleInv'
<1> USE DEF ConsoleInv
<1> DEFINE c == [top EXCEPT !.pc = "run", !.todo = Tail(@)]
           d == Head(top.todo)
<1>1. top \in Context /\ depth \in Nat \ {0}
  BY TopIs
<1>2. top.pc = "write" /\ holder' = [holder EXCEPT ![d] = 0]
      /\ interrupts' = top.saved /\ Becomes(c) /\ UNCHANGED strikes
  BY DEF WriteAndUnlock
<1>3. top.todo \in Seq(Devices) /\ top.todo # <<>>
  BY <1>1, <1>2 DEF Context, StackInv, top
<1>4. d \in Devices /\ Tail(top.todo) \in Seq(Devices)
  BY <1>3
<1>5. c \in Context /\ c.kind = top.kind /\ c.resume = top.resume
      /\ c.pc = "run" /\ c.saved = top.saved
  BY <1>1, <1>4 DEF Context
<1>6. top.saved \in BOOLEAN
  BY <1>1 DEF Context
<1> HIDE DEF c, d
<1>7. /\ depth' = depth /\ stack'[depth] = c
      /\ \A i \in 1 .. depth - 1 : stack'[i] = stack[i]
  BY <1>2, <1>5, BecomesIs
<1>8. /\ StackInv' /\ stack' \in Seq(Context) /\ stack' # <<>>
      /\ \A i \in 1 .. depth - 1 : Flag(i)' = Flag(i)
      /\ Flag(depth)' = interrupts'
  BY <1>2, <1>5, BecomesKeeps
<1>9. TypeOK'
  <2>1. holder' \in [Devices -> 0 .. depth']
    <3>1. holder \in [Devices -> 0 .. depth] /\ 0 \in 0 .. depth
      BY <1>1 DEF TypeOK
    <3> QED BY <1>2, <1>7, <3>1
  <2> QED BY <1>2, <1>6, <1>8, <2>1 DEF TypeOK
<1>10. HolderInv'
  <2> SUFFICES ASSUME NEW e \in Devices, holder'[e] # 0
               PROVE  stack'[holder'[e]].pc = "write" /\ Head(stack'[holder'[e]].todo) = e
    BY DEF HolderInv
  <2>1. e # d /\ holder'[e] = holder[e] /\ holder[e] \in 1 .. depth
    BY <1>1, <1>2 DEF TypeOK
  <2>2. stack[holder[e]].pc = "write" /\ Head(stack[holder[e]].todo) = e
    BY <2>1 DEF HolderInv
  <2>3. holder[e] # depth
    BY <2>1, <2>2 DEF top, d
  <2> QED BY <1>1, <1>7, <2>1, <2>2, <2>3
<1>11. FlagInv'
  <2>1. depth # 1 => top.saved = FALSE
    BY <1>1, <1>6 DEF FlagInv, top
  <2>2. ASSUME NEW i \in 2 .. depth
        PROVE  ~Flag(i)' /\ ~stack'[i].saved
    <3>1. CASE i = depth
      BY <1>2, <1>5, <1>7, <1>8, <2>1, <3>1
    <3>2. CASE i # depth
      BY <1>1, <1>7, <1>8, <3>2 DEF FlagInv
    <3> QED BY <3>1, <3>2
  <2>3. stack'[1].pc \in {"lock", "write"} => ~Flag(1)'
    <3>1. CASE depth = 1
      BY <1>5, <1>7, <3>1
    <3>2. CASE depth # 1
      BY <1>1, <1>7, <1>8, <3>2 DEF FlagInv
    <3> QED BY <3>1, <3>2
  <2> QED BY <1>7, <2>2, <2>3 DEF FlagInv
<1> QED BY <1>8, <1>9, <1>10, <1>11

(* The stack without the context that returns. *)
LEMMA PopIs ==
  ASSUME TypeOK, depth > 1, stack' = SubSeq(stack, 1, depth - 1)
  PROVE  /\ stack' \in Seq(Context) /\ depth' = depth - 1 /\ depth \in Nat
         /\ \A i \in 1 .. depth - 1 : stack'[i] = stack[i]
BY DEF TypeOK, depth

LEMMA PopKeeps ==
  ASSUME ConsoleInv, depth \in Nat, depth > 1, depth' = depth - 1,
         stack' \in Seq(Context), \A i \in 1 .. depth - 1 : stack'[i] = stack[i],
         top.pc = "run", interrupts' = top.resume,
         UNCHANGED <<holder, strikes>>
  PROVE  ConsoleInv'
<1> USE DEF ConsoleInv
<1>1. top \in Context
  BY TopIs
<1>2. \A d \in Devices : holder[d] # depth
  BY DEF HolderInv, top
<1>3. TypeOK'
  <2>1. stack' # <<>>
    BY DEF depth
  <2>2. holder' \in [Devices -> 0 .. depth']
    <3>1. holder \in [Devices -> 0 .. depth]
      BY DEF TypeOK
    <3>2. \A d \in Devices : holder[d] \in 0 .. depth - 1
      BY <1>2, <3>1
    <3> QED BY <3>1, <3>2
  <2> QED BY <1>1, <2>1, <2>2 DEF TypeOK, Context
<1>4. StackInv'
  BY DEF StackInv
<1>5. HolderInv'
  <2> SUFFICES ASSUME NEW d \in Devices, holder[d] # 0
               PROVE  stack'[holder[d]].pc = "write" /\ Head(stack'[holder[d]].todo) = d
    BY DEF HolderInv
  <2>1. holder[d] \in 1 .. depth - 1
    BY <1>2 DEF TypeOK
  <2> QED BY <2>1 DEF HolderInv
<1>6. ASSUME NEW i \in 1 .. depth'
      PROVE  Flag(i)' = Flag(i)
  <2>1. CASE i = depth'
    BY <2>1 DEF Flag, top
  <2>2. CASE i # depth'
    BY <2>2 DEF Flag
  <2> QED BY <2>1, <2>2
<1>7. FlagInv'
  BY <1>6 DEF FlagInv
<1> QED BY <1>3, <1>4, <1>5, <1>7

LEMMA ReturnKeeps ==
  ASSUME ConsoleInv, Return
  PROVE  ConsoleInv'
<1>1. top \in Context /\ depth \in Nat \ {0}
  BY TopIs DEF ConsoleInv
<1>2. depth > 1
  BY <1>1 DEF Return, ConsoleInv, StackInv, top
<1>3. /\ stack' \in Seq(Context) /\ depth' = depth - 1
      /\ \A i \in 1 .. depth - 1 : stack'[i] = stack[i]
  BY <1>2, PopIs DEF Return, ConsoleInv
<1>4. top.pc = "run" /\ interrupts' = top.resume /\ UNCHANGED <<holder, strikes>>
  BY DEF Return
<1> QED BY <1>1, <1>2, <1>3, <1>4, PopKeeps

LEMMA HaltKeeps ==
  ASSUME ConsoleInv, Halt
  PROVE  ConsoleInv'
<1> USE DEF ConsoleInv
<1> DEFINE c == [top EXCEPT !.pc = "halt"]
<1>1. top \in Context /\ depth \in Nat \ {0}
  BY TopIs
<1>2. c \in Context /\ c.kind = top.kind /\ c.resume = top.resume
      /\ c.pc = "halt" /\ c.saved = top.saved
  BY <1>1 DEF Context
<1>3. Becomes(c) /\ top.pc = "run" /\ UNCHANGED <<interrupts, holder, strikes>>
  BY DEF Halt
<1> HIDE DEF c
<1>4. /\ depth' = depth /\ stack'[depth] = c
      /\ \A i \in 1 .. depth - 1 : stack'[i] = stack[i]
  BY <1>2, <1>3, BecomesIs
<1>5. /\ StackInv' /\ stack' \in Seq(Context) /\ stack' # <<>>
      /\ \A i \in 1 .. depth - 1 : Flag(i)' = Flag(i)
      /\ Flag(depth)' = interrupts'
  BY <1>2, <1>3, BecomesKeeps
<1>6. TypeOK'
  BY <1>3, <1>4, <1>5 DEF TypeOK
<1>7. HolderInv'
  BY <1>1, <1>3, <1>4 DEF HolderInv, TypeOK, top
<1>8. FlagInv'
  <2>1. \A i \in 1 .. depth : Flag(i)' = Flag(i) /\ stack'[i].saved = stack[i].saved
    BY <1>1, <1>2, <1>3, <1>4, <1>5 DEF Flag, top
  <2>2. stack'[1].pc \in {"lock", "write"} => stack[1].pc \in {"lock", "write"}
    BY <1>1, <1>2, <1>4 DEF top
  <2> QED BY <1>1, <1>4, <2>1, <2>2 DEF FlagInv
<1> QED BY <1>5, <1>6, <1>7, <1>8

(* Every step keeps the invariant. *)
LEMMA StepInv == ConsoleInv /\ [Next]_vars => ConsoleInv'
<1> SUFFICES ASSUME ConsoleInv, [Next]_vars PROVE ConsoleInv'
  OBVIOUS
<1>1. ASSUME NEW d \in MainDevices, println(d) PROVE ConsoleInv'
  BY <1>1, PrintlnKeeps
<1>2. CASE WithoutInterrupts
  BY <1>2, WithoutInterruptsKeeps
<1>3. CASE Lock
  BY <1>3, LockKeeps
<1>4. CASE WriteAndUnlock
  BY <1>4, WriteAndUnlockKeeps
<1>5. CASE Return
  BY <1>5, ReturnKeeps
<1>6. CASE Panic
  <2>1. strikes' \in 0 .. MaxStrikes /\ "panic" \in Kinds \ {"main"}
    BY <1>6 DEF Panic, ConsoleInv, TypeOK, Kinds
  <2> QED BY <1>6, <2>1, EnterKeeps DEF Panic
<1>7. CASE Halt
  BY <1>7, HaltKeeps
<1>8. ASSUME NEW kind \in Strikes, Strike(kind) PROVE ConsoleInv'
  <2>1. kind \in Kinds \ {"main"}
    BY ConsoleAssumption DEF Kinds
  <2>2. strikes' \in 0 .. MaxStrikes
    BY <1>8, ConsoleAssumption DEF Strike, ConsoleInv, TypeOK
  <2> QED BY <1>8, <2>1, <2>2, EnterKeeps DEF Strike
<1>9. CASE UNCHANGED vars
  BY <1>9 DEF vars, ConsoleInv, TypeOK, StackInv, HolderInv, FlagInv, Flag, depth
<1> QED BY <1>1, <1>2, <1>3, <1>4, <1>5, <1>6, <1>7, <1>8, <1>9 DEF Next, Run

LEMMA SpecInv == Spec => []ConsoleInv
BY InitInv, StepInv, PTL DEF Spec

-----------------------------------------------------------------------------
(* The stack of contexts and the locks stay well formed, however often     *)
(* handlers preempt each other and the kernel thread (idt.rs, _print).     *)
THEOREM ConsoleTypeCorrect == Spec => []TypeOK
<1>1. ConsoleInv => TypeOK
  BY DEF ConsoleInv
<1> QED BY <1>1, SpecInv, PTL

(* without_interrupts around both writers' locks: whoever holds a lock,    *)
(* running or preempted, no maskable interrupt can arrive.                 *)
THEOREM LocksAreMasked == Spec => []LockedMeansMasked
<1>1. ConsoleInv => LockedMeansMasked
  <2> SUFFICES ASSUME ConsoleInv, NEW d \in Devices, holder[d] # 0
               PROVE  ~interrupts
    BY DEF LockedMeansMasked
  <2>1. depth \in Nat \ {0} /\ holder[d] \in 1 .. depth
    BY TopIs DEF ConsoleInv, TypeOK
  <2>2. CASE depth = 1
    BY <2>1, <2>2 DEF ConsoleInv, HolderInv, FlagInv, Flag
  <2>3. CASE depth # 1
    BY <2>1, <2>3 DEF ConsoleInv, FlagInv, Flag
  <2> QED BY <2>2, <2>3
<1> QED BY <1>1, SpecInv, PTL

(* The panic handler disables interrupts first: neither its own messages   *)
(* nor a handler that preempts it and returns lets them on again.          *)
THEOREM PanicKeepsMasked == Spec => []PanicStaysMasked
<1>1. ConsoleInv => PanicStaysMasked
  <2> SUFFICES ASSUME ConsoleInv, NEW i \in 1 .. depth, stack[i].kind = "panic"
               PROVE  ~interrupts
    BY DEF PanicStaysMasked
  <2>1. depth \in Nat \ {0} /\ i # 1
    BY TopIs DEF ConsoleInv, StackInv
  <2> QED BY <2>1 DEF ConsoleInv, FlagInv, Flag
<1> QED BY <1>1, SpecInv, PTL

==============================================================================
