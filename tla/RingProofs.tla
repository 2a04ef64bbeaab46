----------------------------- MODULE RingProofs ------------------------------
(***************************************************************************)
(* Proofs about the scancode ring for every size and every interleaving of *)
(* the interrupt handler with the terminal.                                *)
(***************************************************************************)
EXTENDS ScancodeRing, SequenceTheorems, TLAPS

-----------------------------------------------------------------------------
(* Wrapping of an index at most one turn out of range. *)
LEMMA ModBelow == ASSUME NEW N \in Nat, N > 0, NEW a \in 0 .. N - 1 PROVE a % N = a
OBVIOUS

LEMMA ModAbove == ASSUME NEW N \in Nat, N > 0, NEW a \in N .. 2 * N - 1 PROVE a % N = a - N
OBVIOUS

LEMMA ModNegative == ASSUME NEW N \in Nat, N > 0, NEW a \in 0 - N .. 0 - 1 PROVE a % N = a + N
OBVIOUS

(* The next index, the distance of two indices and the index some steps on. *)
LEMMA NextIs ==
  ASSUME NEW i \in Slots
  PROVE  next(i) = (IF i = Size - 1 THEN 0 ELSE i + 1) /\ next(i) \in Slots
<1>1. CASE i = Size - 1
  BY <1>1, ModAbove, RingAssumption DEF next, Slots
<1>2. CASE i # Size - 1
  BY <1>2, ModBelow, RingAssumption DEF next, Slots
<1> QED BY <1>1, <1>2

LEMMA DistanceIs ==
  ASSUME NEW h \in Slots, NEW t \in Slots
  PROVE  /\ (t - h) % Size = (IF h <= t THEN t - h ELSE t - h + Size)
         /\ (t - h) % Size \in 0 .. Size - 1
<1>1. CASE h <= t
  BY <1>1, ModBelow, RingAssumption DEF Slots
<1>2. CASE ~(h <= t)
  <2>1. t - h \in 0 - Size .. 0 - 1
    BY <1>2, RingAssumption DEF Slots
  <2>2. (t - h) % Size = t - h + Size
    BY <2>1, ModNegative, RingAssumption
  <2> QED BY <1>2, <2>2, RingAssumption DEF Slots
<1> QED BY <1>1, <1>2

LEMMA SlotIs ==
  ASSUME NEW h \in Slots, NEW k \in 0 .. Size - 1
  PROVE  /\ (h + k) % Size = (IF h + k < Size THEN h + k ELSE h + k - Size)
         /\ (h + k) % Size \in Slots
<1>1. CASE h + k < Size
  BY <1>1, ModBelow, RingAssumption DEF Slots
<1>2. CASE ~(h + k < Size)
  <2>1. h + k \in Size .. 2 * Size - 1
    BY <1>2, RingAssumption DEF Slots
  <2>2. \A a \in Size .. 2 * Size - 1 : a % Size = a - Size
    BY ModAbove, RingAssumption
  <2> QED BY <1>2, <2>1, <2>2, RingAssumption DEF Slots
<1> QED BY <1>1, <1>2

-----------------------------------------------------------------------------
(* The contents of a ring are a sequence of bytes. *)
LEMMA ContentsType ==
  ASSUME NEW b \in [Slots -> Codes], NEW h \in Slots, NEW t \in Slots
  PROVE  /\ Contents(b, h, t) \in Seq(Codes)
         /\ Len(Contents(b, h, t)) = (t - h) % Size
         /\ \A i \in 1 .. (t - h) % Size :
              /\ (h + i - 1) % Size \in Slots
              /\ Contents(b, h, t)[i] = b[(h + i - 1) % Size]
<1> DEFINE n == (t - h) % Size
<1>1. n \in 0 .. Size - 1
  BY DistanceIs
<1>2. n \in Nat
  BY <1>1, RingAssumption
<1>3. ASSUME NEW i \in 1 .. n PROVE (h + i - 1) % Size \in Slots
  <2>1. i - 1 \in 0 .. Size - 1 /\ h + i - 1 = h + (i - 1)
    BY <1>1, RingAssumption DEF Slots
  <2> QED BY <2>1, SlotIs
<1>4. \A i \in 1 .. n : b[(h + i - 1) % Size] \in Codes
  BY <1>3
<1> HIDE DEF n
<1>5. [i \in 1 .. n |-> b[(h + i - 1) % Size]] \in Seq(Codes)
  BY <1>2, <1>4
<1>6. Len([i \in 1 .. n |-> b[(h + i - 1) % Size]]) = n
  BY <1>2
<1> QED BY <1>3, <1>5, <1>6 DEF Contents, n

(* Writing the slot at the tail changes none of them. *)
LEMMA ContentsWrite ==
  ASSUME NEW b \in [Slots -> Codes], NEW h \in Slots, NEW t \in Slots, NEW c \in Codes
  PROVE  Contents([b EXCEPT ![t] = c], h, t) = Contents(b, h, t)
<1> DEFINE n == (t - h) % Size
<1>1. ASSUME NEW i \in 1 .. n
      PROVE  (h + i - 1) % Size \in Slots /\ (h + i - 1) % Size # t
  <2>1. n = (IF h <= t THEN t - h ELSE t - h + Size) /\ n \in 0 .. Size - 1
    BY DistanceIs
  <2>2. i - 1 \in 0 .. Size - 1 /\ h + i - 1 = h + (i - 1)
    BY <2>1, RingAssumption DEF Slots
  <2>3. /\ (h + i - 1) % Size = (IF h + (i - 1) < Size THEN h + (i - 1) ELSE h + (i - 1) - Size)
        /\ (h + i - 1) % Size \in Slots
    BY <2>2, SlotIs
  <2> HIDE DEF n
  <2> QED BY <2>1, <2>3, RingAssumption DEF Slots
<1>2. \A i \in 1 .. n : [b EXCEPT ![t] = c][(h + i - 1) % Size] = b[(h + i - 1) % Size]
  BY <1>1
<1> HIDE DEF n
<1> QED BY <1>2 DEF Contents, n

(* Moving the tail over a written slot appends its byte. *)
LEMMA ContentsAppend ==
  ASSUME NEW b \in [Slots -> Codes], NEW h \in Slots, NEW t \in Slots, next(t) # h
  PROVE  /\ Contents(b, h, next(t)) = Append(Contents(b, h, t), b[t])
         /\ (t - h) % Size < Size - 1
<1> DEFINE n == (t - h) % Size
           m == (next(t) - h) % Size
           s == Contents(b, h, t)
           u == Contents(b, h, next(t))
<1>1. /\ n = (IF h <= t THEN t - h ELSE t - h + Size) /\ n \in 0 .. Size - 1
  BY DistanceIs
<1>2. next(t) \in Slots /\ next(t) = (IF t = Size - 1 THEN 0 ELSE t + 1)
  BY NextIs
<1>3. m = (IF h <= next(t) THEN next(t) - h ELSE next(t) - h + Size)
  BY <1>2, DistanceIs
<1>4. m = n + 1 /\ n < Size - 1
  <2> HIDE DEF n, m
  <2> QED BY <1>1, <1>2, <1>3, RingAssumption DEF Slots
<1>5. /\ s \in Seq(Codes) /\ Len(s) = n
      /\ \A i \in 1 .. n : s[i] = b[(h + i - 1) % Size]
  BY ContentsType
<1>6. /\ u \in Seq(Codes) /\ Len(u) = m
      /\ \A i \in 1 .. m : u[i] = b[(h + i - 1) % Size]
  BY <1>2, ContentsType
<1>7. (h + (n + 1) - 1) % Size = t
  <2>1. (h + n) % Size = (IF h + n < Size THEN h + n ELSE h + n - Size)
    BY <1>1, SlotIs
  <2>2. h + (n + 1) - 1 = h + n
    BY <1>1, RingAssumption DEF Slots
  <2> HIDE DEF n
  <2> QED BY <1>1, <2>1, <2>2, RingAssumption DEF Slots
<1> HIDE DEF n, m, s, u
<1>8. b[t] \in Codes /\ n \in Nat
  BY <1>1, RingAssumption
<1>9. /\ Append(s, b[t]) \in Seq(Codes) /\ Len(Append(s, b[t])) = n + 1
      /\ \A i \in 1 .. n + 1 : Append(s, b[t])[i] = IF i <= n THEN s[i] ELSE b[t]
  BY <1>5, <1>8
<1>10. \A i \in 1 .. m : u[i] = Append(s, b[t])[i]
  <2> SUFFICES ASSUME NEW i \in 1 .. n + 1 PROVE u[i] = Append(s, b[t])[i]
    BY <1>4
  <2>1. u[i] = b[(h + i - 1) % Size]
    BY <1>4, <1>6
  <2>2. CASE i <= n
    <3>1. i \in 1 .. n
      BY <1>8, <2>2
    <3> QED BY <1>5, <1>9, <2>1, <2>2, <3>1
  <2>3. CASE ~(i <= n)
    <3>1. i = n + 1
      BY <1>8, <2>3
    <3> QED BY <1>7, <1>9, <2>1, <2>3, <3>1
  <2> QED BY <2>2, <2>3
<1>11. u = Append(s, b[t])
  BY <1>4, <1>6, <1>9, <1>10, SeqEqual
<1> QED BY <1>4, <1>11 DEF s, u, n

(* Moving the head drops the first byte. *)
LEMMA ContentsTail ==
  ASSUME NEW b \in [Slots -> Codes], NEW h \in Slots, NEW t \in Slots, h # t
  PROVE  /\ Contents(b, h, t) # <<>>
         /\ Head(Contents(b, h, t)) = b[h]
         /\ Tail(Contents(b, h, t)) = Contents(b, next(h), t)
<1> DEFINE n == (t - h) % Size
           m == (t - next(h)) % Size
           s == Contents(b, h, t)
           u == Contents(b, next(h), t)
<1>1. /\ n = (IF h <= t THEN t - h ELSE t - h + Size) /\ n \in 0 .. Size - 1
  BY DistanceIs
<1>2. next(h) \in Slots /\ next(h) = (IF h = Size - 1 THEN 0 ELSE h + 1)
  BY NextIs
<1>3. m = (IF next(h) <= t THEN t - next(h) ELSE t - next(h) + Size)
  BY <1>2, DistanceIs
<1>4. m = n - 1 /\ n > 0 /\ m \in Nat
  <2> HIDE DEF n, m
  <2> QED BY <1>1, <1>2, <1>3, RingAssumption DEF Slots
<1>5. /\ s \in Seq(Codes) /\ Len(s) = n
      /\ \A i \in 1 .. n : s[i] = b[(h + i - 1) % Size]
  BY ContentsType
<1>6. /\ u \in Seq(Codes) /\ Len(u) = m
      /\ \A i \in 1 .. m : u[i] = b[(next(h) + i - 1) % Size]
  BY <1>2, ContentsType
<1>7. ASSUME NEW i \in 1 .. m PROVE (next(h) + i - 1) % Size = (h + (i + 1) - 1) % Size
  <2>1. i - 1 \in 0 .. Size - 1 /\ i \in 0 .. Size - 1
    BY <1>1, <1>4, RingAssumption
  <2>2. /\ (next(h) + (i - 1)) % Size =
             (IF next(h) + (i - 1) < Size THEN next(h) + (i - 1) ELSE next(h) + (i - 1) - Size)
        /\ (h + i) % Size = (IF h + i < Size THEN h + i ELSE h + i - Size)
    BY <1>2, <2>1, SlotIs
  <2>3. (next(h) + (i - 1)) % Size = (h + i) % Size
    BY <1>2, <2>1, <2>2, RingAssumption DEF Slots
  <2>4. next(h) + i - 1 = next(h) + (i - 1) /\ h + (i + 1) - 1 = h + i
    BY <1>2, RingAssumption DEF Slots
  <2> QED BY <2>3, <2>4
<1> HIDE DEF n, m, s, u
<1>8. s # <<>> /\ n \in Nat
  BY <1>1, <1>4, <1>5, RingAssumption
<1>9. Head(s) = s[1] /\ 1 \in 1 .. n
  BY <1>4, <1>5, <1>8
<1>10. (h + 1 - 1) % Size = h
  BY ModBelow, RingAssumption DEF Slots
<1>11. Head(s) = b[h]
  BY <1>5, <1>9, <1>10
<1>12. /\ Tail(s) \in Seq(Codes) /\ Len(Tail(s)) = n - 1
       /\ \A i \in 1 .. n - 1 : Tail(s)[i] = s[i + 1]
  BY <1>5, <1>8, HeadTailProperties
<1>13. \A i \in 1 .. m : Tail(s)[i] = u[i]
  <2> SUFFICES ASSUME NEW i \in 1 .. m PROVE Tail(s)[i] = u[i]
    OBVIOUS
  <2>1. i + 1 \in 1 .. n /\ i \in 1 .. n - 1
    BY <1>4, <1>8
  <2>2. Tail(s)[i] = b[(h + (i + 1) - 1) % Size]
    BY <1>5, <1>12, <2>1
  <2> QED BY <1>6, <1>7, <2>2
<1>14. Tail(s) = u
  BY <1>4, <1>6, <1>12, <1>13, SeqEqual
<1> QED BY <1>8, <1>11, <1>14 DEF s, u

(* A ring whose tail is right behind its head is full; equal indices mean  *)
(* that it is empty.                                                       *)
LEMMA ContentsFull ==
  ASSUME NEW b \in [Slots -> Codes], NEW h \in Slots, NEW t \in Slots
  PROVE  /\ next(t) = h => Len(Contents(b, h, t)) = Size - 1
         /\ h = t => Contents(b, h, t) = <<>>
<1> DEFINE n == (t - h) % Size
<1>1. n = (IF h <= t THEN t - h ELSE t - h + Size)
  BY DistanceIs
<1>2. next(t) = (IF t = Size - 1 THEN 0 ELSE t + 1)
  BY NextIs
<1>3. Contents(b, h, t) \in Seq(Codes) /\ Len(Contents(b, h, t)) = n
  BY ContentsType
<1> HIDE DEF n
<1>4. (next(t) = h => n = Size - 1) /\ (h = t => n = 0)
  BY <1>1, <1>2, RingAssumption DEF Slots
<1>5. ASSUME h = t PROVE Contents(b, h, t) = <<>>
  BY <1>3, <1>4, <1>5
<1> QED BY <1>3, <1>4, <1>5

-----------------------------------------------------------------------------
(***************************************************************************)
(* The inductive invariant.  Who holds the lock and what the interrupt     *)
(* flag is follow from where the two programs are, and the handler can     *)
(* only be active where the flag was set; a byte in the handler's hands    *)
(* has a slot; the slot the terminal is about to give up is not empty and  *)
(* still holds the byte that was read from it.                             *)
(***************************************************************************)
Masked == {"lock", "read", "sti"}

CpuInv ==
  /\ irq.pc # "idle" => main.pc \notin Masked
  /\ interrupts = (irq.pc = "idle" /\ main.pc \notin Masked)
  /\ lock = (IF irq.pc \in {"write", "store"} THEN "irq"
             ELSE IF main.pc = "read" THEN "main" ELSE "none")

HandlerInv ==
  /\ irq.pc = "port" => keyboard # NoCode
  /\ irq.scancode # NoCode <=> irq.pc \in {"check", "lock", "write", "store"}
  /\ irq.pc \in {"lock", "write", "store"} => next(tail) # head
  /\ irq.pc = "store" => buffer[tail] = irq.scancode

TerminalInv ==
  /\ main.pc # "poll" => head # tail
  /\ main.pc \in {"sti", "store"} => main.scancode = buffer[head]

RInv == TypeOK /\ CpuInv /\ HandlerInv /\ TerminalInv

(* The invariant holds initially. *)
LEMMA RInvInit == Init => RInv
<1> SUFFICES ASSUME Init PROVE RInv
  OBVIOUS
<1>1. 0 \in Slots
  BY RingAssumption DEF Slots
<1>2. TypeOK
  BY <1>1, RingAssumption DEF Init, TypeOK
<1> QED BY <1>2 DEF Init, RInv, CpuInv, HandlerInv, TerminalInv, Masked

(* Types are preserved: the indices wrap. *)
LEMMA TypeStep == RInv /\ [Next]_vars => TypeOK'
<1> SUFFICES ASSUME RInv, [Next]_vars PROVE TypeOK'
  OBVIOUS
<1> USE DEF TypeOK
<1>0. TypeOK /\ HandlerInv
  BY DEF RInv
<1>1. next(head) \in Slots /\ next(tail) \in Slots
  BY <1>0, NextIs
<1>2. CASE \E c \in Codes : KeyPress(c)
  BY <1>0, <1>2 DEF KeyPress
<1>3. CASE IrqEnter
  BY <1>0, <1>3 DEF IrqEnter
<1>4. CASE ReadPort
  BY <1>0, <1>4 DEF ReadPort
<1>5. CASE PushCheck
  BY <1>0, <1>5 DEF PushCheck
<1>6. CASE PushLock
  BY <1>0, <1>6 DEF PushLock
<1>7. CASE PushWrite
  <2>1. irq.scancode \in Codes
    BY <1>0, <1>7 DEF PushWrite, HandlerInv
  <2> QED BY <1>0, <1>7, <2>1 DEF PushWrite
<1>8. CASE PushStore
  BY <1>0, <1>1, <1>8 DEF PushStore
<1>9. CASE EndOfInterrupt
  BY <1>0, <1>9 DEF EndOfInterrupt
<1>10. CASE PopCheck
  BY <1>0, <1>10 DEF PopCheck, Running
<1>11. CASE DisableInterrupts
  BY <1>0, <1>11 DEF DisableInterrupts, Running
<1>12. CASE PopLock
  BY <1>0, <1>12 DEF PopLock, Running
<1>13. CASE PopRead
  BY <1>0, <1>13 DEF PopRead, Running
<1>14. CASE EnableInterrupts
  BY <1>0, <1>14 DEF EnableInterrupts, Running
<1>15. CASE PopStore
  BY <1>0, <1>1, <1>15 DEF PopStore, Running
<1>16. CASE UNCHANGED vars
  BY <1>0, <1>16 DEF vars
<1> QED BY <1>2, <1>3, <1>4, <1>5, <1>6, <1>7, <1>8, <1>9, <1>10, <1>11, <1>12,
           <1>13, <1>14, <1>15, <1>16 DEF Next, Handler, Terminal

(* The steps of the handler preserve the other conjuncts. *)
LEMMA HandlerStep ==
  ASSUME RInv, IrqEnter \/ Handler
  PROVE  (CpuInv /\ HandlerInv /\ TerminalInv)'
<1>0. TypeOK /\ CpuInv /\ HandlerInv /\ TerminalInv
  BY DEF RInv
<1> USE <1>0 DEF TypeOK, CpuInv, HandlerInv, TerminalInv, Masked
<1>1. CASE IrqEnter
  BY <1>1 DEF IrqEnter
<1>2. CASE ReadPort
  BY <1>2 DEF ReadPort
<1>3. CASE PushCheck
  BY <1>3 DEF PushCheck
<1>4. CASE PushLock
  BY <1>4 DEF PushLock
<1>5. CASE PushWrite
  BY <1>5 DEF PushWrite
<1>6. CASE PushStore
  <2>1. main.pc # "poll" => head # next(tail)
    BY <1>6 DEF PushStore
  <2> QED BY <1>6, <2>1 DEF PushStore
<1>7. CASE EndOfInterrupt
  BY <1>7 DEF EndOfInterrupt
<1> QED BY <1>1, <1>2, <1>3, <1>4, <1>5, <1>6, <1>7 DEF Handler

(* So do those of the terminal and of the keyboard. *)
LEMMA TerminalStep ==
  ASSUME RInv, Terminal \/ \E c \in Codes : KeyPress(c)
  PROVE  (CpuInv /\ HandlerInv /\ TerminalInv)'
<1>0. TypeOK /\ CpuInv /\ HandlerInv /\ TerminalInv
  BY DEF RInv
<1> USE <1>0 DEF TypeOK, CpuInv, HandlerInv, TerminalInv, Masked
<1>1. CASE PopCheck
  BY <1>1 DEF PopCheck, Running
<1>2. CASE DisableInterrupts
  BY <1>2 DEF DisableInterrupts, Running
<1>3. CASE PopLock
  BY <1>3 DEF PopLock, Running
<1>4. CASE PopRead
  BY <1>4 DEF PopRead, Running
<1>5. CASE EnableInterrupts
  BY <1>5 DEF EnableInterrupts, Running
<1>6. CASE PopStore
  BY <1>6 DEF PopStore, Running
<1>7. CASE \E c \in Codes : KeyPress(c)
  BY <1>7, RingAssumption DEF KeyPress
<1> QED BY <1>1, <1>2, <1>3, <1>4, <1>5, <1>6, <1>7 DEF Terminal

(* The invariant is inductive. *)
LEMMA RInvInductive == RInv /\ [Next]_vars => RInv'
<1>1. ASSUME RInv, UNCHANGED vars PROVE (CpuInv /\ HandlerInv /\ TerminalInv)'
  BY <1>1 DEF RInv, vars, CpuInv, HandlerInv, TerminalInv
<1> QED BY <1>1, TypeStep, HandlerStep, TerminalStep DEF Next, RInv

(* Types hold in every reachable state, for every size of the ring. *)
THEOREM RingTypeCorrect == Spec => []TypeOK
<1>1. RInv => TypeOK
  BY DEF RInv
<1> QED BY <1>1, RInvInit, RInvInductive, PTL DEF Spec

(* The keyboard handler never waits for the buffer's lock: push_scancode   *)
(* cannot deadlock with a pop_scancode it has preempted.                   *)
THEOREM HandlerFindsLockFree == Spec => []HandlerNeverSpins
<1>1. RInv => HandlerNeverSpins
  BY DEF RInv, CpuInv, HandlerNeverSpins, Masked
<1> QED BY <1>1, RInvInit, RInvInductive, PTL DEF Spec

-----------------------------------------------------------------------------
(* Every step of the ring is a step of the queue or invisible to it. *)
LEMMA RingRefines ==
  ASSUME RInv, [Next]_vars
  PROVE  [Queue!QueueNext]_(Queue!queueVars)
<1> DEFINE q == Contents(buffer, head, tail)
<1>0. TypeOK /\ CpuInv /\ HandlerInv /\ TerminalInv
  BY DEF RInv
<1>1. /\ buffer \in [Slots -> Codes] /\ head \in Slots /\ tail \in Slots
      /\ q \in Seq(Codes) /\ Len(q) = (tail - head) % Size
  BY <1>0, ContentsType DEF TypeOK
<1>2. ASSUME UNCHANGED <<head, tail, buffer>> PROVE q' = q
  BY <1>2
<1> HIDE DEF q
<1>3. ASSUME q' = q, irq'.scancode = irq.scancode, main'.received = main.received
      PROVE  UNCHANGED Queue!queueVars
  BY <1>3 DEF Queue!queueVars, q
<1>4. CASE (\E c \in Codes : KeyPress(c)) \/ IrqEnter \/ PushLock \/ EndOfInterrupt
           \/ DisableInterrupts \/ PopLock \/ PopRead \/ EnableInterrupts \/ UNCHANGED vars
  <2>1. /\ UNCHANGED <<head, tail, buffer>>
        /\ irq'.scancode = irq.scancode /\ main'.received = main.received
    BY <1>0, <1>4 DEF TypeOK, KeyPress, IrqEnter, PushLock, EndOfInterrupt,
         DisableInterrupts, PopLock, PopRead, EnableInterrupts, vars
  <2> QED BY <1>2, <1>3, <2>1
<1>5. CASE ReadPort
  <2>1. irq.scancode = NoCode /\ keyboard \in Codes /\ irq'.scancode = keyboard
    BY <1>0, <1>5 DEF ReadPort, HandlerInv, TypeOK
  <2>2. q' = q /\ main' = main
    BY <1>2, <1>5 DEF ReadPort
  <2>3. Queue!Offer(keyboard)
    BY <2>1, <2>2 DEF Queue!Offer, q
  <2> QED BY <2>1, <2>3 DEF Queue!QueueNext
<1>6. CASE PushCheck
  <2>1. q' = q /\ main' = main
    BY <1>2, <1>6 DEF PushCheck
  <2>2. CASE next(tail) = head
    <3>1. irq'.scancode = NoCode /\ irq.scancode # NoCode
      BY <1>0, <1>6, <2>2 DEF PushCheck, HandlerInv, TypeOK
    <3>2. Len(q) = Size - 1
      BY <1>1, <2>2, ContentsFull DEF q
    <3>3. Queue!Lose
      BY <2>1, <3>1, <3>2 DEF Queue!Lose, q
    <3> QED BY <3>3 DEF Queue!QueueNext
  <2>3. CASE next(tail) # head
    <3>1. irq'.scancode = irq.scancode
      BY <1>0, <1>6, <2>3 DEF PushCheck, TypeOK
    <3> QED BY <1>3, <2>1, <3>1
  <2> QED BY <2>2, <2>3
<1>7. CASE PushWrite
  <2>1. irq.scancode \in Codes /\ irq'.scancode = irq.scancode /\ main' = main
    BY <1>0, <1>7 DEF PushWrite, HandlerInv, TypeOK
  <2>2. buffer' = [buffer EXCEPT ![tail] = irq.scancode] /\ head' = head /\ tail' = tail
    BY <1>7 DEF PushWrite
  <2>3. q' = q
    BY <1>1, <2>1, <2>2, ContentsWrite DEF q
  <2> QED BY <1>3, <2>1, <2>3
<1>8. CASE PushStore
  <2>1. /\ irq.scancode # NoCode /\ irq'.scancode = NoCode /\ main' = main
        /\ next(tail) # head /\ buffer[tail] = irq.scancode
    BY <1>0, <1>8 DEF PushStore, HandlerInv, TypeOK
  <2>2. buffer' = buffer /\ head' = head /\ tail' = next(tail)
    BY <1>8 DEF PushStore
  <2>3. Contents(buffer, head, next(tail)) = Append(q, buffer[tail]) /\ Len(q) < Size - 1
    BY <1>1, <2>1, ContentsAppend DEF q
  <2>4. q' = Append(q, irq.scancode)
    BY <2>1, <2>2, <2>3 DEF q
  <2>5. Queue!Enqueue
    BY <2>1, <2>3, <2>4 DEF Queue!Enqueue, q
  <2> QED BY <2>5 DEF Queue!QueueNext
<1>9. CASE PopCheck
  <2>1. q' = q /\ irq' = irq
    BY <1>2, <1>9 DEF PopCheck
  <2>2. CASE head = tail
    <3>1. main'.received = NoCode
      BY <1>0, <1>9, <2>2 DEF PopCheck, TypeOK
    <3>2. q = <<>>
      BY <1>1, <2>2, ContentsFull DEF q
    <3>3. Queue!FindEmpty
      BY <2>1, <3>1, <3>2 DEF Queue!FindEmpty, q
    <3> QED BY <3>3 DEF Queue!QueueNext
  <2>3. CASE head # tail
    <3>1. main'.received = main.received
      BY <1>0, <1>9, <2>3 DEF PopCheck, TypeOK
    <3> QED BY <1>3, <2>1, <3>1
  <2> QED BY <2>2, <2>3
<1>10. CASE PopStore
  <2>1. /\ head # tail /\ main'.received = buffer[head] /\ irq' = irq
    BY <1>0, <1>10 DEF PopStore, Running, TerminalInv
  <2>2. buffer' = buffer /\ head' = next(head) /\ tail' = tail
    BY <1>10 DEF PopStore
  <2>3. q # <<>> /\ Head(q) = buffer[head] /\ Tail(q) = Contents(buffer, next(head), tail)
    BY <1>1, <2>1, ContentsTail DEF q
  <2>4. q' = Tail(q)
    BY <2>2, <2>3 DEF q
  <2>5. Queue!Dequeue
    BY <2>1, <2>3, <2>4 DEF Queue!Dequeue, q
  <2> QED BY <2>5 DEF Queue!QueueNext
<1> QED BY <1>4, <1>5, <1>6, <1>7, <1>8, <1>9, <1>10 DEF Next, Handler, Terminal

(* The ring implements the queue, for every size and every interleaving.   *)
THEOREM RingImplementsQueue == Spec => ImplementsQueue
<1>1. Init => Queue!QueueInit
  <2> SUFFICES ASSUME Init PROVE Queue!QueueInit
    OBVIOUS
  <2>1. 0 \in Slots /\ buffer \in [Slots -> Codes]
    BY RingAssumption DEF Init, Slots
  <2>2. Contents(buffer, head, tail) = <<>>
    BY <2>1, ContentsFull DEF Init
  <2> QED BY <2>2 DEF Init, Queue!QueueInit
<1>2. RInv /\ [Next]_vars => [Queue!QueueNext]_(Queue!queueVars)
  BY RingRefines
<1> QED BY <1>1, <1>2, RInvInit, RInvInductive, PTL
        DEF Spec, ImplementsQueue, Queue!QueueSpec
==============================================================================
