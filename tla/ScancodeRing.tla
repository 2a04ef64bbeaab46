---------------------------- MODULE ScancodeRing -----------------------------
(***************************************************************************)
(* The ring of scancodes between the keyboard interrupt handler            *)
(* (keyboard_interrupt_handler of arch/idt.rs, which calls push_scancode)  *)
(* and the terminal's polling loop (pop_scancode of terminal/mod.rs).      *)
(*                                                                         *)
(* One CPU: the handler preempts the terminal between any two of its       *)
(* accesses while the interrupt flag is set, and then runs alone until it  *)
(* returns.  A step is one access to shared state; a load of an index by   *)
(* the only code that writes it is merged with the access that follows.    *)
(* The buffer's spin lock, the interrupt flag, the keyboard controller's   *)
(* output byte and the in-service bit of the interrupt controller are all  *)
(* part of the state, because a handler that spins on a lock its own CPU   *)
(* holds never returns.                                                    *)
(***************************************************************************)
EXTENDS Integers, Sequences

CONSTANTS
  Size,    \* SCANCODE_BUFFER_SIZE
  Codes,   \* the bytes a keyboard sends
  Zero,    \* the byte the static buffer is filled with
  NoCode   \* None

ASSUME RingAssumption ==
  /\ Size \in Nat /\ Size > 1
  /\ Zero \in Codes /\ NoCode \notin Codes

VARIABLES
  head, tail, buffer,  \* SCANCODE_HEAD, SCANCODE_TAIL, SCANCODE_BUFFER
  lock,                \* who holds the buffer's mutex: "none", "irq", "main"
  interrupts,          \* the interrupt flag of the CPU
  keyboard,            \* the controller's output byte, or NoCode
  in_service,          \* IRQ 1 is in service: no other until it is ended
  irq,                 \* the handler: where it is, its scancode
  main                 \* the terminal: where it is, its scancode, its answer

vars == <<head, tail, buffer, lock, interrupts, keyboard, in_service, irq, main>>

Slots == 0 .. Size - 1

Init == /\ head = 0 /\ tail = 0
        /\ buffer = [i \in Slots |-> Zero]
        /\ lock = "none" /\ interrupts = TRUE
        /\ keyboard = NoCode /\ in_service = FALSE
        /\ irq = [pc |-> "idle", scancode |-> NoCode]
        /\ main = [pc |-> "poll", scancode |-> NoCode, received |-> NoCode]

(* Mutant: the index does not wrap. *)
next_unwrapped(i) == i + 1

next(i) == (i + 1) % Size

-----------------------------------------------------------------------------
(* The keyboard controller latches a byte once its last one was read. *)
KeyPress(c) ==
  /\ keyboard = NoCode
  /\ keyboard' = c
  /\ UNCHANGED <<head, tail, buffer, lock, interrupts, in_service, irq, main>>

(* The CPU takes IRQ 1 through an interrupt gate: the flag is cleared. *)
IrqEnter ==
  /\ irq.pc = "idle" /\ interrupts /\ ~in_service /\ keyboard # NoCode
  /\ interrupts' = FALSE /\ in_service' = TRUE
  /\ irq' = [irq EXCEPT !.pc = "port"]
  /\ UNCHANGED <<head, tail, buffer, lock, keyboard, main>>

ReadPort ==
  /\ irq.pc = "port"
  /\ irq' = [pc |-> "check", scancode |-> keyboard]
  /\ keyboard' = NoCode
  /\ UNCHANGED <<head, tail, buffer, lock, interrupts, in_service, main>>

(* Mutant: the ring is filled until the indices meet. *)
PushCheck_unguarded ==
  /\ irq.pc = "check"
  /\ irq' = [irq EXCEPT !.pc = "lock"]
  /\ UNCHANGED <<head, tail, buffer, lock, interrupts, keyboard, in_service, main>>

(* A full ring drops the byte: the slot before head stays empty. *)
PushCheck ==
  /\ irq.pc = "check"
  /\ irq' = IF next(tail) = head THEN [pc |-> "eoi", scancode |-> NoCode]
                                 ELSE [irq EXCEPT !.pc = "lock"]
  /\ UNCHANGED <<head, tail, buffer, lock, interrupts, keyboard, in_service, main>>

PushLock ==
  /\ irq.pc = "lock" /\ lock = "none"
  /\ lock' = "irq"
  /\ irq' = [irq EXCEPT !.pc = "write"]
  /\ UNCHANGED <<head, tail, buffer, interrupts, keyboard, in_service, main>>

PushWrite ==
  /\ irq.pc = "write"
  /\ buffer' = [buffer EXCEPT ![tail] = irq.scancode]
  /\ irq' = [irq EXCEPT !.pc = "store"]
  /\ UNCHANGED <<head, tail, lock, interrupts, keyboard, in_service, main>>

(* The guard of the mutex is dropped when push_scancode returns. *)
PushStore ==
  /\ irq.pc = "store"
  /\ tail' = next(tail)
  /\ lock' = "none"
  /\ irq' = [pc |-> "eoi", scancode |-> NoCode]
  /\ UNCHANGED <<head, buffer, interrupts, keyboard, in_service, main>>

(* Mutant: the handler returns without ending the interrupt. *)
EndOfInterrupt_forgotten ==
  /\ irq.pc = "eoi"
  /\ interrupts' = TRUE
  /\ irq' = [irq EXCEPT !.pc = "idle"]
  /\ UNCHANGED <<head, tail, buffer, lock, keyboard, in_service, main>>

(* End of interrupt, then iretq, which restores the set flag. *)
EndOfInterrupt ==
  /\ irq.pc = "eoi"
  /\ in_service' = FALSE /\ interrupts' = TRUE
  /\ irq' = [irq EXCEPT !.pc = "idle"]
  /\ UNCHANGED <<head, tail, buffer, lock, keyboard, main>>

-----------------------------------------------------------------------------
(* pop_scancode runs only while no handler does. *)
Running(pc) == irq.pc = "idle" /\ main.pc = pc

(* An empty ring answers None, and the terminal polls again. *)
PopCheck ==
  /\ Running("poll")
  /\ main' = IF head = tail THEN [main EXCEPT !.received = NoCode]
                            ELSE [main EXCEPT !.pc = "cli"]
  /\ UNCHANGED <<head, tail, buffer, lock, interrupts, keyboard, in_service, irq>>

(* Mutant: the lock is taken with interrupts left on. *)
DisableInterrupts_skipped ==
  /\ Running("cli")
  /\ main' = [main EXCEPT !.pc = "lock"]
  /\ UNCHANGED <<head, tail, buffer, lock, interrupts, keyboard, in_service, irq>>

DisableInterrupts ==
  /\ Running("cli")
  /\ interrupts' = FALSE
  /\ main' = [main EXCEPT !.pc = "lock"]
  /\ UNCHANGED <<head, tail, buffer, lock, keyboard, in_service, irq>>

PopLock ==
  /\ Running("lock") /\ lock = "none"
  /\ lock' = "main"
  /\ main' = [main EXCEPT !.pc = "read"]
  /\ UNCHANGED <<head, tail, buffer, interrupts, keyboard, in_service, irq>>

PopRead ==
  /\ Running("read")
  /\ main' = [main EXCEPT !.pc = "sti", !.scancode = buffer[head]]
  /\ lock' = "none"
  /\ UNCHANGED <<head, tail, buffer, interrupts, keyboard, in_service, irq>>

EnableInterrupts ==
  /\ Running("sti")
  /\ interrupts' = TRUE
  /\ main' = [main EXCEPT !.pc = "store"]
  /\ UNCHANGED <<head, tail, buffer, lock, keyboard, in_service, irq>>

(* The slot is given up last, so that the handler cannot refill it before. *)
PopStore ==
  /\ Running("store")
  /\ head' = next(head)
  /\ main' = [pc |-> "poll", scancode |-> NoCode, received |-> main.scancode]
  /\ UNCHANGED <<tail, buffer, lock, interrupts, keyboard, in_service, irq>>

-----------------------------------------------------------------------------
Handler == ReadPort \/ PushCheck \/ PushLock \/ PushWrite \/ PushStore \/ EndOfInterrupt

Terminal == \/ PopCheck \/ DisableInterrupts \/ PopLock
            \/ PopRead \/ EnableInterrupts \/ PopStore

Next == (\E c \in Codes : KeyPress(c)) \/ IrqEnter \/ Handler \/ Terminal

Spec == Init /\ [][Next]_vars

(* The handler is code the CPU runs without interruption, so it proceeds.  *)
(* The CPU looks for a pending interrupt at every instruction boundary     *)
(* with the flag set, so one that is possible again and again is taken;    *)
(* and keys come slower than handlers return, so the terminal proceeds     *)
(* although it is preempted.  Keys need not be pressed.                    *)
Fairness == WF_vars(Handler) /\ SF_vars(IrqEnter) /\ SF_vars(Terminal)

LiveSpec == Spec /\ Fairness

-----------------------------------------------------------------------------
(* Type correctness of the ring, the CPU and the devices. *)
TypeOK ==
  /\ head \in Slots /\ tail \in Slots
  /\ buffer \in [Slots -> Codes]
  /\ lock \in {"none", "irq", "main"}
  /\ interrupts \in BOOLEAN /\ in_service \in BOOLEAN
  /\ keyboard \in Codes \cup {NoCode}
  /\ irq \in [pc: {"idle", "port", "check", "lock", "write", "store", "eoi"},
              scancode: Codes \cup {NoCode}]
  /\ main \in [pc: {"poll", "cli", "lock", "read", "sti", "store"},
               scancode: Codes \cup {NoCode}, received: Codes \cup {NoCode}]

(* The handler never finds the buffer's lock taken: the code it preempted  *)
(* would hold it, and could not let go while the handler spins.            *)
HandlerNeverSpins == irq.pc = "lock" => lock = "none"

(* The bytes of ring b from index h up to, not including, index t. *)
Contents(b, h, t) == [i \in 1 .. (t - h) % Size |-> b[(h + i - 1) % Size]]

Queue == INSTANCE ScancodeQueue WITH
  Capacity <- Size - 1,
  offered  <- irq.scancode,
  queue    <- Contents(buffer, head, tail),
  received <- main.received

(* The ring implements the queue: whatever the handler's pushes interleave *)
(* with, the terminal gets the bytes once each, in order and unchanged,    *)
(* and a byte is lost only when Size - 1 are waiting.                      *)
ImplementsQueue == Queue!QueueSpec

(* The terminal reaches every byte that was accepted. *)
EveryByteReceived == \A i \in Slots : (tail = i) ~> (head = i)

(* The controller's byte is always fetched, so that keys go on working:    *)
(* no interrupt is left unended and none is masked for good.               *)
KeyboardServed == keyboard # NoCode ~> keyboard = NoCode

==============================================================================
