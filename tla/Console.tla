------------------------------- MODULE Console -------------------------------
(***************************************************************************)
(* Who may print, and when: the VGA and serial writers (_print of          *)
(* vga_buffer.rs and serial.rs), each a spin lock taken with interrupts    *)
(* off, the handlers of arch/idt.rs that print, and the panic handler.     *)
(*                                                                         *)
(* One CPU: the state is its stack of contexts, the kernel thread at the   *)
(* bottom, and only the top one runs.  An interrupt, an exception or a     *)
(* panic pushes a context; a handler that returns pops it and restores the *)
(* interrupt flag it found.  What is printed is left out: a context has    *)
(* the list of devices it still has to write a message to.                 *)
(***************************************************************************)
EXTENDS Naturals, Sequences

CONSTANTS
  Strikes,      \* what may preempt the running context
  MainDevices,  \* the devices the kernel thread prints to
  MaxStrikes    \* bound on the number of preemptions

ASSUME ConsoleAssumption ==
  /\ Strikes \subseteq {"irq", "nmi", "breakpoint", "page_fault",
                        "double_fault", "panic"}
  /\ MainDevices \subseteq {"vga", "serial"}
  /\ MaxStrikes \in Nat

VARIABLES
  stack,       \* the contexts, the running one last
  interrupts,  \* the interrupt flag
  holder,      \* for each device's lock, the depth of the context holding it, or 0
  strikes      \* preemptions so far

vars == <<stack, interrupts, holder, strikes>>

Devices == {"vga", "serial"}
Kinds == {"main", "irq", "nmi", "breakpoint", "page_fault", "double_fault", "panic"}

depth == Len(stack)
top == stack[depth]

(* pc is "run" between messages, "lock" while the lock is waited for,      *)
(* "write" while it is held and "halt" in the panic handler's last loop;   *)
(* saved is the flag without_interrupts found, resume the one iretq sets.  *)
Context == [kind: Kinds, todo: Seq(Devices), pc: {"run", "lock", "write", "halt"},
            saved: BOOLEAN, resume: BOOLEAN]

(* The messages of a handler, in order; the maskable ones print nothing. *)
Messages(kind) ==
  CASE kind = "page_fault" -> <<"serial", "serial", "serial", "serial">>
    [] kind \in {"nmi", "breakpoint"} -> <<"serial">>
    [] kind = "panic" -> <<"vga", "vga", "serial", "serial">>
    [] OTHER -> <<>>

Entered(kind) ==
  [kind |-> kind, todo |-> Messages(kind), pc |-> "run",
   saved |-> FALSE, resume |-> interrupts]

Init == /\ interrupts = TRUE
        /\ stack = <<[kind |-> "main", todo |-> <<>>, pc |-> "run",
                      saved |-> FALSE, resume |-> TRUE]>>
        /\ holder = [d \in Devices |-> 0]
        /\ strikes = 0

Becomes(c) == stack' = [stack EXCEPT ![depth] = c]

-----------------------------------------------------------------------------
(* The kernel thread calls println! or serial_println!. *)
println(d) ==
  /\ top.kind = "main" /\ top.pc = "run" /\ top.todo = <<>>
  /\ Becomes([top EXCEPT !.todo = <<d>>])
  /\ UNCHANGED <<interrupts, holder, strikes>>

(* Mutant: the message is written with interrupts left on. *)
WithoutInterrupts_skipped ==
  /\ top.pc = "run" /\ top.todo # <<>>
  /\ Becomes([top EXCEPT !.pc = "lock", !.saved = interrupts])
  /\ UNCHANGED <<interrupts, holder, strikes>>

WithoutInterrupts ==
  /\ top.pc = "run" /\ top.todo # <<>>
  /\ Becomes([top EXCEPT !.pc = "lock", !.saved = interrupts])
  /\ interrupts' = FALSE
  /\ UNCHANGED <<holder, strikes>>

(* A lock that is held is waited for without end: the step is not enabled. *)
Lock ==
  /\ top.pc = "lock" /\ holder[Head(top.todo)] = 0
  /\ holder' = [holder EXCEPT ![Head(top.todo)] = depth]
  /\ Becomes([top EXCEPT !.pc = "write"])
  /\ UNCHANGED <<interrupts, strikes>>

(* Mutant: interrupts are switched on, whatever they were before. *)
WriteAndUnlock_enabling ==
  /\ top.pc = "write"
  /\ holder' = [holder EXCEPT ![Head(top.todo)] = 0]
  /\ interrupts' = TRUE
  /\ Becomes([top EXCEPT !.pc = "run", !.todo = Tail(@)])
  /\ UNCHANGED strikes

(* Mutant: the guard of the lock outlives the message. *)
WriteAndUnlock_keeping ==
  /\ top.pc = "write"
  /\ interrupts' = top.saved
  /\ Becomes([top EXCEPT !.pc = "run", !.todo = Tail(@)])
  /\ UNCHANGED <<holder, strikes>>

(* The message is out, the guard is dropped, and the flag is what it was. *)
WriteAndUnlock ==
  /\ top.pc = "write"
  /\ holder' = [holder EXCEPT ![Head(top.todo)] = 0]
  /\ interrupts' = top.saved
  /\ Becomes([top EXCEPT !.pc = "run", !.todo = Tail(@)])
  /\ UNCHANGED strikes

(* Mutant: a handler leaves its stack in the middle of a message. *)
Return_early ==
  /\ top.kind \in {"irq", "nmi", "breakpoint"}
  /\ top.pc \in {"run", "write"}
  /\ stack' = SubSeq(stack, 1, depth - 1)
  /\ interrupts' = top.resume
  /\ UNCHANGED <<holder, strikes>>

(* A handler that returns: iretq. *)
Return ==
  /\ top.kind \in {"irq", "nmi", "breakpoint"}
  /\ top.pc = "run" /\ top.todo = <<>>
  /\ stack' = SubSeq(stack, 1, depth - 1)
  /\ interrupts' = top.resume
  /\ UNCHANGED <<holder, strikes>>

(* The fault handlers end in panic!, which starts the panic handler. *)
Panic ==
  /\ top.kind \in {"page_fault", "double_fault"}
  /\ top.pc = "run" /\ top.todo = <<>>
  /\ stack' = Append(stack, Entered("panic"))
  /\ interrupts' = FALSE
  /\ UNCHANGED <<holder, strikes>>

(* The panic handler has printed everything and stops the CPU. *)
Halt ==
  /\ top.kind = "panic" /\ top.pc = "run" /\ top.todo = <<>>
  /\ Becomes([top EXCEPT !.pc = "halt"])
  /\ UNCHANGED <<interrupts, holder, strikes>>

(* A preemption.  Only a maskable interrupt needs the flag; a second NMI   *)
(* waits until the first returns; a halted CPU runs no code that faults.   *)
Strike(kind) ==
  /\ strikes < MaxStrikes
  /\ kind = "irq" => interrupts
  /\ kind = "nmi" => \A i \in 1 .. depth : stack[i].kind # "nmi"
  /\ top.pc = "halt" => kind = "nmi"
  /\ stack' = Append(stack, Entered(kind))
  /\ interrupts' = FALSE
  /\ strikes' = strikes + 1
  /\ UNCHANGED holder

-----------------------------------------------------------------------------
Run == WithoutInterrupts \/ Lock \/ WriteAndUnlock \/ Return \/ Panic \/ Halt

Next == \/ \E d \in MainDevices : println(d)
        \/ Run
        \/ \E kind \in Strikes : Strike(kind)

Spec == Init /\ [][Next]_vars

(* The CPU goes on executing the running context. *)
LiveSpec == Spec /\ WF_vars(Run)

-----------------------------------------------------------------------------
(* Type correctness of the context stack and the locks. *)
TypeOK ==
  /\ stack \in Seq(Context) /\ stack # <<>>
  /\ interrupts \in BOOLEAN
  /\ holder \in [Devices -> 0 .. depth]
  /\ strikes \in 0 .. MaxStrikes

(* No maskable interrupt can arrive while a device's lock is held, by the  *)
(* running context or by one it preempted: the handler of a device that    *)
(* prints would wait for a lock its own CPU holds.                         *)
LockedMeansMasked == (\E d \in Devices : holder[d] # 0) => ~interrupts

(* Once the panic handler has disabled interrupts, its own messages and    *)
(* the handlers that preempt it leave them disabled.                       *)
PanicStaysMasked ==
  (\E i \in 1 .. depth : stack[i].kind = "panic") => ~interrupts

(* A context was preempted in the middle of a message. *)
MidMessage == \E d \in Devices : holder[d] \in 1 .. depth - 1

Halted == top.pc = "halt"

(* The system stops printing only in two ways: a panic has reported on     *)
(* both devices and halted, or an exception has struck a context in the    *)
(* middle of a message.                                                    *)
PanicReports ==
  (top.kind \in {"panic", "page_fault", "double_fault"} /\ ~MidMessage)
    ~> (Halted /\ top.todo = <<>>) \/ MidMessage

(* The comment of page_fault_handler: it uses serial_println only, so a    *)
(* fault in the middle of a VGA message does not deadlock.                 *)
PageFaultHalts == top.kind = "page_fault" ~> Halted

==============================================================================
