---------------------------- MODULE ScancodeQueue ----------------------------
(***************************************************************************)
(* What the keyboard path promises: the bytes the interrupt handler takes  *)
(* from the controller reach the terminal once each, in order and          *)
(* unchanged, and one is lost only when Capacity bytes are waiting.        *)
(***************************************************************************)
EXTENDS Naturals, Sequences

CONSTANTS Codes, NoCode, Capacity

VARIABLES
  offered,   \* the byte in the handler's hands, or NoCode
  queue,     \* the bytes waiting for the terminal
  received   \* the last answer to the terminal: a byte, or NoCode

queueVars == <<offered, queue, received>>

QueueInit == offered = NoCode /\ queue = <<>> /\ received = NoCode

Offer(c) == /\ offered = NoCode
            /\ offered' = c
            /\ UNCHANGED <<queue, received>>

Enqueue == /\ offered # NoCode /\ Len(queue) < Capacity
           /\ queue' = Append(queue, offered)
           /\ offered' = NoCode
           /\ UNCHANGED received

Lose == /\ offered # NoCode /\ Len(queue) = Capacity
        /\ offered' = NoCode
        /\ UNCHANGED <<queue, received>>

Dequeue == /\ queue # <<>>
           /\ received' = Head(queue)
           /\ queue' = Tail(queue)
           /\ UNCHANGED offered

FindEmpty == /\ queue = <<>>
             /\ received' = NoCode
             /\ UNCHANGED <<offered, queue>>

QueueNext == \/ \E c \in Codes : Offer(c)
             \/ Enqueue \/ Lose \/ Dequeue \/ FindEmpty

QueueSpec == QueueInit /\ [][QueueNext]_queueVars

==============================================================================
