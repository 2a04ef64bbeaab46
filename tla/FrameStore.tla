----------------------------- MODULE FrameStore -----------------------------
(***************************************************************************)
(* What a client of the physical memory manager may rely on, whatever the  *)
(* search order, the hint and the statistics: frames handed out were free  *)
(* and are adjacent, a successful free gives back frames that were all     *)
(* taken, and a refused call changes nothing.  `held' is the set of frames *)
(* that are not free, `reply' the outcome of the last call with the frames *)
(* it handed out or took back.                                             *)
(***************************************************************************)
EXTENDS Integers, FiniteSets

CONSTANT Frame   \* the tracked frames, a set of numbers

VARIABLES up, held, reply

storeVars == <<up, held, reply>>

(* Frames without a gap between them. *)
Adjacent(S) ==
  \A x, y \in S : \A f \in Frame : x <= f /\ f <= y => f \in S

StoreInit == up = FALSE /\ held = {} /\ reply = [frames |-> {}, result |-> "None"]

(* Booting fixes which frames are taken from the start. *)
Start == /\ ~up
         /\ up' = TRUE
         /\ held' \in SUBSET Frame
         /\ reply' = [frames |-> {}, result |-> "Ok"]

Grant(S) == /\ up /\ up' = up
            /\ S # {} /\ S \cap held = {} /\ Adjacent(S)
            /\ held' = held \cup S
            /\ reply' = [frames |-> S, result |-> "Granted"]

Release(S) == /\ up /\ up' = up
              /\ S \subseteq held
              /\ held' = held \ S
              /\ reply' = [frames |-> S, result |-> "Ok"]

Reserve(S) == /\ up /\ up' = up
              /\ held' = held \cup S
              /\ reply' = [frames |-> {}, result |-> "Ok"]

Refuse == /\ up /\ up' = up
          /\ held' = held
          /\ \E r \in {"None", "Ok", "InvalidFree", "DoubleFree", "Failed"} :
               reply' = [frames |-> {}, result |-> r]

StoreNext == \/ Start
             \/ Refuse
             \/ \E S \in SUBSET Frame : Grant(S) \/ Release(S) \/ Reserve(S)

StoreSpec == StoreInit /\ [][StoreNext]_storeVars

=============================================================================
