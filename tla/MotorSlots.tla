----------------------------- MODULE MotorSlots -----------------------------
(***************************************************************************)
(* What the motor command queue promises, without clocks, leases, calls or *)
(* transactions: a node is a slot that one command occupies at a time, a   *)
(* command enters a slot once, is confirmed at most once, and never comes  *)
(* back after it left.  The README derives it from the invariant stated in *)
(* motor_command_models.go.                                                *)
(***************************************************************************)
CONSTANTS Node, CmdId

VARIABLES occupant,    \* per node, the set of its unfinished commands
          confirmed,   \* commands whose delivery the hub confirmed
          retired      \* finished commands

slots == <<occupant, confirmed, retired>>

SlotInit == /\ occupant = [n \in Node |-> {}]
            /\ confirmed = {}
            /\ retired = {}

Unfinished == UNION {occupant[n] : n \in Node}

Enter(n, c) ==
    /\ occupant[n] = {}
    /\ c \notin retired \cup Unfinished
    /\ occupant' = [occupant EXCEPT ![n] = {c}]
    /\ UNCHANGED <<confirmed, retired>>

(***************************************************************************)
(* One transaction may finish any number S of commands and confirm others. *)
(***************************************************************************)
Settle(S, D) ==
    /\ S \cup D # {}
    /\ occupant' = [n \in Node |-> occupant[n] \ S]
    /\ confirmed' = (confirmed \cup D) \ S
    /\ retired' = retired \cup S

SlotNext == \/ \E n \in Node, c \in CmdId : Enter(n, c)
            \/ \E S \in SUBSET Unfinished :
                  \E D \in SUBSET (Unfinished \ (S \cup confirmed)) : Settle(S, D)

SlotSpec == SlotInit /\ [][SlotNext]_slots
=============================================================================
