---------------------------- MODULE SharedProgram ----------------------------
(***************************************************************************)
(* What a CompiledProgram promises to goroutines that share it: a call     *)
(* works with one set of external variables, the one the program had at    *)
(* some moment of the call, and a Scanner of one's own with the values it  *)
(* was given, whatever the others do.                                      *)
(***************************************************************************)
CONSTANTS Callers, Environments, NoValues

VARIABLES
    values,   \* the external variables of the program
    phase,    \* what each caller is doing
    bound     \* the values its call, or its own scanner, works with

vars == <<values, phase, bound>>

Init ==
    /\ values = NoValues
    /\ phase = [c \in Callers |-> "idle"]
    /\ bound = [c \in Callers |-> NoValues]

Set == values' \in Environments /\ UNCHANGED <<phase, bound>>

Begin(c) ==
    /\ phase[c] = "idle" /\ phase' = [phase EXCEPT ![c] = "waiting"]
    /\ UNCHANGED <<values, bound>>

Bind(c) ==
    /\ phase[c] = "waiting" /\ phase' = [phase EXCEPT ![c] = "bound"]
    /\ bound' = [bound EXCEPT ![c] = values]
    /\ UNCHANGED values

\* A scanner of one's own, with the values of the program or others.
Open(c) ==
    /\ phase[c] = "idle" /\ phase' = [phase EXCEPT ![c] = "owner"]
    /\ \E v \in Environments : bound' = [bound EXCEPT ![c] = v]
    /\ UNCHANGED values

Rebind(c) ==
    /\ phase[c] = "owner"
    /\ \E v \in Environments : bound' = [bound EXCEPT ![c] = v]
    /\ UNCHANGED <<values, phase>>

Return(c) ==
    /\ phase[c] \in {"bound", "owner"}
    /\ phase' = [phase EXCEPT ![c] = "idle"] /\ bound' = [bound EXCEPT ![c] = NoValues]
    /\ UNCHANGED values

Next == Set \/ \E c \in Callers : Begin(c) \/ Bind(c) \/ Open(c) \/ Rebind(c) \/ Return(c)

Spec == Init /\ [][Next]_vars
=============================================================================
