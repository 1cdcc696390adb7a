------------------------------ MODULE PlanFile ------------------------------
(***************************************************************************)
(* What write_weight_plan_atomic promises about the plan file: a call      *)
(* publishes its plan in one step, and completes only while that plan is   *)
(* the file and survives a power loss; a call that fails has put back what *)
(* it replaced, and does nothing else to the file.                         *)
(***************************************************************************)
EXTENDS Naturals

CONSTANTS Contents, Absent

VARIABLES file,     \* what the configured path holds, or Absent
          durable,  \* what it may hold after a power loss
          phase,    \* "none", "open", "published" or "complete"
          plan,     \* the plan of the call, Absent without one
          old,      \* what the call has replaced
          foreign   \* changes made by other programs

vars == <<file, durable, phase, plan, old, foreign>>

Init ==
    /\ file \in Contents \cup {Absent} /\ durable = {file}
    /\ phase = "none" /\ plan = Absent /\ old = Absent /\ foreign = 0

Begin ==
    /\ phase = "none"
    /\ phase' = "open" /\ plan' \in Contents
    /\ UNCHANGED <<file, durable, old, foreign>>

Publish ==
    /\ phase = "open"
    /\ phase' = "published"
    /\ old' \in Contents \cup {Absent} /\ file' \in Contents
    /\ foreign = 0 => old' = file /\ file' = plan
    /\ durable' = durable \cup {file'}
    /\ UNCHANGED <<plan, foreign>>

Sync == durable' = {file} /\ UNCHANGED <<file, phase, plan, old, foreign>>

Withdraw ==
    /\ phase = "published"
    /\ file' \in Contents \cup {Absent} /\ (foreign = 0 => file' = old)
    /\ durable' \in {durable \cup {file'}, {file'}}
    /\ UNCHANGED <<phase, plan, old, foreign>>

Complete ==
    /\ phase = "published" /\ file = plan /\ durable = {plan}
    /\ phase' = "complete"
    /\ UNCHANGED <<file, durable, plan, old, foreign>>

End ==
    /\ phase # "none"
    /\ phase = "published" => file = old \/ foreign > 0
    /\ phase' = "none" /\ plan' = Absent /\ old' = Absent
    /\ UNCHANGED <<file, durable, foreign>>

Interfere ==
    /\ foreign' = foreign + 1
    /\ file' \in Contents \cup {Absent} /\ durable' \subseteq Contents \cup {Absent}
    /\ UNCHANGED <<phase, plan, old>>

PowerLoss ==
    /\ file' \in durable \cup {file} /\ durable' = {file'}
    /\ phase' = "none" /\ plan' = Absent /\ old' = Absent
    /\ UNCHANGED foreign

Next == Begin \/ Publish \/ Sync \/ Withdraw \/ Complete \/ End \/ Interfere \/ PowerLoss
Spec == Init /\ [][Next]_vars
=============================================================================
