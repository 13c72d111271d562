------------------------------ MODULE OnceTimer ------------------------------
(***************************************************************************)
(* What the timer helper promises whoever schedules one timer, all workers,  *)
(* leases, clocks and lost answers aside: scripts/timer_helper_validator.py. *)
(* A timer is set once; it is then either cancelled, with no event, or       *)
(* fires, and with it, in the same step, the core admits its event, once.    *)
(***************************************************************************)
EXTENDS Naturals

VARIABLES
  status,      \* absent, set, cancelled or fired
  admissions   \* admissions of the timer's event in the core

onceVars == <<status, admissions>>

OnceInit == status = "absent" /\ admissions = 0

Set == status = "absent" /\ status' = "set" /\ UNCHANGED admissions
Stop == status = "set" /\ status' = "cancelled" /\ UNCHANGED admissions
Fire == status = "set" /\ status' = "fired" /\ admissions' = admissions + 1

OnceNext == Set \/ Stop \/ Fire
OnceSpec == OnceInit /\ [][OnceNext]_onceVars
=============================================================================
