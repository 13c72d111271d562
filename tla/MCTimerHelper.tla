---------------------------- MODULE MCTimerHelper ----------------------------
(***************************************************************************)
(* A clock nine readings wide that starts at its ends or near zero, requests *)
(* for a delay and for an absolute time, two workers and three attempts.     *)
(***************************************************************************)
EXTENDS TimerHelper, TLC

MCStart == {-4, 0, 3}
MCMinClock == -4
MCDue == {[basis |-> "delay", value |-> 2], [basis |-> "deadline", value |-> -3],
          [basis |-> "deadline", value |-> 1], [basis |-> "delay", value |-> -1]}

Symmetry == Permutations(Worker)
=============================================================================
