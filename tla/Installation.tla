---------------------------- MODULE Installation ----------------------------
(***************************************************************************)
(* What every updater promises of the files the user is left with: at any  *)
(* moment they are one whole build, and an update only ever replaces the   *)
(* old build by the new one.                                               *)
(***************************************************************************)

VARIABLE build    \* the build that can be run, or put back by hand

Init == build = "old"

Install == build = "old" /\ build' = "new"

Spec == Init /\ [][Install]_build
=============================================================================
