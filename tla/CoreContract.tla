---------------------------- MODULE CoreContract ----------------------------
(***************************************************************************)
(* What uxplay-core promises its host, whatever goes on inside: start()    *)
(* brings up engine threads, which may end on their own but never restart; *)
(* stop() always returns, and when it has, no engine thread is left.       *)
(***************************************************************************)

VARIABLES up,         \* start() returned 0 and stop() has not returned since
          alive,      \* an engine thread exists and may call the host back
          stopping    \* a stop() is in progress

vars == <<up, alive, stopping>>

Init == up = FALSE /\ alive = FALSE /\ stopping = FALSE

Start ==
  /\ ~up /\ ~alive /\ ~stopping
  /\ up' = TRUE /\ alive' = TRUE
  /\ UNCHANGED stopping

End ==
  /\ alive
  /\ alive' = FALSE
  /\ UNCHANGED <<up, stopping>>

Stop ==
  /\ ~stopping
  /\ stopping' = TRUE
  /\ UNCHANGED <<up, alive>>

Stopped ==
  /\ stopping
  /\ stopping' = FALSE
  /\ up' = FALSE /\ alive' = FALSE

Next == Start \/ End \/ Stop \/ Stopped

Safety == Init /\ [][Next]_vars

Spec == Safety /\ WF_vars(Stopped)
============================================================================
