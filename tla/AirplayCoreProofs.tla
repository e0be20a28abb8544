------------------------- MODULE AirplayCoreProofs -------------------------
(***************************************************************************)
(* Proofs about AirplayCore, for any number of runs and of loops per run.  *)
(***************************************************************************)
EXTENDS AirplayCore, TLAPS

(* The worker exists exactly from start() to the end of stop(), and the    *)
(* host's callback is set for as long.                                     *)
WorkerFollowsRunning ==
  /\ running <=> worker # "none"
  /\ forward <=> running
  /\ host # "idle" => running

(* A loop is published only while main_loop() has it.                      *)
LoopFollowsWorker == gmainloop # 0 => worker \in {"check", "run", "loop", "unpublish"}

IInv == TypeOK /\ WorkerFollowsRunning /\ LoopFollowsWorker /\ LatchMeansStop

(* Flags stay flags.                                                       *)
LEMMA FlagsStep == TypeFlags /\ [Next]_vars => TypeFlags'
<1> USE DEF TypeFlags, control, flags, glib
<1>1. TypeFlags /\ (Start \/ StopBegin \/ Stopping) => TypeFlags'
  BY DEF Start, StopBegin, Stopping, DropRelaunch, Latch, ReadLoop, QuitLoop, Join
<1>2. TypeFlags /\ Worker => TypeFlags'
  BY DEF Worker, Goto, RunBlocking, Initialise, NewLoop, Publish, CheckLatch, RunLoop,
     reset_callback, LeaveLoop, Unpublish, Unref, ReconnectGate, Rebuild, Cleanup
<1>3. TypeFlags /\ (conn_reset \/ ArmReset \/ BusQuits \/ UNCHANGED vars) => TypeFlags'
  BY DEF conn_reset, ArmReset, BusQuits, vars
<1> QED
  BY <1>1, <1>2, <1>3 DEF Next

LEMMA InvInit == Init => IInv
<1> SUFFICES ASSUME Init PROVE IInv
  OBVIOUS
<1>1. TypeFlags
  BY DEF TypeFlags, Init
<1> QED
  BY <1>1 DEF Init, IInv, TypeOK, WorkerFollowsRunning, LoopFollowsWorker, LatchMeansStop,
     StopAt, WorkerAt

(* Each step keeps the inductive invariant.                                *)
LEMMA InvStep == IInv /\ [Next]_vars => IInv'
<1> SUFFICES ASSUME IInv, [Next]_vars PROVE IInv'
  OBVIOUS
<1>0. TypeFlags'
  BY FlagsStep DEF IInv, TypeOK
<1> USE <1>0 DEF IInv, TypeOK, WorkerFollowsRunning, LoopFollowsWorker, LatchMeansStop,
        StopAt, WorkerAt, control, flags, glib
<1>1. CASE Start
  BY <1>1 DEF Start
<1>2. CASE StopBegin
  BY <1>2 DEF StopBegin
<1>3. CASE Stopping
  <2>1. CASE DropRelaunch
    BY <2>1 DEF DropRelaunch
  <2>2. CASE Latch
    BY <2>2 DEF Latch
  <2>3. CASE ReadLoop
    BY <2>3 DEF ReadLoop
  <2>4. CASE QuitLoop
    BY <2>4 DEF QuitLoop
  <2>5. CASE Join
    BY <2>5 DEF Join
  <2> QED
    BY <1>3, <2>1, <2>2, <2>3, <2>4, <2>5 DEF Stopping
<1>4. CASE Worker
  <2> USE DEF Goto
  <2>1. CASE RunBlocking
    BY <2>1 DEF RunBlocking
  <2>2. CASE Initialise
    BY <2>2 DEF Initialise
  <2>3. CASE NewLoop
    BY <2>3 DEF NewLoop
  <2>4. CASE Publish
    BY <2>4 DEF Publish
  <2>5. CASE CheckLatch
    BY <2>5 DEF CheckLatch
  <2>6. CASE RunLoop
    BY <2>6 DEF RunLoop
  <2>7. CASE reset_callback
    BY <2>7 DEF reset_callback
  <2>8. CASE LeaveLoop
    BY <2>8 DEF LeaveLoop
  <2>9. CASE Unpublish
    BY <2>9 DEF Unpublish
  <2>10. CASE Unref
    BY <2>10 DEF Unref
  <2>11. CASE ReconnectGate
    BY <2>11 DEF ReconnectGate
  <2>12. CASE Rebuild
    BY <2>12 DEF Rebuild
  <2>13. CASE Cleanup
    BY <2>13 DEF Cleanup
  <2> QED
    BY <1>4, <2>1, <2>2, <2>3, <2>4, <2>5, <2>6, <2>7, <2>8, <2>9, <2>10, <2>11,
       <2>12, <2>13 DEF Worker
<1>5. CASE conn_reset \/ ArmReset
  BY <1>5 DEF conn_reset, ArmReset
<1>6. CASE BusQuits
  BY <1>6 DEF BusQuits
<1>7. CASE UNCHANGED vars
  BY <1>7 DEF vars
<1> QED
  BY <1>1, <1>2, <1>3, <1>4, <1>5, <1>6, <1>7 DEF Next

(* The inductive invariant holds throughout.                               *)
THEOREM InvariantHolds == Spec => []IInv
<1> QED
  BY InvInit, InvStep, PTL DEF Spec

(* Flags, places and loop numbers keep their types; a loop is published    *)
(* only if it is the newest one.                                           *)
THEOREM TypeCorrect == Spec => []TypeOK
<1>1. IInv => TypeOK
  BY DEF IInv
<1> QED
  BY <1>1, InvariantHolds, PTL

(* No run inherits the stop of the run before it, whatever the order in    *)
(* which the latch is raised, lowered and read.                            *)
THEOREM LatchMeansStopHolds == Spec => []LatchMeansStop
<1>1. IInv => LatchMeansStop
  BY DEF IInv
<1> QED
  BY <1>1, InvariantHolds, PTL

(* When stop() has returned nothing is left that could log to the host.    *)
THEOREM QuietAfterStopHolds == Spec => []QuietAfterStop
<1>1. IInv => QuietAfterStop
  BY DEF IInv, WorkerFollowsRunning, LoopFollowsWorker, QuietAfterStop
<1> QED
  BY <1>1, InvariantHolds, PTL

(* Every step of the core is a step of the contract or changes nothing the *)
(* contract speaks of: the safety part of KeepsContract.                   *)
LEMMA ContractStep ==
  ASSUME IInv, [Next]_vars PROVE [Contract!Next]_(Contract!vars)
<1> USE DEF IInv, WorkerFollowsRunning, Contract!Next, Contract!vars, control, flags, glib
<1>1. CASE Start
  BY <1>1 DEF Start, Contract!Start
<1>2. CASE StopBegin
  BY <1>2 DEF StopBegin, Contract!Stop
<1>3. CASE Stopping
  <2>1. CASE Join
    BY <2>1 DEF Join, Contract!Stopped
  <2>2. CASE DropRelaunch \/ Latch \/ ReadLoop \/ QuitLoop
    BY <2>2 DEF DropRelaunch, Latch, ReadLoop, QuitLoop
  <2> QED
    BY <1>3, <2>1, <2>2 DEF Stopping
<1>4. CASE Worker
  <2>1. UNCHANGED <<running, host>>
    BY <1>4 DEF Worker, RunBlocking, Initialise, NewLoop, Publish, CheckLatch, RunLoop,
       reset_callback, LeaveLoop, Unpublish, Unref, ReconnectGate, Rebuild, Cleanup
  <2>2. worker \notin {"none", "ended"}
    BY <1>4 DEF Worker, Goto, RunBlocking, Initialise, NewLoop, Publish, CheckLatch,
       RunLoop, reset_callback, LeaveLoop, Unpublish, Unref, ReconnectGate, Rebuild, Cleanup
  <2> QED
    BY <2>1, <2>2 DEF Contract!End
<1>5. CASE conn_reset \/ ArmReset \/ BusQuits \/ UNCHANGED vars
  BY <1>5 DEF conn_reset, ArmReset, BusQuits, vars
<1> QED
  BY <1>1, <1>2, <1>3, <1>4, <1>5 DEF Next

THEOREM KeepsContractSafely == Spec => Contract!Safety
<1>1. Init => Contract!Init
  BY DEF Init, Contract!Init
<1> QED
  BY <1>1, InvariantHolds, ContractStep, PTL DEF Spec, Contract!Safety
============================================================================
