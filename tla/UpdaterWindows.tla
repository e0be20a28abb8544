--------------------------- MODULE UpdaterWindows ---------------------------
(***************************************************************************)
(* updater.exe (app/src/bin/updater.rs): one process per accepted update   *)
(* assembles the new build in <dir>.new and swaps it in by two renames.    *)
(* The disk outlives the process, which may be killed at any step; a later *)
(* updater finds what was left.                                            *)
(*                                                                         *)
(* A tree gives each file its content.  A directory that does not exist is *)
(* a tree without files: none of these directories is ever kept empty.     *)
(***************************************************************************)
EXTENDS Naturals, FiniteSets

CONSTANTS Updaters,   \* updater processes
          Files,      \* the files of an installation
          Zip,        \* those the release zip carries; uninstall.exe is not one
          MaxRuns     \* bound: updates accepted per behaviour

ASSUME ConstantsAssumption ==
    /\ Zip \subseteq Files /\ Zip # {}
    /\ MaxRuns \in Nat

VARIABLES
  dir, new, old,      \* the trees <dir>, <dir>.new and <dir>.old
  app,                \* the tray app runs from <dir>, holding its files open
  pc,                 \* where each updater is
  todo,               \* files it has still to copy or to extract
  busy,               \* the file it is writing, if any
  said,               \* what the error box of its failed swap claims
  runs                \* counter behind MaxRuns

disk == <<dir, new, old>>
vars == <<disk, app, pc, todo, busy, said, runs>>

None == "none"
Contents == {"none", "torn", "old", "new"}
Trees == [Files -> Contents]
Absent == [f \in Files |-> "none"]
FilesOf(tree) == {f \in Files : tree[f] # "none"}
Old == [f \in Files |-> "old"]
New == [f \in Files |-> IF f \in Zip THEN "new" ELSE "old"]

Places == {"idle", "wait", "fetch", "recover", "clean_new", "clean_old", "copy", "extract",
           "aside", "in", "back", "drop", "relaunch", "failed"}

TypeOK ==
  /\ dir \in Trees /\ new \in Trees /\ old \in Trees
  /\ app \in BOOLEAN
  /\ pc \in [Updaters -> Places]
  /\ todo \in [Updaters -> SUBSET Files]
  /\ busy \in [Updaters -> SUBSET Files]
  /\ said \in {"nothing", "put back", "in .old"}
  /\ runs \in Nat
  /\ \A u \in Updaters : pc[u] \notin {"copy", "extract"} => todo[u] = {} /\ busy[u] = {}

Init ==
  /\ dir = Old /\ new = Absent /\ old = Absent
  /\ app = TRUE
  /\ pc = [u \in Updaters |-> "idle"]
  /\ todo = [u \in Updaters |-> {}] /\ busy = [u \in Updaters |-> {}]
  /\ said = "nothing" /\ runs = 0

Goto(u, place) == pc' = [pc EXCEPT ![u] = place]
Work(u, files) == todo' = [todo EXCEPT ![u] = files] /\ busy' = [busy EXCEPT ![u] = {}]
Rest(u) == Work(u, {})

----------------------------------------------------------------------------
(* The app.  Nothing holds the single-instance lock once the tray exits,   *)
(* so the user may start it again while an updater still downloads.        *)

Accept(u) ==
  /\ app
  /\ pc[u] \in {"idle", "failed"} /\ runs < MaxRuns
  /\ runs' = runs + 1
  /\ Goto(u, "wait")
  /\ UNCHANGED <<disk, app, todo, busy, said>>

AppExits ==
  /\ app
  /\ app' = FALSE
  /\ UNCHANGED <<disk, pc, todo, busy, said, runs>>

AppStarts ==
  /\ ~app /\ dir # Absent
  /\ app' = TRUE
  /\ UNCHANGED <<disk, pc, todo, busy, said, runs>>

(* With <dir> gone no app can launch an updater; only a copy left in       *)
(* %TEMP%, or one that was still waiting, can.                             *)
RunAgain(u) ==
  /\ dir = Absent
  /\ pc[u] \in {"idle", "failed"} /\ runs < MaxRuns
  /\ runs' = runs + 1
  /\ Goto(u, "wait")
  /\ UNCHANGED <<disk, app, todo, busy, said>>

----------------------------------------------------------------------------
(* wait_for_exit gives up after 30 seconds; fetch_verified takes a zip of  *)
(* the signed hash from the primary or from the mirror, or the run ends.   *)

WaitForExit(u) ==
  /\ pc[u] = "wait"
  /\ Goto(u, "fetch")
  /\ UNCHANGED <<disk, app, todo, busy, said, runs>>

Fetch(u) ==
  /\ pc[u] = "fetch"
  /\ \/ Goto(u, "recover")
     \/ Goto(u, "failed")
  /\ UNCHANGED <<disk, app, todo, busy, said, runs>>

----------------------------------------------------------------------------
(* install_staged.                                                         *)

Fail(u) == Goto(u, "failed") /\ Rest(u)

(* A directory cannot be renamed while a file in it is open.               *)
Reading == \E u \in Updaters : pc[u] = "copy" /\ busy[u] # {}
Writing == \E u \in Updaters : busy[u] # {}

(* Mutant: the recovery of an earlier run is left out.                     *)
NoRecovery(u) ==
  /\ pc[u] = "recover"
  /\ Goto(u, "clean_new")
  /\ UNCHANGED <<disk, app, todo, busy, said, runs>>

Recover(u) ==
  /\ pc[u] = "recover"
  /\ \/ /\ dir = Absent /\ old # Absent
        /\ dir' = old /\ old' = Absent
        /\ Goto(u, "clean_new")
     \/ /\ dir = Absent /\ old # Absent
        /\ Goto(u, "failed")
        /\ UNCHANGED <<dir, old>>
     \/ /\ dir # Absent \/ old = Absent
        /\ Goto(u, "clean_new")
        /\ UNCHANGED <<dir, old>>
  /\ UNCHANGED <<new, app, todo, busy, said, runs>>

(* remove_dir_all, best-effort: it may stop half-way, and cannot remove a  *)
(* file that some process has open.                                        *)
Left(tree, open) ==
  {[f \in Files |-> IF f \in kept \cup open THEN tree[f] ELSE "none"] : kept \in SUBSET Files}

Open == UNION {busy[u] : u \in Updaters}

CleanNew(u) ==
  /\ pc[u] = "clean_new"
  /\ new' \in Left(new, Open)
  /\ Goto(u, "clean_old")
  /\ UNCHANGED <<dir, old, app, todo, busy, said, runs>>

CleanOld(u) ==
  /\ pc[u] = "clean_old"
  /\ old' \in Left(old, {})
  /\ IF dir = Absent THEN Fail(u)
     ELSE Goto(u, "copy") /\ Work(u, FilesOf(dir))
  /\ UNCHANGED <<dir, new, app, said, runs>>

(* Writing a file truncates it first.                                      *)
Truncate(u, f) ==
  /\ pc[u] \in {"copy", "extract"}
  /\ busy[u] = {} /\ f \in todo[u]
  /\ pc[u] = "copy" => dir[f] # "none"
  /\ new' = [new EXCEPT ![f] = "torn"]
  /\ busy' = [busy EXCEPT ![u] = {f}]
  /\ UNCHANGED <<dir, old, app, pc, todo, said, runs>>

Written(u, f) == IF pc[u] = "copy" THEN dir[f] ELSE "new"

Write(u, f) ==
  /\ busy[u] = {f}
  /\ Written(u, f) # "none"
  /\ new' = [new EXCEPT ![f] = Written(u, f)]
  /\ busy' = [busy EXCEPT ![u] = {}]
  /\ todo' = [todo EXCEPT ![u] = @ \ {f}]
  /\ UNCHANGED <<dir, old, app, pc, said, runs>>

(* copy_dir_all ends at the first error, extract_over after five tries.    *)
WriteFails(u) ==
  /\ pc[u] \in {"copy", "extract"}
  /\ Fail(u)
  /\ UNCHANGED <<disk, app, said, runs>>

Copied(u) ==
  /\ pc[u] = "copy" /\ todo[u] = {}
  /\ Goto(u, "extract") /\ Work(u, Zip)
  /\ UNCHANGED <<disk, app, said, runs>>

(* Mutant: the swap begins with files still to extract.                    *)
ExtractedSome(u) ==
  /\ pc[u] = "extract" /\ busy[u] = {}
  /\ Goto(u, "aside")
  /\ UNCHANGED <<disk, app, todo, busy, said, runs>>

Extracted(u) ==
  /\ pc[u] = "extract" /\ todo[u] = {}
  /\ Goto(u, "aside")
  /\ UNCHANGED <<disk, app, todo, busy, said, runs>>

MoveAside(u) ==
  /\ pc[u] = "aside"
  /\ \/ /\ dir # Absent /\ old = Absent /\ ~app /\ ~Reading
        /\ old' = dir /\ dir' = Absent
        /\ Goto(u, "in")
     \/ /\ Goto(u, "failed")
        /\ UNCHANGED <<dir, old>>
  /\ UNCHANGED <<new, app, todo, busy, said, runs>>

MoveIn(u) ==
  /\ pc[u] = "in"
  /\ \/ /\ new # Absent /\ dir = Absent /\ ~Writing
        /\ dir' = new /\ new' = Absent
        /\ Goto(u, "drop")
     \/ /\ Goto(u, "back")
        /\ UNCHANGED <<dir, new>>
  /\ UNCHANGED <<old, app, todo, busy, said, runs>>

(* Mutant: the rollback is reported as done whatever became of it.         *)
RollBackSilently(u) ==
  /\ pc[u] = "back"
  /\ \/ /\ old # Absent /\ dir = Absent
        /\ dir' = old /\ old' = Absent
     \/ UNCHANGED <<dir, old>>
  /\ said' = "put back"
  /\ Goto(u, "failed")
  /\ UNCHANGED <<new, app, todo, busy, runs>>

RollBack(u) ==
  /\ pc[u] = "back"
  /\ \/ /\ old # Absent /\ dir = Absent
        /\ dir' = old /\ old' = Absent
        /\ said' = "put back"
     \/ /\ said' = "in .old"
        /\ UNCHANGED <<dir, old>>
  /\ Goto(u, "failed")
  /\ UNCHANGED <<new, app, todo, busy, runs>>

DropOld(u) ==
  /\ pc[u] = "drop"
  /\ old' \in Left(old, {})
  /\ Goto(u, "relaunch")
  /\ UNCHANGED <<dir, new, app, todo, busy, said, runs>>

Relaunch(u) ==
  /\ pc[u] = "relaunch"
  /\ app' = (app \/ dir # Absent)
  /\ Goto(u, "idle")
  /\ UNCHANGED <<disk, todo, busy, said, runs>>

Killed(u) ==
  /\ pc[u] # "idle"
  /\ Goto(u, "idle") /\ Rest(u)
  /\ UNCHANGED <<disk, app, said, runs>>

(* What was written before is taken to be on the disk, as if each file had *)
(* been flushed; updater.rs leaves that to the system.                     *)
PowerCut ==
  /\ app' = FALSE
  /\ pc' = [u \in Updaters |-> "idle"]
  /\ todo' = [u \in Updaters |-> {}] /\ busy' = [u \in Updaters |-> {}]
  /\ UNCHANGED <<disk, said, runs>>

Updater(u) ==
  \/ WaitForExit(u) \/ Fetch(u) \/ Recover(u) \/ CleanNew(u) \/ CleanOld(u)
  \/ \E f \in Files : Truncate(u, f) \/ Write(u, f)
  \/ WriteFails(u) \/ Copied(u) \/ Extracted(u)
  \/ MoveAside(u) \/ MoveIn(u) \/ RollBack(u) \/ DropOld(u) \/ Relaunch(u)

Next ==
  \/ AppExits \/ AppStarts \/ PowerCut
  \/ \E u \in Updaters : Accept(u) \/ RunAgain(u) \/ Updater(u) \/ Killed(u)

Spec == Init /\ [][Next]_vars

----------------------------------------------------------------------------
(* Properties *)

(* The installation: <dir>, or <dir>.old while a swap or a crash in one    *)
(* has left it there.                                                      *)
Installed == IF dir # Absent THEN dir ELSE old

(* "Install the new build without ever leaving the live directory          *)
(* half-written": at every moment, and after every crash, what is          *)
(* installed is one whole build, uninstall.exe included.                   *)
Whole == Installed \in {Old, New}

(* "the one message that must never be wrong": what the error box says of  *)
(* the old build is what happened to it.                                   *)
SaysWhatItDid ==
  [][\A u \in Updaters : pc[u] = "back" /\ pc'[u] = "failed" =>
       IF dir' = Absent THEN said' = "in .old" /\ old' \in {Old, New}
                        ELSE said' = "put back"]_vars

Build == IF Installed = Old THEN "old" ELSE IF Installed = New THEN "new" ELSE "mixed"
Promise == INSTANCE Installation WITH build <- Build

(* Updates, failures, crashes and second attempts only ever turn the old   *)
(* build into the new one.                                                 *)
KeepsPromise == Promise!Spec
=============================================================================
