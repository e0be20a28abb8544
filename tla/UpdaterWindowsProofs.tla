------------------------ MODULE UpdaterWindowsProofs ------------------------
(***************************************************************************)
(* Theorems about UpdaterWindows with at most one updater, for any set of  *)
(* files and any number of runs.  Two updaters break them: TwoUpdaters.cfg.*)
(***************************************************************************)
EXTENDS UpdaterWindows, TLAPS

OneUpdater == \A u, v \in Updaters : u = v

USE DEF disk, vars

----------------------------------------------------------------------------
(* The inductive invariant *)

(* Where the old and the new build are.                                    *)
WholeDir == dir \in {Old, New, Absent}
WholeOld == dir = Absent => old \in {Old, New}

(* What an updater may count on at each place.                             *)
Needed(u) ==
  pc[u] \in {"clean_new", "clean_old", "copy", "extract", "aside"} => dir # Absent
Copying(u) ==
  pc[u] = "copy" => \A f \in Files \ todo[u] : new[f] = dir[f]
Extracting(u) ==
  pc[u] = "extract" =>
    todo[u] \subseteq Zip /\ \A f \in Files \ todo[u] : new[f] = New[f]
Staged(u) == pc[u] \in {"aside", "in"} => new = New
Between(u) == pc[u] \in {"in", "back"} => dir = Absent
Swapped(u) == pc[u] \in {"drop", "relaunch"} => dir = New
Unfinished(u) == busy[u] \subseteq todo[u]

Stage(u) ==
  /\ Needed(u) /\ Copying(u) /\ Extracting(u) /\ Staged(u)
  /\ Between(u) /\ Swapped(u) /\ Unfinished(u)

Kept == WholeDir /\ WholeOld /\ \A u \in Updaters : Stage(u)

IInv == TypeOK /\ Kept

----------------------------------------------------------------------------
(* Trees *)

(* The two builds and the missing one are three different trees, and both  *)
(* builds have the files the zip does not carry in common.                 *)
LEMMA Builds ==
  /\ Old \in Trees /\ New \in Trees /\ Absent \in Trees
  /\ Old # Absent /\ New # Absent /\ Old # New
  /\ \A f \in Files : Old[f] # "none" /\ New[f] # "none"
  /\ \A f \in Files \ Zip : New[f] = Old[f]
  /\ \A f \in Zip : New[f] = "new"
<1>1. PICK z \in Files : z \in Zip
  BY ConstantsAssumption
<1>2. Old[z] = "old" /\ New[z] = "new" /\ Absent[z] = "none"
  BY <1>1 DEF Old, New, Absent
<1> QED BY <1>2, ConstantsAssumption DEF Old, New, Absent, Trees, Contents

(* Removing a directory leaves a tree.                                     *)
LEMMA LeftIsATree ==
  ASSUME NEW t \in Trees, NEW open, NEW s \in Left(t, open)
  PROVE  s \in Trees
BY DEF Left, Trees, Contents

(* Two trees with the same files are the same.                             *)
LEMMA SameFiles ==
  ASSUME NEW s \in Trees, NEW t \in Trees, \A f \in Files : s[f] = t[f]
  PROVE  s = t
BY DEF Trees

----------------------------------------------------------------------------
(* Initial states *)

LEMMA InitIInv == Init => IInv
<1> SUFFICES ASSUME Init PROVE IInv
  OBVIOUS
<1>1. TypeOK
  BY Builds DEF Init, TypeOK, Places
<1>2. WholeDir /\ WholeOld
  BY Builds DEF Init, WholeDir, WholeOld
<1>3. ASSUME NEW u \in Updaters PROVE Stage(u)
  BY <1>3 DEF Init, Stage, Needed, Copying, Extracting, Staged, Between, Swapped, Unfinished
<1> QED BY <1>1, <1>2, <1>3 DEF IInv, Kept

----------------------------------------------------------------------------
(* Types *)

LEMMA TypeStep == TypeOK /\ (\A u \in Updaters : Unfinished(u)) /\ [Next]_vars => TypeOK'
<1> SUFFICES ASSUME TypeOK, \A u \in Updaters : Unfinished(u), [Next]_vars PROVE TypeOK'
  OBVIOUS
<1> USE DEF Places
<1>1. CASE UNCHANGED vars \/ AppExits \/ AppStarts
  BY <1>1 DEF TypeOK, AppExits, AppStarts
<1>2. CASE PowerCut
  BY <1>2 DEF TypeOK, PowerCut
<1>3. ASSUME NEW u \in Updaters, Accept(u) \/ RunAgain(u) \/ WaitForExit(u) \/ Fetch(u)
      PROVE  TypeOK'
  <2>0. UNCHANGED <<disk, app, todo, busy, said>>
    BY <1>3 DEF Accept, RunAgain, WaitForExit, Fetch
  <2>1. runs' = runs \/ runs' = runs + 1
    BY <1>3 DEF Accept, RunAgain, WaitForExit, Fetch
  <2>2. PICK place \in Places \ {"copy", "extract"} : Goto(u, place)
    BY <1>3 DEF Accept, RunAgain, WaitForExit, Fetch
  <2>3. todo[u] = {} /\ busy[u] = {}
    BY <1>3 DEF TypeOK, Accept, RunAgain, WaitForExit, Fetch
  <2>4. runs \in Nat
    BY DEF TypeOK
  <2>5. runs' \in Nat
    BY <2>1, <2>4
  <2>6. pc' \in [Updaters -> Places] /\ pc' = [pc EXCEPT ![u] = place]
    BY <2>2 DEF TypeOK, Goto
  <2> QED BY <2>0, <2>3, <2>5, <2>6 DEF TypeOK
<1>4. ASSUME NEW u \in Updaters, Killed(u) PROVE TypeOK'
  BY <1>4 DEF TypeOK, Killed, Goto, Rest, Work
<1>5. ASSUME NEW u \in Updaters, Recover(u) PROVE TypeOK'
  <2>1. dir' \in Trees /\ old' \in Trees
    BY <1>5, Builds DEF TypeOK, Recover
  <2> QED BY <1>5, <2>1 DEF TypeOK, Recover, Goto
<1>6. ASSUME NEW u \in Updaters, CleanNew(u) PROVE TypeOK'
  <2>1. new' \in Trees
    BY <1>6, LeftIsATree DEF TypeOK, CleanNew
  <2> QED BY <1>6, <2>1 DEF TypeOK, CleanNew, Goto
<1>7. ASSUME NEW u \in Updaters, CleanOld(u) PROVE TypeOK'
  <2>1. old' \in Trees
    BY <1>7, LeftIsATree DEF TypeOK, CleanOld
  <2>2. FilesOf(dir) \subseteq Files
    BY DEF FilesOf
  <2> QED BY <1>7, <2>1, <2>2 DEF TypeOK, CleanOld, Goto, Fail, Rest, Work
<1>8. ASSUME NEW u \in Updaters, NEW f \in Files, Truncate(u, f) PROVE TypeOK'
  <2>1. new' \in Trees
    BY <1>8 DEF TypeOK, Truncate, Trees, Contents
  <2> QED BY <1>8, <2>1 DEF TypeOK, Truncate
<1>9. ASSUME NEW u \in Updaters, NEW f \in Files, Write(u, f) PROVE TypeOK'
  <2>1. new' \in Trees
    BY <1>9 DEF TypeOK, Write, Written, Trees, Contents
  <2>2. pc[u] \in {"copy", "extract"}
    BY <1>9 DEF TypeOK, Write
  <2> QED BY <1>9, <2>1, <2>2 DEF TypeOK, Write
<1>10. ASSUME NEW u \in Updaters, WriteFails(u) \/ Copied(u) \/ Extracted(u) PROVE TypeOK'
  BY <1>10, ConstantsAssumption
     DEF TypeOK, WriteFails, Copied, Extracted, Goto, Fail, Rest, Work, Unfinished
<1>11. ASSUME NEW u \in Updaters, MoveAside(u) \/ MoveIn(u) \/ RollBack(u) PROVE TypeOK'
  <2>1. dir' \in Trees /\ new' \in Trees /\ old' \in Trees
    BY <1>11, Builds DEF TypeOK, MoveAside, MoveIn, RollBack
  <2> QED BY <1>11, <2>1 DEF TypeOK, MoveAside, MoveIn, RollBack, Goto
<1>12. ASSUME NEW u \in Updaters, DropOld(u) \/ Relaunch(u) PROVE TypeOK'
  <2>1. old' \in Trees
    BY <1>12, LeftIsATree DEF TypeOK, DropOld, Relaunch
  <2> QED BY <1>12, <2>1 DEF TypeOK, DropOld, Relaunch, Goto
<1> QED BY <1>1, <1>2, <1>3, <1>4, <1>5, <1>6, <1>7, <1>8, <1>9, <1>10, <1>11, <1>12
        DEF Next, Updater

----------------------------------------------------------------------------
(* The steps of the disk.  At every place the step of the only updater is  *)
(* the only one that touches the trees.                                    *)

LEMMA OnlyOne ==
  ASSUME OneUpdater, NEW u \in Updaters, WholeDir', WholeOld', Stage(u)'
  PROVE  Kept'
BY DEF OneUpdater, Kept

(* A step that leaves the trees alone, and takes the updater to a place    *)
(* that asks nothing more of them, preserves the invariant.                *)
Quiet == {"idle", "wait", "fetch", "recover", "failed"}

LEMMA QuietStep ==
  ASSUME OneUpdater, IInv, NEW u \in Updaters, UNCHANGED disk,
         NEW place \in Quiet, Goto(u, place),
         UNCHANGED <<todo, busy>> \/ Rest(u)
  PROVE  Kept'
<1>1. WholeDir' /\ WholeOld'
  BY DEF IInv, Kept, WholeDir, WholeOld
<1>2. pc'[u] \in Quiet
  BY DEF Goto, IInv, TypeOK
<1>3. Unfinished(u)'
  BY DEF IInv, Kept, TypeOK, Stage, Unfinished, Rest, Work
<1>4. Stage(u)'
  BY <1>2, <1>3 DEF Quiet, Stage, Needed, Copying, Extracting, Staged, Between, Swapped
<1> QED BY <1>1, <1>4, OnlyOne

LEMMA RecoverStep ==
  ASSUME OneUpdater, IInv, NEW u \in Updaters, Recover(u)
  PROVE  Kept'
<1> USE DEF IInv, Kept, WholeDir, WholeOld, Goto, TypeOK
<1>1. CASE pc' = [pc EXCEPT ![u] = "failed"] /\ UNCHANGED <<dir, old>>
  BY <1>1, QuietStep DEF Recover, Quiet
<1>2. CASE pc' = [pc EXCEPT ![u] = "clean_new"]
  <2>1. dir' \in {Old, New} /\ WholeOld'
    BY <1>2, Builds DEF Recover
  <2>2. pc'[u] = "clean_new" /\ Unfinished(u)'
    BY <1>2 DEF Recover, Stage, Unfinished
  <2>3. Stage(u)'
    BY <2>1, <2>2, Builds
       DEF Stage, Needed, Copying, Extracting, Staged, Between, Swapped
  <2> QED BY <2>1, <2>3, OnlyOne
<1> QED BY <1>1, <1>2 DEF Recover

LEMMA CleanStep ==
  ASSUME OneUpdater, IInv, NEW u \in Updaters, CleanNew(u) \/ CleanOld(u)
  PROVE  Kept'
<1> USE DEF IInv, Kept, WholeDir, WholeOld, Goto, TypeOK
<1>1. dir \in {Old, New} /\ dir # Absent /\ UNCHANGED dir
  BY DEF CleanNew, CleanOld, Stage, Needed
<1>2. CASE CleanNew(u)
  <2>1. pc'[u] = "clean_old" /\ Unfinished(u)'
    BY <1>2 DEF CleanNew, Stage, Unfinished
  <2>2. Stage(u)'
    BY <1>1, <2>1 DEF Stage, Needed, Copying, Extracting, Staged, Between, Swapped
  <2> QED BY <1>1, <2>2, OnlyOne
<1>3. CASE CleanOld(u)
  <2>1. FilesOf(dir) = Files
    BY <1>1, Builds DEF FilesOf
  <2>2. pc'[u] = "copy" /\ todo'[u] = Files /\ busy'[u] = {}
    BY <1>1, <1>3, <2>1 DEF CleanOld, Work
  <2>3. Stage(u)'
    BY <1>1, <2>2
       DEF Stage, Needed, Copying, Extracting, Staged, Between, Swapped, Unfinished
  <2> QED BY <1>1, <2>3, OnlyOne
<1> QED BY <1>2, <1>3

LEMMA TruncateStep ==
  ASSUME OneUpdater, IInv, NEW u \in Updaters, NEW f \in Files, Truncate(u, f)
  PROVE  Kept'
<1> USE DEF IInv, Kept, WholeDir, WholeOld, TypeOK
<1>1. /\ WholeDir' /\ WholeOld' /\ UNCHANGED <<dir, todo, pc>>
      /\ pc[u] \in {"copy", "extract"} /\ f \in todo[u] /\ busy'[u] = {f}
  BY DEF Truncate
<1>2. \A g \in Files \ todo[u] : new'[g] = new[g]
  BY <1>1 DEF Truncate, Trees
<1>3. Copying(u)' /\ Extracting(u)'
  BY <1>1, <1>2 DEF Stage, Copying, Extracting
<1>4. Stage(u)'
  BY <1>1, <1>3 DEF Stage, Needed, Staged, Between, Swapped, Unfinished
<1> QED BY <1>1, <1>4, OnlyOne

LEMMA WriteStep ==
  ASSUME OneUpdater, IInv, NEW u \in Updaters, NEW f \in Files, Write(u, f)
  PROVE  Kept'
<1> USE DEF IInv, Kept, WholeDir, WholeOld, TypeOK
<1>1. /\ WholeDir' /\ WholeOld' /\ UNCHANGED <<dir, pc>>
      /\ pc[u] \in {"copy", "extract"} /\ f \in todo[u]
      /\ todo'[u] = todo[u] \ {f} /\ busy'[u] = {}
  BY DEF Write, Stage, Unfinished
<1>2. /\ \A g \in Files \ {f} : new'[g] = new[g]
      /\ new'[f] = Written(u, f)
  BY DEF Write, Trees
<1>3. Copying(u)'
  BY <1>1, <1>2 DEF Stage, Copying, Written
<1>4. Extracting(u)'
  <2> SUFFICES ASSUME pc[u] = "extract" PROVE Extracting(u)'
    BY <1>1 DEF Extracting
  <2>1. f \in Zip /\ Written(u, f) = "new"
    BY <1>1 DEF Written, Stage, Extracting
  <2> QED BY <1>1, <1>2, <2>1, Builds DEF Stage, Extracting
<1>5. Stage(u)'
  BY <1>1, <1>3, <1>4 DEF Stage, Needed, Staged, Between, Swapped, Unfinished
<1> QED BY <1>1, <1>5, OnlyOne

LEMMA AssembledStep ==
  ASSUME OneUpdater, IInv, NEW u \in Updaters, Copied(u) \/ Extracted(u)
  PROVE  Kept'
<1> USE DEF IInv, Kept, WholeDir, WholeOld, Goto, Work, TypeOK
<1>1. CASE Copied(u)
  <2>1. /\ pc'[u] = "extract" /\ todo'[u] = Zip /\ busy'[u] = {}
        /\ UNCHANGED <<dir, new, old>>
    BY <1>1 DEF Copied
  <2>2. dir \in {Old, New} /\ \A f \in Files : new[f] = dir[f]
    BY <1>1 DEF Copied, Stage, Needed, Copying
  <2>3. \A f \in Files \ Zip : new[f] = New[f]
    BY <2>2, Builds, ConstantsAssumption
  <2>4. Stage(u)'
    BY <2>1, <2>2, <2>3, Builds
       DEF Stage, Needed, Copying, Extracting, Staged, Between, Swapped, Unfinished
  <2> QED BY <2>1, <2>4, OnlyOne
<1>2. CASE Extracted(u)
  <2>1. /\ pc[u] = "extract" /\ pc'[u] = "aside" /\ todo[u] = {}
        /\ UNCHANGED <<dir, new, old, todo, busy>>
    BY <1>2 DEF Extracted
  <2>2. \A f \in Files : new[f] = New[f]
    BY <2>1 DEF Stage, Extracting
  <2>3. new = New
    BY <2>2, Builds, SameFiles
  <2>4. dir # Absent
    BY <1>2, <2>1 DEF Extracted, Stage, Needed
  <2>5. Stage(u)'
    BY <2>1, <2>3, <2>4
       DEF Stage, Needed, Copying, Extracting, Staged, Between, Swapped, Unfinished
  <2> QED BY <2>1, <2>5, OnlyOne
<1> QED BY <1>1, <1>2

LEMMA SwapStep ==
  ASSUME OneUpdater, IInv, NEW u \in Updaters,
         MoveAside(u) \/ MoveIn(u) \/ RollBack(u) \/ DropOld(u) \/ Relaunch(u)
  PROVE  Kept'
<1> USE DEF IInv, Kept, WholeDir, WholeOld, Goto, TypeOK
<1>0. Unfinished(u)'
  BY DEF MoveAside, MoveIn, RollBack, DropOld, Relaunch, Stage, Unfinished
<1> USE DEF Stage, Needed, Copying, Extracting, Staged, Between, Swapped
<1>1. CASE MoveAside(u)
  <2>1. WholeDir' /\ WholeOld'
    BY <1>1, Builds DEF MoveAside
  <2>2. \/ pc'[u] = "in" /\ dir' = Absent /\ new' = New
        \/ pc'[u] = "failed"
    BY <1>1 DEF MoveAside
  <2> QED BY <1>0, <2>1, <2>2, OnlyOne
<1>2. CASE MoveIn(u)
  <2>1. WholeDir' /\ WholeOld'
    BY <1>2, Builds DEF MoveIn
  <2>2. \/ pc'[u] = "drop" /\ dir' = New
        \/ pc'[u] = "back" /\ dir' = Absent
    BY <1>2 DEF MoveIn
  <2> QED BY <1>0, <2>1, <2>2, OnlyOne
<1>3. CASE RollBack(u)
  <2>1. WholeDir' /\ WholeOld' /\ pc'[u] = "failed"
    BY <1>3, Builds DEF RollBack
  <2> QED BY <1>0, <2>1, OnlyOne
<1>4. CASE DropOld(u) \/ Relaunch(u)
  <2>1. dir' = New /\ New # Absent
    BY <1>4, Builds DEF DropOld, Relaunch
  <2>2. pc'[u] \in {"relaunch", "idle"}
    BY <1>4 DEF DropOld, Relaunch
  <2> QED BY <1>0, <2>1, <2>2, OnlyOne
<1> QED BY <1>1, <1>2, <1>3, <1>4

(* The invariant is inductive.                                             *)
LEMMA StepIInv == OneUpdater /\ IInv /\ [Next]_vars => IInv'
<1> SUFFICES ASSUME OneUpdater, IInv, [Next]_vars PROVE IInv'
  OBVIOUS
<1>1. TypeOK'
  BY TypeStep DEF IInv, Kept, Stage
<1>2. CASE UNCHANGED vars \/ AppExits \/ AppStarts
  <2>1. UNCHANGED <<dir, new, old, pc, todo, busy>>
    BY <1>2 DEF AppExits, AppStarts
  <2>2. ASSUME NEW u \in Updaters PROVE Stage(u)'
    BY <2>1 DEF IInv, Kept, Stage, Needed, Copying, Extracting, Staged, Between,
                Swapped, Unfinished
  <2> QED BY <1>1, <2>1, <2>2 DEF IInv, Kept, WholeDir, WholeOld
<1>3. CASE PowerCut
  <2>1. ASSUME NEW u \in Updaters PROVE Stage(u)'
    BY <1>3 DEF PowerCut, Stage, Needed, Copying, Extracting, Staged, Between,
                Swapped, Unfinished
  <2> QED BY <1>1, <1>3, <2>1 DEF PowerCut, IInv, Kept, WholeDir, WholeOld
<1>4. ASSUME NEW u \in Updaters, Accept(u) \/ RunAgain(u) \/ WaitForExit(u) \/ Fetch(u)
      PROVE  Kept'
  <2>1. UNCHANGED disk /\ UNCHANGED <<todo, busy>>
    BY <1>4 DEF Accept, RunAgain, WaitForExit, Fetch
  <2>2. PICK place \in Quiet : Goto(u, place)
    BY <1>4 DEF Accept, RunAgain, WaitForExit, Fetch, Quiet
  <2> QED BY <2>1, <2>2, QuietStep
<1>5. ASSUME NEW u \in Updaters, Killed(u) \/ WriteFails(u) PROVE Kept'
  <2>1. UNCHANGED disk /\ Rest(u)
    BY <1>5 DEF Killed, WriteFails, Fail
  <2>2. PICK place \in Quiet : Goto(u, place)
    BY <1>5 DEF Killed, WriteFails, Fail, Quiet
  <2> QED BY <2>1, <2>2, QuietStep
<1>6. ASSUME NEW u \in Updaters, Updater(u) PROVE Kept'
  BY <1>4, <1>5, <1>6, RecoverStep, CleanStep, TruncateStep, WriteStep, AssembledStep, SwapStep
     DEF Updater
<1> QED BY <1>1, <1>2, <1>3, <1>4, <1>5, <1>6 DEF Next, IInv

(* Whatever fails and whenever the machine stops, the trees are as the     *)
(* updater expects them at its place.                                      *)
THEOREM InvariantHolds ==
  ASSUME OneUpdater
  PROVE  Spec => []IInv
BY InitIInv, StepIInv, PTL DEF Spec

(* Every variable of the updater keeps its type.                           *)
THEOREM TypeCorrect ==
  ASSUME OneUpdater
  PROVE  Spec => []TypeOK
<1>1. IInv => TypeOK
  BY DEF IInv
<1> QED BY <1>1, InvariantHolds, PTL

----------------------------------------------------------------------------
(* What the user is told, and left with *)

(* The error box of a failed swap is true: the old build was put back, or  *)
(* it is whole in <dir>.old.                                               *)
THEOREM SaysWhatItDidHolds ==
  ASSUME OneUpdater
  PROVE  Spec => SaysWhatItDid
<1> DEFINE Says(u) == pc[u] = "back" /\ pc'[u] = "failed" =>
                        IF dir' = Absent THEN said' = "in .old" /\ old' \in {Old, New}
                                         ELSE said' = "put back"
<1>1. ASSUME IInv, Next, NEW u \in Updaters, OneUpdater PROVE Says(u)
  <2> SUFFICES ASSUME pc[u] = "back", pc'[u] = "failed" PROVE Says(u)
    OBVIOUS
  <2>1. pc' # pc /\ u \in DOMAIN pc
    BY <1>1 DEF IInv, TypeOK
  <2>2. PICK v \in Updaters : Accept(v) \/ RunAgain(v) \/ Updater(v) \/ Killed(v)
    BY <1>1, <2>1 DEF Next, AppExits, AppStarts, PowerCut
  <2>3. v = u
    BY <1>1 DEF OneUpdater
  <2>4. RollBack(u)
    BY <1>1, <2>2, <2>3
       DEF IInv, TypeOK, Goto, Accept, RunAgain, Killed, Updater, WaitForExit, Fetch,
           Recover, CleanNew, CleanOld, Truncate, Write, WriteFails, Copied, Extracted,
           MoveAside, MoveIn, DropOld, Relaunch
  <2>5. dir = Absent /\ old \in {Old, New}
    BY <1>1 DEF IInv, Kept, Stage, Between, WholeOld
  <2> QED BY <2>4, <2>5, Builds DEF RollBack
<1>2. IInv /\ [Next]_vars => [\A u \in Updaters : Says(u)]_vars
  BY <1>1
<1> QED BY <1>2, InvariantHolds, PTL DEF Spec, SaysWhatItDid

(* What the user has is a whole build, and stays the one it is until the   *)
(* new one takes its place.                                                *)
LEMMA InstalledWhole == IInv => Installed \in {Old, New}
BY DEF IInv, Kept, WholeDir, WholeOld, Installed

LEMMA InstalledStep ==
  ASSUME OneUpdater, IInv, Next
  PROVE  Installed' = Installed \/ Installed' = New
<1>1. CASE UNCHANGED <<dir, old>>
  BY <1>1 DEF Installed
<1>2. ASSUME NEW u \in Updaters, Recover(u)
      PROVE  Installed' = Installed
  BY <1>2, Builds DEF Recover, Installed
<1>3. ASSUME NEW u \in Updaters, CleanOld(u) \/ DropOld(u)
      PROVE  Installed' = Installed
  <2>1. dir # Absent /\ dir' = dir
    BY <1>3, Builds DEF CleanOld, DropOld, IInv, Kept, Stage, Needed, Swapped
  <2> QED BY <2>1 DEF Installed
<1>4. ASSUME NEW u \in Updaters, MoveAside(u)
      PROVE  Installed' = Installed
  BY <1>4 DEF MoveAside, Installed
<1>5. ASSUME NEW u \in Updaters, MoveIn(u)
      PROVE  Installed' = Installed \/ Installed' = New
  <2>1. new = New /\ New # Absent
    BY <1>5, Builds DEF MoveIn, IInv, Kept, Stage, Staged
  <2> QED BY <1>5, <2>1 DEF MoveIn, Installed
<1>6. ASSUME NEW u \in Updaters, RollBack(u)
      PROVE  Installed' = Installed
  BY <1>6 DEF RollBack, Installed
<1>7. ASSUME NEW u \in Updaters, Accept(u) \/ RunAgain(u) \/ Updater(u) \/ Killed(u)
      PROVE  Installed' = Installed \/ Installed' = New
  BY <1>1, <1>2, <1>3, <1>4, <1>5, <1>6, <1>7
     DEF Accept, RunAgain, Killed, Updater, WaitForExit, Fetch, CleanNew, Truncate, Write,
         WriteFails, Copied, Extracted, Relaunch
<1> QED BY <1>1, <1>7 DEF Next, AppExits, AppStarts, PowerCut

(* Updates, failures, crashes and second attempts only ever turn the old   *)
(* build into the new one: the refinement of Installation.                 *)
THEOREM KeepsPromiseHolds ==
  ASSUME OneUpdater
  PROVE  Spec => KeepsPromise
<1>1. Init => Promise!Init
  BY Builds DEF Init, Promise!Init, Build, Installed
<1>2. IInv /\ [Next]_vars => [Promise!Install]_Build
  <2> SUFFICES ASSUME IInv, [Next]_vars PROVE Promise!Install \/ Build' = Build
    OBVIOUS
  <2>1. CASE UNCHANGED vars
    BY <2>1 DEF Build, Installed
  <2>2. CASE Next
    <3>1. Installed \in {Old, New} /\ (Installed' = Installed \/ Installed' = New)
      BY <2>2, InstalledWhole, InstalledStep
    <3>2. CASE Installed' = Installed
      BY <3>2 DEF Build
    <3>3. CASE Installed = Old /\ Installed' = New
      <4>1. Build = "old" /\ Build' = "new"
        BY <3>3, Builds DEF Build
      <4> QED BY <4>1 DEF Promise!Install
    <3> QED BY <3>1, <3>2, <3>3
  <2> QED BY <2>1, <2>2
<1> QED BY <1>1, <1>2, InvariantHolds, PTL DEF Spec, KeepsPromise, Promise!Spec
=============================================================================
