----------------------------- MODULE UpdateMac -----------------------------
(***************************************************************************)
(* The macOS update (app/src/update_macos.rs): an install thread of the    *)
(* tray stages the new bundle and swaps it for the running one by two      *)
(* renames.  The disk outlives the thread, and the process.                *)
(***************************************************************************)
EXTENDS UpdateFlow

CONSTANT Faults    \* the renames that may fail: "aside", "in", "back"

VARIABLES bundle,    \* Foo.app
          old,       \* Foo.app.old
          staging    \* the new bundle in .Foo.app.update

disk == <<bundle, old, staging>>
vars == <<flow, disk>>

Trees == {"none", "part", "old", "new"}
Places == {"stage", "unzip", "clear", "aside", "in", "back", "tidy"}

TypeOK ==
  /\ FlowTypeOK(Places)
  /\ bundle \in Trees /\ old \in Trees /\ staging \in Trees

Init == FlowInit /\ bundle = "old" /\ old = "none" /\ staging = "none"

Step(i, from, to) ==
  /\ thread[i] = from
  /\ Goto(i, to)
  /\ UNCHANGED <<tray, checks, events, IN_FLIGHT, owner, clicks>>

(* remove_dir_all, best-effort: all of it, some of it, or none.            *)
Left(tree) == IF tree = "none" THEN {"none"} ELSE {"none", "part", tree}

(* Download, and the check against the signed hash.                        *)
Fetch(i) ==
  /\ Step(i, "start", "stage") \/ Step(i, "start", "err")
  /\ UNCHANGED disk

Stage(i) ==
  /\ Step(i, "stage", "unzip") \/ Step(i, "stage", "err")
  /\ staging' \in Left(staging) \cup {"part"}
  /\ UNCHANGED <<bundle, old>>

(* Files of an earlier staging that remove_dir_all could not remove stay   *)
(* beside the unzipped ones; such a bundle counts as new.                  *)
Unzip(i) ==
  /\ \/ Step(i, "unzip", "clear") /\ staging' = "new"
     \/ Step(i, "unzip", "err") /\ staging' = "part"
  /\ UNCHANGED <<bundle, old>>

ClearOld(i) ==
  /\ Step(i, "clear", "aside")
  /\ old' \in Left(old)
  /\ UNCHANGED <<bundle, staging>>

MoveAside(i) ==
  /\ \/ /\ Step(i, "aside", "in")
        /\ bundle # "none" /\ old = "none"
        /\ old' = bundle /\ bundle' = "none"
     \/ /\ Step(i, "aside", "err")
        /\ "aside" \in Faults \/ bundle = "none" \/ old # "none"
        /\ UNCHANGED <<bundle, old>>
  /\ UNCHANGED staging

MoveIn(i) ==
  /\ \/ /\ Step(i, "in", "tidy")
        /\ bundle = "none" /\ staging # "none"
        /\ bundle' = staging /\ staging' = "none"
     \/ /\ Step(i, "in", "back")
        /\ "in" \in Faults \/ bundle # "none" \/ staging = "none"
        /\ UNCHANGED <<bundle, staging>>
  /\ UNCHANGED old

(* The rollback's own failure is dropped.                                  *)
RollBack(i) ==
  /\ Step(i, "back", "err")
  /\ \/ /\ bundle = "none" /\ old # "none"
        /\ bundle' = old /\ old' = "none"
     \/ /\ "back" \in Faults \/ bundle # "none" \/ old = "none"
        /\ UNCHANGED <<bundle, old>>
  /\ staging' \in Left(staging)

Tidy(i) ==
  /\ Step(i, "tidy", "ok")
  /\ old' \in Left(old) /\ staging' \in Left(staging)
  /\ UNCHANGED bundle

apply(i) ==
  \/ Fetch(i) \/ Stage(i) \/ Unzip(i) \/ ClearOld(i)
  \/ MoveAside(i) \/ MoveIn(i) \/ RollBack(i) \/ Tidy(i)

InstallThread(i) ==
  \/ apply(i)
  \/ (Release(i) \/ Report(i)) /\ UNCHANGED disk

(* Only a bundle with all its files can be started.                        *)
Start(p) == bundle \in {"old", "new"} /\ Launch(p) /\ UNCHANGED disk

TrayLoop(p) == EventLoop(p) /\ UNCHANGED disk

Next ==
  \/ \E p \in Trays :
       \/ TrayLoop(p) \/ Start(p)
       \/ (Click(p) \/ Quit(p) \/ Crash(p)) /\ UNCHANGED disk
  \/ \E i \in Installers : InstallThread(i)

Spec == Init /\ [][Next]_vars

----------------------------------------------------------------------------
(* Properties *)

(* Someone still has the app: at its path, or moved aside.                 *)
Installed == IF bundle # "none" THEN bundle ELSE old

(* "a failed or tampered update leaves the running install untouched":     *)
(* whichever step fails, and however often the user tries again, a whole   *)
(* bundle is left.                                                         *)
Whole == Installed \in {"old", "new"}

(* The same, as far as the app can be started again: quitting the tray     *)
(* while it updates does not lose the app.                                 *)
Startable == \A p \in Trays : tray[p] = "down" => bundle \in {"old", "new"}

Build == IF Installed \in {"old", "new"} THEN Installed ELSE "part"
============================================================================
