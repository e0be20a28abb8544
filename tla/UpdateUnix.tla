----------------------------- MODULE UpdateUnix -----------------------------
(***************************************************************************)
(* The update off Windows as a whole: the flow of the tray, and the disk   *)
(* of the system it runs on.  UpdateMac and UpdateLinux are compiled for   *)
(* one of the two (cfg(target_os) in app/src/main.rs); a behaviour is one  *)
(* of the two programs.                                                    *)
(***************************************************************************)
EXTENDS UpdateFlow

CONSTANTS Faults,          \* the renames of the bundle swap that may fail
          Inodes,          \* bound: files that can exist at once on Linux
          OrphansOverlap   \* an install of the AppImage may begin while the
                           \* delta tool of a tray that has ended still runs

ASSUME SystemsAssumption ==
    /\ Faults \subseteq {"aside", "in", "back"}
    /\ Inodes \subseteq Nat \ {0} /\ Inodes # {}
    /\ OrphansOverlap \in BOOLEAN

VARIABLES
  system,
  bundle, old, staging,        \* the disk of UpdateMac
  target, work, content, fd, orphans    \* that of UpdateLinux

Mac == INSTANCE UpdateMac
Linux == INSTANCE UpdateLinux

macDisk == <<bundle, old, staging>>
linuxDisk == <<target, work, content, fd, orphans>>
vars == <<flow, system, macDisk, linuxDisk>>

OnMac == system = "mac" /\ UNCHANGED <<system, linuxDisk>>
OnLinux == system = "linux" /\ UNCHANGED <<system, macDisk>>

Init ==
  /\ system \in {"mac", "linux"}
  /\ Mac!Init /\ Linux!Init

TrayLoop(p) ==
  \/ OnMac /\ Mac!TrayLoop(p)
  \/ OnLinux /\ Linux!TrayLoop(p)

InstallThread(i) ==
  \/ OnMac /\ Mac!InstallThread(i)
  \/ OnLinux /\ Linux!InstallThread(i)

Next ==
  \/ OnMac /\ Mac!Next
  \/ OnLinux /\ Linux!Next

OrphanEnds(n) == OnLinux /\ Linux!OrphanEnds(n)

(* The event loop runs, a thread that has begun goes on, and a tool ends.  *)
Fairness ==
  /\ \A p \in Trays : WF_vars(TrayLoop(p))
  /\ \A i \in Installers : WF_vars(InstallThread(i))
  /\ \A n \in Inodes : WF_vars(OrphanEnds(n))

Spec == Init /\ [][Next]_vars
FairSpec == Spec /\ Fairness

----------------------------------------------------------------------------
(* Properties *)

TypeOK == IF system = "mac" THEN Mac!TypeOK ELSE Linux!TypeOK

(* One install at a time, the latch held exactly while it runs, and an     *)
(* AppImage that is reported as installed is.                              *)
UpdateInvariant ==
  /\ TypeOK
  /\ OneInstall /\ LatchMatchesInstall
  /\ system = "linux" => Linux!InstalledIsNew

Build == IF system = "mac" THEN Mac!Build ELSE Linux!Build
Promise == INSTANCE Installation WITH build <- Build

(* "a failed or tampered update leaves the running install untouched":     *)
(* failed deltas, downloads and renames, crashes and Quit at any step      *)
(* leave the old build whole, or the new one; no second update brings the  *)
(* old one back.                                                           *)
KeepsPromise == Promise!Spec

(* Every install ends and frees the latch, if only with its process.       *)
InstallEnds == \A p \in Trays : IN_FLIGHT[p] ~> ~IN_FLIGHT[p]
=============================================================================
