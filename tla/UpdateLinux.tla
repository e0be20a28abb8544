---------------------------- MODULE UpdateLinux ----------------------------
(***************************************************************************)
(* The Linux update (app/src/update_linux.rs): an install thread of the    *)
(* tray brings a working copy of the AppImage up to the signed build, by   *)
(* delta or by a full download, and renames it over the live one.          *)
(*                                                                         *)
(* Names and files are apart: a rename moves the file, and whoever has a   *)
(* file open goes on writing into it wherever it has moved.  The delta     *)
(* tool is a process of its own: it goes on after its tray has ended.      *)
(***************************************************************************)
EXTENDS UpdateFlow

CONSTANTS Inodes,          \* bound: files that can exist at once
          OrphansOverlap   \* an install may begin while the tool of a tray
                           \* that has ended is still writing

VARIABLES target,     \* the file at $APPIMAGE
          work,       \* the file at its .update sibling, 0 for none
          content,    \* the content of each file
          fd,         \* the file each install thread, or its tool, is writing,
                      \* 0 for none
          orphans     \* the files that tools of ended trays are writing

disk == <<target, work, content, fd, orphans>>
vars == <<flow, disk>>

(* "bad" is a build that does not hash to the signed value; the running    *)
(* AppImage seeds the delta.                                               *)
Contents == {"torn", "old", "new", "bad"}
Places == {"delta", "seeding", "spawn", "tool", "full", "writing",
           "verify delta", "verify full", "swap delta", "swap full"}

TypeOK ==
  /\ FlowTypeOK(Places)
  /\ target \in Inodes /\ work \in Inodes \cup {0}
  /\ content \in [Inodes -> Contents]
  /\ fd \in [Installers -> Inodes \cup {0}]
  /\ \A i \in Installers : thread[i] \in {"seeding", "tool", "writing"} <=> fd[i] # 0
  /\ orphans \subseteq Inodes

Init ==
  /\ FlowInit
  /\ target = CHOOSE n \in Inodes : TRUE
  /\ work = 0
  /\ content = [n \in Inodes |-> "old"]
  /\ fd = [i \in Installers |-> 0]
  /\ orphans = {}

Step(i, from, to) ==
  /\ thread[i] = from
  /\ Goto(i, to)
  /\ UNCHANGED <<tray, checks, events, IN_FLIGHT, owner, clicks>>

Free(n) == n \notin {target, work} \cup orphans /\ \A i \in Installers : fd[i] # n
Close(i) == fd' = [fd EXCEPT ![i] = 0]

(* Opening the working copy for writing truncates it, or creates it.       *)
OpenWork(i) ==
  \E n \in Inodes :
    /\ IF work = 0 THEN Free(n) ELSE n = work
    /\ work' = n
    /\ content' = [content EXCEPT ![n] = "torn"]
    /\ fd' = [fd EXCEPT ![i] = n]
    /\ UNCHANGED <<target, orphans>>

(* The working copy is removed.                                            *)
RemoveWork == work' = 0 /\ UNCHANGED <<target, content, orphans>>

(* apply: with appimageupdatetool in the bundle the delta comes first.     *)
ChoosePath(i) ==
  /\ OrphansOverlap \/ orphans = {}
  /\ Step(i, "start", "delta") \/ Step(i, "start", "full")
  /\ UNCHANGED disk

Seed(i) ==
  \/ Step(i, "delta", "seeding") /\ OpenWork(i)
  \/ Step(i, "delta", "full") /\ UNCHANGED disk

Seeded(i) ==
  /\ \/ /\ Step(i, "seeding", "spawn")
        /\ content' = [content EXCEPT ![fd[i]] = content[target]]
     \/ /\ Step(i, "seeding", "full")
        /\ UNCHANGED content
  /\ Close(i)
  /\ UNCHANGED <<target, work, orphans>>

(* Command::status: the tool opens the copy, or cannot be run.             *)
RunTool(i) ==
  \/ /\ work # 0
     /\ Step(i, "spawn", "tool")
     /\ content' = [content EXCEPT ![work] = "torn"]
     /\ fd' = [fd EXCEPT ![i] = work]
     /\ UNCHANGED <<target, work, orphans>>
  \/ /\ Step(i, "spawn", "full")
     /\ RemoveWork /\ UNCHANGED fd

(* It has overwritten the copy in place, or fails and the copy goes.       *)
UpdateTool(i) ==
  /\ \/ /\ Step(i, "tool", "verify delta")
        /\ \E built \in {"new", "bad"} : content' = [content EXCEPT ![fd[i]] = built]
        /\ UNCHANGED <<target, work, orphans>>
     \/ /\ Step(i, "tool", "full")
        /\ RemoveWork
  /\ Close(i)

Download(i) ==
  \/ Step(i, "full", "writing") /\ OpenWork(i)
  \/ Step(i, "full", "err") /\ UNCHANGED disk

(* What the host served: the signed build or anything else.                *)
Downloaded(i) ==
  /\ \/ /\ Step(i, "writing", "verify full")
        /\ \E served \in {"new", "bad"} : content' = [content EXCEPT ![fd[i]] = served]
     \/ /\ Step(i, "writing", "err")
        /\ UNCHANGED content
  /\ Close(i)
  /\ UNCHANGED <<target, work, orphans>>

Verified == work # 0 /\ content[work] = "new"

(* Mutant: the tool's own exit code is trusted.                            *)
VerifyFullOnly(i) ==
  \/ Step(i, "verify delta", "swap delta") /\ UNCHANGED disk
  \/ /\ Verified
     /\ Step(i, "verify full", "swap full")
     /\ UNCHANGED disk
  \/ /\ ~Verified
     /\ Step(i, "verify full", "err")
     /\ RemoveWork /\ UNCHANGED fd

(* finish_verified_swap: read the copy and compare its hash.               *)
Verify(i) ==
  \/ /\ Verified
     /\ Step(i, "verify delta", "swap delta") \/ Step(i, "verify full", "swap full")
     /\ UNCHANGED disk
  \/ /\ ~Verified
     /\ Step(i, "verify delta", "full") \/ Step(i, "verify full", "err")
     /\ RemoveWork /\ UNCHANGED fd

Swap(i) ==
  \/ /\ work # 0
     /\ Step(i, "swap delta", "ok") \/ Step(i, "swap full", "ok")
     /\ target' = work /\ work' = 0
     /\ UNCHANGED <<content, fd, orphans>>
  \/ /\ Step(i, "swap delta", "full") \/ Step(i, "swap full", "err")
     /\ UNCHANGED disk

apply(i) ==
  \/ ChoosePath(i) \/ Seed(i) \/ Seeded(i) \/ RunTool(i) \/ UpdateTool(i)
  \/ Download(i) \/ Downloaded(i) \/ Verify(i) \/ Swap(i)

InstallThread(i) ==
  \/ apply(i)
  \/ (Release(i) \/ Report(i)) /\ UNCHANGED disk

(* The files of a process that ends are closed as they are.  Its tool is a *)
(* child that kill_all_children does not know of: it goes on.              *)
CloseAll(p) ==
  /\ fd' = [i \in Installers |-> IF owner[i] = p THEN 0 ELSE fd[i]]
  /\ orphans' = orphans \cup {fd[i] : i \in {j \in Installers : owner[j] = p /\ thread[j] = "tool"}}
  /\ UNCHANGED <<target, work, content>>

OrphanWrites(n) ==
  /\ n \in orphans
  /\ \E c \in {"torn", "new", "bad"} : content' = [content EXCEPT ![n] = c]
  /\ UNCHANGED <<flow, target, work, fd, orphans>>

OrphanEnds(n) ==
  /\ n \in orphans
  /\ orphans' = orphans \ {n}
  /\ UNCHANGED <<flow, target, work, content, fd>>

TrayLoop(p) ==
  \/ (Checked(p) \/ Handle(p)) /\ UNCHANGED disk
  \/ (ExitQuit(p) \/ ExitRelaunch(p)) /\ CloseAll(p)

Next ==
  \/ \E p \in Trays :
       \/ TrayLoop(p)
       \/ Crash(p) /\ CloseAll(p)
       \/ (Click(p) \/ Quit(p) \/ Launch(p)) /\ UNCHANGED disk
  \/ \E i \in Installers : InstallThread(i)
  \/ \E n \in orphans : OrphanWrites(n) \/ OrphanEnds(n)

Spec == Init /\ [][Next]_vars

----------------------------------------------------------------------------
(* Properties *)

(* "we operate on a copy and only rename it over the live $APPIMAGE after  *)
(* the bytes hash to the signed value": the live AppImage is at every      *)
(* moment the build that was running or the signed one.                    *)
VerifiedOnly == content[target] \in {"old", "new"}

(* An install reported as done is done.                                    *)
InstalledIsNew ==
  \A i \in Installers : thread[i] \in {"ok", "report ok"} => content[target] = "new"

(* The build there is to run.                                              *)
Build == content[target]
=============================================================================
