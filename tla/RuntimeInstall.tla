--------------------------- MODULE RuntimeInstall ---------------------------
(***************************************************************************)
(* Installing the embedded runtime into a QMT directory                    *)
(* (qmt_bridge/install_runtime.py): validation, a copy of what is there    *)
(* into a directory named by the second, then the files one by one, none   *)
(* of them atomically, the manifest after the program, the strategy catalog*)
(* last.  The installer may be killed, or fail on a full disk or a file the*)
(* terminal holds, anywhere, and is then run again.                        *)
(*                                                                         *)
(* The content of a file is the run that wrote it.  A dry run, and a run   *)
(* whose validation fails, changes nothing and is left out.                *)
(***************************************************************************)
EXTENDS Integers, Sequences, FiniteSets

CONSTANTS MaxInstalls,  \* runs of the installer
          MaxSeconds    \* ticks of the clock

VARIABLES
  disk,     \* each target: absent, half written, or the run that wrote it
  install,  \* the run: [run, at, done, half, compiled, second]; at is its phase,
            \* second names its backup
  clock,    \* the second
  backups,  \* backup directories: [second, files, whole]
  good      \* the targets as the last run that succeeded left them

installVars == <<disk, install, clock, backups, good>>

ABSENT == -1
HALF   == -2

\* The targets in the order they are written.
Order == <<"package", "strategy", "rpc_runtime", "entry", "runner", "config",
           "manifest", "catalog">>
Targets == {Order[i] : i \in 1..Len(Order)}
Program == Targets \ {"manifest", "catalog"}

InstallInit ==
  /\ disk \in {[t \in Targets |-> 0],
               [t \in Targets |-> IF t = "catalog" THEN 0 ELSE ABSENT]}
  /\ install = [run |-> 0, at |-> "away", done |-> 0, half |-> FALSE, compiled |-> FALSE,
                second |-> 0]
  /\ clock = 1 /\ backups = {}
  /\ good = disk

Tick ==
  /\ clock < MaxSeconds /\ clock' = clock + 1
  /\ UNCHANGED <<disk, install, backups, good>>

StartInstall ==
  /\ install.at = "away" /\ install.run < MaxInstalls
  /\ install' \in {[run |-> install.run + 1, at |-> "validated", done |-> 0,
                    half |-> FALSE, compiled |-> b, second |-> 0] : b \in BOOLEAN}
  /\ UNCHANGED <<disk, clock, backups, good>>

\* Mutant: a backup directory of the same second is written over.
BackupOver ==
  /\ install.at = "validated"
  /\ backups' = {b \in backups : b.second # clock}
                  \union {[second |-> clock, files |-> disk, whole |-> FALSE]}
  /\ install' = [install EXCEPT !.at = "backing", !.second = clock]
  /\ UNCHANGED <<disk, clock, good>>

\* mkdir of a directory that exists raises; so the run ends there.
Backup ==
  /\ install.at = "validated"
  /\ IF \E b \in backups : b.second = clock
     THEN /\ install' = [install EXCEPT !.at = "away"]
          /\ UNCHANGED backups
     ELSE /\ backups' = backups \union {[second |-> clock, files |-> disk, whole |-> FALSE]}
          /\ install' = [install EXCEPT !.at = "backing", !.second = clock]
  /\ UNCHANGED <<disk, clock, good>>

\* Every target that exists has been copied.
BackupEnds ==
  /\ install.at = "backing"
  /\ backups' = {[b EXCEPT !.whole = b.whole \/ b.second = install.second] : b \in backups}
  /\ install' = [install EXCEPT !.at = "copying"]
  /\ UNCHANGED <<disk, clock, good>>

\* The next target: the old one is removed or truncated first.  Without the
\* compiled model the catalog is left alone.
BeginCopy ==
  /\ install.at = "copying" /\ ~install.half
  /\ install.done < Len(Order) - (IF install.compiled THEN 0 ELSE 1)
  /\ disk' = [disk EXCEPT ![Order[install.done + 1]] = HALF]
  /\ install' = [install EXCEPT !.half = TRUE]
  /\ UNCHANGED <<clock, backups, good>>

EndCopy ==
  /\ install.half
  /\ disk' = [disk EXCEPT ![Order[install.done + 1]] = install.run]
  /\ install' = [install EXCEPT !.half = FALSE, !.done = @ + 1]
  /\ UNCHANGED <<clock, backups, good>>

InstallDone ==
  /\ install.at = "copying" /\ ~install.half
  /\ install.done = Len(Order) - (IF install.compiled THEN 0 ELSE 1)
  /\ good' = disk
  /\ install' = [install EXCEPT !.at = "away"]
  /\ UNCHANGED <<disk, clock, backups>>

\* Killed, an error, or a catalog without the section: nothing is undone.
InstallBreaks ==
  /\ install.at \in {"backing", "copying"}
  /\ install' = [install EXCEPT !.at = "away", !.half = FALSE]
  /\ UNCHANGED <<disk, clock, backups, good>>

InstallNext ==
  \/ Tick \/ StartInstall \/ Backup \/ BackupEnds \/ BeginCopy \/ EndCopy
  \/ InstallDone \/ InstallBreaks

-----------------------------------------------------------------------------
\* However often the installer breaks off and is run again, what the last
\* successful run left is in place or is one whole backup; and a manifest of
\* the last run vouches for every program file.
InstallRestorable ==
  /\ disk = good \/ \E b \in backups : b.whole /\ b.files = good
  /\ disk["manifest"] = install.run => \A t \in Program : disk[t] = install.run

=============================================================================
