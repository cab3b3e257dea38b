------------------------------ MODULE Install ------------------------------
(***************************************************************************)
(* Installing (src/cli/install.go) and starting the daemon from what was   *)
(* installed (src/daemon/startup.go, src/daemon/root_user.go).  They are   *)
(* two commands and share nothing but the files of one directory.  An      *)
(* installation may be cut short anywhere and any of its writes may fail;  *)
(* errors in removing what was there before are ignored by the code.       *)
(*                                                                         *)
(* The content of a file is the number of the installation that wrote it.  *)
(***************************************************************************)
EXTENDS Integers

CONSTANT MaxInstalls   \* bounds the installations that touch the disk

ASSUME MaxInstallsAssumption == MaxInstalls \in Nat

Absent  == 0
Partial == -1

KeyFiles == {"encryption_rsa", "encryption_rsa.pub",
             "signing_rsa", "signing_rsa.pub"}

Files == KeyFiles \cup {"user.json", "config.json", ".badstate"}

VARIABLES
    disk,     \* the content of each file
    named,    \* the files of the directory that config.json names
    install,  \* what the installation does: a stage or the file it writes
    gen,      \* its number
    own,      \* the files it has named so far (conf.Paths)
    ended,    \* how the last installation ended: "success", "failed", "cut"
    leftover, \* the last cleaning that ended had left files
    daemon,   \* what the daemon does: a stage or the file it reads
    got,      \* the content it read of each file
    gotNamed, \* the files its configuration names
    clear     \* no installation touched the disk since it was started

installVars == <<named, install, gen, own, ended, leftover>>
daemonVars  == <<daemon, got, gotNamed>>

vars == <<disk, installVars, daemonVars, clear>>

Init ==
    /\ disk = [f \in Files |-> Absent]
    /\ named = {}
    /\ install = "idle"
    /\ gen = 0
    /\ own = {}
    /\ ended = "none"
    /\ leftover = FALSE
    /\ daemon = "off"
    /\ got = [f \in Files |-> Absent]
    /\ gotNamed = {}
    /\ clear = FALSE

IsInstalled == disk["config.json"] # Absent

IsInBadState == disk[".badstate"] # Absent

-----------------------------------------------------------------------------
(***************************************************************************)
(* The installation.                                                       *)
(***************************************************************************)
Begin(cleaning) ==
    /\ install' = cleaning
    /\ gen' = gen + 1
    /\ own' = {}
    /\ ended' = "none"
    /\ clear' = FALSE
    /\ UNCHANGED <<disk, named, leftover, daemonVars>>

\* A declined reinstallation returns and changes nothing.
Install ==
    /\ install = "idle" /\ gen < MaxInstalls
    /\ IF IsInstalled
         THEN /\ install' = "confirm"
              /\ UNCHANGED <<disk, named, gen, own, ended, leftover,
                             daemonVars, clear>>
         ELSE Begin("clean")

GetCliWantToReinstall ==
    /\ install = "confirm"
    /\ \/ Begin("clean")
       \/ /\ install' = "idle"
          /\ UNCHANGED <<disk, named, gen, own, ended, leftover, daemonVars,
                         clear>>

\* Mutant: the mark of a failed installation survives the next one.
removedFilesButMark == Files \ {".badstate"}

removedFiles == Files

RemoveFile(f) ==
    /\ install = "clean"
    /\ f \in removedFiles /\ disk[f] # Absent
    /\ disk' = [disk EXCEPT ![f] = Absent]
    /\ UNCHANGED <<installVars, daemonVars, clear>>

\* os.RemoveAll may fail to remove some, and nobody looks at its error.
Cleaned ==
    /\ install = "clean"
    /\ leftover' = (\E f \in removedFiles : disk[f] # Absent)
    /\ install' = "user.json"
    /\ UNCHANGED <<disk, named, gen, own, ended, daemonVars, clear>>

Import ==
    /\ \/ install = "user.json" /\ install' = "encryption_rsa"
       \/ install = "encryption_rsa" /\ install' = "config.json"
    /\ UNCHANGED <<disk, named, gen, own, ended, leftover, daemonVars, clear>>

nextStep(f) ==
    CASE f = "user.json"          -> "encryption_rsa"
      [] f = "encryption_rsa"     -> "encryption_rsa.pub"
      [] f = "encryption_rsa.pub" -> "signing_rsa"
      [] f = "signing_rsa"        -> "signing_rsa.pub"
      [] f = "signing_rsa.pub"    -> "config.json"
      [] f = "config.json"        -> "idle"

Save(f) ==
    /\ install = f
    /\ disk' = [disk EXCEPT ![f] = gen]
    /\ own' = own \cup {f}
    /\ named' = IF f = "config.json" THEN own ELSE named
    /\ install' = nextStep(f)
    /\ ended' = IF install' = "idle" THEN "success" ELSE ended
    /\ UNCHANGED <<gen, leftover, daemonVars, clear>>

\* Mutant: a failed write ends the program and leaves no mark.
whenWriteFailsNoMark == "idle"

whenWriteFails == "bad"

\* The file is opened and truncated before it is written.
SaveFails(f) ==
    /\ install = f
    /\ disk' \in {disk, [disk EXCEPT ![f] = Partial]}
    /\ install' = whenWriteFails
    /\ ended' = "failed"
    /\ UNCHANGED <<named, gen, own, leftover, daemonVars, clear>>

MakeBadStateFile ==
    /\ install = "bad"
    /\ \/ /\ disk' = [disk EXCEPT ![".badstate"] = gen]
          /\ UNCHANGED ended
       \/ /\ ended' = "cut"
          /\ UNCHANGED disk
    /\ install' = "idle"
    /\ UNCHANGED <<named, gen, own, leftover, daemonVars, clear>>

\* The program ends between two steps, or in the middle of a write.
Cut ==
    /\ install # "idle" /\ install # "confirm"
    /\ \/ UNCHANGED disk
       \/ /\ install \in Files
          /\ disk' = [disk EXCEPT ![install] = Partial]
    /\ install' = "idle"
    /\ ended' = "cut"
    /\ UNCHANGED <<named, gen, own, leftover, daemonVars, clear>>

-----------------------------------------------------------------------------
(***************************************************************************)
(* The daemon.  log.Fatalf ends it: "refused".                             *)
(***************************************************************************)
moves(next) ==
    /\ daemon' = next
    /\ UNCHANGED <<disk, installVars>>

Start ==
    /\ daemon = "off"
    /\ moves("installed")
    /\ got' = [f \in Files |-> Absent]
    /\ gotNamed' = {}
    /\ clear' = (install \in {"idle", "confirm"})

CheckInstalled ==
    /\ daemon = "installed"
    /\ moves(IF IsInstalled THEN "badstate" ELSE "refused")
    /\ UNCHANGED <<got, gotNamed, clear>>

CheckBadState ==
    /\ daemon = "badstate"
    /\ moves(IF IsInBadState THEN "refused" ELSE "config.json")
    /\ UNCHANGED <<got, gotNamed, clear>>

\* Part of a configuration is no JSON.
GetConfig ==
    /\ daemon = "config.json"
    /\ moves(IF disk["config.json"] \in {Absent, Partial} THEN "refused"
                                                         ELSE "user.json")
    /\ got' = [got EXCEPT !["config.json"] = disk["config.json"]]
    /\ gotNamed' = named
    /\ UNCHANGED clear

nextRead(f) ==
    CASE f = "user.json"          -> "signing_rsa.pub"
      [] f = "signing_rsa.pub"    -> "encryption_rsa.pub"
      [] f = "encryption_rsa.pub" -> "encryption_rsa"
      [] f = "encryption_rsa"     -> "create"

\* Files that do not belong to the directory are there.  The private key is
\* parsed at once, the public ones when the root user is created, and that the
\* user is no JSON is ignored.
Get(f) ==
    /\ daemon = f /\ f # "config.json"
    /\ IF f \in gotNamed
         THEN /\ moves(IF disk[f] = Absent \/ (disk[f] = Partial
                                               /\ f = "encryption_rsa")
                         THEN "refused" ELSE nextRead(f))
              /\ got' = [got EXCEPT ![f] = disk[f]]
         ELSE moves(nextRead(f)) /\ UNCHANGED got
    /\ UNCHANGED <<gotNamed, clear>>

CreateRootUser ==
    /\ daemon = "create"
    /\ moves(IF Partial \in {got["signing_rsa.pub"], got["encryption_rsa.pub"]}
               THEN "refused" ELSE "on")
    /\ UNCHANGED <<got, gotNamed, clear>>

Shutdown ==
    /\ daemon \in {"on", "refused"}
    /\ moves("off")
    /\ UNCHANGED <<got, gotNamed, clear>>

-----------------------------------------------------------------------------
Installer ==
    \/ Install \/ GetCliWantToReinstall \/ Cleaned \/ Import
    \/ MakeBadStateFile \/ Cut
    \/ \E f \in Files : RemoveFile(f) \/ Save(f) \/ SaveFails(f)

Daemon ==
    \/ Start \/ CheckInstalled \/ CheckBadState \/ GetConfig
    \/ CreateRootUser \/ Shutdown
    \/ \E f \in Files : Get(f)

Next == Installer \/ Daemon

Spec == Init /\ [][Next]_vars

-----------------------------------------------------------------------------
(***************************************************************************)
(* Properties.                                                             *)
(***************************************************************************)
Contents == {Absent, Partial} \cup 1..MaxInstalls

\* Every variable has its type.
TypeOK ==
    /\ disk \in [Files -> Contents] /\ got \in [Files -> Contents]
    /\ named \subseteq Files \ {"config.json"}
    /\ gotNamed \subseteq Files /\ own \subseteq Files
    /\ install \in {"idle", "confirm", "clean", "bad"} \cup (Files \ {".badstate"})
    /\ gen \in 0..MaxInstalls
    /\ ended \in {"none", "success", "failed", "cut"}
    /\ leftover \in BOOLEAN /\ clear \in BOOLEAN
    /\ daemon \in {"off", "installed", "badstate", "create", "on", "refused"}
                    \cup (Files \ {".badstate"})

\* The daemon serves the root user and the keys of one installation, and the
\* signing key that clients use, if there is one, is the one it knows
\* (cli/install.go:173), whatever was cut short or failed before.  Excused is what the code cannot
\* see: an installation over a configuration that could not be removed, cut
\* short before it could leave its mark.
ServesOneInstallation ==
    daemon = "on" /\ clear /\ ~(leftover /\ ended = "cut") =>
        /\ \A f \in gotNamed \ {"signing_rsa"} : got[f] = got["config.json"]
        /\ "signing_rsa" \in gotNamed =>
              disk["signing_rsa"] \in {got["config.json"], Absent}

\* After an installation that said it succeeded the daemon starts
\* (cli/install.go:175), unless the mark of an older failure could not be
\* removed.
StartsAfterSuccess ==
    daemon = "refused" /\ clear /\ ended = "success" => leftover /\ IsInBadState
=============================================================================
