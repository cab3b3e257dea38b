--------------------------- MODULE InstallProofs ---------------------------
(***************************************************************************)
(* Proofs about Install, for any number of installations, cut short or     *)
(* failed anywhere.                                                        *)
(***************************************************************************)
EXTENDS Install, TLAPS

Resting == install \in {"idle", "confirm"}

\* What an installation names in its configuration, and the stages in which
\* it writes.
Owned == KeyFiles \cup {"user.json"}

Writing == install \in Owned \cup {"config.json"}

(***************************************************************************)
(* The inductive invariant.  What config.json names was written by the     *)
(* installation that wrote it, or is gone, unless the last cleaning left   *)
(* something behind.                                                       *)
(***************************************************************************)
Consistent ==
    \/ disk["config.json"] \in {Absent, Partial}
    \/ \A f \in named : disk[f] \in {disk["config.json"], Absent}

Succeeded ==
    /\ gen >= 1
    /\ disk["config.json"] = gen
    /\ \A f \in named : disk[f] = gen
    /\ ~leftover => ~IsInBadState

StageInv ==
    /\ ~Resting => gen >= 1
    /\ install = "confirm" => gen < MaxInstalls
    /\ named \subseteq Owned
    /\ install = "clean" => own = {}
    /\ Writing => own \subseteq Owned

DiskInv ==
    /\ Writing => \A f \in own : disk[f] = gen
    /\ ~leftover => Consistent
    /\ ~leftover /\ Writing => ~IsInstalled /\ ~IsInBadState

EndInv ==
    /\ ended = "success" => Resting /\ Succeeded
    /\ ended = "failed" /\ Resting => IsInBadState
    /\ ended = "none" /\ Resting => ~leftover
    /\ install = "bad" => ended = "failed"

\* The stages of the daemon, and the files it has read in each.
Checked == daemon \in {"create", "on", "config.json"} \cup Owned

Configured == daemon \in {"create", "on"} \cup Owned

alreadyRead ==
    CASE daemon = "signing_rsa.pub"    -> {"user.json"}
      [] daemon = "encryption_rsa.pub" -> {"user.json", "signing_rsa.pub"}
      [] daemon = "encryption_rsa"     -> {"user.json", "signing_rsa.pub",
                                           "encryption_rsa.pub"}
      [] daemon \in {"create", "on"}   -> Owned \ {"signing_rsa"}
      [] OTHER                         -> {}

\* Whatever was installed in between.
GotInv ==
    /\ daemon # "signing_rsa"
    /\ daemon \in {"installed", "badstate", "config.json"} =>
          got = [f \in Files |-> Absent]
    /\ Configured => \A f \in Owned \ gotNamed : got[f] = Absent

\* Since the daemon was started no installation has touched the disk.
ClearInv ==
    /\ Resting
    /\ daemon = "badstate" \/ Checked => IsInstalled
    /\ Checked => ~IsInBadState
    /\ Configured => /\ disk["config.json"] # Partial
                     /\ gotNamed = named
                     /\ got["config.json"] = disk["config.json"]
                     /\ \A f \in alreadyRead \cap named :
                           got[f] = disk[f] /\ disk[f] # Absent
    /\ daemon = "refused" /\ ended = "success" => leftover /\ IsInBadState

InstallInv ==
    /\ TypeOK
    /\ StageInv
    /\ DiskInv
    /\ EndInv
    /\ GotInv
    /\ clear => ClearInv

-----------------------------------------------------------------------------
USE DEF Absent, Partial

LEMMA InitInstall == Init => InstallInv
<1> SUFFICES ASSUME Init PROVE InstallInv
  OBVIOUS
<1>1. TypeOK
  <2>1. [f \in Files |-> Absent] \in [Files -> Contents]
    BY DEF Contents
  <2>2. gen \in 0..MaxInstalls
    BY MaxInstallsAssumption DEF Init
  <2> QED
    BY <2>1, <2>2 DEF Init, TypeOK
<1>2. StageInv /\ DiskInv /\ EndInv /\ GotInv
  BY DEF Init, StageInv, DiskInv, EndInv, GotInv, Resting, Writing, Owned,
         KeyFiles, Consistent, Files, Configured
<1> QED
  BY <1>1, <1>2 DEF Init, InstallInv

\* What follows a file that was written, or read.
LEMMA StepsType ==
  /\ \A f \in Owned : nextStep(f) \in (Owned \ {"user.json"}) \cup {"config.json"}
  /\ nextStep("config.json") = "idle"
  /\ \A f \in Owned \ {"signing_rsa"} :
        nextRead(f) \in (Owned \ {"user.json", "signing_rsa"}) \cup {"create"}
BY DEF nextStep, nextRead, Owned, KeyFiles

LEMMA InstallerType ==
  ASSUME TypeOK, StageInv, Installer
  PROVE  TypeOK'
<1> USE MaxInstallsAssumption
<1>1. ASSUME NEW cleaning \in {"clean"}, Begin(cleaning), gen < MaxInstalls
      PROVE  TypeOK'
  <2>1. gen' \in 0..MaxInstalls
    BY <1>1 DEF Begin, TypeOK
  <2> QED
    BY <1>1, <2>1 DEF Begin, TypeOK, daemonVars
<1>2. CASE Install
  BY <1>1, <1>2 DEF Install, TypeOK, daemonVars
<1>3. CASE GetCliWantToReinstall
  BY <1>1, <1>3 DEF GetCliWantToReinstall, StageInv, TypeOK, daemonVars
<1>4. CASE Cleaned \/ Import
  BY <1>4 DEF Cleaned, Import, TypeOK, Files, KeyFiles, daemonVars
<1>5. CASE MakeBadStateFile
  <2>1. gen \in Contents
    BY <1>5 DEF MakeBadStateFile, StageInv, Resting, TypeOK, Contents
  <2> QED
    BY <1>5, <2>1 DEF MakeBadStateFile, TypeOK, daemonVars
<1>6. CASE Cut
  BY <1>6 DEF Cut, TypeOK, Contents, daemonVars
<1>7. ASSUME NEW f \in Files, RemoveFile(f) PROVE TypeOK'
  BY <1>7 DEF RemoveFile, TypeOK, Contents, installVars, daemonVars
<1>8. ASSUME NEW f \in Files, Save(f) PROVE TypeOK'
  <2>1. gen \in Contents
    BY <1>8 DEF Save, StageInv, Resting, TypeOK, Contents, Files, KeyFiles
  <2>2. f \in Owned \cup {"config.json"}
    BY <1>8 DEF Save, TypeOK, Files, Owned
  <2>3. /\ install' \in {"idle"} \cup (Files \ {".badstate"})
        /\ named' \subseteq Files \ {"config.json"}
    BY <1>8, <2>2, StepsType
    DEF Save, StageInv, Writing, TypeOK, Files, Owned, KeyFiles
  <2> QED
    BY <1>8, <2>1, <2>3 DEF Save, TypeOK, daemonVars
<1>9. ASSUME NEW f \in Files, SaveFails(f) PROVE TypeOK'
  BY <1>9 DEF SaveFails, whenWriteFails, TypeOK, Contents, daemonVars
<1> QED
  BY <1>2, <1>3, <1>4, <1>5, <1>6, <1>7, <1>8, <1>9 DEF Installer

LEMMA DaemonType ==
  ASSUME TypeOK, GotInv, Daemon
  PROVE  TypeOK'
<1>0. [f \in Files |-> Absent] \in [Files -> Contents]
  BY DEF Contents
<1>1. CASE Start
  BY <1>0, <1>1 DEF Start, moves, installVars, TypeOK
<1>2. CASE CheckInstalled \/ CheckBadState \/ CreateRootUser \/ Shutdown
  BY <1>2
  DEF CheckInstalled, CheckBadState, CreateRootUser, Shutdown, moves,
      installVars, TypeOK, Files
<1>3. CASE GetConfig
  BY <1>3 DEF GetConfig, moves, installVars, TypeOK, Files
<1>4. ASSUME NEW f \in Files, Get(f) PROVE TypeOK'
  <2>1. f \in Owned \ {"signing_rsa"}
    BY <1>4 DEF Get, GotInv, TypeOK, Files, Owned
  <2>2. nextRead(f) \in {"create"} \cup (Files \ {".badstate"})
    BY <2>1, StepsType DEF Owned, Files, KeyFiles
  <2> QED
    BY <1>4, <2>2 DEF Get, moves, installVars, TypeOK
<1> QED
  BY <1>1, <1>2, <1>3, <1>4 DEF Daemon

-----------------------------------------------------------------------------
(***************************************************************************)
(* The installation keeps the disk consistent.                             *)
(***************************************************************************)
LEMMA InstallerDisk ==
  ASSUME TypeOK, StageInv, DiskInv, EndInv, Installer
  PROVE  StageInv' /\ DiskInv' /\ EndInv'
<1> DEFINE Goal == StageInv' /\ DiskInv' /\ EndInv'
<1> USE DEF Resting, Writing, IsInstalled, IsInBadState
<1>1. ASSUME Begin("clean"), Resting PROVE Goal
  BY <1>1
  DEF Begin, TypeOK, StageInv, DiskInv, EndInv, Consistent, Succeeded, Owned,
      KeyFiles
<1>2. ASSUME Install PROVE Goal
  BY <1>1, <1>2
  DEF Install, TypeOK, StageInv, DiskInv, EndInv, Consistent, Succeeded, Owned,
      KeyFiles
<1>3. ASSUME GetCliWantToReinstall PROVE Goal
  <2>1. CASE Begin("clean")
    BY <1>1, <1>3, <2>1 DEF GetCliWantToReinstall
  <2>2. CASE install' = "idle" /\ UNCHANGED <<disk, named, gen, own, ended, leftover>>
    BY <1>3, <2>2
    DEF GetCliWantToReinstall, StageInv, DiskInv, EndInv, Consistent, Succeeded,
        Owned, KeyFiles
  <2> QED
    BY <1>3, <2>1, <2>2 DEF GetCliWantToReinstall
<1>4. ASSUME Cleaned PROVE Goal
  <2>1. own = {}
    BY <1>4 DEF Cleaned, StageInv
  <2> QED
    BY <1>4, <2>1
    DEF Cleaned, removedFiles, TypeOK, StageInv, DiskInv, EndInv, Consistent,
        Owned, KeyFiles, Files
<1>5. ASSUME Import PROVE Goal
  BY <1>5
  DEF Import, TypeOK, StageInv, DiskInv, EndInv, Consistent, Owned, KeyFiles
<1>6. ASSUME MakeBadStateFile PROVE Goal
  <2>1. StageInv' /\ DiskInv'
    <3>1. /\ install' = "idle" /\ UNCHANGED <<named, gen, own, leftover>>
          /\ \A f \in Owned \cup {"config.json"} : disk'[f] = disk[f]
      BY <1>6 DEF MakeBadStateFile, TypeOK, Owned, KeyFiles, Files
    <3> QED
      BY <3>1 DEF StageInv, DiskInv, Consistent, Owned, KeyFiles
  <2>2. EndInv'
    BY <1>6
    DEF MakeBadStateFile, TypeOK, StageInv, EndInv, Owned, KeyFiles, Files
  <2> QED
    BY <2>1, <2>2
<1>7. ASSUME Cut PROVE Goal
  <2>1. StageInv' /\ EndInv'
    BY <1>7 DEF Cut, StageInv, EndInv, Owned, KeyFiles
  <2>2. ~leftover => Consistent'
    <3>1. CASE UNCHANGED disk
      BY <1>7, <3>1 DEF Cut, DiskInv, Consistent
    <3>2. CASE install \in Files /\ disk' = [disk EXCEPT ![install] = Partial]
      <4>1. Writing
        BY <1>7, <3>2 DEF Cut, TypeOK, Owned, Files
      <4> QED
        BY <3>2, <4>1 DEF TypeOK, DiskInv, Consistent, Files
    <3> QED
      BY <1>7, <3>1, <3>2 DEF Cut
  <2> QED
    BY <1>7, <2>1, <2>2 DEF Cut, DiskInv, Owned, KeyFiles
<1>8. ASSUME NEW f \in Files, RemoveFile(f) PROVE Goal
  <2>1. StageInv' /\ EndInv'
    BY <1>8 DEF RemoveFile, installVars, StageInv, EndInv
  <2>2. Consistent => Consistent'
    BY <1>8 DEF RemoveFile, installVars, TypeOK, Consistent, Files
  <2> QED
    BY <1>8, <2>1, <2>2 DEF RemoveFile, installVars, DiskInv, Owned, KeyFiles
<1>9. ASSUME NEW f \in Files, Save(f) PROVE Goal
  <2>1. f \in Owned \cup {"config.json"} /\ Writing /\ gen >= 1
    BY <1>9 DEF Save, TypeOK, StageInv, Files, Owned, KeyFiles
  <2>2. \A g \in own' : disk'[g] = gen
    BY <1>9, <2>1 DEF Save, TypeOK, DiskInv
  <2>3. CASE f # "config.json"
    <3>1. /\ install' \in Owned \cup {"config.json"}
          /\ UNCHANGED <<named, gen, leftover, ended>>
          /\ own' \subseteq Owned
      BY <1>9, <2>1, <2>3, StepsType DEF Save, StageInv, Owned, KeyFiles
    <3>2. StageInv' /\ EndInv'
      BY <1>9, <2>1, <3>1 DEF Save, StageInv, EndInv, Owned, KeyFiles
    <3>3. ~leftover => ~IsInstalled' /\ ~IsInBadState'
      BY <1>9, <2>1, <2>3 DEF Save, TypeOK, DiskInv, Owned, KeyFiles, Files
    <3> QED
      BY <2>2, <3>1, <3>2, <3>3 DEF DiskInv, Consistent
  <2>4. CASE f = "config.json"
    <3>1. /\ install' = "idle" /\ ended' = "success" /\ named' = own
          /\ UNCHANGED <<gen, leftover>>
          /\ disk'["config.json"] = gen
          /\ disk'[".badstate"] = disk[".badstate"]
      BY <1>9, <2>4, StepsType DEF Save, TypeOK, Files
    <3>2. own \subseteq own' /\ own \subseteq Owned
      BY <1>9, <2>1 DEF Save, StageInv
    <3>3. Succeeded'
      BY <2>1, <2>2, <3>1, <3>2 DEF Succeeded, DiskInv
    <3>4. StageInv' /\ EndInv'
      BY <2>1, <3>1, <3>2, <3>3 DEF StageInv, EndInv, Owned, KeyFiles
    <3> QED
      BY <2>2, <3>1, <3>2, <3>4 DEF DiskInv, Consistent, Owned, KeyFiles
  <2> QED
    BY <2>3, <2>4
<1>10. ASSUME NEW f \in Files, SaveFails(f) PROVE Goal
  <2>0. install' = "bad" /\ ended' = "failed" /\ UNCHANGED <<named, gen, own, leftover>>
    BY <1>10 DEF SaveFails, whenWriteFails
  <2>1. StageInv' /\ EndInv'
    BY <1>10, <2>0 DEF SaveFails, TypeOK, StageInv, EndInv, Owned, KeyFiles, Files
  <2>2. Writing
    BY <1>10 DEF SaveFails, TypeOK, Files, Owned
  <2>3. ~leftover => Consistent'
    BY <1>10, <2>2 DEF SaveFails, TypeOK, DiskInv, Consistent, Files
  <2> QED
    BY <1>10, <2>1, <2>3
    DEF SaveFails, whenWriteFails, DiskInv, Owned, KeyFiles
<1> QED
  BY <1>2, <1>3, <1>4, <1>5, <1>6, <1>7, <1>8, <1>9, <1>10 DEF Installer

\* The daemon touches nothing of it.
LEMMA DaemonDisk ==
  ASSUME StageInv, DiskInv, EndInv, Daemon
  PROVE  StageInv' /\ DiskInv' /\ EndInv'
<1>1. UNCHANGED <<disk, installVars>>
  BY DEF Daemon, Start, CheckInstalled, CheckBadState, GetConfig, Get,
         CreateRootUser, Shutdown, moves
<1> QED
  BY <1>1
  DEF installVars, StageInv, DiskInv, EndInv, Resting, Writing, Consistent,
      Succeeded, IsInstalled, IsInBadState

-----------------------------------------------------------------------------
(***************************************************************************)
(* What the daemon read is what is on the disk, as long as no installation *)
(* has touched it since.                                                   *)
(***************************************************************************)
LEMMA InstallerClear ==
  ASSUME TypeOK, GotInv, clear => ClearInv, Installer
  PROVE  GotInv' /\ (clear' => ClearInv')
<1>1. UNCHANGED daemonVars
  BY DEF Installer, Install, GetCliWantToReinstall, Begin, Cleaned, Import,
         MakeBadStateFile, Cut, RemoveFile, Save, SaveFails
<1>2. GotInv'
  BY <1>1 DEF GotInv, daemonVars, Configured
<1>3. ASSUME clear' PROVE ClearInv'
  <2>1. clear
    BY <1>3
    DEF Installer, Install, GetCliWantToReinstall, Begin, Cleaned, Import,
        MakeBadStateFile, Cut, RemoveFile, Save, SaveFails, TypeOK
  <2>2. Resting /\ install \notin Files
    BY <2>1 DEF ClearInv, Resting, Files, KeyFiles
  <2>3. Resting' /\ UNCHANGED <<disk, named, ended, leftover>>
    BY <1>3, <2>2
    DEF Installer, Install, GetCliWantToReinstall, Begin, Cleaned, Import,
        MakeBadStateFile, Cut, RemoveFile, Save, SaveFails, Resting
  <2> QED
    BY <1>1, <2>1, <2>3
    DEF ClearInv, daemonVars, Checked, Configured, alreadyRead, IsInstalled,
        IsInBadState
<1> QED
  BY <1>2, <1>3

LEMMA DaemonClear ==
  ASSUME TypeOK, StageInv, EndInv, GotInv, clear => ClearInv, Daemon
  PROVE  GotInv' /\ (clear' => ClearInv')
<1> USE DEF IsInstalled, IsInBadState
<1> DEFINE Goal == GotInv' /\ (clear' => ClearInv')
<1>0. UNCHANGED <<disk, installVars>>
  BY DEF Daemon, Start, CheckInstalled, CheckBadState, GetConfig, Get,
         CreateRootUser, Shutdown, moves
<1>1. ASSUME Start PROVE Goal
  BY <1>0, <1>1
  DEF Start, moves, installVars, GotInv, ClearInv, Resting, Checked,
      Configured, Owned, KeyFiles
<1>2. ASSUME CheckInstalled PROVE Goal
  BY <1>0, <1>2
  DEF CheckInstalled, moves, installVars, GotInv, ClearInv, Resting, Checked,
      Configured, Owned, KeyFiles, EndInv, Succeeded
<1>3. ASSUME CheckBadState PROVE Goal
  BY <1>0, <1>3
  DEF CheckBadState, moves, installVars, GotInv, ClearInv, Resting, Checked,
      Configured, Owned, KeyFiles, EndInv, Succeeded
<1>4. ASSUME GetConfig PROVE Goal
  BY <1>0, <1>4
  DEF GetConfig, moves, installVars, GotInv, ClearInv, Resting, Checked,
      Configured, Owned, KeyFiles, EndInv, Succeeded, Files, alreadyRead
<1>5. ASSUME NEW f \in Files, Get(f) PROVE Goal
  <2>1. f \in Owned \ {"signing_rsa"}
    BY <1>5 DEF Get, GotInv, TypeOK, Files, Owned
  <2>2. Checked /\ Configured
    BY <1>5, <2>1 DEF Get, Checked, Configured
  <2>3. GotInv'
    <3>1. daemon' \in {"refused", "create"} \cup (Owned \ {"signing_rsa"})
      BY <1>5, <2>1, StepsType DEF Get, moves
    <3>2. \A g \in Owned \ gotNamed' : got'[g] = Absent
      BY <1>5, <2>1, <2>2 DEF Get, GotInv, TypeOK, Owned, Files
    <3> QED
      BY <3>1, <3>2 DEF GotInv, Configured, Owned, KeyFiles
  <2>4. ASSUME clear' PROVE ClearInv'
    <3>1. clear /\ clear' = clear
      BY <1>5, <2>4 DEF Get
    <3> ClearInv
      BY <3>1
    <3> Resting' /\ UNCHANGED <<named, ended, leftover, gen, gotNamed>>
      BY <1>0, <1>5 DEF installVars, ClearInv, Resting, Get
    <3>2. CASE daemon' = nextRead(f) /\ (f \in gotNamed => disk[f] # Absent)
      <4>1. /\ daemon' \in {"create"} \cup (Owned \ {"signing_rsa"})
            /\ daemon = f
        BY <1>5, <2>1, <3>2, StepsType DEF Get
      <4>2. alreadyRead' \subseteq alreadyRead \cup {f}
        BY <2>1, <3>2, <4>1 DEF alreadyRead, nextRead, Owned, KeyFiles
      <4>3. got'["config.json"] = got["config.json"]
        BY <1>5 DEF Get, TypeOK, Files
      <4>4. \A g \in alreadyRead' \cap named :
               got'[g] = disk[g] /\ disk[g] # Absent
        BY <1>5, <2>2, <3>2, <4>2 DEF Get, ClearInv, TypeOK
      <4> QED
        BY <1>0, <2>2, <4>1, <4>3, <4>4
        DEF ClearInv, Checked, Configured, Owned, KeyFiles
    <3>3. CASE /\ daemon' = "refused"
               /\ f \in gotNamed /\ disk[f] \in {Absent, Partial}
      <4>1. ended # "success"
        BY <2>2, <3>3 DEF ClearInv, EndInv, Succeeded, TypeOK
      <4> QED
        BY <3>3, <4>1 DEF ClearInv, Checked, Configured, Owned, KeyFiles
    <3> QED
      BY <1>5, <3>2, <3>3 DEF Get, moves
  <2> QED
    BY <2>3, <2>4
<1>6. ASSUME CreateRootUser PROVE Goal
  BY <1>0, <1>6
  DEF CreateRootUser, moves, installVars, GotInv, ClearInv, Resting, Checked,
      Configured, Owned, KeyFiles, EndInv, Succeeded, alreadyRead
<1>7. ASSUME Shutdown PROVE Goal
  BY <1>0, <1>7
  DEF Shutdown, moves, installVars, GotInv, ClearInv, Resting, Checked,
      Configured, Owned, KeyFiles
<1> QED
  BY <1>1, <1>2, <1>3, <1>4, <1>5, <1>6, <1>7 DEF Daemon

-----------------------------------------------------------------------------
LEMMA NextInstall == InstallInv /\ [Next]_vars => InstallInv'
<1> SUFFICES ASSUME InstallInv, [Next]_vars PROVE InstallInv'
  OBVIOUS
<1>1. CASE Installer
  BY <1>1, InstallerType, InstallerDisk, InstallerClear DEF InstallInv
<1>2. CASE Daemon
  BY <1>2, DaemonType, DaemonDisk, DaemonClear DEF InstallInv
<1>3. CASE UNCHANGED vars
  BY <1>3
  DEF vars, installVars, daemonVars, InstallInv, TypeOK, StageInv, DiskInv,
      EndInv, GotInv, ClearInv, Resting, Writing, Consistent, Succeeded,
      Checked, Configured, alreadyRead, IsInstalled, IsInBadState
<1> QED
  BY <1>1, <1>2, <1>3 DEF Next

LEMMA InstallInvariant == Spec => []InstallInv
<1> QED
  BY InitInstall, NextInstall, PTL DEF Spec

\* The type invariant of the two commands and the directory they share.
THEOREM InstallTypeCorrect == Spec => []TypeOK
<1>1. InstallInv => TypeOK
  BY DEF InstallInv
<1> QED
  BY <1>1, InstallInvariant, PTL

\* However many installations failed or were cut short, the daemon that
\* starts serves the files of one of them (cli/install.go:173).
THEOREM OneInstallation == Spec => []ServesOneInstallation
<1>1. ASSUME InstallInv PROVE ServesOneInstallation
  <2> SUFFICES ASSUME daemon = "on", clear, ~(leftover /\ ended = "cut")
               PROVE  /\ \A f \in gotNamed \ {"signing_rsa"} :
                            got[f] = got["config.json"]
                      /\ "signing_rsa" \in gotNamed =>
                            disk["signing_rsa"] \in {got["config.json"], Absent}
    BY DEF ServesOneInstallation
  <2>1. /\ Resting /\ IsInstalled /\ ~IsInBadState
        /\ disk["config.json"] # Partial /\ gotNamed = named
        /\ got["config.json"] = disk["config.json"]
        /\ \A f \in named \ {"signing_rsa"} : got[f] = disk[f] /\ disk[f] # Absent
    BY <1>1
    DEF InstallInv, StageInv, ClearInv, Checked, Configured, alreadyRead
  <2>2. CASE ended = "success"
    BY <1>1, <2>1, <2>2 DEF InstallInv, EndInv, Succeeded
  <2>3. CASE ~leftover
    BY <1>1, <2>1, <2>3 DEF InstallInv, DiskInv, Consistent, IsInstalled
  <2>4. ended \in {"success", "cut"} \/ ~leftover
    BY <1>1, <2>1 DEF InstallInv, EndInv, TypeOK
  <2> QED
    BY <2>2, <2>3, <2>4
<1> QED
  BY <1>1, InstallInvariant, PTL

\* An installation that said it succeeded leaves nothing the daemon refuses
\* (cli/install.go:175), but the mark of an older failure that it could not
\* remove.
THEOREM SuccessStarts == Spec => []StartsAfterSuccess
<1>1. InstallInv => StartsAfterSuccess
  BY DEF InstallInv, ClearInv, StartsAfterSuccess
<1> QED
  BY <1>1, InstallInvariant, PTL
=============================================================================
