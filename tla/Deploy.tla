------------------------------- MODULE Deploy -------------------------------
(***************************************************************************)
(* `ariadex install` and `ariadex uninstall` (deploy.py): which files they *)
(* create in the user's session, and what the ownership manifest says of   *)
(* them.  The manifest is the only thing that lets a later uninstall find  *)
(* a file again.  One call runs at a time; it may be interrupted (or fail  *)
(* to write) between any two of its steps.  What the files contain, the    *)
(* reports and the package managers are left out.                          *)
(***************************************************************************)
EXTENDS FiniteSets

VARIABLES host,       \* [service, desktop]: what this platform supports
          tkinter,    \* Tkinter can be imported
          disk,       \* [path -> "none", "ours" or "theirs"]
          enabled,    \* systemd has the unit enabled
          manifest,   \* the paths the manifest names, {} without one
          cmd,        \* the call under way
          ended,      \* how the last call ended
          left,       \* what the last uninstall reported as left behind
          untracked   \* history: paths an interrupted install wrote and did
                      \* not record, and paths an uninstall left behind

deployVars == <<host, tkinter, disk, enabled, manifest, cmd, ended, left, untracked>>

Launchers == {"ariadex-daemon", "ariadex-companion"}
Unit == "ariadex-daemon.service"
Autostart == "ariadex-companion.desktop"
UserConfig == "companion.toml"
OwnPaths == Launchers \union {Unit, Autostart}
NoOp == [op |-> "none", pc |-> "idle", owned |-> {}, todo |-> {}, purge |-> FALSE]

DeployInit ==
  /\ host \in [service : {"systemd", "manual", "unsupported"}, desktop : BOOLEAN]
  /\ tkinter \in BOOLEAN
  /\ \E found \in SUBSET {"ariadex-daemon", Unit, UserConfig} :
       disk = [p \in OwnPaths \union {UserConfig} |-> IF p \in found THEN "theirs" ELSE "none"]
  /\ enabled = FALSE /\ manifest = {} /\ cmd = NoOp /\ ended = "none"
  /\ left = {} /\ untracked = {}

StepTo(pc) == cmd' = [cmd EXCEPT !.pc = pc]
EndsWith(result) == cmd' = NoOp /\ ended' = result

\* _write_owned: whatever is there is overwritten.
Writes(paths) ==
  /\ disk' = [p \in DOMAIN disk |-> IF p \in paths THEN "ours" ELSE disk[p]]
  /\ untracked' = untracked \ paths

----------------------------------------------------------------------------
(* install_project                                                          *)

\* Refused without a readable configuration and state.
InstallRefused ==
  /\ cmd.pc = "idle"
  /\ EndsWith("refused")
  /\ UNCHANGED <<host, tkinter, disk, enabled, manifest, left, untracked>>

InstallAlready ==
  /\ cmd.pc = "idle" /\ manifest # {}
  /\ EndsWith("already")
  /\ UNCHANGED <<host, tkinter, disk, enabled, manifest, left, untracked>>

InstallBegins ==
  /\ cmd.pc = "idle" /\ manifest = {}
  /\ cmd' = [NoOp EXCEPT !.op = "install", !.pc = "dependencies"]
  /\ ended' = "none"
  /\ UNCHANGED <<host, tkinter, disk, enabled, manifest, left, untracked>>

\* Tkinter is there, is installed now, or stays missing; install goes on.
EnsuresDependencies ==
  /\ cmd.pc = "dependencies"
  /\ tkinter' \in {tkinter, TRUE}
  /\ StepTo("launchers")
  /\ UNCHANGED <<host, disk, enabled, manifest, ended, left, untracked>>

WritesLaunchers ==
  /\ cmd.pc = "launchers"
  /\ Writes(Launchers)
  /\ cmd' = [cmd EXCEPT !.pc = "claim", !.owned = Launchers]
  /\ UNCHANGED <<host, tkinter, enabled, manifest, ended, left>>

ClaimsLaunchers ==
  /\ cmd.pc = "claim"
  /\ manifest' = cmd.owned
  /\ StepTo("unit")
  /\ UNCHANGED <<host, tkinter, disk, enabled, ended, left, untracked>>

\* No systemctl, or no adapter for the platform: manual or blocked.
SkipsUnit ==
  /\ cmd.pc = "unit" /\ host.service # "systemd"
  /\ StepTo("autostart")
  /\ UNCHANGED <<host, tkinter, disk, enabled, manifest, ended, left, untracked>>

InstallsUnit ==
  /\ cmd.pc = "unit" /\ host.service = "systemd"
  /\ Writes({Unit})
  /\ StepTo("register")
  /\ UNCHANGED <<host, tkinter, enabled, manifest, ended, left>>

Registers ==
  /\ cmd.pc = "register"
  /\ enabled' = TRUE
  /\ cmd' = [cmd EXCEPT !.pc = "autostart", !.owned = @ \union {Unit}]
  /\ UNCHANGED <<host, tkinter, disk, manifest, ended, left, untracked>>

\* The unit file is kept, as the error message says.
RegistrationFails_UnitKept ==
  /\ cmd.pc = "register"
  /\ EndsWith("partial")
  /\ UNCHANGED <<host, tkinter, disk, enabled, manifest, left, untracked>>

\* daemon-reload or enable is refused: the unit file is unlinked (unless that
\* fails too), launchers and manifest stay.
RegistrationFails ==
  /\ cmd.pc = "register"
  /\ disk' = [disk EXCEPT ![Unit] = "none"]
  /\ EndsWith("partial")
  /\ UNCHANGED <<host, tkinter, enabled, manifest, left, untracked>>

RegistrationFailsKept ==
  /\ cmd.pc = "register"
  /\ EndsWith("partial")
  /\ untracked' = untracked \union {Unit}
  /\ UNCHANGED <<host, tkinter, disk, enabled, manifest, left>>

\* Only Linux with a supported desktop and Tkinter.
InstallsAutostart ==
  /\ cmd.pc = "autostart"
  /\ IF host.service # "unsupported" /\ host.desktop /\ tkinter
       THEN Writes({Autostart}) /\ cmd' = [cmd EXCEPT !.pc = "save", !.owned = @ \union {Autostart}]
       ELSE StepTo("save") /\ UNCHANGED <<disk, untracked>>
  /\ UNCHANGED <<host, tkinter, enabled, manifest, ended, left>>

SavesManifest ==
  /\ cmd.pc = "save"
  /\ manifest' = cmd.owned
  /\ EndsWith("installed")
  /\ UNCHANGED <<host, tkinter, disk, enabled, left, untracked>>

----------------------------------------------------------------------------
(* uninstall_project                                                        *)

UninstallAlready ==
  /\ cmd.pc = "idle" /\ manifest = {}
  /\ EndsWith("already")
  /\ UNCHANGED <<host, tkinter, disk, enabled, manifest, left, untracked>>

UninstallBegins ==
  /\ cmd.pc = "idle"
  /\ \E purge \in BOOLEAN :
       /\ manifest # {} \/ purge
       /\ cmd' = [NoOp EXCEPT !.op = "uninstall", !.pc = "disable",
                               !.owned = manifest, !.todo = manifest, !.purge = purge]
  /\ ended' = "none" /\ left' = {}
  /\ UNCHANGED <<host, tkinter, disk, enabled, manifest, untracked>>

\* systemctl disable may be refused or missing; uninstall goes on.
Disables ==
  /\ cmd.pc = "disable"
  /\ enabled' \in {enabled, FALSE}
  /\ StepTo("unlink")
  /\ UNCHANGED <<host, tkinter, disk, manifest, ended, left, untracked>>

Unlinks(p) ==
  /\ cmd.pc = "unlink" /\ p \in cmd.todo
  /\ disk' = [disk EXCEPT ![p] = "none"]
  /\ cmd' = [cmd EXCEPT !.todo = @ \ {p}]
  /\ UNCHANGED <<host, tkinter, enabled, manifest, ended, left, untracked>>

\* Not a file any more, or the unlink fails.
UnlinkFails(p) ==
  /\ cmd.pc = "unlink" /\ p \in cmd.todo /\ disk[p] # "none"
  /\ left' = left \union {p}
  /\ cmd' = [cmd EXCEPT !.todo = @ \ {p}]
  /\ UNCHANGED <<host, tkinter, disk, enabled, manifest, ended, untracked>>

Purges ==
  /\ cmd.pc = "unlink" /\ cmd.todo = {}
  /\ disk' = IF cmd.purge THEN [disk EXCEPT ![UserConfig] = "none"] ELSE disk
  /\ StepTo("forget")
  /\ UNCHANGED <<host, tkinter, enabled, manifest, ended, left, untracked>>

\* With leftovers the manifest keeps each owned path that is one of the
\* leftover messages; a message is a path and a reason, so that none is.
StillOwned(owned, leftovers) ==
  LET messages == {<<p, "reason">> : p \in leftovers} IN {p \in owned : p \in messages}

ForgetsOwned ==
  /\ cmd.pc = "forget"
  /\ manifest' = IF left = {} THEN {} ELSE StillOwned(cmd.owned, left)
  /\ untracked' = untracked \union left
  /\ EndsWith(IF left = {} THEN "removed" ELSE "leftovers")
  /\ UNCHANGED <<host, tkinter, disk, enabled, left>>

----------------------------------------------------------------------------

Interrupted ==
  /\ cmd.pc # "idle"
  /\ untracked' = IF cmd.op = "install"
                    THEN untracked \union {p \in OwnPaths : disk[p] = "ours" /\ p \notin manifest}
                    ELSE untracked
  /\ EndsWith("interrupted")
  /\ UNCHANGED <<host, tkinter, disk, enabled, manifest, left>>

DeployNext ==
  \/ InstallRefused \/ InstallAlready \/ InstallBegins \/ EnsuresDependencies
  \/ WritesLaunchers \/ ClaimsLaunchers \/ SkipsUnit \/ InstallsUnit \/ Registers
  \/ RegistrationFails \/ RegistrationFailsKept \/ InstallsAutostart \/ SavesManifest
  \/ UninstallAlready \/ UninstallBegins \/ Disables
  \/ \E p \in OwnPaths : Unlinks(p) \/ UnlinkFails(p)
  \/ Purges \/ ForgetsOwned \/ Interrupted

DeploySpec == DeployInit /\ [][DeployNext]_deployVars

----------------------------------------------------------------------------

\* Everything Ariadex created is in the manifest when a call has returned, so
\* that an uninstall finds it (deploy.py, "Everything Ariadex creates is
\* recorded"): also after a partial install, a reinstall, and an uninstall that
\* was cut short.  The files that escape are those of an install that was cut
\* short before it recorded them, and the ones an uninstall left behind.
OwnedIsRecorded ==
  cmd.pc = "idle" => \A p \in OwnPaths : disk[p] = "ours" => p \in manifest \union untracked

\* What an uninstall could not remove is still owned, so that the next one
\* tries again ("Repeat runs are a successful no-op" only when nothing is left).
LeftoversStayOwned == ended = "leftovers" => left \subseteq manifest
=============================================================================
