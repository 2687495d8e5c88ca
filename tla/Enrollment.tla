----------------------------- MODULE Enrollment -----------------------------
(***************************************************************************)
(* Native enrollment of the service: `service install` and `service        *)
(* uninstall` register it with the login manager of the platform, a        *)
(* systemd user unit, a launch agent or a scheduled task.  Each command is  *)
(* a series of manager commands; each of them may fail, and the program may *)
(* die between two of them, so that the next command meets what is left.    *)
(***************************************************************************)
CONSTANTS
    Platform,       \* the platforms to check, of linux, darwin and windows
    Definition,     \* definitions: an executable, its arguments, a state root
    NoDefinition

ASSUME DefinitionAssumption == NoDefinition \notin Definition
ASSUME PlatformAssumption == Platform \subseteq {"linux", "darwin", "windows"}

VARIABLES
    platform,
    file,           \* the unit or agent file
    enabled,        \* linux: the unit is wanted by the default target
    loaded,         \* what the manager has loaded, or has as a task
    running,        \* what the service was started from that the manager runs
    command,        \* the program
    outcome,        \* how the last program ended
    disturbed       \* whether a manager command has failed since the login

managerVars == <<platform, file, enabled, loaded, running>>
enrollmentVars == <<managerVars, command, outcome, disturbed>>

Some == Definition \cup {NoDefinition}

Idle == [op |-> "install", pc |-> "idle", want |-> NoDefinition, installed |-> FALSE,
         active |-> FALSE, changed |-> FALSE, rewritten |-> FALSE, first |-> NoDefinition]

EnrollmentTypeOK ==
    /\ platform \in {"linux", "darwin", "windows"}
    /\ file \in Some /\ loaded \in Some /\ running \in Some
    /\ enabled \in BOOLEAN /\ disturbed \in BOOLEAN
    /\ platform = "windows" => file = NoDefinition
    /\ platform # "linux" => ~enabled
    /\ command \in [op : {"install", "uninstall"},
                    pc : {"idle", "status", "write", "reload", "enable", "unload", "load",
                          "compare", "create", "start", "stop", "remove", "after"},
                    want : Some, installed : BOOLEAN, active : BOOLEAN,
                    changed : BOOLEAN, rewritten : BOOLEAN, first : Some]
    /\ outcome \in [op : {"install", "uninstall"}, ok : BOOLEAN, changed : BOOLEAN,
                    want : Some, first : Some]

EnrollmentInit ==
    /\ platform \in Platform
    /\ file = NoDefinition /\ loaded = NoDefinition /\ running = NoDefinition
    /\ enabled = FALSE
    /\ command = Idle
    /\ outcome = [op |-> "uninstall", ok |-> TRUE, changed |-> FALSE,
                  want |-> NoDefinition, first |-> NoDefinition]
    /\ disturbed = FALSE

-----------------------------------------------------------------------------
(* What the commands can see, and what they leave behind.                    *)

Installed ==
    CASE platform = "linux" -> file # NoDefinition /\ enabled
      [] platform = "darwin" -> loaded # NoDefinition
      [] platform = "windows" -> loaded # NoDefinition

Active == Installed /\ running # NoDefinition

(* What the manager starts at the next login.                                *)
AtLogin ==
    CASE platform = "linux" -> IF enabled THEN file ELSE NoDefinition
      [] platform = "darwin" -> file
      [] platform = "windows" -> loaded

At(op, pc) == command.op = op /\ command.pc = pc

Goto(pc) == command' = [command EXCEPT !.pc = pc]

End(changed) ==
    /\ command' = Idle
    /\ outcome' = [op |-> command.op, ok |-> TRUE, changed |-> changed,
                   want |-> command.want, first |-> command.first]

-----------------------------------------------------------------------------
(* service install, from a program that wants a definition of its own.       *)

RunInstall ==
    /\ command.pc = "idle"
    /\ \E d \in Definition :
          command' = [Idle EXCEPT !.pc = "status", !.want = d, !.first = AtLogin]
    /\ UNCHANGED <<managerVars, outcome, disturbed>>

InstallStatus ==
    /\ At("install", "status")
    /\ command' = [command EXCEPT
          !.installed = Installed, !.active = Active, !.changed = ~Installed,
          !.pc = IF platform = "windows" THEN "compare" ELSE "write"]
    /\ UNCHANGED <<managerVars, outcome, disturbed>>

(* The file is replaced by a rename, unless it has the wanted contents.      *)
WriteDefinition ==
    /\ At("install", "write")
    /\ file' = command.want
    /\ command' = [command EXCEPT
          !.rewritten = file # command.want,
          !.changed = @ \/ file # command.want,
          !.pc = CASE platform = "linux" -> "reload"
                   [] platform = "darwin" /\ ~command.installed -> "load"
                   [] platform = "darwin" /\ command.installed ->
                         IF file = command.want THEN "start" ELSE "unload"]
    /\ UNCHANGED <<platform, enabled, loaded, running, outcome, disturbed>>

InstallReload ==
    /\ At("install", "reload")
    /\ loaded' = file
    /\ Goto("enable")
    /\ UNCHANGED <<platform, file, enabled, running, outcome, disturbed>>

EnableUnit ==
    /\ At("install", "enable")
    /\ enabled' = TRUE
    /\ Goto("start")
    /\ UNCHANGED <<platform, file, loaded, running, outcome, disturbed>>

(* launchctl bootout ends the service too; bootstrap starts it, and does not *)
(* load over a loaded agent.                                                 *)
Unload ==
    /\ At("install", "unload")
    /\ loaded' = NoDefinition /\ running' = NoDefinition
    /\ Goto("load")
    /\ UNCHANGED <<platform, file, enabled, outcome, disturbed>>

Load ==
    /\ At("install", "load")
    /\ loaded = NoDefinition
    /\ loaded' = file /\ running' = file
    /\ Goto("start")
    /\ UNCHANGED <<platform, file, enabled, outcome, disturbed>>

(* On Windows the registered task itself is compared.                        *)
CompareTask ==
    /\ At("install", "compare")
    /\ LET changed == ~command.installed \/ loaded # command.want
       IN  command' = [command EXCEPT !.changed = changed,
                                      !.pc = IF changed THEN "create" ELSE "start"]
    /\ UNCHANGED <<managerVars, outcome, disturbed>>

(* The old instance is ended, whether that works or not, and the task        *)
(* replaced.                                                                 *)
CreateTask ==
    /\ At("install", "create")
    /\ \/ command.active /\ running' = NoDefinition /\ UNCHANGED disturbed
       \/ command.active /\ disturbed' = TRUE /\ UNCHANGED running
       \/ ~command.active /\ UNCHANGED <<running, disturbed>>
    /\ loaded' = command.want
    /\ Goto("start")
    /\ UNCHANGED <<platform, file, enabled, outcome>>

(* An active unit with another file is restarted; else what is not active is *)
(* started.                                                                  *)
StartService ==
    /\ At("install", "start")
    /\ \/ /\ platform = "linux" /\ command.active /\ command.rewritten
          /\ running' = loaded
       \/ /\ ~(platform = "linux" /\ command.active /\ command.rewritten)
          /\ Installed
          /\ running' = IF Active THEN running ELSE loaded
    /\ Goto("after")
    /\ UNCHANGED <<platform, file, enabled, loaded, outcome, disturbed>>

InstallEnds ==
    /\ At("install", "after")
    /\ End(command.changed)
    /\ UNCHANGED <<managerVars, disturbed>>

-----------------------------------------------------------------------------
(* service uninstall.                                                        *)

RunUninstall ==
    /\ command.pc = "idle"
    /\ command' = [Idle EXCEPT !.op = "uninstall", !.pc = "status", !.first = AtLogin]
    /\ UNCHANGED <<managerVars, outcome, disturbed>>

(* MUTANT: the status alone says whether there is anything to remove. *)
UninstallByStatus ==
    /\ At("uninstall", "status")
    /\ \/ Installed /\ UNCHANGED outcome
          /\ command' = [command EXCEPT !.installed = Installed, !.pc = "stop"]
       \/ ~Installed /\ End(FALSE)
    /\ UNCHANGED <<managerVars, disturbed>>

(* A file that is left of an interrupted command is removed as well.         *)
UninstallStatus ==
    /\ At("uninstall", "status")
    /\ \/ /\ Installed \/ file # NoDefinition
          /\ command' = [command EXCEPT !.installed = Installed, !.pc = "stop"]
          /\ UNCHANGED outcome
       \/ /\ ~Installed /\ file = NoDefinition
          /\ End(FALSE)
    /\ UNCHANGED <<managerVars, disturbed>>

(* The unit is stopped, whether that works or not, and disabled; the agent   *)
(* is booted out; the task is deleted, and the manager knows nothing of what *)
(* may still run of it.                                                      *)
Disable ==
    /\ At("uninstall", "stop")
    /\ \/ /\ platform = "linux"
          /\ \/ running' = NoDefinition /\ UNCHANGED disturbed
             \/ disturbed' = TRUE /\ UNCHANGED running
          /\ enabled' = (enabled /\ ~command.installed)
          /\ Goto("remove") /\ UNCHANGED loaded
       \/ /\ platform = "darwin"
          /\ IF command.installed
             THEN loaded' = NoDefinition /\ running' = NoDefinition
             ELSE UNCHANGED <<loaded, running>>
          /\ Goto("remove") /\ UNCHANGED <<enabled, disturbed>>
       \/ /\ platform = "windows"
          /\ loaded' = NoDefinition /\ running' = NoDefinition
          /\ Goto("after") /\ UNCHANGED <<enabled, disturbed>>
    /\ UNCHANGED <<platform, file, outcome>>

RemoveDefinition ==
    /\ At("uninstall", "remove")
    /\ file' = NoDefinition
    /\ Goto(IF platform = "linux" THEN "reload" ELSE "after")
    /\ UNCHANGED <<platform, enabled, loaded, running, outcome, disturbed>>

UninstallReload ==
    /\ At("uninstall", "reload")
    /\ loaded' = file
    /\ Goto("after")
    /\ UNCHANGED <<platform, file, enabled, running, outcome, disturbed>>

UninstallEnds ==
    /\ At("uninstall", "after")
    /\ End(TRUE)
    /\ UNCHANGED <<managerVars, disturbed>>

-----------------------------------------------------------------------------
(* The world around the program.                                             *)

(* A manager command fails, or the program dies, before any step.            *)
Interrupted ==
    /\ command.pc # "idle"
    /\ command' = Idle
    /\ outcome' = [outcome EXCEPT !.op = command.op, !.ok = FALSE, !.changed = FALSE]
    /\ disturbed' = TRUE
    /\ UNCHANGED managerVars

(* The service ends by itself, or on a stop request.                         *)
ServiceEnds ==
    /\ running # NoDefinition
    /\ running' = NoDefinition
    /\ UNCHANGED <<platform, file, enabled, loaded, command, outcome, disturbed>>

(* The user logs out and in again.                                           *)
Login ==
    /\ command.pc = "idle"
    /\ loaded' = IF platform = "windows" THEN loaded ELSE file
    /\ running' = AtLogin
    /\ disturbed' = FALSE
    /\ UNCHANGED <<platform, file, enabled, command, outcome>>

EnrollmentNext ==
    \/ RunInstall \/ InstallStatus \/ WriteDefinition \/ InstallReload \/ EnableUnit
    \/ Unload \/ Load \/ CompareTask \/ CreateTask \/ StartService \/ InstallEnds
    \/ RunUninstall \/ UninstallStatus \/ Disable \/ RemoveDefinition
    \/ UninstallReload \/ UninstallEnds
    \/ Interrupted \/ ServiceEnds \/ Login

EnrollmentSpec == EnrollmentInit /\ [][EnrollmentNext]_enrollmentVars

-----------------------------------------------------------------------------

Settled(op) == command.pc = "idle" /\ outcome.op = op /\ outcome.ok

(* A successful install leaves a registration that starts this program at    *)
(* the next login, whatever earlier commands were cut short.                 *)
(* service_enrollment.go:229.                                                *)
InstallRegisters == Settled("install") => AtLogin = outcome.want

(* A successful uninstall, also one that reports that nothing had to be      *)
(* done, leaves nothing that a login would start: in particular it clears up *)
(* what interrupted commands left.  service_enrollment.go:331.               *)
UninstallRemoves == Settled("uninstall") => AtLogin = NoDefinition

(* A command that reports no change has changed nothing of what a login      *)
(* starts.  service_enrollment.go:237.                                       *)
UnchangedIsTrue ==
    command.pc = "idle" /\ outcome.ok /\ ~outcome.changed => AtLogin = outcome.first

(* After a successful install an older service runs on only if a manager     *)
(* command has failed since the login.  (After one has, a repeated install   *)
(* finds the file rewritten already and restarts nothing.)                   *)
(* service_enrollment.go:254.                                                *)
StaleOnlyAfterFailure ==
    Settled("install") /\ ~disturbed => running \in {NoDefinition, outcome.want}

(* What a command of the enrollment reports is what the next login does,     *)
(* whatever earlier commands left behind.  service_enrollment.go:229, :331.  *)
ReportsAreTrue ==
    /\ EnrollmentTypeOK /\ InstallRegisters /\ UninstallRemoves
    /\ UnchangedIsTrue /\ StaleOnlyAfterFailure
=============================================================================
