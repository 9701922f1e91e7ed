------------------------------ MODULE Install -------------------------------
(***************************************************************************)
(* `reptile install` (install.go) and the firewall unit it activates, on   *)
(* one host: the installer's file writes, each of which may be cut short,  *)
(* systemd's jobs for reptile-firewall.service, the operator's own         *)
(* `reptile firewall` commands and edits, and reboots.  The firewall       *)
(* processes are those of Firewall.tla.                                    *)
(***************************************************************************)
EXTENDS Firewall, Sequences

CONSTANTS
  Example      \* the example configuration

(* systemd's job for the unit, and the operator's shell.                   *)
ASSUME InstallAssumption == Example \in Configs /\ Fws = {"job", "cli"}

VARIABLES
  files,    \* the binary and the two unit files
  inst,     \* the installer
  unit,     \* reptile-firewall.service, as systemd sees it
  enabled,  \* the units that start at boot
  byHand    \* history: a `firewall down` outside systemd may have removed
            \* the table the unit stands for

ivars == <<files, inst, unit, enabled, byHand>>
vars == <<fvars, ivars>>

(* What runInstall writes, in its order. *)
Steps == <<"binary", "config", "reptile.service", "reptile-firewall.service">>
Files == {"binary", "reptile.service", "reptile-firewall.service"}

NoInst == [pc |-> "idle", at |-> 1, torn |-> FALSE]

TypeOK ==
  /\ FwTypeOK
  /\ files \in [Files -> {"none", "torn", "full"}]
  /\ inst \in [pc: {"idle", "open", "create", "fill", "reload", "enable", "wait",
                    "enableDaemon", "ok", "failed"},
               at: 1..4, torn: BOOLEAN]
  /\ unit \in {"inactive", "starting", "active", "reloading", "stopping"}
  /\ enabled \subseteq Files
  /\ byHand \in BOOLEAN

-----------------------------------------------------------------------------
(* The installer.                                                          *)

InstGoto(from, to) == inst.pc = from /\ inst' = [inst EXCEPT !.pc = to]

(* A running `reptile firewall` executes the binary: ETXTBSY.              *)
Busy == \E p \in Fws : fw[p].pc \notin {"idle", "ok", "failed"}

Begin ==
  /\ InstGoto("idle", "open")
  /\ UNCHANGED <<fvars, files, unit, enabled, byHand>>

(* copyFile, os.WriteFile: O_CREATE|O_TRUNC ... *)
OpenFile ==
  /\ Steps[inst.at] # "config"
  /\ inst.at = 1 => ~Busy
  /\ InstGoto("open", "fill")
  /\ files' = [files EXCEPT ![Steps[inst.at]] = "torn"]
  /\ UNCHANGED <<fvars, unit, enabled, byHand>>

(* os.Stat(cfgPath): "keeping existing config". *)
StatConfig ==
  /\ inst.pc = "open"
  /\ Steps[inst.at] = "config"
  /\ inst' = IF conf = NoFile THEN [inst EXCEPT !.pc = "create"]
             ELSE [inst EXCEPT !.at = @ + 1, !.torn = (conf = Torn)]
  /\ UNCHANGED <<fvars, files, unit, enabled, byHand>>

CreateConfig ==
  /\ InstGoto("create", "fill")
  /\ conf' = Torn
  /\ UNCHANGED <<table, wg, fw, files, unit, enabled, byHand>>

(* After the last file: activation, or not (--no-activate, --root).        *)
Proceed ==
  IF inst.at < Len(Steps)
    THEN inst' = [inst EXCEPT !.pc = "open", !.at = @ + 1]
    ELSE \E pc \in {"reload", "ok"} : inst' = [inst EXCEPT !.pc = pc]

(* ... and the contents. *)
Fill ==
  /\ inst.pc = "fill"
  /\ IF Steps[inst.at] = "config"
       THEN conf' = Example /\ UNCHANGED files
       ELSE files' = [files EXCEPT ![Steps[inst.at]] = "full"] /\ UNCHANGED conf
  /\ Proceed
  /\ UNCHANGED <<table, wg, fw, unit, enabled, byHand>>

(* Mutant: a failed write does not end the installation. *)
WriteErrorIgnored ==
  /\ inst.pc = "fill"
  /\ Proceed
  /\ UNCHANGED <<fvars, files, unit, enabled, byHand>>
(* Open or write fails: the file stays as it is. *)
WriteFails ==
  /\ inst.pc \in {"open", "create", "fill"}
  /\ inst' = [inst EXCEPT !.pc = "failed"]
  /\ UNCHANGED <<fvars, files, unit, enabled, byHand>>

DaemonReload ==
  /\ InstGoto("reload", "enable")
  /\ UNCHANGED <<fvars, files, unit, enabled, byHand>>

UpJob == UpBegins("job") \/ UpRefuses("job")

(* systemctl enable --now reptile-firewall.service: starts it unless it is *)
(* active, and waits for the job.                                          *)
EnableFirewall ==
  /\ enabled' = enabled \cup {"reptile-firewall.service"}
  /\ \/ /\ unit = "inactive"
        /\ UpJob
        /\ unit' = "starting"
        /\ InstGoto("enable", "wait")
     \/ /\ unit = "active"
        /\ InstGoto("enable", "enableDaemon")
        /\ UNCHANGED <<fvars, unit>>
  /\ UNCHANGED <<files, byHand>>

JobDone ==
  /\ unit \in {"active", "inactive"}
  /\ InstGoto("wait", IF unit = "active" THEN "enableDaemon" ELSE "failed")
  /\ UNCHANGED <<fvars, files, unit, enabled, byHand>>

EnableDaemon ==
  /\ InstGoto("enableDaemon", "ok")
  /\ enabled' = enabled \cup {"reptile.service"}
  /\ UNCHANGED <<fvars, files, unit, byHand>>

SystemctlFails ==
  /\ inst.pc \in {"reload", "enable", "enableDaemon"}
  /\ inst' = [inst EXCEPT !.pc = "failed"]
  /\ UNCHANGED <<fvars, files, unit, enabled, byHand>>

(* It has exited, or is killed. *)
InstEnds ==
  /\ inst.pc # "idle"
  /\ inst' = NoInst
  /\ UNCHANGED <<fvars, files, unit, enabled, byHand>>

-----------------------------------------------------------------------------
(* systemd.  The unit's command can be run if the binary and the unit file *)
(* are whole.                                                              *)

Runnable == files["binary"] = "full" /\ files["reptile-firewall.service"] = "full"

(* systemctl start, at boot or by the operator; systemctl reload. *)
UnitUp ==
  /\ Runnable
  /\ UpJob
  /\ \/ unit = "inactive" /\ unit' = "starting"
     \/ unit = "active" /\ unit' = "reloading"
  /\ UNCHANGED <<files, inst, enabled, byHand>>

UnitStop ==
  /\ Runnable
  /\ DownBegins("job")
  /\ unit = "active" /\ unit' = "stopping"
  /\ UNCHANGED <<files, inst, enabled, byHand>>

JobRuns ==
  /\ UpLists("job") \/ UpLoads("job") \/ UpVerifies("job")
     \/ DownLists("job") \/ DownDeletes("job") \/ NftFails("job")
  /\ UNCHANGED ivars

(* Type=oneshot, RemainAfterExit=yes: started if ExecStart succeeded; a    *)
(* failed reload leaves it active, a stop ends it either way.              *)
JobEnds ==
  /\ fw["job"].pc \in {"ok", "failed"}
  /\ FwEnds("job")
  /\ unit' = IF unit = "reloading" \/ (unit = "starting" /\ fw["job"].pc = "ok")
               THEN "active" ELSE "inactive"
  /\ byHand' = (byHand /\ unit' = "active" /\ ~(fw["job"].pc = "ok" /\ fw["job"].alone))
  /\ UNCHANGED <<files, inst, enabled>>

(* The operator's `reptile firewall up` or `down`. *)
OperatorRuns ==
  /\ fw["cli"].pc = "idle" => files["binary"] = "full"
  /\ FwStep("cli")
  /\ byHand' = (byHand \/ (fw["cli"].pc = "delete" /\ table # table' /\ unit # "inactive"))
  /\ UNCHANGED <<files, inst, unit, enabled>>

OperatorEdits == Edit /\ UNCHANGED ivars

Reboot ==
  /\ table' = Absent
  /\ fw' = [p \in Fws |-> NoFw]
  /\ inst' = NoInst
  /\ unit' = "inactive"
  /\ byHand' = FALSE
  /\ UNCHANGED <<conf, wg, files, enabled>>

-----------------------------------------------------------------------------
Init ==
  /\ table = Absent
  /\ conf = NoFile
  /\ wg \in WgConfs
  /\ fw = [p \in Fws |-> NoFw]
  /\ files = [f \in Files |-> "none"]
  /\ inst = NoInst
  /\ unit = "inactive"
  /\ enabled = {}
  /\ byHand = FALSE

runInstall ==
  \/ Begin \/ OpenFile \/ StatConfig \/ CreateConfig \/ Fill \/ WriteFails
  \/ DaemonReload \/ EnableFirewall \/ JobDone \/ EnableDaemon \/ SystemctlFails \/ InstEnds

Systemd == UnitUp \/ UnitStop \/ JobRuns \/ JobEnds

Next == runInstall \/ Systemd \/ OperatorRuns \/ OperatorEdits \/ Reboot

Spec == Init /\ [][Next]_vars

-----------------------------------------------------------------------------
(* The unit is the "always-on egress policy" (README): as long as systemd  *)
(* shows it active, or is reloading it, the table is there.  A reload      *)
(* leaves no gap, one that fails or is killed changes nothing, and no      *)
(* interleaving with commands run by hand breaks this, except a            *)
(* `firewall down` by hand, of which systemd does not know.                *)
UnitTellsTruth ==
  unit \in {"active", "reloading"} /\ ~byHand => table # Absent

(* "installed" is the truth, after any number of runs that were killed or  *)
(* failed half way: binary and units are whole, both units are enabled if  *)
(* activation was asked for, and the configuration loads, unless an        *)
(* earlier run had left a part of one: that is kept like an operator's.    *)
SuccessIsComplete ==
  [][inst.pc # "ok" /\ inst'.pc = "ok" =>
       /\ \A f \in Files : files'[f] = "full"
       /\ inst.pc = "enableDaemon" =>
            enabled' = {"reptile.service", "reptile-firewall.service"}
       /\ Loads(conf') \/ inst.torn]_vars

=============================================================================
