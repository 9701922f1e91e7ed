--------------------------- MODULE InstallProofs ----------------------------
(***************************************************************************)
(* Proofs about Firewall and Install, for any configurations, Endpoint     *)
(* lines and rules.                                                        *)
(***************************************************************************)
EXTENDS Install, TLAPS

FwProcs == [pc: {"idle", "list", "load", "verify", "listDown", "delete", "ok", "failed"},
            rs: Rulesets \cup {{}}, present: BOOLEAN, alone: BOOLEAN]

-----------------------------------------------------------------------------
(* Every step as the firewall sees it.                                     *)

(* An installer step that may write the configuration. *)
ConfigStep == UNCHANGED <<table, wg, fw>> /\ conf' \in Configs \cup {conf, Torn}

(* Every step of the system is a step of one firewall command, an edit, a  *)
(* reboot or an installer step that leaves the firewall alone.             *)
LEMMA FwView ==
  ASSUME [Next]_vars
  PROVE  \/ \E p \in Fws : FwStep(p)
         \/ Edit \/ Reboot \/ ConfigStep
<1>1. ASSUME runInstall PROVE (\E p \in Fws : FwStep(p)) \/ ConfigStep
  <2>1. CASE EnableFirewall
    BY <2>1, InstallAssumption DEF EnableFirewall, UpJob, FwStep, Up, ConfigStep, fvars
  <2>2. CASE Fill
    BY <2>2, InstallAssumption DEF Fill, ConfigStep
  <2>3. CASE CreateConfig
    BY <2>3 DEF CreateConfig, ConfigStep
  <2>4. CASE UNCHANGED fvars
    BY <2>4 DEF ConfigStep, fvars
  <2>5. QED
    BY <1>1, <2>1, <2>2, <2>3, <2>4
       DEF runInstall, Begin, OpenFile, StatConfig, WriteFails, DaemonReload, JobDone,
           EnableDaemon, SystemctlFails, InstEnds
<1>2. ASSUME Systemd \/ OperatorRuns PROVE \E p \in Fws : FwStep(p)
  BY <1>2, InstallAssumption
     DEF Systemd, UnitUp, UnitStop, JobRuns, JobEnds, OperatorRuns, UpJob, FwStep, Up, Down
<1>3. CASE UNCHANGED vars
  BY <1>3 DEF vars, fvars, ConfigStep
<1>4. QED
  BY <1>1, <1>2, <1>3 DEF Next, OperatorEdits

-----------------------------------------------------------------------------
(* Types.                                                                  *)

(* A command that is not running. *)
LEMMA NoFwType == NoFw \in FwProcs
BY DEF NoFw, FwProcs

(* Writing the table keeps the types, *)
LEMMA SetTableType ==
  ASSUME FwTypeOK, NEW p \in Fws, NEW t \in Tables,
         NEW to \in {"load", "verify", "ok"}, SetTable(p, t, to)
  PROVE  FwTypeOK'
<1>1. fw' \in [Fws -> FwProcs]
  BY DEF SetTable, FwTypeOK, FwProcs
<1>2. QED
  BY <1>1 DEF SetTable, FwTypeOK, FwProcs

(* as does every step of a firewall command, *)
LEMMA FwTypeStep ==
  ASSUME FwTypeOK, NEW p \in Fws, FwStep(p)
  PROVE  FwTypeOK'
<1>1. ASSUME NEW r \in FwProcs, fw' = [fw EXCEPT ![p] = r], UNCHANGED <<table, conf, wg>>
      PROVE  FwTypeOK'
  <2>1. fw' \in [Fws -> FwProcs]
    BY <1>1 DEF FwTypeOK, FwProcs
  <2>2. QED
    BY <1>1, <2>1 DEF FwTypeOK, FwProcs
<1>2. CASE UpBegins(p)
  <2>1. buildRuleset(conf, wg) \in Rulesets
    BY <1>2 DEF UpBegins, Loads, Rulesets, FwTypeOK
  <2>2. [NoFw EXCEPT !.pc = "list", !.rs = buildRuleset(conf, wg)] \in FwProcs
    BY <2>1, NoFwType DEF FwProcs
  <2>3. QED
    BY <1>1, <1>2, <2>2 DEF UpBegins
<1>3. CASE UpRefuses(p) \/ NftFails(p)
  <2>1. [NoFw EXCEPT !.pc = "failed"] \in FwProcs
    BY NoFwType DEF FwProcs
  <2>2. QED
    BY <1>1, <1>3, <2>1 DEF UpRefuses, NftFails, FwFails
<1>4. CASE UpLists(p)
  <2>1. fw' \in [Fws -> FwProcs]
    BY <1>4 DEF UpLists, FwTypeOK, FwProcs
  <2>2. QED
    BY <1>4, <2>1 DEF UpLists, FwTypeOK, FwProcs
<1>5. CASE UpLoads(p)
  <2>1. fw[p].rs \in SUBSET UNION Rulesets
    BY DEF FwTypeOK
  <2>2. (IF fw[p].present \/ table = Absent THEN fw[p].rs ELSE table \cup fw[p].rs) \in Tables
    BY <2>1 DEF FwTypeOK, Tables
  <2>3. QED
    BY <1>5, <2>2, SetTableType DEF UpLoads
<1>6. CASE UpVerifies(p) \/ DownBegins(p) \/ DownLists(p)
  <2>1. fw' \in [Fws -> FwProcs]
    BY <1>6 DEF UpVerifies, DownBegins, DownLists, FwGoto, FwTypeOK, FwProcs
  <2>2. QED
    BY <1>6, <2>1 DEF UpVerifies, DownBegins, DownLists, FwTypeOK, FwProcs
<1>7. CASE DownDeletes(p)
  BY <1>7, SetTableType DEF DownDeletes, Tables
<1>8. CASE FwEnds(p)
  BY <1>1, <1>8, NoFwType DEF FwEnds
<1>9. QED
  BY <1>2, <1>3, <1>4, <1>5, <1>6, <1>7, <1>8 DEF FwStep, Up, Down

(* and so every step. *)
LEMMA FwTypeNext == FwTypeOK /\ [Next]_vars => FwTypeOK'
<1> SUFFICES ASSUME FwTypeOK, [Next]_vars PROVE FwTypeOK'
  OBVIOUS
<1>1. CASE Edit \/ ConfigStep
  BY <1>1 DEF Edit, ConfigStep, FwTypeOK
<1>2. CASE Reboot
  BY <1>2, NoFwType DEF Reboot, FwTypeOK, FwProcs, Tables
<1>3. QED
  BY <1>1, <1>2, FwTypeStep, FwView

-----------------------------------------------------------------------------
(* What runInstall writes.                                                 *)

(* The files of an installation, in the order they are written. *)
LEMMA StepsAre ==
  /\ Len(Steps) = 4
  /\ Steps[1] = "binary" /\ Steps[2] = "config"
  /\ Steps[3] = "reptile.service" /\ Steps[4] = "reptile-firewall.service"
  /\ \A i \in 1..4 : Steps[i] = "config" <=> i = 2
  /\ \A i \in 1..4 : i # 2 => Steps[i] \in Files
BY DEF Steps, Files

Insts == [pc: {"idle", "open", "create", "fill", "reload", "enable", "wait",
               "enableDaemon", "ok", "failed"},
          at: 1..4, torn: BOOLEAN]

(* No installation in progress. *)
LEMMA NoInstType == NoInst \in Insts
BY DEF NoInst, Insts

(* The steps that end the writing of a file. *)
LEMMA ProceedTo ==
  ASSUME inst \in Insts, Proceed
  PROVE  /\ inst' \in Insts
         /\ \/ inst.at < 4 /\ inst'.pc = "open" /\ inst'.at = inst.at + 1 /\ inst'.torn = inst.torn
            \/ inst.at = 4 /\ inst'.pc \in {"reload", "ok"} /\ inst'.at = 4
               /\ inst'.torn = inst.torn
<1>1. CASE inst.at < 4
  <2>1. inst.at + 1 \in 1..4
    BY <1>1 DEF Insts
  <2>2. inst' = [inst EXCEPT !.pc = "open", !.at = inst.at + 1]
    BY <1>1, StepsAre DEF Proceed
  <2>3. QED
    BY <1>1, <2>1, <2>2 DEF Insts
<1>2. CASE inst.at = 4
  BY <1>2, StepsAre DEF Proceed, Insts
<1>3. QED
  BY <1>1, <1>2 DEF Insts

(* Every step keeps the types. *)
LEMMA TypeStep == TypeOK /\ [Next]_vars => TypeOK'
<1> SUFFICES ASSUME TypeOK, [Next]_vars PROVE TypeOK'
  OBVIOUS
<1>0. FwTypeOK' /\ inst \in Insts
  BY FwTypeNext DEF TypeOK, Insts
<1>1. files' \in [Files -> {"none", "torn", "full"}]
  <2>1. CASE OpenFile
    BY <1>0, <2>1, StepsAre DEF OpenFile, InstGoto, TypeOK, Insts
  <2>2. CASE Fill
    BY <1>0, <2>2, StepsAre DEF Fill, TypeOK, Insts
  <2>3. CASE UNCHANGED files
    BY <2>3 DEF TypeOK
  <2>4. QED
    BY <2>1, <2>2, <2>3
       DEF Next, runInstall, Systemd, Begin, StatConfig, CreateConfig, WriteFails,
           DaemonReload, EnableFirewall, JobDone, EnableDaemon, SystemctlFails, InstEnds,
           UnitUp, UnitStop, JobRuns, JobEnds, OperatorRuns, OperatorEdits, Reboot, vars, ivars
<1>2. inst' \in Insts
  <2>1. NoInst \in Insts
    BY NoInstType
  <2>2. CASE Fill
    BY <1>0, <2>2, ProceedTo DEF Fill
  <2>3. CASE StatConfig
    <3>1. inst.at = 2
      BY <1>0, <2>3, StepsAre DEF StatConfig, Insts
    <3>2. CASE conf = NoFile
      BY <1>0, <2>3, <3>2 DEF StatConfig, Insts
    <3>3. CASE conf # NoFile
      <4>1. inst' = [inst EXCEPT !.at = inst.at + 1, !.torn = (conf = Torn)]
        BY <2>3, <3>3 DEF StatConfig
      <4>2. inst' = [pc |-> inst.pc, at |-> inst.at + 1, torn |-> (conf = Torn)]
        BY <1>0, <4>1 DEF Insts
      <4>3. inst.at + 1 \in 1..4 /\ (conf = Torn) \in BOOLEAN /\ inst.pc = "open"
        BY <2>3, <3>1 DEF StatConfig
      <4>4. QED
        BY <4>2, <4>3 DEF Insts
    <3>4. QED
      BY <3>2, <3>3
  <2>4. CASE runInstall /\ ~Fill /\ ~StatConfig
    BY <1>0, <2>1, <2>4
       DEF runInstall, Begin, OpenFile, CreateConfig, WriteFails, DaemonReload,
           EnableFirewall, JobDone, EnableDaemon, SystemctlFails, InstEnds, InstGoto, Insts
  <2>5. CASE UNCHANGED inst
    BY <1>0, <2>5
  <2>6. CASE Reboot
    BY <2>1, <2>6 DEF Reboot
  <2>7. QED
    BY <2>2, <2>3, <2>4, <2>5, <2>6
       DEF Next, Systemd, UnitUp, UnitStop, JobRuns, JobEnds, OperatorRuns, OperatorEdits,
           vars, ivars
<1>3. /\ unit' \in {"inactive", "starting", "active", "reloading", "stopping"}
      /\ enabled' \subseteq Files
      /\ byHand' \in BOOLEAN
  BY DEF TypeOK, Files, Next, runInstall, Systemd, Begin, OpenFile, StatConfig, CreateConfig, Fill,
         WriteFails, DaemonReload, EnableFirewall, JobDone, EnableDaemon, SystemctlFails,
         InstEnds, UnitUp, UnitStop, JobRuns, JobEnds, OperatorRuns, OperatorEdits, Reboot,
         vars, ivars
<1>4. QED
  BY <1>0, <1>1, <1>2, <1>3 DEF TypeOK, Insts

(* The table, the files, the units and the processes have their types. *)
THEOREM TypeCorrect == Spec => []TypeOK
<1>1. Init => TypeOK
  <2> SUFFICES ASSUME Init PROVE TypeOK
    OBVIOUS
  <2>1. fw \in [Fws -> FwProcs]
    BY NoFwType DEF Init
  <2>2. FwTypeOK
    BY <2>1 DEF Init, FwTypeOK, FwProcs, Tables
  <2>3. inst \in Insts
    BY NoInstType DEF Init
  <2>4. QED
    BY <2>2, <2>3 DEF Init, TypeOK, Insts
<1>2. QED
  BY <1>1, TypeStep, PTL DEF Spec

-----------------------------------------------------------------------------
(* `firewall up` alone.                                                    *)

(* As long as nobody else has changed the table, what was listed is still  *)
(* so when the ruleset is loaded, and the ruleset loaded is in force.      *)
AloneInv ==
  \A p \in Fws : fw[p].alone =>
    /\ fw[p].pc = "load" => (fw[p].present <=> table # Absent)
    /\ fw[p].pc = "verify" => table = fw[p].rs

(* Whoever writes the table, the others are not alone any more. *)
LEMMA SetTableAlone ==
  ASSUME FwTypeOK, AloneInv, NEW p \in Fws, NEW t, NEW to, SetTable(p, t, to),
         to # "load", to = "verify" /\ fw[p].alone => t = fw[p].rs
  PROVE  AloneInv'
<1> SUFFICES ASSUME NEW q \in Fws, fw'[q].alone
             PROVE  /\ fw'[q].pc = "load" => (fw'[q].present <=> table' # Absent)
                    /\ fw'[q].pc = "verify" => table' = fw'[q].rs
  BY DEF AloneInv
<1>1. CASE q = p
  BY <1>1 DEF SetTable, FwTypeOK
<1>2. CASE q # p
  BY <1>2 DEF SetTable, FwTypeOK, AloneInv
<1>3. QED
  BY <1>1, <1>2

(* Every step of a command keeps what it may rely on while it is alone, *)
LEMMA AloneStep ==
  ASSUME FwTypeOK, AloneInv, NEW p \in Fws, FwStep(p)
  PROVE  AloneInv'
<1>1. ASSUME NEW r, fw' = [fw EXCEPT ![p] = r], r.pc \notin {"load", "verify"},
             UNCHANGED table
      PROVE  AloneInv'
  BY <1>1 DEF AloneInv, FwTypeOK
<1>2. CASE UpBegins(p) \/ UpRefuses(p) \/ NftFails(p) \/ FwEnds(p)
  BY <1>1, <1>2 DEF UpBegins, UpRefuses, NftFails, FwEnds, FwFails, NoFw
<1>3. CASE UpVerifies(p) \/ DownBegins(p) \/ DownLists(p)
  BY <1>3 DEF UpVerifies, DownBegins, DownLists, FwGoto, AloneInv, FwTypeOK
<1>4. CASE UpLists(p)
  BY <1>4 DEF UpLists, AloneInv, FwTypeOK
<1>5. CASE UpLoads(p)
  BY <1>5, SetTableAlone DEF UpLoads, AloneInv
<1>6. CASE DownDeletes(p)
  BY <1>6, SetTableAlone DEF DownDeletes
<1>7. QED
  BY <1>2, <1>3, <1>4, <1>5, <1>6 DEF FwStep, Up, Down

(* so that it may, throughout. *)
LEMMA AloneCorrect == Spec => []AloneInv
<1>1. Init => AloneInv
  BY DEF Init, AloneInv, NoFw
<1>2. TypeOK /\ AloneInv /\ [Next]_vars => AloneInv'
  <2> SUFFICES ASSUME TypeOK, AloneInv, [Next]_vars PROVE AloneInv'
    OBVIOUS
  <2>1. CASE Edit \/ ConfigStep
    BY <2>1 DEF Edit, ConfigStep, AloneInv
  <2>2. CASE Reboot
    BY <2>2 DEF Reboot, AloneInv, NoFw
  <2>3. QED
    BY <2>1, <2>2, AloneStep, FwView DEF TypeOK
<1>3. QED
  BY <1>1, <1>2, TypeCorrect, PTL DEF Spec

(* When `firewall up` reports success the table is there, with exactly its *)
(* rules unless another process has changed it meanwhile.                  *)
THEOREM EngagedCorrect == Spec => EngagedIsInForce
<1>1. TypeOK /\ AloneInv /\ [Next]_vars =>
        [\A p \in Fws : fw[p].pc = "verify" /\ fw'[p].pc = "ok" =>
           table # Absent /\ (fw[p].alone => table = fw[p].rs)]_fvars
  <2> SUFFICES ASSUME TypeOK, AloneInv, [Next]_vars, NEW p \in Fws,
                      fw[p].pc = "verify", fw'[p].pc = "ok"
               PROVE  table # Absent /\ (fw[p].alone => table = fw[p].rs)
    BY DEF fvars
  <2>0. FwTypeOK
    BY DEF TypeOK
  <2>1. ASSUME NEW q \in Fws, FwStep(q) PROVE UpVerifies(p)
    <3>1. q = p
      <4>1. CASE UpLoads(q) \/ DownDeletes(q)
        BY <2>0, <4>1 DEF UpLoads, DownDeletes, SetTable, FwTypeOK
      <4>2. CASE ~(UpLoads(q) \/ DownDeletes(q))
        BY <2>0, <2>1, <4>2
           DEF FwStep, Up, Down, UpBegins, UpRefuses, UpLists, UpVerifies, DownBegins, DownLists,
               NftFails, FwEnds, FwFails, FwGoto, FwTypeOK
      <4>3. QED
        BY <4>1, <4>2
    <3>2. QED
      BY <2>0, <2>1, <3>1
         DEF FwStep, Up, Down, UpBegins, UpRefuses, UpLists, UpLoads, DownBegins, DownLists,
             DownDeletes, NftFails, FwEnds, FwFails, FwGoto, FwTypeOK, NoFw
  <2>2. ~(Edit \/ ConfigStep) /\ ~Reboot
    BY DEF Edit, ConfigStep, Reboot, NoFw
  <2>3. UpVerifies(p)
    BY <2>1, <2>2, FwView
  <2>4. QED
    BY <2>3 DEF UpVerifies, AloneInv
<1>2. QED
  BY <1>1, TypeCorrect, AloneCorrect, PTL DEF Spec, EngagedIsInForce

-----------------------------------------------------------------------------
(* The unit and the table.                                                 *)

(* The job is `firewall up` while the unit starts or reloads, `firewall    *)
(* down` while it stops, and there is none otherwise.                      *)
JobInv ==
  /\ unit \in {"inactive", "active"} => fw["job"].pc = "idle"
  /\ unit \in {"starting", "reloading"} =>
       fw["job"].pc \in {"list", "load", "verify", "ok", "failed"}
  /\ unit = "stopping" => fw["job"].pc \in {"listDown", "delete", "ok", "failed"}

(* A job that has verified the table and not ended yet: the table is still *)
(* there, unless somebody has removed it by hand, and in any case if       *)
(* nobody has changed it.                                                  *)
VerifiedInv ==
  unit \in {"starting", "reloading"} /\ fw["job"].pc = "ok" /\ (fw["job"].alone \/ ~byHand)
    => table # Absent

UnitInv == JobInv /\ VerifiedInv /\ UnitTellsTruth

(* Loading a ruleset leaves a table. *)
LEMMA LoadLeavesTable ==
  ASSUME FwTypeOK, NEW p \in Fws, UpLoads(p)
  PROVE  table' # Absent
<1>1. fw[p].rs \in SUBSET UNION Rulesets
  BY DEF FwTypeOK
<1>2. table = Absent \/ table \in SUBSET UNION Rulesets
  BY DEF FwTypeOK, Tables
<1>3. table' \in SUBSET UNION Rulesets
  BY <1>1, <1>2 DEF UpLoads, SetTable
<1>4. QED
  BY <1>3, AbsentAssumption

(* The steps that make no difference to the unit, its job or the table. *)
LEMMA UnitKept ==
  ASSUME UnitInv, UNCHANGED <<table, fw, unit, byHand>>
  PROVE  UnitInv'
BY DEF UnitInv, JobInv, VerifiedInv, UnitTellsTruth

(* The job starts: it loads the files or fails on them. *)
LEMMA JobStarts ==
  ASSUME TypeOK, UpJob
  PROVE  fw'["job"].pc \in {"list", "failed"} /\ table' = table
BY InstallAssumption DEF UpJob, UpBegins, UpRefuses, FwFails, TypeOK, FwTypeOK, NoFw

(* The job that systemd runs keeps what its unit says true, *)
LEMMA JobRunsUnit ==
  ASSUME TypeOK, UnitInv, JobRuns
  PROVE  UnitInv'
<1>0. FwTypeOK /\ "job" \in Fws
  BY InstallAssumption DEF TypeOK
<1>1. UNCHANGED <<unit, byHand>>
  BY DEF JobRuns, ivars
<1> USE DEF UnitInv, JobInv, VerifiedInv, UnitTellsTruth
<1>2. CASE UpLists("job")
  BY <1>0, <1>1, <1>2 DEF UpLists, FwTypeOK
<1>3. CASE UpLoads("job")
  <2>1. fw["job"].pc = "load" /\ fw'["job"].pc = "verify"
    BY <1>0, <1>3 DEF UpLoads, SetTable, FwTypeOK
  <2>2. QED
    BY <1>0, <1>1, <1>3, <2>1, LoadLeavesTable
<1>4. CASE UpVerifies("job")
  BY <1>0, <1>1, <1>4 DEF UpVerifies, FwGoto, FwTypeOK
<1>5. CASE DownLists("job")
  BY <1>0, <1>1, <1>5 DEF DownLists, FwGoto, FwTypeOK
<1>6. CASE DownDeletes("job")
  BY <1>0, <1>1, <1>6 DEF DownDeletes, SetTable, FwTypeOK
<1>7. CASE NftFails("job")
  BY <1>0, <1>1, <1>7 DEF NftFails, FwFails, FwTypeOK, NoFw
<1>8. QED
  BY <1>2, <1>3, <1>4, <1>5, <1>6, <1>7 DEF JobRuns

(* and a command run by hand is remembered as one. *)
LEMMA OperatorUnit ==
  ASSUME TypeOK, UnitInv, OperatorRuns
  PROVE  UnitInv'
<1>0. FwTypeOK /\ "cli" \in Fws /\ "job" \in Fws /\ "cli" # "job"
  BY InstallAssumption DEF TypeOK
<1>1. /\ FwStep("cli") /\ unit' = unit
      /\ byHand' = (byHand \/ (fw["cli"].pc = "delete" /\ table # table' /\ unit # "inactive"))
  BY DEF OperatorRuns
<1> USE DEF UnitInv, JobInv, VerifiedInv, UnitTellsTruth
<1>2. CASE UpLoads("cli")
  <2>1. fw'["job"].pc = fw["job"].pc
    BY <1>0, <1>2 DEF UpLoads, SetTable, FwTypeOK
  <2>2. QED
    BY <1>0, <1>1, <1>2, <2>1, LoadLeavesTable
<1>3. CASE DownDeletes("cli")
  <2>1. /\ fw'["job"].pc = fw["job"].pc
        /\ fw'["job"].alone => fw["job"].pc = "idle"
        /\ byHand' \/ unit' = "inactive"
    BY <1>0, <1>1, <1>3 DEF DownDeletes, SetTable, FwTypeOK
  <2>2. QED
    BY <1>1, <2>1
<1>4. CASE ~(UpLoads("cli") \/ DownDeletes("cli"))
  <2>1. fw'["job"] = fw["job"] /\ table' = table
    BY <1>0, <1>1, <1>4
       DEF FwStep, Up, Down, UpBegins, UpRefuses, UpLists, UpVerifies, DownBegins, DownLists,
           NftFails, FwEnds, FwFails, FwGoto, FwTypeOK
  <2>2. byHand' = byHand
    BY <1>1, <2>1 DEF TypeOK
  <2>3. QED
    BY <1>1, <2>1, <2>2
<1>5. QED
  BY <1>2, <1>3, <1>4

(* Every step keeps the invariant. *)
LEMMA UnitStep == TypeOK /\ UnitInv /\ [Next]_vars => UnitInv'
<1> SUFFICES ASSUME TypeOK, UnitInv, [Next]_vars PROVE UnitInv'
  OBVIOUS
<1> USE DEF JobInv, VerifiedInv, UnitTellsTruth
<1>1. CASE EnableFirewall
  <2>1. CASE unit = "inactive" /\ UpJob /\ unit' = "starting"
    BY <2>1, JobStarts DEF UnitInv
  <2>2. CASE UNCHANGED <<fvars, unit>>
    BY <1>1, <2>2, UnitKept DEF EnableFirewall, fvars
  <2>3. QED
    BY <1>1, <2>1, <2>2 DEF EnableFirewall
<1>2. CASE UnitUp
  BY <1>2, JobStarts DEF UnitUp, UnitInv
<1>3. CASE UnitStop
  <2>1. fw'["job"].pc \in {"listDown", "failed"} /\ table' = table
    BY <1>3, InstallAssumption DEF UnitStop, DownBegins, FwGoto, TypeOK, FwTypeOK
  <2>2. QED
    BY <1>3, <2>1 DEF UnitStop, UnitInv
<1>4. CASE JobRuns
  BY <1>4, JobRunsUnit
<1>5. CASE JobEnds
  <2>1. fw'["job"].pc = "idle" /\ table' = table /\ unit' \in {"active", "inactive"}
    BY <1>5, InstallAssumption DEF JobEnds, FwEnds, TypeOK, FwTypeOK, NoFw
  <2>2. unit' = "active" /\ ~byHand' => table # Absent
    BY <1>5 DEF JobEnds, UnitInv
  <2>3. QED
    BY <2>1, <2>2 DEF UnitInv
<1>6. CASE OperatorRuns
  BY <1>6, OperatorUnit
<1>7. CASE Reboot
  BY <1>7, InstallAssumption DEF Reboot, UnitInv, NoFw
<1>8. CASE UNCHANGED <<table, fw, unit, byHand>>
  BY <1>8, UnitKept
<1>9. QED
  BY <1>1, <1>2, <1>3, <1>4, <1>5, <1>6, <1>7, <1>8
     DEF Next, runInstall, Systemd, Begin, OpenFile, StatConfig, CreateConfig, Fill, WriteFails,
         DaemonReload, JobDone, EnableDaemon, SystemctlFails, InstEnds, OperatorEdits, Edit,
         vars, fvars, ivars

(* While systemd shows the unit active or reloading, the table is there,   *)
(* unless it has been removed by hand.                                     *)
THEOREM UnitCorrect == Spec => []UnitTellsTruth
<1>1. Init => UnitInv
  BY InstallAssumption DEF Init, UnitInv, JobInv, VerifiedInv, UnitTellsTruth, NoFw
<1>2. UnitInv => UnitTellsTruth
  BY DEF UnitInv
<1>3. QED
  BY <1>1, <1>2, UnitStep, TypeCorrect, PTL DEF Spec

-----------------------------------------------------------------------------
(* The installer's files.                                                  *)

Whole(f) == files[f] = "full"

(* What the installer has written before its step `at` is whole, and all   *)
(* of it once it is done with the files; the configuration it has passed   *)
(* loads, or was found torn; and the firewall unit is enabled before the   *)
(* daemon.                                                                 *)
InstInv ==
  /\ inst.pc = "idle" => inst.at = 1
  /\ inst.pc = "create" => inst.at = 2
  /\ inst.pc \in {"open", "create", "fill"} =>
       \A i \in 1..4 : i < inst.at /\ i # 2 => Whole(Steps[i])
  /\ inst.pc \in {"reload", "enable", "wait", "enableDaemon", "ok"} =>
       (\A f \in Files : Whole(f)) /\ inst.at = 4
  /\ inst.pc \notin {"idle", "failed"} /\ inst.at > 2 => Loads(conf) \/ inst.torn
  /\ inst.pc \in {"wait", "enableDaemon"} => "reptile-firewall.service" \in enabled
  /\ enabled \subseteq {"reptile.service", "reptile-firewall.service"}

(* Filling a file completes it, and only then is the next one opened. *)
LEMMA FillInst ==
  ASSUME TypeOK, InstInv, Fill
  PROVE  InstInv'
<1>0. inst \in Insts /\ inst.at \in 1..4
  BY DEF TypeOK, Insts
<1>1. /\ \/ inst.at < 4 /\ inst'.pc = "open" /\ inst'.at = inst.at + 1
         \/ inst.at = 4 /\ inst'.pc \in {"reload", "ok"} /\ inst'.at = 4
      /\ inst'.torn = inst.torn /\ inst.pc = "fill" /\ enabled' = enabled
  BY <1>0, ProceedTo DEF Fill
<1>2. ASSUME NEW i \in 1..4, i <= inst.at, i # 2 PROVE files'[Steps[i]] = "full"
  <2>1. Steps[i] \in Files
    BY <1>2, StepsAre
  <2>2. CASE i = inst.at
    BY <1>2, <2>1, <2>2, StepsAre DEF Fill, TypeOK
  <2>3. CASE i < inst.at
    <3>1. Whole(Steps[i])
      BY <1>1, <1>2, <2>3 DEF InstInv
    <3>2. QED
      BY <2>1, <3>1 DEF Fill, TypeOK, Whole
  <2>4. QED
    BY <1>0, <1>2, <2>2, <2>3
<1>3. inst.at = 4 => \A f \in Files : files'[f] = "full"
  BY <1>2, StepsAre DEF Files
<1>4. inst.at >= 2 => Loads(conf)' \/ inst.torn
  <2>1. CASE inst.at = 2
    BY <2>1, StepsAre, InstallAssumption DEF Fill, Loads
  <2>2. CASE inst.at # 2
    BY <1>0, <1>1, <2>2, StepsAre DEF Fill, InstInv, Loads
  <2>3. QED
    BY <2>1, <2>2
<1>5. QED
  BY <1>0, <1>1, <1>2, <1>3, <1>4 DEF InstInv, Whole

(* Every step keeps the invariant, *)
LEMMA InstStep == TypeOK /\ InstInv /\ [Next]_vars => InstInv'
<1> SUFFICES ASSUME TypeOK, InstInv, [Next]_vars PROVE InstInv'
  OBVIOUS
<1>0. inst \in Insts /\ inst.at \in 1..4
  BY DEF TypeOK, Insts
<1>1. CASE Fill
  BY <1>1, FillInst
<1>2. CASE OpenFile
  <2>1. /\ inst.at # 2 /\ inst'.pc = "fill" /\ inst'.at = inst.at /\ inst'.torn = inst.torn
        /\ inst.pc = "open"
    BY <1>0, <1>2, StepsAre DEF OpenFile, InstGoto, Insts
  <2>2. \A i \in 1..4 : i < inst.at /\ i # 2 => files'[Steps[i]] = files[Steps[i]]
    BY <1>2, <2>1, StepsAre DEF OpenFile, TypeOK, Steps
  <2>3. UNCHANGED <<conf, enabled>>
    BY <1>2 DEF OpenFile, fvars
  <2>4. QED
    BY <1>0, <2>1, <2>2, <2>3 DEF InstInv, Whole, Loads
<1>3. CASE StatConfig
  <2>1. inst.at = 2 /\ inst.pc = "open" /\ UNCHANGED <<files, conf, enabled>>
    BY <1>0, <1>3, StepsAre DEF StatConfig, fvars
  <2>2. CASE conf = NoFile
    BY <1>0, <1>3, <2>1, <2>2 DEF StatConfig, InstInv, Insts, Whole
  <2>3. CASE conf # NoFile
    <3>1. inst'.pc = "open" /\ inst'.at = 3 /\ inst'.torn = (conf = Torn)
      BY <1>0, <1>3, <2>1, <2>3 DEF StatConfig, Insts
    <3>2. Loads(conf') \/ inst'.torn
      BY <2>1, <2>3, <3>1 DEF Loads, TypeOK, FwTypeOK
    <3>3. QED
      BY <2>1, <3>1, <3>2 DEF InstInv, Whole, Loads
  <2>4. QED
    BY <2>2, <2>3
<1>4. CASE CreateConfig
  BY <1>0, <1>4 DEF CreateConfig, InstGoto, InstInv, Insts, Whole
<1>5. CASE Begin
  <2>1. inst'.pc = "open" /\ inst'.at = 1 /\ UNCHANGED <<files, conf, enabled>>
    BY <1>0, <1>5 DEF Begin, InstGoto, Insts, InstInv, fvars
  <2>2. QED
    BY <2>1 DEF InstInv
<1>6. ASSUME inst' = NoInst, enabled' = enabled PROVE InstInv'
  BY <1>6 DEF NoInst, InstInv
<1>7. ASSUME inst'.pc = "failed", enabled' = enabled PROVE InstInv'
  BY <1>7 DEF InstInv
<1>8. CASE WriteFails \/ SystemctlFails
  BY <1>0, <1>7, <1>8 DEF WriteFails, SystemctlFails, Insts
<1>9. CASE InstEnds \/ Reboot
  BY <1>6, <1>9 DEF InstEnds, Reboot
<1>10. ASSUME inst.pc \in {"reload", "enable", "wait", "enableDaemon"},
              inst' = [inst EXCEPT !.pc = inst'.pc],
              inst'.pc \in {"enable", "wait", "enableDaemon", "ok", "failed"},
              inst'.pc \in {"wait", "enableDaemon"} => "reptile-firewall.service" \in enabled',
              enabled' \subseteq {"reptile.service", "reptile-firewall.service"},
              UNCHANGED <<files, conf>>
       PROVE  InstInv'
  <2>1. inst'.at = inst.at /\ inst'.torn = inst.torn
    BY <1>0, <1>10 DEF Insts
  <2>2. QED
    BY <1>10, <2>1 DEF InstInv, Whole, Loads
<1>11. CASE DaemonReload
  BY <1>0, <1>10, <1>11 DEF DaemonReload, InstGoto, InstInv, Insts, fvars
<1>12. CASE EnableFirewall
  <2>1. /\ inst.pc = "enable" /\ inst' = [inst EXCEPT !.pc = inst'.pc]
        /\ inst'.pc \in {"wait", "enableDaemon"}
    BY <1>0, <1>12 DEF EnableFirewall, InstGoto, Insts
  <2>2. UNCHANGED <<files, conf>>
    BY <1>12 DEF EnableFirewall, UpJob, UpBegins, UpRefuses, fvars
  <2>3. QED
    BY <1>10, <1>12, <2>1, <2>2 DEF EnableFirewall, InstInv
<1>13. CASE JobDone
  BY <1>0, <1>10, <1>13 DEF JobDone, InstGoto, InstInv, Insts, fvars
<1>14. CASE EnableDaemon
  BY <1>0, <1>10, <1>14 DEF EnableDaemon, InstGoto, InstInv, Insts, fvars
<1>15. ASSUME UNCHANGED <<files, inst, enabled>>, conf' \in Configs \cup {conf} PROVE InstInv'
  BY <1>15 DEF InstInv, Whole, Loads
<1>16. CASE Systemd \/ OperatorRuns
  BY <1>15, <1>16
     DEF Systemd, UnitUp, UnitStop, JobRuns, JobEnds, OperatorRuns, UpJob, FwStep, Up, Down,
         UpBegins, UpRefuses, UpLists, UpLoads, UpVerifies, DownBegins, DownLists, DownDeletes,
         NftFails, FwEnds, SetTable, ivars
<1>17. CASE OperatorEdits \/ UNCHANGED vars
  BY <1>15, <1>17 DEF OperatorEdits, Edit, vars, fvars, ivars
<1>18. QED
  BY <1>1, <1>2, <1>3, <1>4, <1>5, <1>8, <1>9, <1>11, <1>12, <1>13, <1>14, <1>16, <1>17
     DEF Next, runInstall

(* so it holds throughout. *)
LEMMA InstCorrect == Spec => []InstInv
<1>1. Init => InstInv
  BY DEF Init, InstInv, NoInst
<1>2. QED
  BY <1>1, InstStep, TypeCorrect, PTL DEF Spec

(* An installation that reports success is complete, after any number of   *)
(* runs that were killed or failed half way.                               *)
THEOREM InstallCorrect == Spec => SuccessIsComplete
<1>1. TypeOK /\ InstInv /\ [Next]_vars =>
        [inst.pc # "ok" /\ inst'.pc = "ok" =>
           /\ \A f \in Files : files'[f] = "full"
           /\ inst.pc = "enableDaemon" =>
                enabled' = {"reptile.service", "reptile-firewall.service"}
           /\ Loads(conf') \/ inst.torn]_vars
  <2> SUFFICES ASSUME TypeOK, InstInv, Next, inst.pc # "ok", inst'.pc = "ok"
               PROVE  /\ \A f \in Files : files'[f] = "full"
                      /\ inst.pc = "enableDaemon" =>
                           enabled' = {"reptile.service", "reptile-firewall.service"}
                      /\ Loads(conf') \/ inst.torn
    BY DEF vars, ivars
  <2>0. inst \in Insts /\ inst.at \in 1..4
    BY DEF TypeOK, Insts
  <2>1. InstInv'
    BY InstStep
  <2>2. \A f \in Files : files'[f] = "full"
    BY <2>1 DEF InstInv, Whole
  <2>3. inst'.torn = inst.torn
    <3>1. CASE Fill
      BY <2>0, <3>1, ProceedTo DEF Fill
    <3>2. CASE EnableDaemon
      BY <2>0, <3>2 DEF EnableDaemon, InstGoto, Insts
    <3>3. CASE StatConfig
      BY <2>0, <3>3 DEF StatConfig, Insts
    <3>4. CASE runInstall /\ ~Fill /\ ~EnableDaemon /\ ~StatConfig
      BY <2>0, <3>4
         DEF runInstall, Begin, OpenFile, CreateConfig, WriteFails, DaemonReload,
             EnableFirewall, JobDone, SystemctlFails, InstEnds, InstGoto, NoInst, Insts
    <3>5. CASE ~runInstall
      BY <3>5 DEF Next, Systemd, UnitUp, UnitStop, JobRuns, JobEnds, OperatorRuns,
                  OperatorEdits, Reboot, NoInst, ivars
    <3>6. QED
      BY <3>1, <3>2, <3>3, <3>4, <3>5
  <2>4. Loads(conf') \/ inst.torn
    BY <2>1, <2>3 DEF InstInv, Loads
  <2>5. ASSUME inst.pc = "enableDaemon"
        PROVE  enabled' = {"reptile.service", "reptile-firewall.service"}
    <3>1. EnableDaemon
      BY <2>0, <2>5
         DEF Next, runInstall, Begin, OpenFile, StatConfig, CreateConfig, Fill, WriteFails,
             DaemonReload, EnableFirewall, JobDone, SystemctlFails, InstEnds, InstGoto, NoInst,
             Insts, Systemd, UnitUp, UnitStop, JobRuns, JobEnds, OperatorRuns, OperatorEdits,
             Reboot, ivars
    <3>2. QED
      BY <2>5, <3>1 DEF EnableDaemon, InstInv
  <2>6. QED
    BY <2>2, <2>4, <2>5
<1>2. QED
  BY <1>1, InstCorrect, TypeCorrect, PTL DEF Spec, SuccessIsComplete
=============================================================================
