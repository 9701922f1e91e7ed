-------------------------- MODULE ConfigFileProofs ---------------------------
(***************************************************************************)
(* Proofs about ConfigFile, for any number of concurrent `config set`,     *)
(* any keys and values, and any file system.                               *)
(***************************************************************************)
EXTENDS ConfigFile, TLAPS

Reports == [ok: BOOLEAN, applied: SUBSET Keys, restart: SUBSET Keys, firewall: SUBSET Keys]
CliStates == [pc: {"idle", "open", "write", "rename", "reload", "done"},
              new: Contents, fd: Inodes \cup {NoInode}, report: Reports]

-----------------------------------------------------------------------------
(* The operators.                                                          *)

(* The values a writer starts with. *)
LEMMA NoCliType == NoCli \in CliStates /\ NoReport \in Reports
<1>1. NoReport \in Reports
  BY DEF NoReport, Reports
<1>2. QED
  BY <1>1 DEF NoCli, CliStates, Contents

(* classifyReload yields a report. *)
LEMMA ClassifyType ==
  ASSUME NEW changed \in SUBSET Keys
  PROVE  Classify(changed) \in Reports
BY DEF Classify, Reports

(* What a reload makes of a valid file is valid, and keeps the keys that   *)
(* need a restart.                                                         *)
LEMMA EffectiveValid ==
  ASSUME NEW new \in Configs, NEW old \in Configs
  PROVE  /\ Effective(new, old) \in Configs
         /\ \A k \in Keys \cap daemonRestartKeys : Effective(new, old)[k] = old[k]
BY DEF Effective, Configs

(* The changes that a reload leaves pending are the restart-only ones, all *)
(* of which classifyReload lists.                                          *)
LEMMA EffectivePending ==
  ASSUME NEW new \in Configs, NEW old \in Configs
  PROVE  diffKeys(Effective(new, old), new) \subseteq Classify(diffKeys(old, new)).restart
BY DEF Effective, Classify, diffKeys

-----------------------------------------------------------------------------
(* Types.                                                                  *)

(* A writer's step writes its own locals only. *)
LEMMA SetsType ==
  ASSUME TypeOK, NEW w \in Clis, NEW to \in CliStates, cli' = [cli EXCEPT ![w] = to]
  PROVE  cli' \in [Clis -> CliStates]
BY DEF TypeOK, CliStates, Reports

(* Every step keeps the types. *)
LEMMA TypeStep == TypeOK /\ [Next]_cfvars => TypeOK'
<1> SUFFICES ASSUME TypeOK, [Next]_cfvars PROVE TypeOK'
  OBVIOUS
<1>0. cli \in [Clis -> CliStates]
  BY DEF TypeOK, CliStates, Reports
<1>1. ASSUME cli' \in [Clis -> CliStates], UNCHANGED <<content, path, tmp, overlapped>>,
             daemon' \in Configs
      PROVE  TypeOK'
  BY <1>1 DEF TypeOK, CliStates, Reports
<1>2. ASSUME NEW w \in Clis, NEW edit, Prepare(w, edit) PROVE TypeOK'
  <2>1. [NoCli EXCEPT !.pc = "open", !.new = Edited(File, edit)] \in CliStates
    BY <1>2, NoCliType DEF Prepare, CliStates, Contents
  <2>2. QED
    BY <1>1, <1>2, <2>1, SetsType DEF Prepare, Sets, TypeOK
<1>3. [NoCli EXCEPT !.pc = "done"] \in CliStates
  BY NoCliType DEF CliStates
<1>4. ASSUME NEW w \in Clis, NEW edit,
             Refuse(w, edit) \/ RenameFails(w) \/ ReloadFails(w)
      PROVE  TypeOK'
  BY <1>1, <1>3, <1>4, SetsType DEF Refuse, RenameFails, ReloadFails, Sets, TypeOK
<1>5. ASSUME NEW w \in Clis, Die(w) PROVE TypeOK'
  BY <1>1, <1>5, NoCliType, SetsType DEF Die, TypeOK
<1>6. ASSUME NEW w \in Clis, OpenTmp(w) PROVE TypeOK'
  <2>1. PICK i \in Inodes :
          /\ cli' = [cli EXCEPT ![w] = [cli[w] EXCEPT !.pc = "write", !.fd = i]]
          /\ tmp' = i
          /\ content' = [content EXCEPT ![i] = Empty]
          /\ overlapped' = (overlapped \/ OthersSaving(w))
          /\ UNCHANGED <<path, daemon>>
    BY <1>6 DEF OpenTmp, Sets
  <2>2. [cli[w] EXCEPT !.pc = "write", !.fd = i] \in CliStates
    BY <1>0 DEF CliStates
  <2>3. cli' \in [Clis -> CliStates]
    BY <2>1, <2>2, SetsType
  <2>4. content' \in [Inodes -> Contents]
    BY <2>1 DEF TypeOK, Contents
  <2>5. overlapped' \in BOOLEAN
    BY <2>1 DEF TypeOK
  <2>6. QED
    BY <2>1, <2>3, <2>4, <2>5 DEF TypeOK, CliStates, Reports
<1>7. ASSUME NEW w \in Clis, WriteTmp(w) PROVE TypeOK'
  <2>1. [cli[w] EXCEPT !.pc = "rename", !.fd = NoInode] \in CliStates
    BY <1>0 DEF CliStates
  <2>2. cli' \in [Clis -> CliStates]
    BY <1>7, <2>1, SetsType DEF WriteTmp, Sets
  <2>3. cli[w].new \in Contents /\ Torn \in Contents
    BY <1>0 DEF CliStates, Contents
  <2>4. content' \in [Inodes -> Contents]
    BY <1>7, <2>3 DEF WriteTmp, TypeOK
  <2>5. QED
    BY <1>7, <2>2, <2>4 DEF WriteTmp, TypeOK, CliStates, Reports
<1>8. ASSUME NEW w \in Clis, WriteFails(w) PROVE TypeOK'
  <2>1. cli' \in [Clis -> CliStates]
    BY <1>3, <1>8, SetsType DEF WriteFails, Sets
  <2>2. content' \in [Inodes -> Contents]
    BY <1>8 DEF WriteFails, TypeOK, Contents
  <2>3. QED
    BY <1>8, <2>1, <2>2 DEF WriteFails, TypeOK, CliStates, Reports
<1>9. ASSUME NEW w \in Clis, RenameTmp(w) PROVE TypeOK'
  <2>1. [cli[w] EXCEPT !.pc = "reload"] \in CliStates
    BY <1>0 DEF CliStates
  <2>2. cli' \in [Clis -> CliStates]
    BY <1>9, <2>1, SetsType DEF RenameTmp, Sets
  <2>3. QED
    BY <1>9, <2>2 DEF RenameTmp, TypeOK, CliStates, Reports
<1>10. ASSUME NEW w \in Clis, ReloadDaemon(w) \/ ReloadUnanswered(w) PROVE TypeOK'
  <2>1. daemon' \in Configs
    BY <1>10, EffectiveValid DEF ReloadDaemon, ReloadUnanswered, Loads, TypeOK
  <2>2. Classify(diffKeys(daemon, File)) \in Reports
    BY ClassifyType DEF diffKeys
  <2>3. [NoCli EXCEPT !.pc = "done", !.report = Classify(diffKeys(daemon, File))] \in CliStates
    BY <2>2, NoCliType DEF CliStates
  <2>4. QED
    BY <1>1, <1>3, <1>10, <2>1, <2>3, SetsType DEF ReloadDaemon, ReloadUnanswered, Sets
<1>11. CASE RestartDaemon
  BY <1>0, <1>1, <1>11 DEF RestartDaemon, Loads
<1>12. CASE UNCHANGED cfvars
  BY <1>0, <1>1, <1>12 DEF cfvars, TypeOK
<1>13. QED
  BY <1>2, <1>4, <1>5, <1>6, <1>7, <1>8, <1>9, <1>10, <1>11, <1>12 DEF Next

(* Inodes, processes and the daemon's configuration have their types: in   *)
(* particular the daemon always runs a valid configuration.                *)
THEOREM TypeCorrect == Spec => []TypeOK
<1>1. Init => TypeOK
  <2> SUFFICES ASSUME Init PROVE TypeOK
    OBVIOUS
  <2>1. cli \in [Clis -> CliStates]
    BY NoCliType DEF Init
  <2>2. content \in [Inodes -> Contents]
    BY DEF Init, Contents
  <2>3. QED
    BY <2>1, <2>2 DEF Init, TypeOK, CliStates, Reports
<1>2. QED
  BY <1>1, TypeStep, PTL DEF Spec

-----------------------------------------------------------------------------
(* The file.                                                               *)

Saving(w) == cli[w].pc \in {"write", "rename"}

(* The temporary file is never the configuration file, and only a valid    *)
(* configuration is ever saved.                                            *)
TmpInv ==
  /\ tmp # path
  /\ \A w \in Clis : cli[w].pc \in {"open", "write", "rename"} => cli[w].new \in Configs

(* Without overlap one process saves at a time: it alone has the temporary *)
(* file open, which is empty until it has written all of it.               *)
LoneInv ==
  ~overlapped =>
    /\ File \in Configs
    /\ \A v, w \in Clis : Saving(v) /\ Saving(w) => v = w
    /\ \A w \in Clis : Saving(w) => tmp # NoInode
    /\ \A w \in Clis : cli[w].pc = "write" => cli[w].fd = tmp /\ content[tmp] = Empty
    /\ \A w \in Clis : cli[w].pc = "rename" => content[tmp] = cli[w].new

FileInv == TmpInv /\ LoneInv

(* Every step keeps what relates the writers to the file. *)
LEMMA FileStep == TypeOK /\ FileInv /\ [Next]_cfvars => FileInv'
<1> SUFFICES ASSUME TypeOK, FileInv, [Next]_cfvars PROVE FileInv'
  OBVIOUS
<1>0. cli \in [Clis -> CliStates]
  BY DEF TypeOK, CliStates, Reports
<1> USE DEF FileInv, TmpInv, LoneInv, Saving, File
<1>1. ASSUME NEW w \in Clis, NEW to, cli' = [cli EXCEPT ![w] = to],
             UNCHANGED <<content, path, tmp, overlapped>>,
             to.pc \in {"idle", "open", "done"}, to.pc = "open" => to.new \in Configs
      PROVE  FileInv'
  BY <1>0, <1>1
<1>2. ASSUME NEW w \in Clis, NEW edit,
             \/ Prepare(w, edit) \/ Refuse(w, edit) \/ RenameFails(w) \/ ReloadDaemon(w)
             \/ ReloadUnanswered(w) \/ ReloadFails(w) \/ Die(w)
      PROVE  FileInv'
  BY <1>1, <1>2
     DEF Prepare, Refuse, RenameFails, ReloadDaemon, ReloadUnanswered, ReloadFails, Die, Sets,
         NoCli
<1>3. ASSUME NEW w \in Clis, OpenTmp(w) PROVE FileInv'
  <2>1. PICK i \in Inodes :
          /\ IF tmp = NoInode THEN Unused(i) ELSE i = tmp
          /\ cli[w].pc = "open"
          /\ cli' = [cli EXCEPT ![w] = [cli[w] EXCEPT !.pc = "write", !.fd = i]]
          /\ tmp' = i
          /\ content' = [content EXCEPT ![i] = Empty]
          /\ overlapped' = (overlapped \/ OthersSaving(w))
          /\ UNCHANGED <<path, daemon>>
    BY <1>3 DEF OpenTmp, Sets
  <2>2. i # path
    BY <2>1 DEF Unused
  <2>3. /\ cli'[w].pc = "write" /\ cli'[w].fd = i /\ cli'[w].new = cli[w].new
        /\ \A v \in Clis : v # w => cli'[v] = cli[v]
    BY <1>0, <2>1 DEF CliStates
  <2>4. TmpInv'
    BY <2>1, <2>2, <2>3
  <2>5. ASSUME ~overlapped' PROVE \A v \in Clis : Saving(v)' => v = w
    BY <2>1, <2>3, <2>5 DEF OthersSaving
  <2>6. LoneInv'
    <3> SUFFICES ASSUME ~overlapped' PROVE LoneInv'
      OBVIOUS
    <3>1. ~overlapped
      BY <2>1 DEF TypeOK
    <3>2. content'[i] = Empty /\ content'[path] = content[path]
      BY <2>1, <2>2 DEF TypeOK
    <3>3. i # NoInode
      BY ConfigFileAssumption
    <3>4. QED
      BY <2>1, <2>3, <2>5, <3>1, <3>2, <3>3
  <2>7. QED
    BY <2>4, <2>6
<1>4. ASSUME NEW w \in Clis, WriteTmp(w) PROVE FileInv'
  <2>1. /\ cli[w].pc = "write" /\ cli'[w].pc = "rename" /\ cli'[w].new = cli[w].new
        /\ \A v \in Clis : v # w => cli'[v] = cli[v]
        /\ UNCHANGED <<path, tmp, overlapped>>
    BY <1>0, <1>4 DEF WriteTmp, Sets, CliStates
  <2>2. TmpInv'
    BY <2>1
  <2>3. LoneInv'
    <3> SUFFICES ASSUME ~overlapped PROVE LoneInv'
      BY <2>1
    <3>1. cli[w].fd = tmp /\ content[tmp] = Empty /\ tmp \in Inodes
      BY <2>1 DEF TypeOK
    <3>2. content' = [content EXCEPT ![tmp] = cli[w].new]
      BY <1>4, <3>1 DEF WriteTmp
    <3>3. content'[tmp] = cli[w].new /\ content'[path] = content[path]
      BY <3>1, <3>2 DEF TypeOK
    <3>4. QED
      BY <2>1, <3>3
  <2>4. QED
    BY <2>2, <2>3
<1>5. ASSUME NEW w \in Clis, WriteFails(w) PROVE FileInv'
  <2>1. /\ cli[w].pc = "write" /\ cli'[w].pc = "done"
        /\ \A v \in Clis : v # w => cli'[v] = cli[v]
        /\ UNCHANGED <<path, tmp, overlapped>>
    BY <1>0, <1>5 DEF WriteFails, Sets, NoCli
  <2>2. TmpInv'
    BY <2>1
  <2>3. LoneInv'
    <3> SUFFICES ASSUME ~overlapped PROVE LoneInv'
      BY <2>1
    <3>1. content'[path] = content[path]
      BY <1>5, <2>1 DEF WriteFails, TypeOK
    <3>2. \A v \in Clis : ~Saving(v)'
      BY <2>1
    <3>3. QED
      BY <2>1, <3>1, <3>2
  <2>4. QED
    BY <2>2, <2>3
<1>6. ASSUME NEW w \in Clis, RenameTmp(w) PROVE FileInv'
  <2>1. /\ cli[w].pc = "rename" /\ cli'[w].pc = "reload"
        /\ \A v \in Clis : v # w => cli'[v] = cli[v]
        /\ UNCHANGED <<content, overlapped>>
        /\ path' = tmp /\ tmp' = NoInode /\ tmp # NoInode
    BY <1>0, <1>6 DEF RenameTmp, Sets, CliStates
  <2>2. TmpInv'
    BY <2>1
  <2>3. LoneInv'
    <3> SUFFICES ASSUME ~overlapped PROVE LoneInv'
      BY <2>1
    <3>1. content[tmp] \in Configs
      BY <2>1
    <3>2. \A v \in Clis : ~Saving(v)'
      BY <2>1
    <3>3. QED
      BY <2>1, <3>1, <3>2
  <2>4. QED
    BY <2>2, <2>3
<1>7. CASE RestartDaemon \/ UNCHANGED cfvars
  BY <1>7 DEF RestartDaemon, cfvars
<1>8. QED
  BY <1>2, <1>3, <1>4, <1>5, <1>6, <1>7 DEF Next

(* The file is replaced atomically as long as no two `config set` overlap, *)
(* whatever temporary files crashed ones have left.                        *)
THEOREM AtomicityCorrect == Spec => []LoneWritersAreAtomic
<1>1. Init => FileInv
  BY ConfigFileAssumption DEF Init, FileInv, TmpInv, LoneInv, Saving, File, NoCli
<1>2. FileInv => LoneWritersAreAtomic
  BY DEF FileInv, LoneInv, LoneWritersAreAtomic, FileAlwaysLoads, Loads
<1>3. QED
  BY <1>1, <1>2, FileStep, TypeCorrect, PTL DEF Spec

-----------------------------------------------------------------------------
(* The daemon.                                                             *)

(* A reload gives the daemon a valid configuration, whatever has become of *)
(* the file, and moves no key that needs a restart.                        *)
THEOREM ReloadCorrect == Spec => DaemonStaysValid
<1>1. TypeOK /\ [Next]_cfvars =>
        [daemon' # daemon =>
           /\ daemon' \in Configs
           /\ cli' # cli => \A k \in Keys \cap daemonRestartKeys : daemon'[k] = daemon[k]]_cfvars
  <2> SUFFICES ASSUME TypeOK, Next, daemon' # daemon
               PROVE  /\ daemon' \in Configs
                      /\ cli' # cli =>
                           \A k \in Keys \cap daemonRestartKeys : daemon'[k] = daemon[k]
    BY DEF cfvars
  <2>1. CASE RestartDaemon
    BY <2>1 DEF RestartDaemon, Loads
  <2>2. ASSUME NEW w \in Clis, ReloadDaemon(w) \/ ReloadUnanswered(w)
        PROVE  /\ daemon' \in Configs
               /\ \A k \in Keys \cap daemonRestartKeys : daemon'[k] = daemon[k]
    BY <2>2, EffectiveValid DEF ReloadDaemon, ReloadUnanswered, Loads, TypeOK
  <2>3. QED
    BY <2>1, <2>2
       DEF Next, Prepare, Refuse, OpenTmp, WriteTmp, WriteFails, RenameTmp, RenameFails, ReloadFails,
           Die
<1>2. QED
  BY <1>1, TypeCorrect, PTL DEF Spec, DaemonStaysValid

(* A reload that reports success lists every saved key the daemon does not *)
(* run with as one that needs a restart.                                   *)
THEOREM ReportCorrect == Spec => PendingIsReported
<1>1. TypeOK /\ [Next]_cfvars =>
        [\A w \in Clis : ~cli[w].report.ok /\ cli'[w].report.ok =>
           diffKeys(daemon', File) \subseteq cli'[w].report.restart]_cfvars
  <2> SUFFICES ASSUME TypeOK, Next, NEW w \in Clis, ~cli[w].report.ok, cli'[w].report.ok
               PROVE  diffKeys(daemon', File) \subseteq cli'[w].report.restart
    BY DEF cfvars
  <2>0. cli \in [Clis -> CliStates]
    BY DEF TypeOK, CliStates, Reports
  <2>1. ASSUME NEW v \in Clis, NEW to, cli' = [cli EXCEPT ![v] = to], ~to.report.ok
        PROVE  FALSE
    BY <2>0, <2>1
  <2>2. ASSUME NEW v \in Clis, NEW to, cli' = [cli EXCEPT ![v] = to],
               to.report = cli[v].report
        PROVE  FALSE
    BY <2>0, <2>2
  <2>3. ASSUME NEW v \in Clis, NEW edit,
               \/ Prepare(v, edit) \/ Refuse(v, edit) \/ WriteFails(v) \/ RenameFails(v)
               \/ ReloadUnanswered(v) \/ ReloadFails(v) \/ Die(v)
        PROVE  FALSE
    <3>1. /\ ~NoCli.report.ok /\ ~[NoCli EXCEPT !.pc = "done"].report.ok
          /\ ~[NoCli EXCEPT !.pc = "open", !.new = Edited(File, edit)].report.ok
      BY DEF NoCli, NoReport
    <3>2. QED
      BY <2>1, <2>3, <3>1
         DEF Prepare, Refuse, WriteFails, RenameFails, ReloadUnanswered, ReloadFails, Die, Sets
  <2>4. ASSUME NEW v \in Clis, OpenTmp(v) \/ WriteTmp(v) \/ RenameTmp(v) PROVE FALSE
    <3>1. /\ \A i : [cli[v] EXCEPT !.pc = "write", !.fd = i].report = cli[v].report
          /\ [cli[v] EXCEPT !.pc = "rename", !.fd = NoInode].report = cli[v].report
          /\ [cli[v] EXCEPT !.pc = "reload"].report = cli[v].report
      BY <2>0 DEF CliStates
    <3>2. QED
      BY <2>2, <2>4, <3>1 DEF OpenTmp, WriteTmp, RenameTmp, Sets
  <2>5. ASSUME NEW v \in Clis, ReloadDaemon(v)
        PROVE  diffKeys(daemon', File) \subseteq cli'[w].report.restart
    <3>1. v = w
      BY <2>0, <2>5 DEF ReloadDaemon, Sets
    <3>2. cli'[w].report = Classify(diffKeys(daemon, File)) /\ daemon' = Effective(File, daemon)
      BY <2>0, <2>5, <3>1 DEF ReloadDaemon, Sets, NoCli
    <3>3. QED
      BY <2>5, <3>2, EffectivePending DEF ReloadDaemon, Loads, TypeOK
  <2>6. QED
    BY <2>3, <2>4, <2>5 DEF Next, RestartDaemon
<1>2. QED
  BY <1>1, TypeCorrect, PTL DEF Spec, PendingIsReported
=============================================================================
