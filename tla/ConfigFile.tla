----------------------------- MODULE ConfigFile -----------------------------
(***************************************************************************)
(* `reptile config set` (runConfig in main.go, SetConfigFileKeys and       *)
(* diffKeys in config_ops.go, LoadConfig and Validate in config.go): CLI   *)
(* processes that read the configuration file, write a changed copy to     *)
(* path + ".tmp", rename it over the file and ask the daemon to reload.    *)
(*                                                                         *)
(* The file system is modelled by inodes, because the temporary file has   *)
(* one fixed name: two processes may hold the same inode open, and rename  *)
(* may move an inode another process is still writing.                     *)
(***************************************************************************)
EXTENDS Naturals, FiniteSets

CONSTANTS
  Clis,          \* concurrent `config set` processes
  Inodes, NoInode,
  Keys, Values,  \* a configuration maps keys to values
  BadValue,      \* the value that applyKey or Validate rejects
  Empty,         \* the content of a file truncated and not yet written
  Torn           \* part of a configuration, or parts of two

Configs == [Keys -> Values]

(* main.go's daemonRestartKeys and firewallReloadKeys *)
daemonRestartKeys == {"interface", "socket_path", "log_file"}
firewallReloadKeys == {"interface", "wg_conf", "extra_accept"}

ASSUME ConfigFileAssumption ==
  /\ NoInode \notin Inodes
  /\ BadValue \notin Values
  /\ Empty \notin Configs /\ Torn \notin Configs
  /\ Cardinality(Inodes) > Cardinality(Clis) + 1

VARIABLES
  content,   \* what each inode holds
  path,      \* the inode of the configuration file
  tmp,       \* the inode of path + ".tmp", or NoInode
  cli,       \* per process: pc, the configuration to save, its open inode,
             \* and the lists it printed
  daemon,    \* the running configuration (Live)
  overlapped \* history: a temporary file was opened while another process
             \* was between opening and renaming it

cfvars == <<content, path, tmp, cli, daemon, overlapped>>

Contents == Configs \cup {Empty, Torn}

NoReport == [ok |-> FALSE, applied |-> {}, restart |-> {}, firewall |-> {}]
NoCli == [pc |-> "idle", new |-> Empty, fd |-> NoInode, report |-> NoReport]

TypeOK ==
  /\ content \in [Inodes -> Contents]
  /\ path \in Inodes
  /\ tmp \in Inodes \cup {NoInode}
  /\ cli \in [Clis ->
       [pc: {"idle", "open", "write", "rename", "reload", "done"},
        new: Contents, fd: Inodes \cup {NoInode},
        report: [ok: BOOLEAN, applied: SUBSET Keys, restart: SUBSET Keys,
                 firewall: SUBSET Keys]]]
  /\ daemon \in Configs
  /\ overlapped \in BOOLEAN

-----------------------------------------------------------------------------
File == content[path]

(* LoadConfig: DisallowUnknownFields and the trailing-data check make it   *)
(* fail on anything but one complete configuration.                        *)
Loads(c) == c \in Configs

diffKeys(old, new) == {k \in Keys : old[k] # new[k]}

(* Mutant: each key in one list only. *)
ClassifyOnce(changed) ==
  [ok |-> TRUE,
   applied  |-> changed \ (daemonRestartKeys \cup firewallReloadKeys),
   restart  |-> (changed \cap daemonRestartKeys) \ firewallReloadKeys,
   firewall |-> changed \cap firewallReloadKeys]
(* classifyReload *)
Classify(changed) ==
  [ok |-> TRUE,
   applied  |-> changed \ (daemonRestartKeys \cup firewallReloadKeys),
   restart  |-> changed \cap daemonRestartKeys,
   firewall |-> changed \cap firewallReloadKeys]

Edited(c, edit) == [k \in Keys |-> IF k \in DOMAIN edit THEN edit[k] ELSE c[k]]

(* Mutant: restart-only keys not kept. *)
EffectiveUnpinned(new, old) == new
(* makeReloader: the restart-only keys keep their running values. *)
Effective(new, old) ==
  [k \in Keys |-> IF k \in daemonRestartKeys THEN old[k] ELSE new[k]]

-----------------------------------------------------------------------------
(* One `reptile config set key value ...`.                                 *)

Sets(w, from, to) == cli[w].pc = from /\ cli' = [cli EXCEPT ![w] = to]

(* Mutant: without Validate. *)
PrepareUnvalidated(w, edit) ==
  /\ Loads(File)
  /\ Sets(w, "idle", [NoCli EXCEPT !.pc = "open", !.new = Edited(File, edit)])
  /\ UNCHANGED <<content, path, tmp, daemon, overlapped>>
(* LoadConfig, applyKey for each pair, Validate: only a completely valid   *)
(* result is taken further.                                                *)
Prepare(w, edit) ==
  /\ Loads(File)
  /\ Edited(File, edit) \in Configs
  /\ Sets(w, "idle", [NoCli EXCEPT !.pc = "open", !.new = Edited(File, edit)])
  /\ UNCHANGED <<content, path, tmp, daemon, overlapped>>

(* The file does not load, or a value is rejected: nothing is written.     *)
Refuse(w, edit) ==
  /\ Loads(File) => Edited(File, edit) \notin Configs
  /\ Sets(w, "idle", [NoCli EXCEPT !.pc = "done"])
  /\ UNCHANGED <<content, path, tmp, daemon, overlapped>>

OthersSaving(w) == \E v \in Clis \ {w} : cli[v].pc \in {"write", "rename"}

Unused(i) == i # path /\ i # tmp /\ \A w \in Clis : cli[w].fd # i

(* Mutant: the file written in place. *)
OpenPath(w) ==
  /\ Sets(w, "open", [cli[w] EXCEPT !.pc = "write", !.fd = path])
  /\ content' = [content EXCEPT ![path] = Empty]
  /\ overlapped' = (overlapped \/ OthersSaving(w))
  /\ UNCHANGED <<path, tmp, daemon>>

(* os.WriteFile(tmp, ...): open with O_CREATE and O_TRUNC ... *)
OpenTmp(w) ==
  \E i \in Inodes :
    /\ IF tmp = NoInode THEN Unused(i) ELSE i = tmp
    /\ Sets(w, "open", [cli[w] EXCEPT !.pc = "write", !.fd = i])
    /\ tmp' = i
    /\ content' = [content EXCEPT ![i] = Empty]
    /\ overlapped' = (overlapped \/ OthersSaving(w))
    /\ UNCHANGED <<path, daemon>>

(* ... write from offset 0: over another's bytes, a shorter text leaves    *)
(* the other's tail.                                                       *)
WriteTmp(w) ==
  /\ Sets(w, "write", [cli[w] EXCEPT !.pc = "rename", !.fd = NoInode])
  /\ \E c \in {cli[w].new, Torn} :
       /\ c = Torn => content[cli[w].fd] \notin {Empty, cli[w].new}
       /\ content' = [content EXCEPT ![cli[w].fd] = c]
  /\ UNCHANGED <<path, tmp, daemon, overlapped>>

(* The disk is full, or the process dies in mid-write. *)
WriteFails(w) ==
  /\ Sets(w, "write", [NoCli EXCEPT !.pc = "done"])
  /\ content' = [content EXCEPT ![cli[w].fd] = Torn]
  /\ UNCHANGED <<path, tmp, daemon, overlapped>>

RenameTmp(w) ==
  /\ tmp # NoInode
  /\ Sets(w, "rename", [cli[w] EXCEPT !.pc = "reload"])
  /\ path' = tmp
  /\ tmp' = NoInode
  /\ UNCHANGED <<content, daemon, overlapped>>

(* Another process has renamed it away: ENOENT. *)
RenameFails(w) ==
  /\ tmp = NoInode
  /\ Sets(w, "rename", [NoCli EXCEPT !.pc = "done"])
  /\ UNCHANGED <<content, path, tmp, daemon, overlapped>>

(* The daemon's reload (in one step here; Daemon.tla has its steps). *)
ReloadDaemon(w) ==
  /\ Loads(File)
  /\ daemon' = Effective(File, daemon)
  /\ Sets(w, "reload", [NoCli EXCEPT !.pc = "done",
                                     !.report = Classify(diffKeys(daemon, File))])
  /\ UNCHANGED <<content, path, tmp, overlapped>>

(* It reloads, but the answer misses the client's deadline. *)
ReloadUnanswered(w) ==
  /\ Loads(File)
  /\ daemon' = Effective(File, daemon)
  /\ Sets(w, "reload", [NoCli EXCEPT !.pc = "done"])
  /\ UNCHANGED <<content, path, tmp, overlapped>>

(* The daemon refuses the file, or does not answer: "applies on next start" *)
ReloadFails(w) ==
  /\ Sets(w, "reload", [NoCli EXCEPT !.pc = "done"])
  /\ UNCHANGED <<content, path, tmp, daemon, overlapped>>

(* The process has ended, or is killed before it has opened or after it    *)
(* has closed the temporary file.                                          *)
Die(w) ==
  /\ cli[w].pc \in {"open", "rename", "reload", "done"}
  /\ cli' = [cli EXCEPT ![w] = NoCli]
  /\ UNCHANGED <<content, path, tmp, daemon, overlapped>>

(* The daemon is restarted: it refuses to start on a file that does not    *)
(* load.                                                                   *)
RestartDaemon ==
  /\ Loads(File)
  /\ daemon' = File
  /\ UNCHANGED <<content, path, tmp, cli, overlapped>>

-----------------------------------------------------------------------------
Init ==
  /\ daemon \in Configs
  /\ path \in Inodes
  /\ content = [i \in Inodes |-> IF i = path THEN daemon ELSE Empty]
  /\ tmp = NoInode
  /\ cli = [w \in Clis |-> NoCli]
  /\ overlapped = FALSE

Edits == UNION {[ks -> Values \cup {BadValue}] : ks \in (SUBSET Keys) \ {{}}}

Next ==
  \/ \E w \in Clis :
       \/ \E edit \in Edits : Prepare(w, edit) \/ Refuse(w, edit)
       \/ OpenTmp(w) \/ WriteTmp(w) \/ WriteFails(w)
       \/ RenameTmp(w) \/ RenameFails(w)
       \/ ReloadDaemon(w) \/ ReloadUnanswered(w) \/ ReloadFails(w) \/ Die(w)
  \/ RestartDaemon

Spec == Init /\ [][Next]_cfvars

-----------------------------------------------------------------------------
(* "persists it atomically (temp file + rename)" (SetConfigFileKeys): at   *)
(* every moment the configuration file holds one complete, valid           *)
(* configuration, whoever was killed or ran out of disk half way.          *)
FileAlwaysLoads == Loads(File)

(* It does as long as no two `config set` are between opening and renaming *)
(* the temporary file at once; one left over from a crash does no harm.    *)
LoneWritersAreAtomic == ~overlapped => FileAlwaysLoads

(* Whatever happens to the file, the daemon runs a valid configuration,    *)
(* and no reload moves a key that needs a restart.                         *)
DaemonStaysValid ==
  [][daemon' # daemon =>
       /\ daemon' \in Configs
       /\ cli' # cli => \A k \in Keys \cap daemonRestartKeys : daemon'[k] = daemon[k]]_cfvars

(* What `config set` tells the operator is complete: when a live reload is *)
(* done, every saved key the daemon does not run with, whoever saved it    *)
(* and however long ago, is in the list that asks for a restart.           *)
PendingIsReported ==
  [][\A w \in Clis : ~cli[w].report.ok /\ cli'[w].report.ok =>
       diffKeys(daemon', File) \subseteq cli'[w].report.restart]_cfvars
=============================================================================
