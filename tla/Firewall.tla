------------------------------ MODULE Firewall ------------------------------
(***************************************************************************)
(* `reptile firewall up` and `down` (firewall.go, runFirewall in main.go): *)
(* processes that list the nft tables, and then replace or delete the      *)
(* table in an nft run of its own.  An nft run is one transaction; between *)
(* two of them anything may happen.                                        *)
(*                                                                         *)
(* A ruleset is the set of its accept rules; its policy is always drop.    *)
(***************************************************************************)
EXTENDS Naturals

CONSTANTS
  Fws,               \* concurrent `reptile firewall` processes
  Configs,           \* configurations that load: [iface, extra]
  NoFile, Torn,      \* no configuration file, or a part of one
  WgConfs,           \* contents of wg_conf: its Endpoint lines
  Literals,          \* the hosts among them that are literal addresses
  Absent             \* no table

ASSUME FirewallAssumption ==
  /\ NoFile \notin Configs /\ Torn \notin Configs
  /\ \A c \in Configs : DOMAIN c = {"iface", "extra"}
  /\ \A w \in WgConfs : \A line \in w : DOMAIN line = {"host", "port"} /\ line.port \in Nat

VARIABLES
  table,   \* table inet reptile: its accept rules, or Absent
  conf,    \* the configuration file
  wg,      \* the file it names as wg_conf
  fw       \* per process: pc, the ruleset it loads, what it listed, and
           \* (history) whether nobody else has changed the table since

fvars == <<table, conf, wg, fw>>

-----------------------------------------------------------------------------
Loads(c) == c \in Configs

isPort(p) == p >= 1 /\ p <= 65535

(* parseEndpoints: one bad line, or none at all, and there is no ruleset.  *)
EndpointsParse(lines) ==
  /\ lines # {}
  /\ \A line \in lines : line.host \in Literals /\ isPort(line.port)

buildRuleset(c, endpoints) ==
  {<<"oifname", "lo">>, <<"oifname", c.iface>>, <<"dhcp">>, <<"dhcp6">>, <<"ndp">>}
    \cup {<<"daddr", e.host, e.port>> : e \in endpoints}
    \cup {<<"extra", e>> : e \in c.extra}

Rulesets == {buildRuleset(c, w) : c \in Configs, w \in {l \in WgConfs : EndpointsParse(l)}}
(* The rules of several rulesets may meet in one table. *)
Tables == {Absent} \cup SUBSET UNION Rulesets

(* No table is not an empty one.                                           *)
ASSUME AbsentAssumption == \A rules \in SUBSET UNION Rulesets : rules # Absent

NoFw == [pc |-> "idle", rs |-> {}, present |-> FALSE, alone |-> TRUE]

FwTypeOK ==
  /\ table \in Tables
  /\ conf \in Configs \cup {NoFile, Torn}
  /\ wg \in WgConfs
  /\ fw \in [Fws -> [pc: {"idle", "list", "load", "verify", "listDown", "delete", "ok", "failed"},
                     rs: Rulesets \cup {{}}, present: BOOLEAN, alone: BOOLEAN]]

-----------------------------------------------------------------------------
FwGoto(p, from, to) == fw[p].pc = from /\ fw' = [fw EXCEPT ![p].pc = to]

(* The process exits with status 1. *)
FwFails(p) == fw' = [fw EXCEPT ![p] = [NoFw EXCEPT !.pc = "failed"]]

(* p goes on to `to`, having set the table to t.                           *)
SetTable(p, t, to) ==
  /\ table' = t
  /\ fw' = [q \in Fws |-> IF q = p THEN [fw[p] EXCEPT !.pc = to, !.present = FALSE]
                          ELSE [fw[q] EXCEPT !.alone = @ /\ (fw[q].pc = "idle" \/ t = table)]]
  /\ UNCHANGED <<conf, wg>>

(* Mutant: Endpoint lines that do not parse are used all the same. *)
UpBeginsUnparsed(p) ==
  /\ fw[p].pc = "idle"
  /\ Loads(conf)
  /\ fw' = [fw EXCEPT ![p] = [NoFw EXCEPT !.pc = "list", !.rs = buildRuleset(conf, wg)]]
  /\ UNCHANGED <<table, conf, wg>>
(* LoadConfig, parseEndpoints and buildRuleset. *)
UpBegins(p) ==
  /\ fw[p].pc = "idle"
  /\ Loads(conf) /\ EndpointsParse(wg)
  /\ fw' = [fw EXCEPT ![p] = [NoFw EXCEPT !.pc = "list", !.rs = buildRuleset(conf, wg)]]
  /\ UNCHANGED <<table, conf, wg>>

UpRefuses(p) ==
  /\ fw[p].pc = "idle"
  /\ ~(Loads(conf) /\ EndpointsParse(wg))
  /\ FwFails(p)
  /\ UNCHANGED <<table, conf, wg>>

(* nftTablePresent *)
UpLists(p) ==
  /\ fw[p].pc = "list"
  /\ fw' = [fw EXCEPT ![p].pc = "load", ![p].present = (table # Absent)]
  /\ UNCHANGED <<table, conf, wg>>

(* Mutant: the old table deleted in an nft run of its own. *)
UpLoadsInTwo(p) ==
  /\ fw[p].pc = "load"
  /\ IF table # Absent THEN SetTable(p, Absent, "load") ELSE SetTable(p, fw[p].rs, "verify")
(* Mutant: the old table never deleted. *)
UpLoadsOnTop(p) ==
  /\ fw[p].pc = "load"
  /\ SetTable(p, IF table = Absent THEN fw[p].rs ELSE table \cup fw[p].rs, "verify")
(* nft -f -: with "delete table" in front if one was listed; else onto the *)
(* rules of a table that has appeared since.                               *)
UpLoads(p) ==
  /\ fw[p].pc = "load"
  /\ fw[p].present => table # Absent
  /\ SetTable(p, IF fw[p].present \/ table = Absent THEN fw[p].rs ELSE table \cup fw[p].rs,
              "verify")

UpVerifies(p) ==
  /\ table # Absent
  /\ FwGoto(p, "verify", "ok")
  /\ UNCHANGED <<table, conf, wg>>

DownBegins(p) ==
  /\ FwGoto(p, "idle", IF Loads(conf) THEN "listDown" ELSE "failed")
  /\ UNCHANGED <<table, conf, wg>>

DownLists(p) ==
  /\ FwGoto(p, "listDown", IF table # Absent THEN "delete" ELSE "ok")
  /\ UNCHANGED <<table, conf, wg>>

DownDeletes(p) ==
  /\ fw[p].pc = "delete"
  /\ table # Absent
  /\ SetTable(p, Absent, "ok")

(* An nft run fails: the table to delete is gone, an extra rule is not     *)
(* valid, nft cannot be run; or the verification finds no table.  Nothing  *)
(* is changed.                                                             *)
NftFails(p) ==
  /\ fw[p].pc \in {"list", "load", "verify", "listDown", "delete"}
  /\ FwFails(p)
  /\ UNCHANGED <<table, conf, wg>>

(* The process has ended, or is killed. *)
FwEnds(p) ==
  /\ fw[p].pc # "idle"
  /\ fw' = [fw EXCEPT ![p] = NoFw]
  /\ UNCHANGED <<table, conf, wg>>

-----------------------------------------------------------------------------
Up(p) == UpBegins(p) \/ UpRefuses(p) \/ UpLists(p) \/ UpLoads(p) \/ UpVerifies(p)
Down(p) == DownBegins(p) \/ DownLists(p) \/ DownDeletes(p)
FwStep(p) == Up(p) \/ Down(p) \/ NftFails(p) \/ FwEnds(p)

(* The operator edits either file. *)
Edit ==
  /\ conf' \in Configs \cup {conf}
  /\ wg' \in WgConfs
  /\ UNCHANGED <<table, fw>>

-----------------------------------------------------------------------------
(* "kill-switch firewall engaged" is the truth: when `firewall up` reports *)
(* success the table is there, and it holds exactly the rules of the files *)
(* this process read, unless another one has changed the table meanwhile.  *)
EngagedIsInForce ==
  [][\A p \in Fws : fw[p].pc = "verify" /\ fw'[p].pc = "ok" =>
       table # Absent /\ (fw[p].alone => table = fw[p].rs)]_fvars
=============================================================================
