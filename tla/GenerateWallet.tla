--------------------------- MODULE GenerateWallet ---------------------------
(***************************************************************************)
(* The generate-wallet command (cmd/ibc/cmd/generate-wallet.go) and the    *)
(* config file it rewrites (cmd/ibc/config/config.go).                     *)
(*                                                                         *)
(* Every invocation is a process: it loads the file, builds the network    *)
(* from it, adds a wallet in memory, saves the whole configuration and     *)
(* then, if asked to, funds the new wallet.  A process may fail at every   *)
(* step or be killed; a retry is another process with the same arguments.  *)
(* The private key that process p generates is written p.                  *)
(***************************************************************************)
EXTENDS Naturals, FiniteSets

CONSTANTS
  Procs,      \* invocations of the command
  ChainIDs,   \* the configured chains
  WalletIDs,  \* wallet IDs in use, or asked for
  Imported,   \* a key the user has put into the file
  None        \* no key, no funding

ASSUME KeysAssumption == Imported \notin Procs /\ None \notin Procs \cup WalletIDs

VARIABLES
  pc,              \* pc[p]: where process p stands
  arg,             \* arg[p]: its arguments
  cfg,             \* cfg[p]: its configuration in memory
  file,            \* the configuration in the file
  funded,          \* processes whose new wallet has received funds
  sameFilesystem,  \* whether the temporary file can be renamed to the file
  overlap          \* history: whether two processes ever ran at once

setting == <<arg, sameFilesystem>>
vars == <<pc, cfg, file, funded, overlap, setting>>

Keys == Procs \cup {Imported, None}
Phases == {"idle", "loaded", "save", "writing", "saved", "completed",
           "failed", "killed"}
Ended == {"completed", "failed", "killed"}
Args == [chain : ChainIDs, id : WalletIDs, from : WalletIDs \cup {None}]

\* ids: the wallet-ids of every chain there is; keys: the wallets' keys.
Configs(chains) ==
  [ids : [chains -> SUBSET WalletIDs], keys : [WalletIDs -> Keys]]

\* What an empty file decodes to.
EmptyConfig ==
  [ids |-> [c \in {} |-> {}], keys |-> [id \in WalletIDs |-> None]]

\* ToNetwork finds the wallet of every wallet ID a chain lists.
Consistent(config) ==
  \A c \in DOMAIN config.ids : \A id \in config.ids[c] : config.keys[id] # None

Running(p) == pc[p] \notin Ended \cup {"idle"}

Goes(p, from, to) ==
  /\ pc[p] = from
  /\ pc' = [pc EXCEPT ![p] = to]

Init ==
  /\ pc = [p \in Procs |-> "idle"]
  /\ arg \in [Procs -> Args]
  /\ cfg = [p \in Procs |-> EmptyConfig]
  /\ file \in {f \in Configs(ChainIDs) :
                 /\ \A id \in WalletIDs : f.keys[id] \in {Imported, None}
                 /\ Consistent(f)}
  /\ funded = {}
  /\ sameFilesystem \in BOOLEAN
  /\ overlap = FALSE
-----------------------------------------------------------------------------
LoadConfig(p) ==
  /\ Goes(p, "idle", "loaded")
  /\ cfg' = [cfg EXCEPT ![p] = file]
  /\ overlap' = (overlap \/ \E q \in Procs : Running(q))
  /\ UNCHANGED <<file, funded, setting>>

\* Wrong flags, an unknown chain or wallet, or a chain that cannot be reached.
Refuse(p) ==
  /\ Goes(p, "loaded", "failed")
  /\ UNCHANGED <<cfg, file, funded, overlap, setting>>

\* Mutant: an ID the chain lists is taken again.
AnyID(p) == TRUE

IDIsNew(p) == arg[p].id \notin cfg[p].ids[arg[p].chain]

AddWallet(config, c, id, key) ==
  [config EXCEPT !.ids[c] = @ \cup {id}, !.keys[id] = key]

\* The ID must be new on this chain.  It is listed there, and its key is set,
\* also if the wallets have one for that ID already.
Generate(p) ==
  /\ Consistent(cfg[p])
  /\ arg[p].chain \in DOMAIN cfg[p].ids
  /\ IDIsNew(p)
  /\ Goes(p, "loaded", "save")
  /\ cfg' = [cfg EXCEPT ![p] = AddWallet(@, arg[p].chain, arg[p].id, p)]
  /\ UNCHANGED <<file, funded, overlap, setting>>

\* SaveConfig: the temporary file is complete and replaces the file, ...
Rename(p) ==
  /\ sameFilesystem
  /\ Goes(p, "save", "saved")
  /\ file' = cfg[p]
  /\ UNCHANGED <<cfg, funded, overlap, setting>>

\* Mutant: the file is always copied.
TruncateAlways(p) ==
  /\ Goes(p, "save", "writing")
  /\ file' = EmptyConfig
  /\ UNCHANGED <<cfg, funded, overlap, setting>>

\* ... or cannot, and is copied: os.WriteFile truncates, then writes.
Truncate(p) ==
  /\ ~sameFilesystem
  /\ Goes(p, "save", "writing")
  /\ file' = EmptyConfig
  /\ UNCHANGED <<cfg, funded, overlap, setting>>

\* Mutant: nothing is written after the file was truncated.
WriteNothing(p) ==
  /\ Goes(p, "writing", "saved")
  /\ UNCHANGED <<cfg, file, funded, overlap, setting>>

Write(p) ==
  /\ Goes(p, "writing", "saved")
  /\ file' = cfg[p]
  /\ UNCHANGED <<cfg, funded, overlap, setting>>

SaveErr(p) ==
  /\ \E from \in {"save", "writing"} : Goes(p, from, "failed")
  /\ UNCHANGED <<cfg, file, funded, overlap, setting>>

\* The funding wallet is looked up among the chain's, the new one included.
Fund(p) ==
  /\ Goes(p, "saved", "completed")
  /\ arg[p].from \in cfg[p].ids[arg[p].chain]
  /\ funded' = funded \cup {p}
  /\ UNCHANGED <<cfg, file, overlap, setting>>

\* No such wallet, no integer, or Send fails, with or without its effect.
FundErr(p) ==
  /\ arg[p].from # None
  /\ Goes(p, "saved", "failed")
  /\ \/ UNCHANGED funded
     \/ /\ arg[p].from \in cfg[p].ids[arg[p].chain]
        /\ funded' = funded \cup {p}
  /\ UNCHANGED <<cfg, file, overlap, setting>>

NoFunding(p) ==
  /\ arg[p].from = None
  /\ Goes(p, "saved", "completed")
  /\ UNCHANGED <<cfg, file, funded, overlap, setting>>

Kill(p) ==
  /\ Running(p)
  /\ pc' = [pc EXCEPT ![p] = "killed"]
  /\ UNCHANGED <<cfg, file, funded, overlap, setting>>
-----------------------------------------------------------------------------
Next ==
  \E p \in Procs :
    \/ LoadConfig(p)
    \/ Refuse(p)
    \/ Generate(p)
    \/ Rename(p)
    \/ Truncate(p)
    \/ Write(p)
    \/ SaveErr(p)
    \/ Fund(p)
    \/ FundErr(p)
    \/ NoFunding(p)
    \/ Kill(p)

Spec == Init /\ [][Next]_vars
-----------------------------------------------------------------------------
(* Properties *)

TypeOK ==
  /\ pc \in [Procs -> Phases]
  /\ arg \in [Procs -> Args]
  /\ cfg \in [Procs -> Configs(ChainIDs) \cup {EmptyConfig}]
  /\ file \in Configs(ChainIDs) \cup {EmptyConfig}
  /\ funded \subseteq Procs
  /\ sameFilesystem \in BOOLEAN /\ overlap \in BOOLEAN

FileIsWhole == DOMAIN file.ids = ChainIDs /\ Consistent(file)

\* "Write to a new temporary file for atomic write" (config.go:76): whatever
\* process is killed or fails, and however many run, the file is a complete
\* configuration with which every command can start.  (Not if the file has to
\* be copied: a process killed then leaves it empty.)
FileStaysWhole == sameFilesystem => FileIsWhole

Lists(config, p) ==
  /\ arg[p].chain \in DOMAIN config.ids
  /\ arg[p].id \in config.ids[arg[p].chain]

Has(config, p) == Lists(config, p) /\ config.keys[arg[p].id] = p

\* "Generate a new wallet for a chain and add it to the config"
\* (generate-wallet.go:19): it is there with its key when the command says
\* that it "completed successfully" (generate-wallet.go:120), unless two
\* commands overlapped; the file may have been renamed or copied.
CompletedIsSaved ==
  [][\A p \in Procs :
       (pc[p] # "completed" /\ pc'[p] = "completed" /\ ~overlap)
         => Has(file, p)']_vars

\* The key of p is in the file, or a later command has reused the ID on
\* another chain.
KeyIsKept(p) ==
  \/ Has(file, p)
  \/ \E q \in Procs : /\ Has(file, q)
                      /\ arg[q].id = arg[p].id
                      /\ arg[q].chain # arg[p].chain

\* Money never goes to a wallet whose key is nowhere: the key of a funded
\* wallet is in the file, also if the command fails after that or is killed,
\* until a later command reuses the ID on another chain
\* (generate-wallet.go:51-115).  Commands that overlap overwrite each other's
\* wallets, and one that is killed in the copy loses all.
FundedKeyIsKept ==
  (sameFilesystem /\ ~overlap) => \A p \in funded : KeyIsKept(p)
-----------------------------------------------------------------------------
(* The inductive invariant behind FileStaysWhole: what a process may write *)
(* is whole as well.                                                       *)

Whole(config) == DOMAIN config.ids = ChainIDs /\ Consistent(config)

WholeInv ==
  /\ TypeOK
  /\ sameFilesystem =>
       /\ Whole(file)
       /\ \A p \in Procs :
            /\ pc[p] \in {"loaded", "save"} => Whole(cfg[p])
            /\ pc[p] # "writing"

(* The one behind CompletedIsSaved: a process alone saves what it added.   *)

Alone == \A p, q \in Procs : Running(p) /\ Running(q) => p = q

SavedInv ==
  /\ TypeOK
  /\ ~overlap =>
       /\ Alone
       /\ \A p \in Procs :
            /\ pc[p] \in {"save", "writing"} => Has(cfg[p], p)
            /\ pc[p] = "saved" => Has(file, p)

(* The one behind FundedKeyIsKept: the file does not change between        *)
(* LoadConfig and SaveConfig of a process alone, so that a key is only     *)
(* replaced by that of the same ID on another chain.                       *)

KeysAreKept ==
  /\ \A p \in Procs :
       /\ pc[p] = "loaded" => cfg[p] = file
       /\ pc[p] = "save" =>
            /\ ~Lists(file, p)
            /\ cfg[p] = AddWallet(file, arg[p].chain, arg[p].id, p)
  /\ \A p \in funded : Lists(file, p) /\ KeyIsKept(p)

KeyInv ==
  /\ WholeInv
  /\ SavedInv
  /\ (sameFilesystem /\ ~overlap) => KeysAreKept
=============================================================================
