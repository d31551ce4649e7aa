---------------------------- MODULE WalletProofs -----------------------------
(***************************************************************************)
(* Proofs about the two commands that change wallets, which share nothing: *)
(*                                                                         *)
(* GenerateWallet, for any number of processes, chains and wallets: where  *)
(* the temporary file can be renamed the config file is whole at every     *)
(* moment; and as long as commands do not overlap, none says that it       *)
(* completed without its wallet in the file, and no money goes to a key    *)
(* that is lost.                                                           *)
(*                                                                         *)
(* Distribute, for any number of wallets, any balances and any minimum: a  *)
(* completed run has funded everybody if Send waits for its receipt, and a *)
(* run that starts with nothing pending overfunds nobody, whether or not   *)
(* Send waits.                                                             *)
(***************************************************************************)
EXTENDS GenerateWallet, Distribute, SequenceTheorems, TLAPS

-----------------------------------------------------------------------------
(* GenerateWallet *)

\* Adding a wallet to a whole configuration, as Generate does, yields a
\* whole one: the new ID comes with its key, no other key is taken away.
LEMMA AddedIsWhole ==
  ASSUME NEW config \in Configs(ChainIDs), NEW new \in Configs(ChainIDs),
         NEW c \in ChainIDs, NEW id \in WalletIDs, NEW p \in Procs,
         Whole(config),
         new.ids = [config.ids EXCEPT ![c] = @ \cup {id}],
         new.keys = [config.keys EXCEPT ![id] = p]
  PROVE  Whole(new)
<1>1. p # None
  BY KeysAssumption
<1>2. DOMAIN new.ids = ChainIDs
  BY DEF Configs
<1>3. ASSUME NEW d \in ChainIDs, NEW w \in new.ids[d]
      PROVE  new.keys[w] # None
  <2>1. config.ids \in [ChainIDs -> SUBSET WalletIDs]
    BY DEF Configs
  <2>2. config.keys \in [WalletIDs -> Keys] /\ w \in WalletIDs
    BY <1>3 DEF Configs
  <2>3. CASE w = id
    BY <1>1, <2>2, <2>3
  <2>4. CASE w # id
    <3>1. w \in config.ids[d]
      BY <1>3, <2>1, <2>4
    <3> QED
      BY <2>2, <2>4, <3>1 DEF Whole, Consistent
  <2> QED
    BY <2>3, <2>4
<1> QED
  BY <1>2, <1>3 DEF Whole, Consistent

\* The files the command can meet first are whole, and nothing is funded.
LEMMA InitKeyInv == Init => KeyInv
<1> SUFFICES ASSUME Init PROVE KeyInv
  OBVIOUS
<1>1. file \in Configs(ChainIDs) /\ DOMAIN file.ids = ChainIDs
  BY DEF Init, Configs
<1>2. TypeOK
  BY <1>1 DEF Init, TypeOK, Phases
<1>3. funded = {} /\ \A p \in Procs : pc[p] = "idle"
  BY DEF Init
<1>4. WholeInv
  BY <1>1, <1>2, <1>3 DEF Init, WholeInv, Whole
<1>5. SavedInv
  BY <1>2, <1>3 DEF SavedInv, Alone, Running
<1> QED
  BY <1>3, <1>4, <1>5 DEF KeyInv, KeysAreKept

\* Generate lists the new ID with its key, in memory.
LEMMA GenerateAdds ==
  ASSUME TypeOK, NEW p \in Procs, Generate(p)
  PROVE  /\ cfg[p] \in Configs(ChainIDs)
         /\ arg[p].chain \in ChainIDs /\ arg[p].id \in WalletIDs
         /\ cfg'[p] = AddWallet(cfg[p], arg[p].chain, arg[p].id, p)
         /\ cfg'[p] \in Configs(ChainIDs)
         /\ cfg'[p].ids = [cfg[p].ids EXCEPT ![arg[p].chain] = @ \cup {arg[p].id}]
         /\ cfg'[p].keys = [cfg[p].keys EXCEPT ![arg[p].id] = p]
         /\ \A q \in Procs \ {p} : cfg'[q] = cfg[q]
         /\ cfg' \in [Procs -> Configs(ChainIDs) \cup {EmptyConfig}]
<1> DEFINE c == arg[p].chain
           id == arg[p].id
           new == [cfg[p] EXCEPT !.ids[c] = @ \cup {id}, !.keys[id] = p]
<1>1. /\ cfg[p] \in Configs(ChainIDs)
      /\ c \in ChainIDs /\ id \in WalletIDs
  <2>1. /\ cfg[p] \in Configs(ChainIDs) \cup {EmptyConfig}
        /\ arg[p] \in Args
    BY DEF TypeOK
  <2>2. c \in ChainIDs /\ c \in DOMAIN cfg[p].ids
    BY <2>1 DEF Args, Generate
  <2>3. cfg[p] # EmptyConfig
    BY <2>2 DEF EmptyConfig
  <2> QED
    BY <2>1, <2>2, <2>3 DEF Args
<1>2. cfg' = [cfg EXCEPT ![p] = new] /\ cfg \in [Procs -> Configs(ChainIDs) \cup {EmptyConfig}]
  BY DEF Generate, AddWallet, TypeOK
<1>3. /\ new.ids = [cfg[p].ids EXCEPT ![c] = @ \cup {id}]
      /\ new.keys = [cfg[p].keys EXCEPT ![id] = p]
      /\ new \in Configs(ChainIDs)
  BY <1>1 DEF Configs, Keys
<1>4. AddWallet(cfg[p], c, id, p) = new
  BY DEF AddWallet
<1> HIDE DEF c, id, new
<1>5. cfg'[p] = new /\ \A q \in Procs \ {p} : cfg'[q] = cfg[q]
  BY <1>2
<1>6. cfg' \in [Procs -> Configs(ChainIDs) \cup {EmptyConfig}]
  BY <1>2, <1>3
<1> QED
  BY <1>1, <1>3, <1>4, <1>5, <1>6 DEF c, id

\* Every step keeps the types.
LEMMA NextTypeOK ==
  ASSUME TypeOK, [Next]_vars
  PROVE  TypeOK'
<1>1. CASE UNCHANGED vars
  BY <1>1 DEF vars, setting, TypeOK
<1>2. ASSUME NEW p \in Procs, Generate(p) PROVE TypeOK'
  <2>1. /\ pc' = [pc EXCEPT ![p] = "save"]
        /\ UNCHANGED <<file, funded, overlap, setting>>
    BY <1>2 DEF Generate, Goes
  <2> QED
    BY <1>2, <2>1, GenerateAdds DEF setting, TypeOK, Phases
<1>3. ASSUME NEW p \in Procs, LoadConfig(p) PROVE TypeOK'
  BY <1>3 DEF LoadConfig, Goes, setting, TypeOK, Phases
<1>4. ASSUME NEW p \in Procs, Rename(p) \/ Truncate(p) \/ Write(p) PROVE TypeOK'
  BY <1>4 DEF Rename, Truncate, Write, Goes, setting, TypeOK, Phases
<1>5. ASSUME NEW p \in Procs,
             \/ Refuse(p) \/ SaveErr(p) \/ Fund(p) \/ FundErr(p)
             \/ NoFunding(p) \/ Kill(p)
      PROVE  TypeOK'
  BY <1>5
  DEF Refuse, SaveErr, Fund, FundErr, NoFunding, Kill, Goes, setting, TypeOK,
      Phases
<1> QED
  BY <1>1, <1>2, <1>3, <1>4, <1>5 DEF Next

\* The file system stays, and what has overlapped has overlapped.
LEMMA NextSetting ==
  ASSUME [Next]_vars
  PROVE  sameFilesystem' = sameFilesystem /\ (overlap => overlap')
<1>1. sameFilesystem' = sameFilesystem
  BY DEF Next, vars, setting, LoadConfig, Refuse, Generate, Rename, Truncate,
         Write, SaveErr, Fund, FundErr, NoFunding, Kill
<1>2. overlap => overlap'
  BY DEF Next, vars, LoadConfig, Refuse, Generate, Rename, Truncate, Write,
         SaveErr, Fund, FundErr, NoFunding, Kill
<1> QED
  BY <1>1, <1>2

\* What ends an invocation, or makes it fail, writes nothing.
LEMMA EndStep ==
  ASSUME TypeOK, NEW p \in Procs,
         \/ Refuse(p) \/ SaveErr(p) \/ Fund(p) \/ FundErr(p)
         \/ NoFunding(p) \/ Kill(p)
  PROVE  /\ UNCHANGED <<arg, cfg, file, sameFilesystem, overlap>>
         /\ pc'[p] \in Ended
         /\ \A q \in Procs \ {p} : pc'[q] = pc[q]
         /\ funded' = funded \/ (pc[p] = "saved" /\ funded' = funded \cup {p})
<1>1. /\ UNCHANGED <<arg, cfg, file, sameFilesystem, overlap>>
      /\ \E to \in Ended : pc' = [pc EXCEPT ![p] = to]
      /\ funded' = funded \/ (pc[p] = "saved" /\ funded' = funded \cup {p})
  BY DEF Refuse, SaveErr, Fund, FundErr, NoFunding, Kill, Goes, Ended, setting
<1> QED
  BY <1>1 DEF TypeOK

\* Where the temporary file can be renamed, every step keeps the invariant:
\* what is loaded is whole, stays whole when a wallet is added, and is
\* written as a whole.
LEMMA NextWholeInv ==
  ASSUME WholeInv, [Next]_vars
  PROVE  WholeInv'
<1>1. TypeOK /\ TypeOK' /\ pc \in [Procs -> Phases]
  BY NextTypeOK DEF WholeInv, TypeOK
<1>2. sameFilesystem' = sameFilesystem
  BY NextSetting
<1> SUFFICES ASSUME sameFilesystem
             PROVE  /\ Whole(file)'
                    /\ \A q \in Procs :
                         /\ pc'[q] \in {"loaded", "save"} => Whole(cfg[q])'
                         /\ pc'[q] # "writing"
  BY <1>1, <1>2 DEF WholeInv
<1>3. /\ Whole(file)
      /\ \A q \in Procs :
           /\ pc[q] \in {"loaded", "save"} => Whole(cfg[q])
           /\ pc[q] # "writing"
  BY DEF WholeInv
<1>4. CASE UNCHANGED vars
  BY <1>3, <1>4 DEF vars, Whole, Consistent
<1>5. ASSUME NEW p \in Procs, LoadConfig(p)
      PROVE  /\ Whole(file)'
             /\ \A q \in Procs :
                  /\ pc'[q] \in {"loaded", "save"} => Whole(cfg[q])'
                  /\ pc'[q] # "writing"
  BY <1>1, <1>3, <1>5 DEF LoadConfig, Goes, TypeOK, Whole, Consistent
<1>6. ASSUME NEW p \in Procs, Generate(p)
      PROVE  /\ Whole(file)'
             /\ \A q \in Procs :
                  /\ pc'[q] \in {"loaded", "save"} => Whole(cfg[q])'
                  /\ pc'[q] # "writing"
  <2>1. pc[p] = "loaded" /\ pc' = [pc EXCEPT ![p] = "save"] /\ file' = file
    BY <1>6 DEF Generate, Goes
  <2>2. Whole(cfg'[p])
    <3>1. /\ cfg[p] \in Configs(ChainIDs) /\ cfg'[p] \in Configs(ChainIDs)
          /\ arg[p].chain \in ChainIDs /\ arg[p].id \in WalletIDs
          /\ cfg'[p].ids
               = [cfg[p].ids EXCEPT ![arg[p].chain] = @ \cup {arg[p].id}]
          /\ cfg'[p].keys = [cfg[p].keys EXCEPT ![arg[p].id] = p]
      BY <1>1, <1>6, GenerateAdds
    <3>2. Whole(cfg[p])
      BY <1>3, <2>1
    <3> QED
      BY <3>1, <3>2, AddedIsWhole
  <2>3. \A q \in Procs : q # p => cfg'[q] = cfg[q] /\ pc'[q] = pc[q]
    BY <1>1, <1>6, <2>1, GenerateAdds
  <2>4. pc'[p] = "save"
    BY <1>1, <2>1
  <2> QED
    BY <1>3, <2>1, <2>2, <2>3, <2>4 DEF Whole, Consistent
<1>7. ASSUME NEW p \in Procs, Rename(p)
      PROVE  /\ Whole(file)'
             /\ \A q \in Procs :
                  /\ pc'[q] \in {"loaded", "save"} => Whole(cfg[q])'
                  /\ pc'[q] # "writing"
  BY <1>1, <1>3, <1>7 DEF Rename, Goes, Whole, Consistent
<1>8. ASSUME NEW p \in Procs,
             \/ Refuse(p) \/ SaveErr(p) \/ Fund(p) \/ FundErr(p)
             \/ NoFunding(p) \/ Kill(p)
      PROVE  /\ Whole(file)'
             /\ \A q \in Procs :
                  /\ pc'[q] \in {"loaded", "save"} => Whole(cfg[q])'
                  /\ pc'[q] # "writing"
  <2>1. /\ UNCHANGED <<cfg, file>>
        /\ pc'[p] \in Ended
        /\ \A q \in Procs \ {p} : pc'[q] = pc[q]
    BY <1>1, <1>8, EndStep
  <2>2. pc'[p] \notin {"loaded", "save", "writing"}
    BY <2>1 DEF Ended
  <2> QED
    BY <1>3, <2>1, <2>2 DEF Whole, Consistent
<1>9. ASSUME NEW p \in Procs, Truncate(p) \/ Write(p) PROVE FALSE
  BY <1>3, <1>9 DEF Truncate, Write, Goes
<1> QED
  BY <1>4, <1>5, <1>6, <1>7, <1>8, <1>9 DEF Next

\* The config file is whole at every moment where the temporary file can be
\* renamed, whichever processes run, fail or are killed: the "atomic write" of
\* SaveConfig (config.go:76) is one.
THEOREM SpecFileStaysWhole == Spec => []FileStaysWhole
<1>1. WholeInv => FileStaysWhole
  BY DEF WholeInv, Whole, FileStaysWhole, FileIsWhole
<1>2. WholeInv /\ [Next]_vars => WholeInv'
  BY NextWholeInv
<1>3. Init => WholeInv
  BY InitKeyInv DEF KeyInv
<1> QED
  BY <1>1, <1>2, <1>3, PTL DEF Spec
-----------------------------------------------------------------------------
(* Commands that do not overlap save what they added.                      *)

\* A process that takes a step other than LoadConfig runs, so that no other
\* one does.
LEMMA NextSavedInv ==
  ASSUME SavedInv, [Next]_vars
  PROVE  SavedInv'
<1>1. TypeOK /\ TypeOK' /\ pc \in [Procs -> Phases]
  BY NextTypeOK DEF SavedInv, TypeOK
<1> DEFINE Saves == \A q \in Procs :
                      /\ pc[q] \in {"save", "writing"} => Has(cfg[q], q)
                      /\ pc[q] = "saved" => Has(file, q)
<1> SUFFICES ASSUME ~overlap' PROVE Alone' /\ Saves'
  BY <1>1 DEF SavedInv
<1>2. ~overlap
  BY NextSetting
<1>3. Alone /\ Saves
  BY <1>2 DEF SavedInv
<1>4. CASE UNCHANGED vars
  BY <1>3, <1>4 DEF vars, setting, Alone, Running, Has, Lists
<1>5. ASSUME NEW p \in Procs, LoadConfig(p) PROVE Alone' /\ Saves'
  <2>1. /\ \A q \in Procs : ~Running(q)
        /\ pc' = [pc EXCEPT ![p] = "loaded"]
    BY <1>5 DEF LoadConfig, Goes
  <2>2. /\ pc'[p] = "loaded"
        /\ \A q \in Procs : q # p => pc'[q] \in Ended \cup {"idle"}
    BY <1>1, <2>1 DEF Running
  <2> QED
    BY <2>2 DEF Alone, Running, Ended
<1>6. ASSUME NEW p \in Procs, pc[p] \notin Ended \cup {"idle"},
             \A q \in Procs \ {p} : pc'[q] = pc[q]
      PROVE  /\ Alone'
             /\ \A q \in Procs \ {p} :
                  pc'[q] \notin {"loaded", "save", "writing", "saved"}
  BY <1>3, <1>6 DEF Alone, Running, Ended
<1>7. ASSUME NEW p \in Procs, Generate(p) PROVE Alone' /\ Saves'
  <2>1. /\ pc[p] = "loaded" /\ arg' = arg
        /\ pc'[p] = "save"
        /\ \A q \in Procs \ {p} : pc'[q] = pc[q]
    BY <1>1, <1>7 DEF Generate, Goes, setting
  <2>2. cfg[p].ids \in [ChainIDs -> SUBSET WalletIDs]
        /\ cfg[p].keys \in [WalletIDs -> Keys]
    BY <1>1, <1>7, GenerateAdds DEF Configs
  <2>3. Has(cfg'[p], p)
    <3>1. /\ arg[p].chain \in ChainIDs /\ arg[p].id \in WalletIDs
          /\ cfg'[p].ids
               = [cfg[p].ids EXCEPT ![arg[p].chain] = @ \cup {arg[p].id}]
          /\ cfg'[p].keys = [cfg[p].keys EXCEPT ![arg[p].id] = p]
      BY <1>1, <1>7, GenerateAdds
    <3> QED
      BY <2>2, <3>1 DEF Has, Lists
  <2>4. Has(cfg[p], p)'
    BY <2>1, <2>3 DEF Has, Lists
  <2> QED
    BY <1>6, <2>1, <2>4 DEF Ended
<1>8. ASSUME NEW p \in Procs, Rename(p) \/ Truncate(p) \/ Write(p)
      PROVE  Alone' /\ Saves'
  <2>1. /\ pc[p] \in {"save", "writing"} /\ pc'[p] \in {"saved", "writing"}
        /\ UNCHANGED <<arg, cfg>>
        /\ pc'[p] = "saved" => file' = cfg[p]
        /\ \A q \in Procs \ {p} : pc'[q] = pc[q]
    BY <1>1, <1>8 DEF Rename, Truncate, Write, Goes, setting
  <2>2. Has(cfg[p], p) /\ Has(cfg[p], p)'
    BY <1>3, <2>1 DEF Has, Lists
  <2>3. pc'[p] = "saved" => Has(file, p)'
    BY <2>1, <2>2 DEF Has, Lists
  <2> QED
    BY <1>6, <2>1, <2>2, <2>3 DEF Ended
<1>9. ASSUME NEW p \in Procs,
             \/ Refuse(p) \/ SaveErr(p) \/ Fund(p) \/ FundErr(p)
             \/ NoFunding(p) \/ Kill(p)
      PROVE  Alone' /\ Saves'
  <2>1. /\ pc'[p] \in Ended
        /\ \A q \in Procs \ {p} : pc'[q] = pc[q]
    BY <1>1, <1>9, EndStep
  <2>2. pc[p] \notin Ended \cup {"idle"}
    BY <1>9 DEF Refuse, SaveErr, Fund, FundErr, NoFunding, Kill, Goes, Running,
                Ended
  <2> QED
    BY <1>6, <2>1, <2>2 DEF Ended
<1> QED
  BY <1>4, <1>5, <1>7, <1>8, <1>9 DEF Next

\* An invocation that says that it completed has left its wallet in the file,
\* if none overlapped, renamed or copied (generate-wallet.go:120).
THEOREM SpecCompletedIsSaved == Spec => CompletedIsSaved
<1>1. SavedInv /\ [Next]_vars => SavedInv'
  BY NextSavedInv
<1>2. ASSUME SavedInv, [Next]_vars, NEW p \in Procs,
             pc[p] # "completed", pc'[p] = "completed", ~overlap
      PROVE  Has(file, p)'
  <2>1. Fund(p) \/ NoFunding(p)
    <3>1. pc \in [Procs -> Phases]
      BY <1>2 DEF SavedInv, TypeOK
    <3>2. PICK q \in Procs :
            \/ LoadConfig(q) \/ Refuse(q) \/ Generate(q) \/ Rename(q)
            \/ Truncate(q) \/ Write(q) \/ SaveErr(q) \/ Fund(q) \/ FundErr(q)
            \/ NoFunding(q) \/ Kill(q)
      BY <1>2 DEF Next, vars
    <3> QED
      BY <1>2, <3>1, <3>2
      DEF LoadConfig, Refuse, Generate, Rename, Truncate, Write, SaveErr, Fund,
          FundErr, NoFunding, Kill, Goes
  <2>2. pc[p] = "saved" /\ UNCHANGED <<arg, file>>
    BY <2>1 DEF Fund, NoFunding, Goes, setting
  <2> QED
    BY <1>2, <2>2 DEF SavedInv, Has, Lists
<1>3. SavedInv /\ [Next]_vars =>
        [\A p \in Procs : (pc[p] # "completed" /\ pc'[p] = "completed" /\ ~overlap)
                            => Has(file, p)']_vars
  BY <1>2
<1>4. Init => SavedInv
  BY InitKeyInv DEF KeyInv
<1> QED
  BY <1>1, <1>3, <1>4, PTL DEF Spec, CompletedIsSaved
-----------------------------------------------------------------------------
(* Commands that do not overlap lose no key.                               *)

\* What AddWallet changes, and what it leaves alone.
LEMMA AddWalletAdds ==
  ASSUME NEW config \in Configs(ChainIDs), NEW c \in ChainIDs,
         NEW id \in WalletIDs, NEW p \in Procs, NEW new,
         new = AddWallet(config, c, id, p)
  PROVE  /\ DOMAIN config.ids = ChainIDs /\ DOMAIN new.ids = ChainIDs
         /\ id \in new.ids[c] /\ new.keys[id] = p
         /\ \A d \in ChainIDs : config.ids[d] \subseteq new.ids[d]
         /\ \A w \in WalletIDs : w # id =>
              /\ new.keys[w] = config.keys[w]
              /\ \A d \in ChainIDs : w \in new.ids[d] <=> w \in config.ids[d]
<1>1. config.ids \in [ChainIDs -> SUBSET WalletIDs]
      /\ config.keys \in [WalletIDs -> Keys]
  BY DEF Configs
<1>2. /\ new.ids = [config.ids EXCEPT ![c] = @ \cup {id}]
      /\ new.keys = [config.keys EXCEPT ![id] = p]
  BY DEF AddWallet, Configs
<1> QED
  BY <1>1, <1>2

\* Saving keeps the key of every funded wallet, or replaces it by the key of
\* the same ID on another chain.
LEMMA RenameKeepsKeys ==
  ASSUME KeyInv, KeysAreKept, sameFilesystem, NEW p \in Procs, Rename(p)
  PROVE  \A f \in funded : Lists(file, f)' /\ KeyIsKept(f)'
<1> DEFINE c == arg[p].chain
           id == arg[p].id
<1>1. /\ pc[p] = "save" /\ ~Lists(file, p)
      /\ file' = AddWallet(file, c, id, p)
      /\ UNCHANGED <<arg, funded>>
  BY DEF Rename, Goes, setting, KeysAreKept
<1>2. /\ file \in Configs(ChainIDs) /\ funded \subseteq Procs
      /\ \A q \in Procs : arg[q].chain \in ChainIDs /\ arg[q].id \in WalletIDs
  <2>1. file \in Configs(ChainIDs) \cup {EmptyConfig} /\ DOMAIN file.ids = ChainIDs
        /\ funded \subseteq Procs /\ arg \in [Procs -> Args]
    BY DEF KeyInv, WholeInv, TypeOK, Whole
  <2>2. \A q \in Procs : arg[q].chain \in ChainIDs /\ arg[q].id \in WalletIDs
    BY <2>1 DEF Args
  <2>3. file # EmptyConfig
    BY <2>1, <2>2 DEF EmptyConfig
  <2> QED
    BY <2>1, <2>2, <2>3
<1>3. /\ DOMAIN file.ids = ChainIDs /\ DOMAIN file'.ids = ChainIDs
      /\ id \in file'.ids[c] /\ file'.keys[id] = p
      /\ \A d \in ChainIDs : file.ids[d] \subseteq file'.ids[d]
      /\ \A w \in WalletIDs : w # id =>
           /\ file'.keys[w] = file.keys[w]
           /\ \A d \in ChainIDs : w \in file'.ids[d] <=> w \in file.ids[d]
  BY <1>1, <1>2, AddWalletAdds
<1>4. Has(file, p)'
  BY <1>1, <1>2, <1>3 DEF Has, Lists
<1>5. \A f \in funded : Lists(file, f)'
  BY <1>1, <1>2, <1>3 DEF KeysAreKept, Lists
<1>6. ASSUME NEW q \in Procs, Has(file, q), arg[q].id # id PROVE Has(file, q)'
  BY <1>1, <1>2, <1>3, <1>6 DEF Has, Lists
<1>7. ASSUME NEW f \in funded PROVE KeyIsKept(f)'
  <2>1. CASE arg[f].id = id
    <3>1. Lists(file, f)
      BY DEF KeysAreKept
    <3>2. arg[f].chain # c
      BY <1>1, <2>1, <3>1 DEF Lists
    <3> QED
      BY <1>1, <1>4, <2>1, <3>2 DEF KeyIsKept
  <2>2. CASE arg[f].id # id
    BY <1>1, <1>2, <1>6, <2>2 DEF KeysAreKept, KeyIsKept
  <2> QED
    BY <2>1, <2>2
<1> QED
  BY <1>5, <1>7

\* A funded wallet was saved before, by a process that nobody overlapped.
LEMMA NextKeyInv ==
  ASSUME KeyInv, [Next]_vars
  PROVE  KeyInv'
<1>0. WholeInv' /\ SavedInv'
  BY NextWholeInv, NextSavedInv DEF KeyInv
<1>1. TypeOK /\ pc \in [Procs -> Phases] /\ funded \subseteq Procs
      /\ cfg \in [Procs -> Configs(ChainIDs) \cup {EmptyConfig}]
  BY DEF KeyInv, WholeInv, TypeOK
<1>2. ASSUME sameFilesystem', ~overlap' PROVE KeysAreKept'
  <2>1. sameFilesystem /\ ~overlap
    BY <1>2, NextSetting
  <2>2. KeysAreKept /\ Alone /\ \A q \in Procs : pc[q] = "saved" => Has(file, q)
    BY <2>1 DEF KeyInv, SavedInv
  <2>3. CASE UNCHANGED vars
    <3>1. UNCHANGED <<pc, arg, cfg, file, funded>>
      BY <2>3 DEF vars, setting
    <3>2. \A q \in Procs : KeyIsKept(q) <=> KeyIsKept(q)'
      BY <3>1 DEF KeyIsKept, Has, Lists
    <3> QED
      BY <1>1, <2>2, <3>1, <3>2 DEF KeysAreKept, Lists
  <2>4. ASSUME NEW p \in Procs, LoadConfig(p) PROVE KeysAreKept'
    <3>1. /\ \A q \in Procs : ~Running(q)
          /\ pc' = [pc EXCEPT ![p] = "loaded"]
          /\ cfg' = [cfg EXCEPT ![p] = file]
          /\ UNCHANGED <<arg, file, funded>>
      BY <1>2, <2>4 DEF LoadConfig, Goes, setting
    <3>2. \A q \in Procs : q # p => pc'[q] \notin {"loaded", "save"}
      BY <1>1, <3>1 DEF Running, Ended
    <3>3. pc'[p] = "loaded" /\ cfg'[p] = file'
      BY <1>1, <3>1
    <3> QED
      BY <1>1, <2>2, <3>1, <3>2, <3>3 DEF KeysAreKept, KeyIsKept, Has, Lists
  <2>5. ASSUME NEW p \in Procs, pc[p] \notin Ended \cup {"idle"},
               \A q \in Procs \ {p} : pc'[q] = pc[q]
        PROVE  \A q \in Procs \ {p} : pc'[q] \notin {"loaded", "save"}
    BY <2>2, <2>5 DEF Alone, Running, Ended
  <2>6. ASSUME NEW p \in Procs, Generate(p) PROVE KeysAreKept'
    <3>1. /\ pc[p] = "loaded" /\ pc'[p] = "save"
          /\ \A q \in Procs \ {p} : pc'[q] = pc[q]
          /\ cfg[p] = file /\ IDIsNew(p)
          /\ UNCHANGED <<arg, file, funded>>
      BY <1>1, <2>2, <2>6 DEF Generate, Goes, setting, KeysAreKept
    <3>2. \A q \in Procs \ {p} : pc'[q] \notin {"loaded", "save"}
      BY <2>5, <3>1 DEF Ended
    <3>3. ~Lists(file, p)'
      BY <3>1 DEF IDIsNew, Lists
    <3>4. cfg'[p] = AddWallet(file', arg'[p].chain, arg'[p].id, p)
      BY <1>1, <2>6, <3>1, GenerateAdds
    <3> QED
      BY <1>1, <2>2, <3>1, <3>2, <3>3, <3>4
      DEF KeysAreKept, KeyIsKept, Has, Lists
  <2>7. ASSUME NEW p \in Procs, Rename(p) PROVE KeysAreKept'
    <3>1. /\ pc[p] = "save" /\ pc'[p] = "saved"
          /\ \A q \in Procs \ {p} : pc'[q] = pc[q]
          /\ funded' = funded
      BY <1>1, <2>7 DEF Rename, Goes
    <3>2. \A q \in Procs \ {p} : pc'[q] \notin {"loaded", "save"}
      BY <2>5, <3>1 DEF Ended
    <3> QED
      BY <2>1, <2>2, <2>7, <3>1, <3>2, RenameKeepsKeys DEF KeysAreKept
  <2>8. ASSUME NEW p \in Procs,
               \/ Refuse(p) \/ SaveErr(p) \/ Fund(p) \/ FundErr(p)
               \/ NoFunding(p) \/ Kill(p)
        PROVE  KeysAreKept'
    <3>1. /\ UNCHANGED <<arg, cfg, file>>
          /\ pc'[p] \in Ended
          /\ \A q \in Procs \ {p} : pc'[q] = pc[q]
          /\ funded' = funded \/ (pc[p] = "saved" /\ funded' = funded \cup {p})
      BY <1>1, <2>8, EndStep
    <3>2. pc[p] \notin Ended \cup {"idle"}
      BY <2>8 DEF Refuse, SaveErr, Fund, FundErr, NoFunding, Kill, Goes,
                  Running, Ended
    <3>3. \A q \in Procs : pc'[q] \notin {"loaded", "save"}
      BY <2>5, <3>1, <3>2 DEF Ended
    <3>4. \A f \in funded' : Lists(file, f) /\ KeyIsKept(f)
      BY <2>2, <3>1 DEF KeysAreKept, KeyIsKept, Has
    <3>5. \A f \in funded' : Lists(file, f)' /\ KeyIsKept(f)'
      BY <3>1, <3>4 DEF KeyIsKept, Has, Lists
    <3> QED
      BY <3>3, <3>5 DEF KeysAreKept
  <2>9. ASSUME NEW p \in Procs, Truncate(p) \/ Write(p) PROVE FALSE
    BY <2>1, <2>9 DEF Truncate, Write, Goes, KeyInv, WholeInv
  <2> QED
    BY <2>3, <2>4, <2>6, <2>7, <2>8, <2>9 DEF Next
<1> QED
  BY <1>0, <1>2 DEF KeyInv

\* Without overlapping commands no money goes to a wallet whose key is lost,
\* wherever they fail or are killed (generate-wallet.go:51-115).
THEOREM SpecFundedKeyIsKept == Spec => []FundedKeyIsKept
<1>1. KeyInv => FundedKeyIsKept
  BY DEF KeyInv, KeysAreKept, FundedKeyIsKept
<1>2. KeyInv /\ [Next]_vars => KeyInv'
  BY NextKeyInv
<1> QED
  BY <1>1, <1>2, InitKeyInv, PTL DEF Spec

-----------------------------------------------------------------------------
(* Distribute *)

Pending == [to : Recipients, amount : Nat, missing : Nat]
Executed == [to : Recipients, missing : Nat, ok : BOOLEAN]

\* Reading the low bits as a signed number never makes a number larger.
LEMMA Int64Bound ==
  ASSUME NEW n \in Nat
  PROVE  Int64(n) \in Int /\ Int64(n) <= n
<1>1. n % Word \in 0..(Word - 1) /\ n % Word <= n
  BY WordAssumption
<1> QED
  BY <1>1, WordAssumption DEF Int64

\* What a block does to the balances, and to the sender's transactions.
LEMMA BlockMoves ==
  ASSUME DistributeTypeOK, Block
  PROVE  /\ mempool # <<>> /\ mempool[1] = Head(mempool)
         /\ mempool[1] \in Pending
         /\ Len(mempool) \in Nat \ {0} /\ Len(included) \in Nat
         /\ DOMAIN mempool = 1..Len(mempool)
         /\ mempool' \in Seq(Pending)
         /\ Len(mempool') = Len(mempool) - 1
         /\ DOMAIN mempool' = 1..(Len(mempool) - 1)
         /\ \A i \in 1..(Len(mempool) - 1) : mempool'[i] = mempool[i + 1]
         /\ \E ok \in BOOLEAN :
              /\ included' \in Seq(Executed)
              /\ Len(included') = Len(included) + 1
              /\ \A i \in 1..Len(included) : included'[i] = included[i]
              /\ included'[Len(included) + 1].ok = ok
              /\ balance' \in [Wallets -> Nat]
              /\ \A w \in Recipients :
                   balance'[w] = IF ok /\ w = mempool[1].to
                                 THEN balance[w] + mempool[1].amount
                                 ELSE balance[w]
         /\ UNCHANGED <<phase, todo, wallet, current, sequence, runVars>>
<1> DEFINE tx == Head(mempool)
           ok == tx.amount > 0 /\ balance[Sender] >= tx.amount
           result == [to |-> tx.to, missing |-> tx.missing, ok |-> ok]
<1>1. /\ mempool \in Seq(Pending) /\ mempool # <<>>
      /\ included \in Seq(Executed)
      /\ balance \in [Wallets -> Nat]
  BY DEF DistributeTypeOK, Block, Pending, Executed
<1>2. /\ Len(mempool) \in Nat \ {0} /\ Len(included) \in Nat
      /\ DOMAIN mempool = 1..Len(mempool) /\ mempool[1] = tx
      /\ tx \in Pending
  <2>1. Len(mempool) \in Nat /\ Len(included) \in Nat
        /\ DOMAIN mempool = 1..Len(mempool)
    BY <1>1, LenProperties
  <2>2. Len(mempool) # 0
    BY <1>1, EmptySeq
  <2>4. mempool[1] = tx
    BY <1>1, <2>1, <2>2
  <2>3. mempool[1] \in Pending
    <3>1. 1 \in 1..Len(mempool)
      BY <2>1, <2>2
    <3> QED
      BY <1>1, <3>1, ElementOfSeq
  <2> QED
    BY <2>1, <2>2, <2>3, <2>4
<1>3. /\ mempool' = Tail(mempool) /\ included' = Append(included, result)
      /\ balance' = IF ok
                    THEN [balance EXCEPT ![Sender] = @ - tx.amount,
                                         ![tx.to] = @ + tx.amount]
                    ELSE balance
      /\ UNCHANGED <<phase, todo, wallet, current, sequence, runVars>>
  BY DEF Block, loopVars
<1>4. /\ mempool' \in Seq(Pending)
      /\ Len(mempool') = Len(mempool) - 1
      /\ \A i \in 1..(Len(mempool) - 1) : mempool'[i] = mempool[i + 1]
  BY <1>1, <1>3, HeadTailProperties
<1>5. DOMAIN mempool' = 1..(Len(mempool) - 1)
  BY <1>4, LenProperties
<1>6. ok \in BOOLEAN /\ result \in Executed
  BY <1>2 DEF Pending, Executed
<1>7. /\ included' \in Seq(Executed)
      /\ Len(included') = Len(included) + 1
      /\ \A i \in 1..Len(included) : included'[i] = included[i]
      /\ included'[Len(included) + 1] = result
  BY <1>1, <1>3, <1>6
<1>8. tx.to \in Wallets /\ tx.to # Sender /\ Sender \in Wallets /\ tx.amount \in Nat
  BY <1>2, SenderAssumption DEF Recipients, Pending
<1>9. /\ balance' \in [Wallets -> Nat]
      /\ \A w \in Recipients : balance'[w] = IF ok /\ w = tx.to
                                             THEN balance[w] + tx.amount
                                             ELSE balance[w]
  <2>1. CASE ok
    <3>1. balance[Sender] - tx.amount \in Nat
      BY <1>1, <1>8, <2>1
    <3>2. \A w \in Wallets : balance'[w] = IF w = tx.to
                                          THEN balance[w] + tx.amount
                                          ELSE IF w = Sender
                                               THEN balance[w] - tx.amount
                                               ELSE balance[w]
      BY <1>1, <1>3, <1>8, <2>1
    <3>3. DOMAIN balance' = Wallets /\ balance' = [w \in Wallets |-> balance'[w]]
      BY <1>1, <1>3, <2>1
    <3>4. \A w \in Wallets : balance'[w] \in Nat
      <4> SUFFICES ASSUME NEW w \in Wallets PROVE balance'[w] \in Nat
        OBVIOUS
      <4>1. balance[w] \in Nat /\ balance[w] + tx.amount \in Nat
        BY <1>1, <1>8
      <4>2. \/ balance'[w] = balance[w] + tx.amount
            \/ balance'[w] = balance[w]
            \/ balance'[w] = balance[Sender] - tx.amount
        BY <3>2
      <4> QED
        BY <3>1, <4>1, <4>2
    <3>5. balance' \in [Wallets -> Nat]
      BY <3>3, <3>4
    <3> QED
      BY <1>8, <2>1, <3>2, <3>5 DEF Recipients
  <2>2. CASE ~ok
    BY <1>1, <1>3, <2>2
  <2> QED
    BY <2>1, <2>2
<1> HIDE DEF ok, result
<1>10. result.ok = ok
  BY DEF result
<1>11. \E k \in BOOLEAN :
         /\ included' \in Seq(Executed)
         /\ Len(included') = Len(included) + 1
         /\ \A i \in 1..Len(included) : included'[i] = included[i]
         /\ included'[Len(included) + 1].ok = k
         /\ balance' \in [Wallets -> Nat]
         /\ \A w \in Recipients : balance'[w] = IF k /\ w = mempool[1].to
                                                THEN balance[w] + mempool[1].amount
                                                ELSE balance[w]
  BY <1>2, <1>6, <1>7, <1>9, <1>10, Zenon
<1> QED
  BY <1>1, <1>2, <1>3, <1>4, <1>5, <1>11

\* A block takes nothing from a recipient.
LEMMA BalancesGrow ==
  ASSUME DistributeTypeOK, Block, NEW w \in Recipients
  PROVE  balance[w] \in Nat /\ balance'[w] \in Nat /\ balance'[w] >= balance[w]
<1>1. PICK ok \in BOOLEAN :
        balance'[w] = IF ok /\ w = mempool[1].to
                      THEN balance[w] + mempool[1].amount ELSE balance[w]
  BY BlockMoves
<1>2. mempool[1].amount \in Nat
  BY BlockMoves DEF Pending
<1>3. balance[w] \in Nat
  BY DEF DistributeTypeOK, Recipients
<1> QED
  BY <1>1, <1>2, <1>3

\* The initial balances, whatever they are.
LEMMA InitDistributeTypeOK ==
  ASSUME DistributeInit
  PROVE  DistributeTypeOK
<1>1. balance \in [Wallets -> Nat]
  <2>1. balance \in [Wallets -> Holdings \cup Funds]
    BY DEF DistributeInit, InitialBalances
  <2>2. Holdings \cup Funds \subseteq Nat
    BY AmountAssumption
  <2> QED
    BY <2>1, <2>2
<1> QED
  BY <1>1, SenderAssumption, RunsAssumption, EmptySeq DEF DistributeInit, DistributeTypeOK

\* Accept appends this iteration's transaction, which does not send more than
\* the wallet misses.
LEMMA AcceptAppends ==
  ASSUME DistributeTypeOK, AmountIsMissing, phase = "broadcast", Accept
  PROVE  /\ mempool' \in Seq(Pending)
         /\ Len(mempool) \in Nat /\ Len(mempool') = Len(mempool) + 1
         /\ DOMAIN mempool = 1..Len(mempool)
         /\ DOMAIN mempool' = 1..(Len(mempool) + 1)
         /\ \A i \in 1..Len(mempool) : mempool'[i] = mempool[i]
         /\ mempool'[Len(mempool) + 1].to = wallet
         /\ mempool'[Len(mempool) + 1].amount = AmountSent
         /\ AmountSent \in Nat /\ AmountSent <= minimum - current
         /\ waits => AmountSent = minimum - current
<1> DEFINE tx == [to |-> wallet, amount |-> AmountSent, missing |-> AmountToSend]
<1>1. AmountToSend \in Nat /\ AmountToSend = minimum - current /\ wallet \in Recipients
  BY DEF DistributeTypeOK, AmountIsMissing, Funding, Visiting, AmountToSend
<1>2. /\ AmountSent \in Nat /\ AmountSent <= minimum - current
      /\ waits => AmountSent = minimum - current
  BY <1>1, Int64Bound DEF AmountSent, AmountIsMissing
<1>3. mempool' = Append(mempool, tx) /\ mempool \in Seq(Pending) /\ tx \in Pending
  BY <1>1, <1>2 DEF Accept, DistributeTypeOK, Pending
<1>4. tx.to = wallet /\ tx.amount = AmountSent
  OBVIOUS
<1> HIDE DEF tx
<1>5. /\ mempool' \in Seq(Pending)
      /\ Len(mempool) \in Nat /\ Len(mempool') = Len(mempool) + 1
      /\ \A i \in 1..Len(mempool) : mempool'[i] = mempool[i]
      /\ mempool'[Len(mempool) + 1] = tx
  BY <1>3, LenProperties
<1>6. DOMAIN mempool = 1..Len(mempool) /\ DOMAIN mempool' = 1..(Len(mempool) + 1)
  BY <1>3, <1>5, LenProperties
<1> QED
  BY <1>2, <1>4, <1>5, <1>6

\* Every step of the command and every block keep the types.
LEMMA NextDistributeTypeOK ==
  ASSUME DistributeTypeOK, AmountIsMissing, [DistributeNext]_distributeVars
  PROVE  DistributeTypeOK' /\ AmountIsMissing'
<1>1. CASE Start
  BY <1>1, RunsAssumption, AmountAssumption
  DEF Start, chainVars, DistributeTypeOK, AmountIsMissing, Visiting, Funding
<1>2. ASSUME NEW w \in Recipients, Pick(w) PROVE DistributeTypeOK' /\ AmountIsMissing'
  BY <1>2 DEF Pick, Proceeds, chainVars, runVars, DistributeTypeOK, AmountIsMissing,
              Visiting, Funding, Recipients
<1>3. CASE Completed \/ BroadcastRejected \/ Receipt
  BY <1>3
  DEF Completed, BroadcastRejected, Receipt, Proceeds, loopVars, chainVars, runVars,
      DistributeTypeOK, AmountIsMissing, Visiting, Funding
<1>4. CASE GetBalance
  BY <1>4
  DEF GetBalance, Skip, Proceeds, chainVars, runVars, DistributeTypeOK, AmountIsMissing,
      Visiting, Funding
<1>5. CASE AccountInfo
  BY <1>5, LenProperties
  DEF AccountInfo, Proceeds, chainVars, runVars, DistributeTypeOK, AmountIsMissing,
      AmountSent, AmountToSend, Visiting, Funding
<1>6. CASE Broadcast \/ Failure
  <2>1. mempool' \in Seq(Pending)
    BY <1>6, AcceptAppends DEF Broadcast, Failure, Proceeds, DistributeTypeOK, Pending
  <2> QED
    BY <1>6, <2>1
    DEF Broadcast, Failure, Proceeds, loopVars, runVars, DistributeTypeOK, Pending,
        AmountIsMissing, Visiting, Funding
<1>7. CASE Block
  <2>1. DistributeTypeOK'
    BY <1>7, BlockMoves DEF DistributeTypeOK, runVars, Pending, Executed
  <2>2. UNCHANGED <<phase, wallet, current, minimum, waits>>
    BY <1>7, BlockMoves DEF runVars
  <2>3. \A w \in Recipients : balance'[w] >= balance[w]
    BY <1>7, BalancesGrow
  <2>4. AmountIsMissing'
    BY <2>1, <2>2, <2>3
    DEF AmountIsMissing, AmountSent, AmountToSend, Funding, Visiting, DistributeTypeOK,
        Recipients
  <2> QED
    BY <2>1, <2>4
<1>8. CASE UNCHANGED distributeVars
  BY <1>8
  DEF loopVars, chainVars, runVars, distributeVars, DistributeTypeOK, AmountIsMissing,
      AmountSent, AmountToSend, Visiting, Funding
<1> QED
  BY <1>1, <1>2, <1>3, <1>4, <1>5, <1>6, <1>7, <1>8 DEF DistributeNext, Loop

-----------------------------------------------------------------------------
(* Completed means funded, if Send waits for the receipt.                  *)

\* Before the first run nothing is claimed.
LEMMA InitFundedInv == DistributeInit => FundedInv
<1> SUFFICES ASSUME DistributeInit PROVE FundedInv
  OBVIOUS
<1>1. phase = "idle"
  BY DEF DistributeInit
<1> QED
  BY <1>1, InitDistributeTypeOK
  DEF FundedInv, VisitedAreFunded, CompletedIsDone, AmountIsMissing,
      ReceiptIsMine, Visiting, Funding

\* A step of the loop visits wallets that have the minimum, or waits for the
\* receipt that says so.
LEMMA LoopFundedInv ==
  ASSUME waits, FundedInv, Loop
  PROVE  VisitedAreFunded' /\ ReceiptIsMine'
<1>0. DistributeTypeOK /\ AmountIsMissing
  BY DEF FundedInv
<1>1. CASE Start
  BY <1>1 DEF Start, VisitedAreFunded, Visited, ReceiptIsMine
<1>2. ASSUME NEW w \in Recipients, Pick(w)
      PROVE  VisitedAreFunded' /\ ReceiptIsMine'
  <2>1. phase = "loop" /\ phase' = "balance" /\ todo' = todo \ {w} /\ wallet' = w
        /\ UNCHANGED <<balance, minimum>>
    BY <1>2 DEF Pick, Proceeds, chainVars, runVars
  <2>2. Visited' = Visited
    BY <1>2, <2>1 DEF Pick, Visited, Visiting, Funding
  <2> QED
    BY <2>1, <2>2 DEF FundedInv, VisitedAreFunded, ReceiptIsMine
<1>3. CASE Completed
  BY <1>3 DEF Completed, Proceeds, loopVars, chainVars, runVars, FundedInv,
              VisitedAreFunded, Visited, Visiting, Funding, ReceiptIsMine
<1>4. CASE GetBalance
  <2>1. phase = "balance" /\ UNCHANGED <<todo, wallet, balance, minimum>>
    BY <1>4 DEF GetBalance, Proceeds, chainVars, runVars
  <2>2. Visited' \subseteq Visited \cup {wallet}
    BY <2>1 DEF Visited, Visiting, Funding
  <2>3. phase' = "account" => Visited' = Visited
    BY <2>1 DEF Visited, Visiting, Funding
  <2>4. \A w \in Visited : balance[w] >= minimum
    BY <2>1 DEF FundedInv, VisitedAreFunded
  <2>5. CASE Skip
    BY <1>4, <2>1, <2>2, <2>4, <2>5
    DEF GetBalance, Overflows, Proceeds, Skip, VisitedAreFunded, ReceiptIsMine
  <2>6. CASE ~Skip
    BY <1>4, <2>1, <2>3, <2>4, <2>6
    DEF GetBalance, Overflows, Proceeds, VisitedAreFunded, ReceiptIsMine
  <2> QED
    BY <2>5, <2>6
<1>5. CASE AccountInfo
  BY <1>5 DEF AccountInfo, Proceeds, chainVars, runVars, FundedInv, VisitedAreFunded,
              Visited, Visiting, Funding, ReceiptIsMine
<1>6. CASE Broadcast
  <2>1. phase = "broadcast" /\ phase' = "receipt" /\ Accept
        /\ UNCHANGED <<todo, wallet, current, sequence, balance, included, minimum>>
    BY <1>6 DEF Broadcast, Proceeds, loopVars, runVars
  <2>2. VisitedAreFunded'
    BY <2>1 DEF FundedInv, VisitedAreFunded, Visited, Visiting, Funding
  <2>3. sequence - Len(included) = Len(mempool) /\ Len(included) \in Nat
    BY <1>0, <1>6, LenProperties DEF Broadcast, DistributeTypeOK
  <2>4. Len(mempool) \in Nat /\ Len(mempool') = Len(mempool) + 1
        /\ mempool'[Len(mempool) + 1].to = wallet
        /\ mempool'[Len(mempool) + 1].amount = minimum - current
    BY <1>0, <2>1, AcceptAppends
  <2>5. ReceiptIsMine'
    BY <2>1, <2>3, <2>4 DEF ReceiptIsMine
  <2> QED
    BY <2>2, <2>5
<1>7. CASE BroadcastRejected \/ Failure
  BY <1>7 DEF BroadcastRejected, Failure, Proceeds, VisitedAreFunded,
              ReceiptIsMine
<1>8. CASE Receipt
  <2>1. phase = "receipt" /\ UNCHANGED <<todo, wallet, balance, minimum>>
        /\ phase' = IF included[sequence + 1].ok THEN "loop" ELSE "failed"
    BY <1>8 DEF Receipt, Proceeds, loopVars, chainVars, runVars
  <2>2. Len(included) > sequence /\ Len(included) \in Nat /\ sequence \in Nat
    BY <1>0, <1>8, LenProperties DEF Receipt, DistributeTypeOK
  <2>3. included[sequence + 1].ok => balance[wallet] >= minimum
    BY <2>1, <2>2 DEF FundedInv, ReceiptIsMine
  <2>4. Visited' \subseteq Visited \cup {wallet}
    BY <2>1 DEF Visited
  <2> QED
    BY <2>1, <2>3, <2>4 DEF FundedInv, VisitedAreFunded, ReceiptIsMine
<1> QED
  BY <1>1, <1>2, <1>3, <1>4, <1>5, <1>6, <1>7, <1>8 DEF Loop

\* A block takes this iteration's transaction, or one before it.
LEMMA BlockFundedInv ==
  ASSUME waits, FundedInv, Block
  PROVE  VisitedAreFunded' /\ ReceiptIsMine'
<1>0. DistributeTypeOK /\ AmountIsMissing /\ minimum \in Nat
  BY DEF FundedInv, DistributeTypeOK
<1>1. UNCHANGED <<phase, todo, wallet, current, sequence, minimum>>
  BY <1>0, BlockMoves DEF runVars
<1>2. \A w \in Recipients : /\ balance[w] \in Nat /\ balance'[w] \in Nat
                            /\ balance'[w] >= balance[w]
  BY <1>0, BalancesGrow
<1>3. VisitedAreFunded'
  <2>1. Visited' = Visited /\ Visited \subseteq Recipients
    BY <1>1 DEF Visited, Visiting, Funding
  <2> QED
    BY <1>0, <1>1, <1>2, <2>1 DEF FundedInv, VisitedAreFunded
<1>4. ASSUME phase = "receipt" PROVE ReceiptIsMine'
  <2>1. wallet \in Recipients /\ current \in Nat /\ sequence \in Nat
        /\ current < minimum /\ current <= balance[wallet]
    BY <1>0, <1>4 DEF AmountIsMissing, Visiting, Funding, DistributeTypeOK
  <2>2. PICK ok \in BOOLEAN :
              /\ Len(included') = Len(included) + 1
              /\ \A i \in 1..Len(included) : included'[i] = included[i]
              /\ included'[Len(included) + 1].ok = ok
              /\ \A w \in Recipients :
                   balance'[w] = IF ok /\ w = mempool[1].to
                                 THEN balance[w] + mempool[1].amount
                                 ELSE balance[w]
    BY <1>0, BlockMoves
  <2>3. /\ Len(mempool) \in Nat \ {0} /\ Len(included) \in Nat
        /\ Len(mempool') = Len(mempool) - 1
        /\ \A i \in 1..(Len(mempool) - 1) : mempool'[i] = mempool[i + 1]
    BY <1>0, BlockMoves
  <2>4. CASE /\ sequence < Len(included)
             /\ included[sequence + 1].ok => balance[wallet] >= minimum
    <3>1. sequence + 1 \in 1..Len(included) /\ sequence < Len(included')
      BY <2>1, <2>2, <2>3, <2>4
    <3>2. included'[sequence + 1] = included[sequence + 1]
      BY <2>2, <3>1
    <3> QED
      BY <1>0, <1>1, <1>2, <2>1, <2>4, <3>1, <3>2 DEF ReceiptIsMine
  <2>5. CASE /\ sequence = Len(included)
             /\ mempool[1].to = wallet /\ mempool[1].amount = minimum - current
    <3>1. sequence < Len(included') /\ included'[sequence + 1].ok = ok
      BY <2>2, <2>3, <2>5
    <3>2. ok => balance'[wallet] = balance[wallet] + (minimum - current)
      BY <2>1, <2>2, <2>5
    <3>3. ok => balance'[wallet] >= minimum
      BY <1>0, <1>2, <2>1, <3>2
    <3> QED
      BY <1>1, <3>1, <3>3 DEF ReceiptIsMine
  <2>6. CASE /\ sequence - Len(included) \in 1..(Len(mempool) - 1)
             /\ mempool[sequence - Len(included) + 1].to = wallet
             /\ mempool[sequence - Len(included) + 1].amount = minimum - current
    <3>1. /\ sequence - Len(included') \in 0..(Len(mempool') - 1)
          /\ sequence - Len(included') + 1 = sequence - Len(included)
      BY <2>1, <2>2, <2>3, <2>6
    <3>2. mempool'[sequence - Len(included)]
            = mempool[sequence - Len(included) + 1]
      BY <2>3, <2>6
    <3> QED
      BY <1>1, <2>6, <3>1, <3>2 DEF ReceiptIsMine
  <2>7. ASSUME sequence - Len(included) \in 0..(Len(mempool) - 1),
               sequence # Len(included)
        PROVE  sequence - Len(included) \in 1..(Len(mempool) - 1)
    BY <2>1, <2>3, <2>7
  <2>8. sequence = Len(included) => sequence - Len(included) + 1 = 1
    BY <2>1, <2>3
  <2> QED
    BY <1>4, <2>4, <2>5, <2>6, <2>7, <2>8 DEF FundedInv, ReceiptIsMine
<1>5. ASSUME phase # "receipt" PROVE ReceiptIsMine'
  BY <1>1, <1>5 DEF ReceiptIsMine
<1> QED
  BY <1>3, <1>4, <1>5

\* Where Send waits for the receipt, the command says that the distribution
\* completed only when every wallet has the minimum, with leftovers of an
\* earlier, failed run still pending, too (distribute.go:63-117).
THEOREM SpecCompletedMeansFunded == DistributeSpec => []CompletedMeansFunded
<1>1. FundedInv /\ [DistributeNext]_distributeVars => FundedInv'
  <2> SUFFICES ASSUME FundedInv, [DistributeNext]_distributeVars PROVE FundedInv'
    OBVIOUS
  <2>1. DistributeTypeOK' /\ AmountIsMissing'
    BY NextDistributeTypeOK DEF FundedInv
  <2>2. CompletedIsDone'
    BY DEF DistributeNext, Loop, Start, Pick, Completed, GetBalance, AccountInfo,
           Broadcast, BroadcastRejected, Receipt, Failure, Block, Proceeds,
           loopVars, distributeVars, FundedInv, CompletedIsDone
  <2>3. waits' = waits
    BY DEF DistributeNext, Loop, Start, Pick, Completed, GetBalance, AccountInfo,
           Broadcast, BroadcastRejected, Receipt, Failure, Block, runVars,
           distributeVars
  <2>4. ASSUME waits PROVE VisitedAreFunded' /\ ReceiptIsMine'
    <3>1. CASE Loop
      BY <2>4, <3>1, LoopFundedInv
    <3>2. CASE Block
      BY <2>4, <3>2, BlockFundedInv
    <3>3. CASE UNCHANGED distributeVars
      BY <2>4, <3>3
      DEF FundedInv, distributeVars, loopVars, chainVars, runVars, VisitedAreFunded,
          Visited, Visiting, Funding, ReceiptIsMine
    <3> QED
      BY <3>1, <3>2, <3>3 DEF DistributeNext
  <2> QED
    BY <2>1, <2>2, <2>3, <2>4 DEF FundedInv
<1>2. FundedInv => CompletedMeansFunded
  BY DEF FundedInv, CompletedIsDone, VisitedAreFunded, Visited, Visiting,
         Funding, CompletedMeansFunded
<1> QED
  BY <1>1, <1>2, InitFundedInv, PTL DEF DistributeSpec
-----------------------------------------------------------------------------
(* A run that starts with nothing pending overfunds nobody, whether or not *)
(* Send waits.                                                             *)

\* Before the run nothing is pending.
LEMMA InitOneRunInv == DistributeInit => OneRunInv
<1> SUFFICES ASSUME DistributeInit PROVE OneRunInv
  OBVIOUS
<1>1. phase = "idle" /\ mempool = <<>> /\ DOMAIN mempool = {}
  BY DEF DistributeInit
<1> QED
  BY <1>1, InitDistributeTypeOK
  DEF OneRunInv, AmountIsMissing, PendingFits, Visiting, Funding

\* A transaction that is sent fits, and is the only one to its recipient.
LEMMA AcceptFits ==
  ASSUME OneRunInv, clean, phase = "broadcast", Accept, phase' # "broadcast",
         phase' \notin {"balance", "account"},
         UNCHANGED <<todo, wallet, balance, minimum>>
  PROVE  PendingFits'
<1>0. DistributeTypeOK /\ AmountIsMissing /\ minimum \in Nat /\ PendingFits
      /\ current = balance[wallet] /\ wallet \notin todo /\ current \in Nat
  BY DEF OneRunInv, DistributeTypeOK, Visiting, Funding
<1>1. /\ Len(mempool) \in Nat
      /\ DOMAIN mempool = 1..Len(mempool)
      /\ DOMAIN mempool' = 1..(Len(mempool) + 1)
      /\ \A i \in 1..Len(mempool) : mempool'[i] = mempool[i]
      /\ mempool'[Len(mempool) + 1].to = wallet
      /\ mempool'[Len(mempool) + 1].amount \in Nat
      /\ mempool'[Len(mempool) + 1].amount <= minimum - current
  BY <1>0, AcceptAppends
<1>2. \A i \in 1..Len(mempool) :
        /\ balance[mempool[i].to] + mempool[i].amount <= minimum
        /\ mempool[i].to \notin todo /\ mempool[i].to # wallet
  BY <1>0, <1>1 DEF PendingFits
<1>3. ASSUME NEW i \in DOMAIN mempool'
      PROVE  /\ balance[mempool'[i].to] + mempool'[i].amount <= minimum
             /\ mempool'[i].to \notin todo
  <2>1. CASE i \in 1..Len(mempool)
    BY <1>1, <1>2, <2>1
  <2>2. CASE i = Len(mempool) + 1
    BY <1>0, <1>1, <2>2
  <2> QED
    BY <1>1, <2>1, <2>2
<1>4. ASSUME NEW i \in DOMAIN mempool', NEW j \in DOMAIN mempool',
             mempool'[i].to = mempool'[j].to
      PROVE  i = j
  <2>1. CASE i \in 1..Len(mempool) /\ j \in 1..Len(mempool)
    BY <1>0, <1>1, <1>4, <2>1 DEF PendingFits
  <2>2. CASE i = Len(mempool) + 1 \/ j = Len(mempool) + 1
    BY <1>1, <1>2, <1>4, <2>2
  <2> QED
    BY <1>1, <2>1, <2>2
<1> QED
  BY <1>3, <1>4 DEF PendingFits

\* The loop.  A run that starts with something pending is not spoken of.
LEMMA LoopOneRunInv ==
  ASSUME OneRunInv, Loop
  PROVE  OneRunInv'
<1>0. DistributeTypeOK /\ AmountIsMissing /\ DistributeTypeOK' /\ AmountIsMissing'
  BY NextDistributeTypeOK DEF OneRunInv, DistributeNext
<1>1. CASE Start
  <2>1. phase' = "loop" /\ (clean' => mempool' = <<>>)
    BY <1>1 DEF Start, chainVars
  <2>2. mempool' = <<>> => DOMAIN mempool' = {}
    OBVIOUS
  <2> QED
    BY <1>0, <2>1, <2>2 DEF OneRunInv, PendingFits, Visiting, Funding
<1>2. ASSUME NEW w \in Recipients, Pick(w) PROVE OneRunInv'
  BY <1>0, <1>2 DEF Pick, Proceeds, chainVars, runVars, OneRunInv, PendingFits,
                    Visiting, Funding
<1>3. CASE Completed \/ AccountInfo \/ BroadcastRejected \/ Receipt
  BY <1>0, <1>3 DEF Completed, AccountInfo, BroadcastRejected, Receipt, Proceeds,
                    loopVars, chainVars, runVars, OneRunInv, PendingFits, Visiting,
                    Funding
<1>4. CASE GetBalance
  BY <1>0, <1>4 DEF GetBalance, Proceeds, chainVars, runVars, OneRunInv, PendingFits,
                    Visiting, Funding
<1>5. CASE Broadcast
  <2>1. /\ phase = "broadcast" /\ phase' \in {"receipt", "loop"} /\ Accept
        /\ UNCHANGED <<todo, wallet, balance, minimum, clean>>
    BY <1>5 DEF Broadcast, Proceeds, loopVars, runVars
  <2>2. clean => PendingFits'
    BY <2>1, AcceptFits
  <2> QED
    BY <1>0, <2>1, <2>2 DEF OneRunInv, Visiting, Funding
<1>6. CASE Failure
  <2>1. phase' = "failed" /\ UNCHANGED <<todo, wallet, balance, minimum, clean>>
    BY <1>6 DEF Failure, Proceeds, loopVars, runVars
  <2>2. clean => PendingFits'
    <3>1. CASE UNCHANGED mempool
      BY <2>1, <3>1 DEF OneRunInv, PendingFits
    <3>2. CASE phase = "broadcast" /\ Accept
      BY <2>1, <3>2, AcceptFits
    <3> QED
      BY <1>6, <3>1, <3>2 DEF Failure
  <2> QED
    BY <1>0, <2>1, <2>2 DEF OneRunInv, Visiting, Funding
<1> QED
  BY <1>1, <1>2, <1>3, <1>4, <1>5, <1>6 DEF Loop

\* What a block executes is not pending any more, and was the recipient's only
\* transaction.
LEMMA BlockOneRunInv ==
  ASSUME OneRunInv, clean, Block
  PROVE  OneRunInv'
<1>0. DistributeTypeOK /\ AmountIsMissing /\ DistributeTypeOK' /\ AmountIsMissing'
  BY NextDistributeTypeOK DEF OneRunInv, DistributeNext
<1>1. /\ UNCHANGED <<phase, todo, wallet, current, minimum, clean>>
      /\ mempool # <<>> /\ Len(mempool) \in Nat \ {0}
      /\ DOMAIN mempool = 1..Len(mempool)
      /\ DOMAIN mempool' = 1..(Len(mempool) - 1)
      /\ \A i \in 1..(Len(mempool) - 1) : mempool'[i] = mempool[i + 1]
  BY <1>0, BlockMoves DEF runVars
<1>2. \A w \in Recipients : w # mempool[1].to => balance'[w] = balance[w]
  BY <1>0, BlockMoves
<1>3. \A i \in 1..(Len(mempool) - 1) :
        /\ i + 1 \in DOMAIN mempool /\ 1 \in DOMAIN mempool /\ i + 1 # 1
        /\ mempool[i + 1].to \in Recipients
  <2> SUFFICES ASSUME NEW i \in 1..(Len(mempool) - 1)
               PROVE  /\ i + 1 \in DOMAIN mempool /\ 1 \in DOMAIN mempool
                      /\ i + 1 # 1 /\ mempool[i + 1].to \in Recipients
    OBVIOUS
  <2>1. i + 1 \in 1..Len(mempool) /\ 1 \in 1..Len(mempool) /\ i + 1 # 1
    BY <1>1
  <2>2. mempool[i + 1] \in Pending
    BY <1>0, <2>1, ElementOfSeq DEF DistributeTypeOK, Pending
  <2> QED
    BY <1>1, <2>1, <2>2 DEF Pending
<1>4. ASSUME NEW i \in DOMAIN mempool'
      PROVE  /\ balance'[mempool'[i].to] + mempool'[i].amount <= minimum
             /\ mempool'[i].to \notin todo
             /\ phase \in {"balance", "account", "broadcast"}
                  => mempool'[i].to # wallet
  <2>1. mempool'[i] = mempool[i + 1] /\ i + 1 \in DOMAIN mempool
        /\ mempool[i + 1].to \in Recipients
    BY <1>1, <1>3
  <2>2. mempool[i + 1].to # mempool[1].to
    BY <1>1, <1>3 DEF OneRunInv, PendingFits
  <2> QED
    BY <1>2, <2>1, <2>2 DEF OneRunInv, PendingFits
<1>5. ASSUME NEW i \in DOMAIN mempool', NEW j \in DOMAIN mempool',
             mempool'[i].to = mempool'[j].to
      PROVE  i = j
  <2> DEFINE k == i + 1
             m == j + 1
  <2>1. /\ k \in DOMAIN mempool /\ mempool'[i] = mempool[k]
        /\ m \in DOMAIN mempool /\ mempool'[j] = mempool[m]
    BY <1>1, <1>3
  <2> HIDE DEF k, m
  <2>2. k = m
    BY <1>5, <2>1 DEF OneRunInv, PendingFits
  <2> QED
    BY <1>1, <2>2 DEF k, m
<1>6. PendingFits'
  BY <1>1, <1>4, <1>5 DEF PendingFits
<1>7. phase # "idle"
  BY <1>1 DEF OneRunInv
<1>8. ASSUME phase \in {"account", "broadcast"} PROVE current' = balance'[wallet']
  <2>1. wallet \in Recipients /\ current = balance[wallet]
    BY <1>0, <1>8 DEF OneRunInv, AmountIsMissing, Visiting, Funding
  <2>2. 1 \in DOMAIN mempool
    BY <1>1
  <2>3. mempool[1].to # wallet
    BY <1>8, <2>2 DEF OneRunInv, PendingFits
  <2> QED
    BY <1>1, <1>2, <2>1, <2>3
<1> QED
  BY <1>0, <1>1, <1>6, <1>7, <1>8 DEF OneRunInv, Visiting, Funding

\* No transfer lifts a recipient above the minimum in a run that was started
\* with nothing pending, although Cosmos's Send does not wait for the one
\* before and truncates the amount (distribute.go:63-117, send.go:39).
THEOREM SpecNeverOverfunded == DistributeSpec => NeverOverfunded
<1>1. OneRunInv /\ [DistributeNext]_distributeVars => OneRunInv'
  <2>1. ASSUME OneRunInv, UNCHANGED distributeVars PROVE OneRunInv'
    BY <2>1 DEF distributeVars, loopVars, chainVars, runVars, OneRunInv,
                DistributeTypeOK, AmountIsMissing, AmountSent, AmountToSend,
                PendingFits, Visiting, Funding
  <2>2. ASSUME OneRunInv, Block, ~clean PROVE OneRunInv'
    <3>1. DistributeTypeOK' /\ AmountIsMissing'
      BY <2>2, NextDistributeTypeOK DEF OneRunInv, DistributeNext
    <3>2. UNCHANGED <<phase, todo, wallet, clean>> /\ phase # "idle"
      BY <2>2 DEF Block, loopVars, runVars, OneRunInv
    <3> QED
      BY <2>2, <3>1, <3>2 DEF OneRunInv, Visiting, Funding
  <2> QED
    BY <2>1, <2>2, LoopOneRunInv, BlockOneRunInv DEF DistributeNext
<1>2. ASSUME OneRunInv, [DistributeNext]_distributeVars, clean, NEW w \in Recipients,
             balance'[w] > balance[w]
      PROVE  balance'[w] <= minimum
  <2>1. CASE Block
    <3>1. balance[w] \in Nat /\ DistributeTypeOK
      BY <1>2 DEF OneRunInv, DistributeTypeOK, Recipients
    <3>2. balance'[w] = balance[w] + mempool[1].amount /\ w = mempool[1].to
      BY <1>2, <2>1, <3>1, BlockMoves
    <3>3. 1 \in DOMAIN mempool
      BY <2>1, <3>1, BlockMoves
    <3> QED
      BY <1>2, <3>2, <3>3 DEF OneRunInv, PendingFits
  <2>2. CASE Loop \/ UNCHANGED distributeVars
    <3>1. UNCHANGED balance /\ balance[w] \in Nat
      BY <1>2, <2>2 DEF Loop, Start, Pick, Completed, GetBalance, AccountInfo,
                  Broadcast, BroadcastRejected, Receipt, Failure, chainVars,
                  distributeVars, OneRunInv, DistributeTypeOK, Recipients
    <3> QED
      BY <1>2, <3>1
  <2> QED
    BY <1>2, <2>1, <2>2 DEF DistributeNext
<1>3. OneRunInv /\ [DistributeNext]_distributeVars =>
        [clean => \A w \in Recipients :
           balance'[w] > balance[w] => balance'[w] <= minimum]_distributeVars
  BY <1>2
<1> QED
  BY <1>1, <1>3, InitOneRunInv, PTL DEF DistributeSpec, NeverOverfunded
=============================================================================
