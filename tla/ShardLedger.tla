---------------------------- MODULE ShardLedger -----------------------------
(***************************************************************************)
(* ShardState (src/runtime/state.py): the ledger of finished shards.       *)
(*                                                                         *)
(* A session works on its own copy, mem, of the ledger file: load_or_create *)
(* reads the file once, mark_complete updates mem and then writes ALL of   *)
(* mem over the file, atomically (a temporary file and os.replace).        *)
(***************************************************************************)
EXTENDS ShardFiles

VARIABLES
  mem,       (* _shards of the running session: shard -> digests or None.  *)
  disk,      (* The "shards" object of the ledger file.                    *)
  diskCfg    (* run_config_sha256 of the ledger file; None: no file yet.   *)

ledgerVars == <<mem, disk, diskCfg>>

Ledgers == [Shards -> Digests \union {None}]

Empty == [s \in Shards |-> None]

LedgerTypeOK ==
  /\ mem \in Ledgers
  /\ disk \in Ledgers
  /\ diskCfg \in Configs \union {None}

LedgerInit ==
  /\ mem = Empty
  /\ disk = Empty
  /\ diskCfg = None

Complete(s) == mem[s] # None

-----------------------------------------------------------------------------
\* MUTANT: resume without comparing run_config_sha256.
LoadAnyConfig(cfg) ==
  /\ mem' = disk
  /\ UNCHANGED <<disk, diskCfg>>

\* MUTANT: start from a fresh ledger although the file exists.
LoadFresh(cfg) ==
  /\ diskCfg \in {None, cfg}
  /\ mem' = Empty
  /\ UNCHANGED <<disk, diskCfg>>

(***************************************************************************)
(* load_or_create.  A ledger written under another run config is refused   *)
(* (StateError before anything runs): then the session does not start.     *)
(***************************************************************************)
LoadOrCreate(cfg) ==
  /\ diskCfg \in {None, cfg}
  /\ mem' = disk
  /\ UNCHANGED <<disk, diskCfg>>

(***************************************************************************)
(* mark_complete accepts a record for a shard it does not hold yet, or the *)
(* same digests again; different ones are a StateError.                    *)
(***************************************************************************)
Accepts(s, digests) == mem[s] \in {None, digests}

(***************************************************************************)
(* mark_complete inserts into the copy and saves it: the two happen in     *)
(* this order, so a save that fails leaves the record in the copy alone.   *)
(***************************************************************************)
Insert(s, digests) == mem' = [mem EXCEPT ![s] = digests]

Save(cfg) ==
  /\ disk' = mem'
  /\ diskCfg' = cfg

SaveFails == UNCHANGED <<disk, diskCfg>>

\* The process is gone and its copy with it.
DropCopy ==
  /\ mem' = Empty
  /\ UNCHANGED <<disk, diskCfg>>

\* The ledger file lives on scratch, which need not outlive the session.
LoseLedger ==
  /\ mem' = Empty
  /\ disk' = Empty
  /\ diskCfg' = None
=============================================================================
