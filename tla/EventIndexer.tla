---------------------------- MODULE EventIndexer ----------------------------
(***************************************************************************)
(* The event indexer copies the logs of the AssetNFT contract into the     *)
(* audit trail and lets the registry's owner follow the token              *)
(* (src/backend/app/indexer/event_indexer.py, api/indexer.py, main.py).    *)
(*                                                                         *)
(* A background task polls the chain from a cursor that is kept in memory  *)
(* and saved after each scan; an Administrator may start a catch-up that   *)
(* shares the cursor.  The server may crash between any two steps, the     *)
(* chain's RPC may fail, and the development chain may be replaced.        *)
(***************************************************************************)
EXTENDS Integers, Sequences, FiniteSets

CONSTANTS
  Owner,         \* active identities
  Recipient,     \* the owners a transfer is seen to name
  Holder,        \* the owner in the registry at the start
  Window,        \* blocks polled at once (500)
  MaxBlock,      \* bound on the head of a chain
  MaxChain,      \* bound on replacements of the chain
  MaxFaults,     \* bound on failed calls and crashes of the server
  AfterSkip,     \* bound: whether all goes on when a log may be passed over
  None

ASSUME BoundAssumption ==
  /\ Window \in Nat \ {0} /\ MaxBlock \in Nat /\ MaxChain \in Nat
  /\ MaxFaults \in Nat
  /\ AfterSkip \in BOOLEAN /\ Holder \in Owner
ASSUME OwnerAssumption == None \notin Owner \union Recipient

VARIABLES
  number,        \* which chain this is
  blocks,        \* its blocks: the one log of each
  audit,         \* audit_events: how often each log was recorded
  owner,         \* assets.owner_id of the token's registry row
  saved,         \* indexer_state: chain (its block hash) and last_block
  cursor,        \* _last_indexed_block
  task,          \* the polling task
  scan,          \* what the poller and the catch-up are indexing
  faults,        \* failed calls and crashes so far
  skipped,       \* history: a catch-up jumped, a commit failed, or the
                 \* chain was replaced under the running poller
  overlapped     \* history: the poller and a catch-up ran at once

indexerVars == <<number, blocks, audit, owner, saved, cursor, task, scan, faults,
                 skipped, overlapped>>
chain == <<number, blocks>>

-----------------------------------------------------------------------------
(* Types and derived state. *)

Kinds == {"transfer", "other"}         \* in the order they are fetched
Blocks == 1..MaxBlock
Logs == [kind : {"transfer"}, to : Recipient] \union [kind : {"other"}, to : {None}]
Chains == 0..MaxChain
Events == Chains \X Blocks             \* transaction hash and log index
Drivers == {"poll", "catchup"}

ASSUME SentinelAssumption ==
  None \notin Events /\ \A some \in SUBSET Events : some # None

Scans == [from : 0..MaxBlock + 1, to : Blocks,
          stage   : Kinds \union {"end"},
          fetched : (SUBSET Events) \union {None}, \* get_logs; None: not called yet
          held    : Events \union {None},         \* found not to be indexed
          seen    : Owner \union {None},          \* the session's copy of the owner
          failed  : BOOLEAN]
NoScan == [stage |-> "idle"]

IndexerTypeOK ==
  /\ number \in Chains
  /\ blocks \in Seq(Logs) /\ Len(blocks) <= MaxBlock
  /\ audit \in [Events -> Nat]
  /\ owner \in Owner
  /\ saved \in [chain : Chains, block : 0..MaxBlock] \union {None}
  /\ cursor \in 0..MaxBlock
  /\ task \in {"starting", "polling", "saving", "dead"}
  /\ scan \in [Drivers -> Scans \union {NoScan}]
  /\ faults \in 0..MaxFaults
  /\ skipped \in BOOLEAN /\ overlapped \in BOOLEAN

Top == Len(blocks)                     \* the head block
Recorded(e) == audit[e] > 0
Happened == {<<number, b>> : b \in 1..Top}
Idle(d) == scan[d] = NoScan

IndexerInit ==
  /\ number = 0 /\ blocks = <<>>
  /\ audit = [e \in Events |-> 0]
  /\ owner = Holder
  /\ saved = None
  /\ cursor = 0
  /\ task = "starting"
  /\ scan = [d \in Drivers |-> NoScan]
  /\ faults = 0
  /\ skipped = FALSE /\ overlapped = FALSE

-----------------------------------------------------------------------------
(* The chain (external). *)

NewBlock(log) ==
  /\ Top < MaxBlock
  /\ blocks' = Append(blocks, log)
  /\ UNCHANGED <<number, audit, owner, saved, cursor, task, scan, faults,
                 skipped, overlapped>>

(* The chain starts over; a poller that runs on keeps its cursor.  Bound:  *)
(* not in the middle of a scan.                                            *)
ReplaceChain ==
  /\ number < MaxChain
  /\ \A d \in Drivers : Idle(d)
  /\ number' = number + 1
  /\ blocks' = <<>>
  /\ skipped' = (skipped \/ task # "starting" \/ cursor # 0)
  /\ UNCHANGED <<audit, owner, saved, cursor, task, scan, faults, overlapped>>

-----------------------------------------------------------------------------
(* Start-up. *)

(* A mistake: the hash of the saved block is not compared. *)
ResumesAtSaved == saved # None

(* _validated_cursor: the saved block is on this chain. *)
Resumable ==
  /\ saved # None
  /\ saved.block <= Top
  /\ saved.block > 0 => saved.chain = number

StartPolling ==
  /\ task = "starting"
  /\ cursor' = IF Resumable THEN saved.block ELSE 0
  /\ task' = "polling"
  /\ UNCHANGED <<chain, audit, owner, saved, scan, faults, skipped, overlapped>>

(* run: _load_contract and _validated_cursor are not retried. *)
StartFails ==
  /\ task = "starting"
  /\ faults < MaxFaults
  /\ faults' = faults + 1
  /\ task' = "dead"
  /\ UNCHANGED <<chain, audit, owner, saved, cursor, scan, skipped,
                 overlapped>>

(* The server is lost and starts again (start_background). *)
Crash ==
  /\ faults < MaxFaults
  /\ faults' = faults + 1
  /\ cursor' = 0
  /\ task' = "starting"
  /\ scan' = [d \in Drivers |-> NoScan]
  /\ UNCHANGED <<chain, audit, owner, saved, skipped, overlapped>>

-----------------------------------------------------------------------------
(* _index_block *)

Begin(d, from, to, jumps) ==
  /\ Idle(d)
  /\ scan' = [scan EXCEPT ![d] =
       [from |-> from, to |-> to, stage |-> "transfer", fetched |-> None,
        held |-> None, seen |-> None, failed |-> FALSE]]
  /\ skipped' = (skipped \/ jumps)
  /\ overlapped' = (overlapped \/ \E e \in Drivers \ {d} : ~Idle(e))
  /\ UNCHANGED <<chain, audit, owner, saved, cursor, task, faults>>

(* A mistake: one block is kept back, so the last one is never reached. *)
PollBehind ==
  /\ task = "polling"
  /\ Top > cursor + 1
  /\ LET target == IF Top < cursor + Window THEN Top ELSE cursor + Window
     IN Begin("poll", cursor + 1, target, FALSE)

(* run: from the cursor to the head, a window at a time. *)
Poll ==
  /\ task = "polling"
  /\ Top > cursor
  /\ LET target == IF Top < cursor + Window THEN Top ELSE cursor + Window
     IN Begin("poll", cursor + 1, target, FALSE)

(* catch_up: any range; without to_block it ends at the head. *)
CatchUp(from, to) ==
  /\ from <= to
  /\ Begin("catchup", from, to, from > cursor + 1 \/ to > Top)

(* The kind of logs fetched next, once those at hand are written. *)
Stage == [transfer |-> "other", other |-> "end"]
Settled(s) ==
  IF s.fetched = {} /\ s.held = None
  THEN [s EXCEPT !.fetched = None, !.stage = Stage[@]] ELSE s

CanFetch(d) == ~Idle(d) /\ scan[d].stage # "end" /\ scan[d].fetched = None

(* get_logs *)
Fetch(d) ==
  /\ CanFetch(d)
  /\ scan' = [scan EXCEPT ![d] = Settled([@ EXCEPT !.fetched =
       {e \in Happened : /\ e[2] >= scan[d].from /\ e[2] <= scan[d].to
                         /\ blocks[e[2]].kind = scan[d].stage}])]
  /\ UNCHANGED <<chain, audit, owner, saved, cursor, task, faults, skipped,
                 overlapped>>

(* ... fails: the other kinds are still fetched and written. *)
FetchFails(d) ==
  /\ CanFetch(d)
  /\ faults < MaxFaults
  /\ faults' = faults + 1
  /\ scan' = [scan EXCEPT ![d].failed = TRUE, ![d].stage = Stage[@]]
  /\ UNCHANGED <<chain, audit, owner, saved, cursor, task, skipped,
                 overlapped>>

(* A mistake: the newest log first. *)
Newest(d) ==
  CHOOSE e \in scan[d].fetched : \A f \in scan[d].fetched : f[2] <= e[2]

(* The earliest log that was fetched and not looked at yet. *)
Earliest(d) ==
  CHOOSE e \in scan[d].fetched : \A f \in scan[d].fetched : e[2] <= f[2]

(* _write_event, _is_indexed *)
Check(d) ==
  /\ ~Idle(d) /\ scan[d].fetched \notin {None, {}} /\ scan[d].held = None
  /\ LET e == Earliest(d)
         s == scan[d]
     IN scan' = [scan EXCEPT ![d] = Settled([s EXCEPT
          !.fetched = s.fetched \ {e}, !.held = IF Recorded(e) THEN None ELSE e])]
  /\ UNCHANGED <<chain, audit, owner, saved, cursor, task, faults, skipped,
                 overlapped>>

(* The recipient of a transfer the registry follows.  None: no transfer,   *)
(* or to no active identity, which is recorded as an anomaly only.         *)
NewOwner(e) == IF blocks[e[2]].to \in Owner THEN blocks[e[2]].to ELSE None

(* _reconcile_transfer: written when it differs from the session's copy.   *)
Follow(d, to) ==
  LET copy == IF scan[d].seen = None THEN owner ELSE scan[d].seen
  IN owner' = IF to = None \/ to = copy THEN owner ELSE to

(* A mistake: the index on transaction and log is missing. *)
AlwaysInsertable(e) == TRUE

(* uq_audit_events_tx_log *)
Insertable(e) == ~Recorded(e)

(* _write_event: the audit row and its effects in one transaction. *)
Commit(d) ==
  LET s == scan[d]
      e == s.held
      to == NewOwner(e)
  IN /\ ~Idle(d) /\ e # None
     /\ Insertable(e)
     /\ audit' = [audit EXCEPT ![e] = @ + 1]
     /\ Follow(d, to)
     /\ scan' = [scan EXCEPT ![d] = Settled([s EXCEPT
          !.held = None, !.seen = IF to = None THEN s.seen ELSE to])]
     /\ UNCHANGED <<chain, saved, cursor, task, faults, skipped, overlapped>>

(* ... is rolled back: the other driver was first, or the database failed. *)
(* The log is passed over and the scan goes on.                            *)
CommitFails(d, lost) ==
  LET e == scan[d].held
  IN /\ ~Idle(d) /\ e # None
     /\ lost = Insertable(e)
     /\ lost => faults < MaxFaults
     /\ faults' = IF lost THEN faults + 1 ELSE faults
     /\ skipped' = (skipped \/ lost)
     /\ scan' = [scan EXCEPT ![d] =
          Settled([@ EXCEPT !.held = None, !.seen = None])]
     /\ UNCHANGED <<chain, audit, owner, saved, cursor, task, overlapped>>

Larger(a, b) == IF a < b THEN b ELSE a

(* A mistake: the cursor moves although a kind was not fetched. *)
AdvanceAnyway(d) == cursor' = Larger(cursor, scan[d].to)

(* A mistake: the cursor is the next block instead of the last one. *)
AdvancePast(d) ==
  cursor' = IF scan[d].failed THEN cursor ELSE Larger(cursor, scan[d].to + 1)

Advance(d) ==
  cursor' = IF scan[d].failed THEN cursor ELSE Larger(cursor, scan[d].to)

(* The end of _index_block; with a failure it raises ConnectionError. *)
EndScan(d) ==
  /\ ~Idle(d) /\ scan[d].stage = "end"
  /\ Advance(d)
  /\ scan' = [scan EXCEPT ![d] = NoScan]
  /\ task' = IF d = "poll" /\ ~scan[d].failed THEN "saving" ELSE task
  /\ UNCHANGED <<chain, audit, owner, saved, faults, skipped, overlapped>>

(* An error of the database outside the commit ends the scan; the cursor   *)
(* stays, and what was committed before is found recorded next time.       *)
ScanFails(d) ==
  /\ ~Idle(d)
  /\ scan[d].fetched \notin {None, {}} \/ scan[d].held # None
  /\ faults < MaxFaults
  /\ faults' = faults + 1
  /\ scan' = [scan EXCEPT ![d] = NoScan]
  /\ UNCHANGED <<chain, audit, owner, saved, cursor, task, skipped, overlapped>>

(* _save_state, with the hash the block has now. *)
SaveState ==
  /\ task = "saving"
  /\ cursor <= Top
  /\ saved' = [chain |-> number, block |-> cursor]
  /\ task' = "polling"
  /\ UNCHANGED <<chain, audit, owner, cursor, scan, faults, skipped, overlapped>>

(* The block is not available, or the RPC fails: polled again later. *)
SaveFails ==
  /\ task = "saving"
  /\ \/ cursor > Top /\ UNCHANGED faults
     \/ faults < MaxFaults /\ faults' = faults + 1
  /\ task' = "polling"
  /\ UNCHANGED <<chain, audit, owner, saved, cursor, scan, skipped,
                 overlapped>>

Index(d) ==
  \/ Fetch(d) \/ Check(d) \/ Commit(d) \/ EndScan(d)
  \/ CommitFails(d, FALSE)

Work == StartPolling \/ Poll \/ SaveState \/ SaveFails \/ Index("poll")

Environment ==
  /\ skipped => AfterSkip
  /\ \/ \E log \in Logs : NewBlock(log)
     \/ ReplaceChain \/ StartFails \/ Crash
     \/ \E from, to \in Blocks : CatchUp(from, to)
     \/ \E d \in Drivers : FetchFails(d) \/ CommitFails(d, TRUE) \/ ScanFails(d)

IndexerNext == Environment \/ Work \/ Index("catchup")

(* The event loop keeps running the polling task. *)
IndexerSpec == IndexerInit /\ [][IndexerNext]_indexerVars /\ WF_indexerVars(Work)

-----------------------------------------------------------------------------
(* Properties. *)

(* Every log up to the cursor, in memory or saved for the next start, is   *)
(* in the audit trail, whatever failed or crashed on the way; unless a     *)
(* catch-up jumped, a commit failed, or the chain was replaced under the   *)
(* running poller.                                                         *)
NothingPassedOver ==
  ~skipped =>
    \A e \in Happened :
      \/ task # "starting" /\ e[2] <= cursor
      \/ Resumable /\ e[2] <= saved.block
      => Recorded(e)

(* A log is recorded once, although the poller and a catch-up may both     *)
(* find it missing.                                                        *)
RecordedOnce == \A e \in Events : audit[e] <= 1

(* The recorded transfers to active identities on this chain. *)
Moves == {e \in Happened : Recorded(e) /\ blocks[e[2]].to \in Owner}

(* The registry's owner is the recipient of the last recorded transfer.    *)
OwnerFollowsChain ==
  ~skipped /\ ~overlapped =>
    \A e \in Moves : (\A f \in Moves : f[2] <= e[2]) => owner = blocks[e[2]].to

(* Every log is recorded in the end, after crashes and failures of the     *)
(* chain's RPC that come to an end, if the task survives its start.        *)
EventsGetIndexed ==
  \A c \in Chains, b \in Blocks :
    (number = c /\ b <= Top)
      ~> (Recorded(<<c, b>>) \/ skipped \/ task = "dead" \/ number # c)
=============================================================================
