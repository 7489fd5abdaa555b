---------------------------- MODULE Chain_proofs ----------------------------
(***************************************************************************)
(* The chain and what reads it: the contract with its roles and its serial *)
(* number index, for every number of accounts, tokens, serial numbers and  *)
(* identities, and the event indexer, for every length of the chain.       *)
(***************************************************************************)
EXTENDS AssetNFT, EventIndexer, WellFoundedInduction, TLAPS

-----------------------------------------------------------------------------
(* The contract (AssetNFT.tla). *)

(* The inductive invariant: what is not minted is blank, so that burning   *)
(* and minting start from the same record whichever token is concerned.    *)
UnmintedIsBlank == \A t \in Token : ~Exists(t) => record[t] = NoRecord

IInv == /\ TypeOK /\ UnmintedIsBlank
        /\ SeparationOfDuties /\ SerialIndexIsTrue /\ DocumentsKeepAHash

(* The deployed contract satisfies the invariant: only governing roles are *)
(* given by the constructor.                                               *)
LEMMA InitInvariant == Init => IInv
<1> SUFFICES ASSUME Init PROVE IInv
  OBVIOUS
<1>1. TypeOK
  BY GovernorAssumption, NoneAssumption
  DEF Init, TypeOK, Records, NoRecord, Levels, Roles, Operational, Governing
<1>2. SeparationOfDuties
  BY DEF Init, SeparationOfDuties, Holds, Roles, Operational, Governing
<1>3. UnmintedIsBlank /\ SerialIndexIsTrue /\ DocumentsKeepAHash
  BY NoneAssumption DEF Init, UnmintedIsBlank, SerialIndexIsTrue, DocumentsKeepAHash, Exists
<1> QED
  BY <1>1, <1>2, <1>3 DEF IInv

(* What does not touch the roles keeps their separation, and what does not *)
(* touch the registry keeps the registry's part.                           *)
LEMMA RegistryUntouched ==
  ASSUME IInv, UNCHANGED registry
  PROVE  UnmintedIsBlank' /\ SerialIndexIsTrue' /\ DocumentsKeepAHash'
BY DEF IInv, registry, UnmintedIsBlank, SerialIndexIsTrue, DocumentsKeepAHash, Exists

(* The same for the separation of duties. *)
LEMMA RolesUntouched ==
  ASSUME IInv, UNCHANGED members
  PROVE  SeparationOfDuties'
BY DEF IInv, SeparationOfDuties, Holds

(* Granting looks in both directions before it adds a member.              *)
LEMMA GrantRoleKeeps ==
  ASSUME IInv, NEW by \in Account, NEW r \in Roles, NEW a \in Account, GrantRole(by, r, a)
  PROVE  IInv'
<1>1. /\ members' \in [Roles -> SUBSET Account]
      /\ \A q \in Roles : members'[q] = IF q = r THEN members[q] \union {a} ELSE members[q]
  BY DEF GrantRole, IInv, TypeOK
<1>2. ASSUME NEW b \in Account PROVE ~(Holds(b, Governing) /\ Holds(b, Operational))'
  <2>1. ~(Holds(b, Governing) /\ Holds(b, Operational))
    BY DEF IInv, SeparationOfDuties
  <2>2. CASE b = a
    BY <1>1, <2>1, <2>2 DEF GrantRole, Holds, Roles, Operational, Governing
  <2>3. CASE b # a
    BY <1>1, <2>1, <2>3 DEF Holds, Roles
  <2> QED
    BY <2>2, <2>3
<1>3. SeparationOfDuties'
  BY <1>2 DEF SeparationOfDuties
<1>4. UNCHANGED <<paused, registry>>
  BY DEF GrantRole
<1> QED
  BY <1>1, <1>3, <1>4, RegistryUntouched DEF IInv, TypeOK, registry

(* Taking a role away creates no conflict. *)
LEMMA RevokeRoleKeeps ==
  ASSUME IInv, NEW by \in Account, NEW r \in Roles, NEW a \in Account, RevokeRole(by, r, a)
  PROVE  IInv'
<1>1. /\ members' \in [Roles -> SUBSET Account]
      /\ \A q \in Roles : members'[q] \subseteq members[q]
  BY DEF RevokeRole, IInv, TypeOK
<1>2. SeparationOfDuties'
  BY <1>1 DEF IInv, SeparationOfDuties, Holds, Roles
<1>3. UNCHANGED <<paused, registry>>
  BY DEF RevokeRole
<1> QED
  BY <1>1, <1>2, <1>3, RegistryUntouched DEF IInv, TypeOK, registry

(* A minted token takes a serial number that leads nowhere. *)
LEMMA MintKeeps ==
  ASSUME IInv, NEW by \in Account, NEW to \in Account, NEW t \in Token, NEW s \in Serial,
         NEW d \in Did, NEW c \in Content \union {Blank}, Mint(by, to, t, s, d, c)
  PROVE  IInv'
<1> DEFINE new == [serial |-> s, did |-> d, content |-> c, digital |-> c # Blank]
<1>1. new \in Records /\ new.serial = s /\ new.content = c /\ (new.digital <=> c # Blank)
  BY DEF Records
<1> HIDE DEF new
<1>2. /\ record' = [record EXCEPT ![t] = new] /\ index' = [index EXCEPT ![s] = t]
      /\ permission' = [permission EXCEPT ![t][d] = "READ_WRITE"]
      /\ holder' = [holder EXCEPT ![t] = to]
      /\ UNCHANGED <<members, paused>> /\ index[s] = NoToken /\ ~Exists(t)
  BY DEF Mint, new
<1>3. TypeOK'
  BY <1>1, <1>2 DEF IInv, TypeOK, Levels
<1>4. \A u \in Token : /\ record'[u] = IF u = t THEN new ELSE record[u]
                       /\ Exists(u)' <=> (u = t \/ Exists(u))
  BY <1>2, NoneAssumption DEF IInv, TypeOK, Exists
<1>5. \A q \in Serial : index'[q] = IF q = s THEN t ELSE index[q]
  BY <1>2 DEF IInv, TypeOK
<1>6. \A q \in Serial, u \in Token : index[q] = u <=> Exists(u) /\ record[u].serial = q
  BY DEF IInv, SerialIndexIsTrue
<1>7. SerialIndexIsTrue'
  <2>1. ASSUME NEW q \in Serial, NEW u \in Token
        PROVE  index'[q] = u <=> Exists(u)' /\ record'[u].serial = q
    <3>1. CASE u = t
      BY <1>1, <1>2, <1>4, <1>5, <1>6, <3>1
    <3>2. CASE u # t
      BY <1>2, <1>4, <1>5, <1>6, <3>2, NoneAssumption
    <3> QED
      BY <3>1, <3>2
  <2> QED
    BY <2>1 DEF SerialIndexIsTrue
<1>8. UnmintedIsBlank' /\ DocumentsKeepAHash'
  BY <1>1, <1>4 DEF IInv, UnmintedIsBlank, DocumentsKeepAHash
<1> QED
  BY <1>2, <1>3, <1>7, <1>8, RolesUntouched DEF IInv

(* Anchoring replaces the hash of a document by another one. *)
LEMMA UpdateDigitalAssetKeeps ==
  ASSUME IInv, NEW by \in Account, NEW t \in Token, NEW c \in Content,
         UpdateDigitalAsset(by, t, c)
  PROVE  IInv'
<1>1. /\ record' = [record EXCEPT ![t].content = c]
      /\ UNCHANGED <<members, paused, holder, index, permission>>
      /\ Exists(t) /\ record[t].digital
  BY DEF UpdateDigitalAsset
<1>2. \A u \in Token : /\ record'[u].serial = record[u].serial
                       /\ record'[u].digital = record[u].digital
                       /\ record'[u].content = IF u = t THEN c ELSE record[u].content
                       /\ record'[u] \in Records
                       /\ u # t => record'[u] = record[u]
  BY <1>1 DEF IInv, TypeOK, Records
<1>3. TypeOK'
  BY <1>1, <1>2 DEF IInv, TypeOK
<1>4. SerialIndexIsTrue' /\ UnmintedIsBlank'
  BY <1>1, <1>2 DEF IInv, SerialIndexIsTrue, UnmintedIsBlank, Exists
<1>5. DocumentsKeepAHash'
  BY <1>1, <1>2, NoneAssumption DEF IInv, DocumentsKeepAHash, Exists
<1> QED
  BY <1>1, <1>3, <1>4, <1>5, RolesUntouched DEF IInv

(* Custody moves without touching serial number and content. *)
LEMMA TransferAssetKeeps ==
  ASSUME IInv, NEW by \in Account, NEW to \in Account, NEW t \in Token, NEW d \in Did,
         TransferAsset(by, to, t, d)
  PROVE  IInv'
<1>1. /\ record' = [record EXCEPT ![t].did = d] /\ holder' = [holder EXCEPT ![t] = to]
      /\ permission' = [permission EXCEPT ![t] =
                          [e \in Did |-> IF e = d THEN "READ_WRITE"
                                         ELSE IF e = record[t].did THEN "NONE"
                                         ELSE @[e]]]
      /\ UNCHANGED <<members, paused, index>> /\ Exists(t)
  BY DEF TransferAsset
<1>2. \A u \in Token : /\ record'[u].serial = record[u].serial
                       /\ record'[u].digital = record[u].digital
                       /\ record'[u].content = record[u].content
                       /\ record'[u] \in Records
                       /\ u # t => record'[u] = record[u]
                       /\ Exists(u)' <=> Exists(u)
  BY <1>1, NoneAssumption DEF IInv, TypeOK, Records, Exists
<1>3. permission' \in [Token -> [Did -> Levels]]
  BY <1>1 DEF IInv, TypeOK, Levels
<1>4. TypeOK'
  BY <1>1, <1>2, <1>3 DEF IInv, TypeOK
<1>5. SerialIndexIsTrue' /\ UnmintedIsBlank' /\ DocumentsKeepAHash'
  BY <1>1, <1>2 DEF IInv, SerialIndexIsTrue, UnmintedIsBlank, DocumentsKeepAHash
<1> QED
  BY <1>1, <1>4, <1>5, RolesUntouched DEF IInv

(* Burning frees exactly the serial number of the burnt token. *)
LEMMA RevokeKeeps ==
  ASSUME IInv, NEW by \in Account, NEW t \in Token, Revoke(by, t)
  PROVE  IInv'
<1> DEFINE s == record[t].serial
<1>1. /\ index' = [index EXCEPT ![s] = NoToken] /\ record' = [record EXCEPT ![t] = NoRecord]
      /\ holder' = [holder EXCEPT ![t] = NoAccount]
      /\ UNCHANGED <<members, paused, permission>> /\ Exists(t)
  BY DEF Revoke
<1>2. NoRecord \in Records
  BY DEF NoRecord, Records
<1>3. TypeOK'
  BY <1>1, <1>2 DEF IInv, TypeOK
<1>4. \A u \in Token : /\ record'[u] = IF u = t THEN NoRecord ELSE record[u]
                       /\ Exists(u)' <=> (u # t /\ Exists(u))
  BY <1>1 DEF IInv, TypeOK, Exists
<1>5. \A q \in Serial : index'[q] = IF q = s THEN NoToken ELSE index[q]
  BY <1>1 DEF IInv, TypeOK
<1>6. \A q \in Serial, u \in Token : index[q] = u <=> Exists(u) /\ record[u].serial = q
  BY DEF IInv, SerialIndexIsTrue
<1>7. SerialIndexIsTrue'
  <2>1. ASSUME NEW q \in Serial, NEW u \in Token
        PROVE  index'[q] = u <=> Exists(u)' /\ record'[u].serial = q
    <3>1. CASE q = s
      <4>1. u # t => ~(Exists(u) /\ record[u].serial = q)
        BY <1>1, <1>6, <3>1
      <4> QED
        BY <1>4, <1>5, <3>1, <4>1, NoneAssumption
    <3>2. CASE q # s
      BY <1>1, <1>4, <1>5, <1>6, <3>2
    <3> QED
      BY <3>1, <3>2
  <2> QED
    BY <2>1 DEF SerialIndexIsTrue
<1>8. UnmintedIsBlank' /\ DocumentsKeepAHash'
  BY <1>4 DEF IInv, UnmintedIsBlank, DocumentsKeepAHash
<1> QED
  BY <1>1, <1>3, <1>7, <1>8, RolesUntouched DEF IInv

(* The mirror of permissions is separate from roles and tokens. *)
LEMMA SetAccessKeeps ==
  ASSUME IInv, NEW by \in Account, NEW t \in Token, NEW d \in Did, NEW level \in Levels,
         SetAccess(by, t, d, level)
  PROVE  IInv'
<1>1. /\ permission' = [permission EXCEPT ![t][d] = level]
      /\ UNCHANGED <<members, paused, holder, record, index>>
  BY DEF SetAccess
<1>2. TypeOK'
  BY <1>1 DEF IInv, TypeOK
<1>3. SerialIndexIsTrue' /\ UnmintedIsBlank' /\ DocumentsKeepAHash'
  BY <1>1 DEF IInv, SerialIndexIsTrue, UnmintedIsBlank, DocumentsKeepAHash, Exists
<1> QED
  BY <1>1, <1>2, <1>3, RolesUntouched DEF IInv

(* Pausing changes nothing else. *)
LEMMA SetPausedKeeps ==
  ASSUME IInv, NEW by \in Account, NEW p \in BOOLEAN, SetPaused(by, p)
  PROVE  IInv'
<1>1. paused' = p /\ UNCHANGED <<members, registry>>
  BY DEF SetPaused
<1> QED
  BY <1>1, RegistryUntouched, RolesUntouched DEF IInv, TypeOK, registry

(* Every call of the contract keeps the invariant.                         *)
LEMMA NextKeeps == IInv /\ [Next]_vars => IInv'
<1> SUFFICES ASSUME IInv, [Next]_vars PROVE IInv'
  OBVIOUS
<1>1. CASE UNCHANGED vars
  BY <1>1, RegistryUntouched, RolesUntouched DEF vars, registry, IInv, TypeOK
<1> QED
  BY <1>1, GrantRoleKeeps, RevokeRoleKeeps, SetPausedKeeps, MintKeeps,
     UpdateDigitalAssetKeeps, TransferAssetKeeps, RevokeKeeps, SetAccessKeeps DEF Next

(* The inductive invariant holds of every history of the contract.         *)
THEOREM Invariance == Spec => []IInv
BY InitInvariant, NextKeeps, PTL DEF Spec

(* Who hands out roles never holds one that acts on tokens, whatever the   *)
(* order of grants, revocations and renunciations.                         *)
THEOREM DutiesStaySeparate == Spec => []SeparationOfDuties
BY Invariance, PTL DEF IInv

(* A serial number leads to the one live token that carries it.            *)
THEOREM SerialNumbersAreUnique == Spec => []SerialIndexIsTrue
BY Invariance, PTL DEF IInv

(* A registered document always has the hash of one of its versions.       *)
THEOREM HashesStay == Spec => []DocumentsKeepAHash
BY Invariance, PTL DEF IInv

-----------------------------------------------------------------------------
(* The event indexer (EventIndexer.tla). *)

(* The logs of the kind at hand that a scan is about. *)
InScan(s) ==
  {e \in Happened : s.from <= e[2] /\ e[2] <= s.to /\ blocks[e[2]].kind = s.stage}

(* What a scan holds: logs of its range and kind, the earliest in hand. *)
ScanShape(s) ==
  /\ s.fetched = None => s.held = None
  /\ s.from <= s.to
  /\ s.stage = "transfer" => ~s.failed
  /\ s.fetched # None => s.fetched \subseteq InScan(s)
  /\ s.held # None => s.held \in InScan(s) /\ \A f \in s.fetched : s.held[2] < f[2]

(* What a scan has behind it is in the set done: everything below its     *)
(* range, the kinds it finished, and what it fetched and no longer has.   *)
CompleteIn(s, done) ==
  /\ s.to <= Top
  /\ \A e \in Happened : e[2] < s.from => e \in done
  /\ ~s.failed =>
       \A e \in Happened :
         s.from <= e[2] /\ e[2] <= s.to =>
           /\ s.stage = "end" => e \in done
           /\ s.stage = "other" /\ blocks[e[2]].kind = "transfer" => e \in done
           /\ s.fetched # None /\ blocks[e[2]].kind = s.stage =>
                e \in done \/ e \in s.fetched \/ e = s.held

Trail == {e \in Events : Recorded(e)}
ScanComplete(s) == CompleteIn(s, Trail)

ScansShaped == \A d \in Drivers : ~Idle(d) => ScanShape(scan[d])
ScansComplete == ~skipped => \A d \in Drivers : ~Idle(d) => ScanComplete(scan[d])

OnlyHappened == \A e \in Events : Recorded(e) => e[1] < number \/ e \in Happened
CursorOnChain == ~skipped => cursor <= Top
SavedOnChain ==
  saved # None => saved.chain <= number /\ (saved.chain = number => saved.block <= Top)
CursorCovers == ~skipped => \A e \in Happened : e[2] <= cursor => Recorded(e)
SavedCovers ==
  ~skipped /\ saved # None /\ saved.chain = number =>
    \A e \in Happened : e[2] <= saved.block => Recorded(e)

TransfersInOrder ==
  ~skipped =>
    \A e, f \in Happened :
      /\ blocks[e[2]].kind = "transfer" /\ blocks[f[2]].kind = "transfer"
      /\ Recorded(e) /\ f[2] < e[2]
      => Recorded(f)
SoleScan == ~overlapped => \A d, e \in Drivers : d # e => Idle(d) \/ Idle(e)
CopyIsCurrent ==
  ~overlapped => \A d \in Drivers : ~Idle(d) /\ scan[d].seen # None => scan[d].seen = owner

IndexerInv ==
  /\ IndexerTypeOK /\ OnlyHappened /\ RecordedOnce
  /\ CursorOnChain /\ SavedOnChain
  /\ ScansShaped /\ ScansComplete
  /\ CursorCovers /\ SavedCovers
  /\ TransfersInOrder /\ SoleScan /\ CopyIsCurrent /\ OwnerFollowsChain

-----------------------------------------------------------------------------
(* A nonempty set of natural numbers has a least element. *)
LEMMA LeastExists ==
  ASSUME NEW S, S \subseteq Nat, S # {}
  PROVE  \E x \in S : \A y \in S : x <= y
<1> DEFINE R == OpToRel(<, Nat)
<1>1. IsWellFoundedOn(R, Nat)
  BY NatLessThanWellFounded
<1>2. \A x, y \in Nat : <<y, x>> \in R <=> y < x
  BY DEF OpToRel
<1> HIDE DEF R
<1>3. PICK x \in S : \A y \in S : <<y, x>> \notin R
  BY <1>1, WFMin, Zenon
<1>4. ASSUME NEW y \in S
      PROVE  x <= y
  <2>1. x \in Nat /\ y \in Nat
    BY <1>3
  <2>2. ~(y < x)
    BY <1>2, <1>3, <2>1
  <2> QED
    BY <2>1, <2>2
<1> QED
  BY <1>3, <1>4

(* The logs of this chain, their blocks and their kinds. *)
LEMMA HappenedFacts ==
  ASSUME IndexerTypeOK
  PROVE  /\ Top \in 0..MaxBlock
         /\ Happened \subseteq Events
         /\ \A e \in Happened : /\ e = <<number, e[2]>> /\ e[1] = number
                                /\ e[2] \in 1..Top /\ blocks[e[2]] \in Logs
                                /\ blocks[e[2]].kind \in Kinds
         /\ \A e, f \in Happened : e[2] = f[2] => e = f
         /\ \A b \in 1..Top : <<number, b>> \in Happened
<1>1. Top \in 0..MaxBlock
  BY BoundAssumption DEF IndexerTypeOK, Top
<1>2. \A b \in 1..Top : blocks[b] \in Logs /\ blocks[b].kind \in Kinds
  BY DEF IndexerTypeOK, Top, Logs, Kinds
<1>3. \A b \in 1..Top : <<number, b>> \in Events
  BY <1>1, BoundAssumption DEF IndexerTypeOK, Events, Blocks
<1>4. \A e \in Happened : \E b \in 1..Top : e = <<number, b>>
  BY DEF Happened
<1>5. \A e \in Happened : e = <<number, e[2]>> /\ e[1] = number /\ e[2] \in 1..Top
  BY <1>4
<1>6. Happened \subseteq Events
  BY <1>3, <1>4
<1>7. \A e, f \in Happened : e[2] = f[2] => e = f
  BY <1>5
<1>8. \A b \in 1..Top : <<number, b>> \in Happened
  BY DEF Happened
<1> QED
  BY <1>1, <1>2, <1>5, <1>6, <1>7, <1>8

(* The earliest of the logs that were fetched is one of them. *)
LEMMA EarliestFacts ==
  ASSUME IndexerTypeOK, NEW d \in Drivers, scan[d].fetched # {},
         scan[d].fetched \subseteq Happened
  PROVE  /\ Earliest(d) \in scan[d].fetched
         /\ \A f \in scan[d].fetched : Earliest(d)[2] <= f[2]
<1> DEFINE F == scan[d].fetched
           S == {f[2] : f \in F}
<1>1. \A f \in F : f[2] \in Nat
  BY HappenedFacts
<1>2. S \subseteq Nat /\ S # {}
  BY <1>1
<1> HIDE DEF F
<1>3. PICK x \in S : \A y \in S : x <= y
  <2> HIDE DEF S
  <2> QED
    BY <1>2, LeastExists
<1>4. PICK e \in F : e[2] = x
  BY <1>3
<1>5. \A f \in F : e[2] <= f[2]
  BY <1>3, <1>4
<1>6. Earliest(d) \in F /\ \A f \in F : Earliest(d)[2] <= f[2]
  BY <1>4, <1>5 DEF Earliest, F
<1> QED
  BY <1>6 DEF F

(* A scan is not the record of none. *)
LEMMA ScansAreScans ==
  /\ NoScan \notin Scans
  /\ \A s \in Scans : /\ s.stage \in {"transfer", "other", "end"}
                      /\ s.from \in 0..MaxBlock + 1 /\ s.to \in Blocks
                      /\ s.held \in Events \union {None}
                      /\ s.fetched \in (SUBSET Events) \union {None}
                      /\ s.seen \in Owner \union {None} /\ s.failed \in BOOLEAN
BY DEF NoScan, Scans, Kinds

(* A scan that runs has the shape and the completeness of one. *)
LEMMA RunningScans ==
  ASSUME IndexerTypeOK, NEW d \in Drivers, ~Idle(d)
  PROVE  scan[d] \in Scans
BY DEF IndexerTypeOK, Idle

(* When the kind at hand is written the next one is to be fetched: what a  *)
(* scan holds and has behind it stays true.                                *)
LEMMA SettledFacts ==
  ASSUME IndexerTypeOK, NEW s \in Scans, s.stage # "end", NEW done
  PROVE  /\ Settled(s) \in Scans
         /\ Settled(s).seen = s.seen /\ Settled(s).to = s.to
         /\ ScanShape(s) => ScanShape(Settled(s))
         /\ ScanShape(s) /\ s.fetched # None /\ CompleteIn(s, done) =>
              CompleteIn(Settled(s), done)
<1> DEFINE n == [s EXCEPT !.fetched = None, !.stage = Stage[@]]
<1>1. CASE s.fetched = {} /\ s.held = None
  <2>1. Settled(s) = n
    BY <1>1 DEF Settled
  <2>2. /\ n \in Scans /\ n.fetched = None /\ n.held = None /\ n.from = s.from
        /\ n.to = s.to /\ n.failed = s.failed /\ n.seen = s.seen
        /\ n.stage = IF s.stage = "transfer" THEN "other" ELSE "end"
    <3>1. Stage[s.stage] = IF s.stage = "transfer" THEN "other" ELSE "end"
      BY ScansAreScans DEF Stage
    <3>2. /\ n.fetched = None /\ n.held = s.held /\ n.from = s.from /\ n.to = s.to
          /\ n.failed = s.failed /\ n.seen = s.seen /\ n.stage = Stage[s.stage]
      BY DEF Scans
    <3>3. Stage[s.stage] \in Kinds \union {"end"}
      BY <3>1 DEF Kinds
    <3>4. \A k \in Kinds \union {"end"} :
            [s EXCEPT !.fetched = None, !.stage = k] \in Scans
      BY DEF Scans
    <3> QED
      BY <1>1, <3>1, <3>2, <3>3, <3>4
  <2> HIDE DEF n
  <2>3. ScanShape(s) => ScanShape(n)
    BY <2>2 DEF ScanShape
  <2>4. ASSUME ScanShape(s), s.fetched # None, CompleteIn(s, done)
        PROVE  CompleteIn(n, done)
    <3>1. \A e \in Happened : e # None
      BY HappenedFacts, SentinelAssumption
    <3>2. /\ n.to <= Top
          /\ \A e \in Happened : e[2] < n.from => e \in done
      BY <2>2, <2>4 DEF CompleteIn
    <3>3. ASSUME ~n.failed, NEW e \in Happened, n.from <= e[2], e[2] <= n.to
          PROVE  /\ n.stage = "end" => e \in done
                 /\ n.stage = "other" /\ blocks[e[2]].kind = "transfer" => e \in done
      <4>1. blocks[e[2]].kind \in {"transfer", "other"}
        BY HappenedFacts DEF Kinds
      <4>2. /\ s.stage = "other" /\ blocks[e[2]].kind = "transfer" => e \in done
            /\ blocks[e[2]].kind = s.stage =>
                 e \in done \/ e \in s.fetched \/ e = s.held
        BY <2>2, <2>4, <3>3 DEF CompleteIn
      <4>3. blocks[e[2]].kind = s.stage => e \in done
        BY <1>1, <3>1, <4>2
      <4> QED
        BY <2>2, <4>1, <4>2, <4>3, ScansAreScans
    <3> QED
      BY <2>2, <3>2, <3>3 DEF CompleteIn
  <2> QED
    BY <2>1, <2>2, <2>3, <2>4
<1>2. CASE ~(s.fetched = {} /\ s.held = None)
  BY <1>2 DEF Settled
<1> QED
  BY <1>1, <1>2

-----------------------------------------------------------------------------
(* What a step leaves alone. *)

(* As long as the chain and the audit trail stay, so does what they say. *)
LEMMA SameChain ==
  ASSUME UNCHANGED <<number, blocks, audit>>
  PROVE  /\ Top' = Top /\ Happened' = Happened
         /\ \A e : Recorded(e)' = Recorded(e)
         /\ \A s : ScanShape(s)' = ScanShape(s) /\ ScanComplete(s)' = ScanComplete(s)
BY DEF Top, Happened, Recorded, ScanShape, ScanComplete, CompleteIn, Trail, InScan

(* The parts of the invariant that do not look at the scans. *)
TrailSound ==
  /\ OnlyHappened /\ RecordedOnce /\ CursorOnChain /\ SavedOnChain
  /\ CursorCovers /\ SavedCovers /\ TransfersInOrder /\ OwnerFollowsChain

(* The trail stays sound when blocks are only added. *)
LEMMA TrailSoundKept ==
  ASSUME IndexerInv, UNCHANGED <<number, blocks, audit, owner, saved, cursor>>,
         skipped => skipped', overlapped => overlapped'
  PROVE  TrailSound'
<1> USE SameChain DEF IndexerInv
<1>1. OnlyHappened' /\ RecordedOnce'
  BY DEF OnlyHappened, RecordedOnce, Recorded
<1>2. CursorOnChain' /\ SavedOnChain'
  BY DEF CursorOnChain, SavedOnChain
<1>3. CursorCovers' /\ SavedCovers'
  BY DEF CursorCovers, SavedCovers
<1>4. TransfersInOrder'
  BY DEF TransfersInOrder
<1>5. OwnerFollowsChain'
  BY DEF OwnerFollowsChain, Moves
<1> QED
  BY <1>1, <1>2, <1>3, <1>4, <1>5 DEF TrailSound

(* A step of one scan: the others are as sound as before. *)
LEMMA ScanStep ==
  ASSUME IndexerInv, NEW d \in Drivers, NEW s \in Scans,
         scan' = [scan EXCEPT ![d] = s],
         ~Idle(d), UNCHANGED <<number, blocks, audit, owner>>,
         skipped => skipped', overlapped' = overlapped,
         ScanShape(s), ~skipped' => ScanComplete(s),
         s.seen # None => s.seen = scan[d].seen
  PROVE  /\ scan' \in [Drivers -> Scans \union {NoScan}]
         /\ ScansShaped' /\ ScansComplete' /\ SoleScan' /\ CopyIsCurrent'
<1>1. scan' \in [Drivers -> Scans \union {NoScan}]
  BY DEF IndexerInv, IndexerTypeOK
<1>2. \A e \in Drivers : scan'[e] = IF e = d THEN s ELSE scan[e]
  BY DEF IndexerInv, IndexerTypeOK
<1>3. \A e \in Drivers : Idle(e)' <=> Idle(e)
  BY <1>2, ScansAreScans DEF Idle
<1>4. ScansShaped'
  BY <1>2, <1>3, SameChain DEF IndexerInv, ScansShaped
<1>5. ScansComplete'
  BY <1>2, <1>3, SameChain DEF IndexerInv, ScansComplete
<1>6. SoleScan'
  BY <1>3 DEF IndexerInv, SoleScan
<1>7. CopyIsCurrent'
  BY <1>2, <1>3 DEF IndexerInv, CopyIsCurrent
<1> QED
  BY <1>1, <1>4, <1>5, <1>6, <1>7

(* No scan starts or moves. *)
LEMMA ScansKept ==
  ASSUME IndexerInv, UNCHANGED <<number, blocks, audit, owner, scan, skipped, overlapped>>
  PROVE  ScansShaped' /\ ScansComplete' /\ SoleScan' /\ CopyIsCurrent'
<1>1. \A d \in Drivers : Idle(d)' <=> Idle(d)
  BY DEF Idle
<1> QED
  BY <1>1, SameChain DEF IndexerInv, ScansShaped, ScansComplete, SoleScan, CopyIsCurrent

-----------------------------------------------------------------------------
(* The chain. *)

(* A block on top leaves every scan behind it as it was. *)
LEMMA NewBlockKeeps ==
  ASSUME IndexerInv, NEW log \in Logs, NewBlock(log)
  PROVE  IndexerInv'
<1> DEFINE new == <<number, Top + 1>>
<1> USE BoundAssumption DEF IndexerInv
<1>0. Top \in Nat /\ Top < MaxBlock
  BY HappenedFacts DEF NewBlock
<1>1. /\ blocks' \in Seq(Logs) /\ Top' = Top + 1
      /\ \A b \in 1..Top : blocks'[b] = blocks[b]
  BY DEF NewBlock, IndexerTypeOK, Top
<1>2. IndexerTypeOK'
  BY <1>0, <1>1 DEF NewBlock, IndexerTypeOK, Top
<1>3. new \in Events /\ new \notin Happened /\ new[1] = number /\ new[2] = Top + 1
  BY <1>0, HappenedFacts DEF Events, Blocks, IndexerTypeOK
<1>4. ~Recorded(new)
  BY <1>3 DEF OnlyHappened, IndexerTypeOK, Chains
<1>5. /\ \A e \in Happened : e \in Happened' /\ blocks'[e[2]] = blocks[e[2]]
      /\ \A e \in Happened' : e \in Happened \/ e = new
  <2>1. number' = number
    BY DEF NewBlock
  <2>2. \A e \in Happened : e[2] \in 1..Top /\ e = <<number, e[2]>>
    BY HappenedFacts
  <2>3. \A e \in Happened : e \in Happened' /\ blocks'[e[2]] = blocks[e[2]]
    BY <1>0, <1>1, <2>1, <2>2 DEF Happened
  <2>4. ASSUME NEW e \in Happened'
        PROVE  e \in Happened \/ e = new
    <3>1. PICK b \in 1..Top + 1 : e = <<number, b>>
      BY <1>1, <2>1, <2>4 DEF Happened
    <3>2. b \in 1..Top \/ b = Top + 1
      BY <1>0
    <3> QED
      BY <3>1, <3>2 DEF Happened
  <2> QED
    BY <2>3, <2>4
<1>6. \A e : Recorded(e)' = Recorded(e)
  BY DEF NewBlock, Recorded
<1>7. UNCHANGED <<number, audit, owner, saved, cursor, scan, skipped, overlapped>>
  BY DEF NewBlock
<1>8. \A e \in Happened : e[2] \in 1..Top
  BY HappenedFacts
<1> HIDE DEF new
<1>9. OnlyHappened' /\ RecordedOnce'
  BY <1>5, <1>6, <1>7 DEF OnlyHappened, RecordedOnce
<1>10. CursorOnChain' /\ SavedOnChain'
  BY <1>0, <1>1, <1>7 DEF CursorOnChain, SavedOnChain, IndexerTypeOK
<1>11. CursorCovers' /\ SavedCovers'
  <2>1. ASSUME ~skipped, NEW b, b \in Nat, b <= Top,
               \A e \in Happened : e[2] <= b => Recorded(e),
               NEW e \in Happened', e[2] <= b
        PROVE  Recorded(e)
    BY <1>0, <1>3, <1>5, <2>1
  <2>2. CursorCovers'
    BY <1>6, <1>7, <2>1 DEF CursorCovers, CursorOnChain, IndexerTypeOK
  <2>3. saved # None => saved.block \in Nat
    BY DEF IndexerTypeOK
  <2>4. SavedCovers'
    BY <1>6, <1>7, <2>1, <2>3 DEF SavedCovers, SavedOnChain
  <2> QED
    BY <2>2, <2>4
<1>12. TransfersInOrder'
  BY <1>0, <1>3, <1>4, <1>5, <1>6, <1>7, <1>8 DEF TransfersInOrder
<1>13. Moves' = Moves
  BY <1>4, <1>5, <1>6 DEF Moves
<1>14. OwnerFollowsChain'
  BY <1>5, <1>7, <1>13 DEF OwnerFollowsChain, Moves
<1>15. \A d \in Drivers : Idle(d)' <=> Idle(d)
  BY <1>7 DEF Idle
<1>16. ASSUME NEW d \in Drivers, ~Idle(d)
       PROVE  /\ ScanShape(scan[d])'
              /\ ~skipped => ScanComplete(scan[d])'
  <2> DEFINE s == scan[d]
  <2>1. s \in Scans /\ s' = s /\ ScanShape(s)
    BY <1>7, <1>16, RunningScans DEF ScansShaped
  <2> HIDE DEF s
  <2>2. \A e \in InScan(s) : e \in InScan(s)'
    BY <1>5, <2>1 DEF InScan
  <2>3. ScanShape(s)'
    BY <2>1, <2>2 DEF ScanShape
  <2>4. ASSUME ~skipped
        PROVE  ScanComplete(s)'
    <3>1. ScanComplete(s)
      BY <1>16, <2>4 DEF ScansComplete, s
    <3>2. s.to <= Top /\ s.from <= s.to /\ s.to \in Nat /\ s.from \in Nat
      BY <2>1, <3>1, ScansAreScans DEF ScanShape, ScanComplete, CompleteIn, Blocks
    <3>3. ~(new[2] < s.from) /\ ~(new[2] <= s.to)
      BY <1>0, <1>3, <3>2
    <3>4. s.to <= Top'
      BY <1>0, <1>1, <3>2
    <3>5. Trail' = Trail
      BY <1>6 DEF Trail
    <3> QED
      BY <1>5, <2>1, <3>1, <3>3, <3>4, <3>5 DEF ScanComplete, CompleteIn
  <2> QED
    BY <2>3, <2>4 DEF s
<1>17. ScansShaped' /\ ScansComplete'
  BY <1>7, <1>15, <1>16 DEF ScansShaped, ScansComplete
<1>18. SoleScan' /\ CopyIsCurrent'
  BY <1>7, <1>15 DEF SoleScan, CopyIsCurrent
<1> QED
  BY <1>2, <1>9, <1>10, <1>11, <1>12, <1>14, <1>17, <1>18

(* A replaced chain empties the promises, not the trail. *)
LEMMA ReplaceChainKeeps ==
  ASSUME IndexerInv, ReplaceChain
  PROVE  IndexerInv'
<1> USE BoundAssumption DEF IndexerInv
<1>1. IndexerTypeOK' /\ Top' = 0
  BY DEF ReplaceChain, IndexerTypeOK, Chains, Top
<1>2. Happened' = {}
  BY <1>1 DEF Happened
<1>3. \A d \in Drivers : Idle(d)'
  BY DEF ReplaceChain, Idle
<1>4. OnlyHappened'
  <2>1. \A e \in Events : Recorded(e)' = Recorded(e)
    BY DEF ReplaceChain, Recorded
  <2>2. \A e \in Events : Recorded(e) => e[1] < number \/ e[1] = number
    BY HappenedFacts DEF OnlyHappened
  <2>3. number \in Nat /\ number' = number + 1 /\ \A e \in Events : e[1] \in Nat
    BY DEF ReplaceChain, IndexerTypeOK, Chains, Events
  <2> QED
    BY <2>1, <2>2, <2>3 DEF OnlyHappened
<1>5. RecordedOnce'
  BY DEF ReplaceChain, RecordedOnce
<1>6. CursorOnChain'
  <2>1. ~skipped' => cursor' = 0
    BY DEF ReplaceChain
  <2> QED
    BY <1>1, <2>1 DEF CursorOnChain
<1>7. SavedOnChain'
  <2>1. saved # None => saved.chain \in Nat /\ saved.chain <= number
    BY DEF SavedOnChain, IndexerTypeOK, Chains
  <2> QED
    BY <2>1 DEF ReplaceChain, SavedOnChain, IndexerTypeOK, Chains
<1>8. CursorCovers' /\ SavedCovers' /\ TransfersInOrder' /\ OwnerFollowsChain'
  BY <1>2 DEF CursorCovers, SavedCovers, TransfersInOrder, OwnerFollowsChain, Moves
<1>9. ScansShaped' /\ ScansComplete' /\ SoleScan' /\ CopyIsCurrent'
  BY <1>3 DEF ScansShaped, ScansComplete, SoleScan, CopyIsCurrent
<1> QED
  BY <1>1, <1>4, <1>5, <1>6, <1>7, <1>8, <1>9

-----------------------------------------------------------------------------
(* Start-up, crashes and the saved cursor. *)

(* Steps that leave the scans, the chain and the trail alone, and keep or  *)
(* take over a cursor whose logs are recorded.                             *)
LEMMA CursorMoves ==
  ASSUME IndexerInv,
         UNCHANGED <<number, blocks, audit, owner, scan, skipped, overlapped>>,
         ~skipped => cursor' <= Top /\ \A e \in Happened : e[2] <= cursor' => Recorded(e),
         saved' # None => saved'.chain <= number /\ (saved'.chain = number => saved'.block <= Top),
         ~skipped /\ saved' # None /\ saved'.chain = number =>
           \A e \in Happened : e[2] <= saved'.block => Recorded(e),
         IndexerTypeOK'
  PROVE  IndexerInv'
<1> USE SameChain DEF IndexerInv
<1>1. OnlyHappened' /\ RecordedOnce'
  BY DEF OnlyHappened, RecordedOnce, Recorded
<1>2. CursorOnChain' /\ SavedOnChain'
  BY DEF CursorOnChain, SavedOnChain
<1>3. CursorCovers' /\ SavedCovers'
  BY DEF CursorCovers, SavedCovers
<1>4. TransfersInOrder' /\ OwnerFollowsChain'
  BY DEF TransfersInOrder, OwnerFollowsChain, Moves
<1>5. ScansShaped' /\ ScansComplete' /\ SoleScan' /\ CopyIsCurrent'
  BY ScansKept
<1> QED
  BY <1>1, <1>2, <1>3, <1>4, <1>5

(* The poller starts where the saved state says. *)
LEMMA StartPollingKeeps ==
  ASSUME IndexerInv, StartPolling
  PROVE  IndexerInv'
<1> USE BoundAssumption DEF IndexerInv
<1>1. IndexerTypeOK'
  BY DEF StartPolling, chain, Resumable, IndexerTypeOK
<1>2. \A e \in Happened : e[2] \in 1..Top
  BY HappenedFacts
<1>3. Top \in Nat
  BY HappenedFacts
<1>4. ASSUME ~skipped
      PROVE  cursor' <= Top /\ \A e \in Happened : e[2] <= cursor' => Recorded(e)
  <2>1. CASE ~Resumable \/ saved.block = 0
    <3>1. cursor' = 0
      BY <2>1 DEF StartPolling, chain
    <3> QED
      BY <1>2, <1>3, <3>1
  <2>2. CASE Resumable /\ saved.block # 0
    <3>1. cursor' = saved.block /\ saved # None /\ saved.block <= Top
      BY <2>2 DEF StartPolling, chain, Resumable
    <3>2. saved.chain = number
      BY <2>2 DEF Resumable, IndexerTypeOK
    <3> QED
      BY <1>4, <3>1, <3>2 DEF SavedCovers
  <2> QED
    BY <2>1, <2>2
<1> QED
  BY <1>1, <1>4, CursorMoves DEF StartPolling, chain, SavedOnChain, SavedCovers

(* What is saved is what the cursor covers. *)
LEMMA SaveStateKeeps ==
  ASSUME IndexerInv, SaveState
  PROVE  IndexerInv'
<1> USE DEF IndexerInv
<1>1. IndexerTypeOK'
  BY DEF SaveState, chain, IndexerTypeOK
<1>2. /\ saved'.chain = number /\ saved'.block = cursor /\ cursor <= Top
      /\ cursor' = cursor /\ number <= number
  BY DEF SaveState, chain, IndexerTypeOK, Chains
<1> QED
  BY <1>1, <1>2, CursorMoves DEF SaveState, chain, CursorOnChain, CursorCovers

(* Steps that change only the task and count a fault. *)
LEMMA TaskStepKeeps ==
  ASSUME IndexerInv, StartFails \/ SaveFails
  PROVE  IndexerInv'
<1> USE BoundAssumption DEF IndexerInv
<1>1. IndexerTypeOK'
  BY DEF StartFails, SaveFails, chain, IndexerTypeOK
<1>2. UNCHANGED <<number, blocks, audit, owner, saved, cursor, scan, skipped, overlapped>>
  BY DEF StartFails, SaveFails, chain
<1> QED
  BY <1>1, <1>2, CursorMoves DEF CursorOnChain, CursorCovers, SavedOnChain, SavedCovers

(* A crash forgets the scans and the cursor. *)
LEMMA CrashKeeps ==
  ASSUME IndexerInv, Crash
  PROVE  IndexerInv'
<1> USE BoundAssumption DEF IndexerInv
<1>1. IndexerTypeOK'
  BY DEF Crash, chain, IndexerTypeOK
<1>2. \A d \in Drivers : Idle(d)'
  BY DEF Crash, chain, Idle
<1>3. UNCHANGED <<number, blocks, audit, owner, saved, skipped, overlapped>> /\ cursor' = 0
  BY DEF Crash, chain
<1>4. OnlyHappened' /\ RecordedOnce' /\ SavedOnChain' /\ SavedCovers' /\ TransfersInOrder'
  BY <1>3, SameChain
     DEF OnlyHappened, RecordedOnce, SavedOnChain, SavedCovers, TransfersInOrder
<1>5. CursorOnChain' /\ CursorCovers'
  <2>1. Top \in Nat /\ \A e \in Happened : e[2] \in 1..Top
    BY HappenedFacts
  <2> QED
    BY <1>3, <2>1, SameChain DEF CursorOnChain, CursorCovers
<1>6. OwnerFollowsChain'
  BY <1>3, SameChain DEF OwnerFollowsChain, Moves
<1>7. ScansShaped' /\ ScansComplete' /\ SoleScan' /\ CopyIsCurrent'
  BY <1>2 DEF ScansShaped, ScansComplete, SoleScan, CopyIsCurrent
<1> QED
  BY <1>1, <1>4, <1>5, <1>6, <1>7

-----------------------------------------------------------------------------
(* Scans. *)

(* A scan begins right above what is covered. *)
LEMMA BeginKeeps ==
  ASSUME IndexerInv, NEW d \in Drivers, NEW from \in 0..MaxBlock + 1, NEW to \in Blocks,
         NEW jumps \in BOOLEAN, Begin(d, from, to, jumps), from <= to,
         ~jumps => from <= cursor + 1 /\ to <= Top
  PROVE  IndexerInv'
<1> DEFINE s == [from |-> from, to |-> to, stage |-> "transfer", fetched |-> None,
                 held |-> None, seen |-> None, failed |-> FALSE]
<1> USE DEF IndexerInv
<1>1. s \in Scans
  BY DEF Scans, Kinds
<1>2. /\ s.from = from /\ s.to = to /\ s.stage = "transfer" /\ s.fetched = None
      /\ s.held = None /\ s.seen = None /\ s.failed = FALSE
  OBVIOUS
<1>3. scan' = [scan EXCEPT ![d] = s] /\ Idle(d)
  BY DEF Begin
<1> HIDE DEF s
<1>4. /\ UNCHANGED <<number, blocks, audit, owner, saved, cursor, task, faults>>
      /\ skipped' = (skipped \/ jumps)
      /\ overlapped' = (overlapped \/ \E e \in Drivers \ {d} : ~Idle(e))
  BY DEF Begin, chain
<1>5. scan' \in [Drivers -> Scans \union {NoScan}]
      /\ \A e \in Drivers : scan'[e] = IF e = d THEN s ELSE scan[e]
  BY <1>1, <1>3 DEF IndexerTypeOK
<1>6. skipped' \in BOOLEAN /\ overlapped' \in BOOLEAN
      /\ (skipped => skipped') /\ (overlapped => overlapped')
  BY <1>4 DEF IndexerTypeOK
<1>7. IndexerTypeOK'
  BY <1>4, <1>5, <1>6 DEF IndexerTypeOK
<1>8. TrailSound'
  BY <1>4, <1>6, TrailSoundKept
<1>9. ~Idle(d)' /\ \A e \in Drivers \ {d} : Idle(e)' <=> Idle(e)
  BY <1>1, <1>5, ScansAreScans DEF Idle
<1>10. ScansShaped'
  <2>1. ScanShape(s)
    BY <1>2 DEF ScanShape
  <2> QED
    BY <1>4, <1>5, <1>9, <2>1, SameChain DEF ScansShaped
<1>11. ScansComplete'
  <2>1. ASSUME ~skipped'
        PROVE  ScanComplete(s)
    <3>1. ~skipped /\ from <= cursor + 1 /\ to <= Top
      BY <1>4, <2>1
    <3>2. ASSUME NEW e \in Happened, e[2] < from
          PROVE  e \in Trail
      <4>1. e \in Events /\ e[2] \in Nat
        BY HappenedFacts
      <4>2. e[2] <= cursor
        BY <3>1, <3>2, <4>1 DEF IndexerTypeOK
      <4> QED
        BY <3>1, <4>1, <4>2 DEF CursorCovers, Trail
    <3>3. \A e \in Happened : blocks[e[2]].kind \in {"transfer", "other"}
      BY HappenedFacts DEF Kinds
    <3> QED
      BY <1>2, <3>1, <3>2, <3>3 DEF ScanComplete, CompleteIn
  <2> QED
    BY <1>4, <1>5, <1>6, <1>9, <2>1, SameChain DEF ScansComplete
<1>12. SoleScan'
  BY <1>4, <1>9 DEF SoleScan
<1>13. CopyIsCurrent'
  BY <1>2, <1>4, <1>5, <1>6, <1>9 DEF CopyIsCurrent
<1> QED
  BY <1>7, <1>8, <1>10, <1>11, <1>12, <1>13 DEF TrailSound

(* The poller begins at the block after its cursor. *)
LEMMA PollKeeps ==
  ASSUME IndexerInv, Poll
  PROVE  IndexerInv'
<1> DEFINE target == IF Top < cursor + Window THEN Top ELSE cursor + Window
<1> USE BoundAssumption
<1>1. Top \in 0..MaxBlock /\ cursor \in 0..MaxBlock
  BY HappenedFacts DEF IndexerInv, IndexerTypeOK
<1>2. cursor + 1 \in 0..MaxBlock + 1 /\ target \in Blocks /\ cursor + 1 <= target /\ target <= Top
  BY <1>1 DEF Poll, Blocks
<1>3. Begin("poll", cursor + 1, target, FALSE)
  BY DEF Poll
<1>4. cursor + 1 <= cursor + 1
  BY <1>1
<1> HIDE DEF target
<1> QED
  BY <1>2, <1>3, <1>4, BeginKeeps DEF Drivers

(* The catch-up begins where the request says. *)
LEMMA CatchUpKeeps ==
  ASSUME IndexerInv, NEW from \in Blocks, NEW to \in Blocks, CatchUp(from, to)
  PROVE  IndexerInv'
<1> DEFINE jumps == from > cursor + 1 \/ to > Top
<1> USE BoundAssumption
<1>1. Top \in 0..MaxBlock /\ cursor \in 0..MaxBlock
  BY HappenedFacts DEF IndexerInv, IndexerTypeOK
<1>2. from \in 0..MaxBlock + 1 /\ jumps \in BOOLEAN
      /\ (~jumps => from <= cursor + 1 /\ to <= Top)
  BY <1>1 DEF Blocks
<1>3. Begin("catchup", from, to, jumps) /\ from <= to
  BY DEF CatchUp
<1> HIDE DEF jumps
<1> QED
  BY <1>2, <1>3, BeginKeeps DEF Drivers

(* A scan that ends has recorded its range. *)
LEMMA EndScanKeeps ==
  ASSUME IndexerInv, NEW d \in Drivers, EndScan(d)
  PROVE  IndexerInv'
<1> DEFINE s == scan[d]
<1> USE BoundAssumption DEF IndexerInv
<1>1. s \in Scans /\ ScanShape(s) /\ s.stage = "end" /\ ~Idle(d)
  BY RunningScans DEF EndScan, ScansShaped
<1>2. /\ UNCHANGED <<number, blocks, audit, owner, saved, faults, skipped, overlapped>>
      /\ scan' = [scan EXCEPT ![d] = NoScan]
  BY DEF EndScan, chain
<1>3. cursor' = IF s.failed THEN cursor ELSE Larger(cursor, s.to)
  BY DEF EndScan, Advance
<1>4. task' \in {"starting", "polling", "saving", "dead"}
  BY DEF EndScan, IndexerTypeOK
<1> HIDE DEF s
<1>5. s.to \in 1..MaxBlock /\ s.from \in Nat
  BY <1>1, ScansAreScans DEF Blocks
<1>6. cursor' \in 0..MaxBlock
  BY <1>3, <1>5 DEF Larger, IndexerTypeOK
<1>7. /\ scan' \in [Drivers -> Scans \union {NoScan}]
      /\ \A e \in Drivers : scan'[e] = IF e = d THEN NoScan ELSE scan[e]
  BY <1>2 DEF IndexerTypeOK
<1>8. IndexerTypeOK'
  BY <1>2, <1>4, <1>6, <1>7 DEF IndexerTypeOK
<1>9. ASSUME ~skipped
      PROVE  cursor' <= Top /\ \A e \in Happened : e[2] <= cursor' => Recorded(e)
  <2>1. ScanComplete(s)
    BY <1>1, <1>9 DEF ScansComplete, s
  <2>2. Top \in Nat /\ \A e \in Happened : e[2] \in Nat
    BY HappenedFacts
  <2>3. cursor <= Top /\ s.to <= Top /\ cursor \in Nat
    BY <1>9, <2>1 DEF CursorOnChain, ScanComplete, CompleteIn, IndexerTypeOK
  <2>4. cursor' = cursor \/ (~s.failed /\ cursor' = s.to)
    BY <1>3 DEF Larger
  <2>5. ASSUME ~s.failed, NEW e \in Happened, e[2] <= s.to
        PROVE  Recorded(e)
    BY <1>1, <1>5, <2>1, <2>2, <2>5 DEF ScanComplete, CompleteIn, Trail
  <2> QED
    BY <1>9, <2>3, <2>4, <2>5 DEF CursorCovers
<1>10. OnlyHappened' /\ RecordedOnce' /\ SavedOnChain' /\ SavedCovers' /\ TransfersInOrder'
  BY <1>2, SameChain
     DEF OnlyHappened, RecordedOnce, SavedOnChain, SavedCovers, TransfersInOrder
<1>11. CursorOnChain' /\ CursorCovers'
  BY <1>2, <1>9, SameChain DEF CursorOnChain, CursorCovers
<1>12. OwnerFollowsChain'
  BY <1>2, SameChain DEF OwnerFollowsChain, Moves
<1>13. Idle(d)' /\ \A e \in Drivers \ {d} : Idle(e)' <=> Idle(e)
  BY <1>7 DEF Idle
<1>14. ScansShaped' /\ ScansComplete'
  BY <1>2, <1>7, <1>13, SameChain DEF ScansShaped, ScansComplete
<1>15. SoleScan' /\ CopyIsCurrent'
  BY <1>2, <1>7, <1>13 DEF SoleScan, CopyIsCurrent
<1> QED
  BY <1>8, <1>10, <1>11, <1>12, <1>14, <1>15

(* A scan that is given up leaves the trail and the other scan as they are. *)
LEMMA ScanFailsKeeps ==
  ASSUME IndexerInv, NEW d \in Drivers, ScanFails(d)
  PROVE  IndexerInv'
<1> USE BoundAssumption DEF IndexerInv
<1>1. /\ UNCHANGED <<number, blocks, audit, owner, saved, cursor, task, skipped, overlapped>>
      /\ scan' = [scan EXCEPT ![d] = NoScan]
  BY DEF ScanFails, chain
<1>2. TrailSound'
  BY <1>1, TrailSoundKept
<1>3. /\ scan' \in [Drivers -> Scans \union {NoScan}]
      /\ \A e \in Drivers : scan'[e] = IF e = d THEN NoScan ELSE scan[e]
  BY <1>1 DEF IndexerTypeOK
<1>4. IndexerTypeOK'
  BY <1>1, <1>3 DEF ScanFails, IndexerTypeOK
<1>5. Idle(d)' /\ \A e \in Drivers \ {d} : Idle(e)' <=> Idle(e)
  BY <1>3 DEF Idle
<1>6. ScansShaped' /\ ScansComplete'
  BY <1>1, <1>3, <1>5, SameChain DEF ScansShaped, ScansComplete
<1>7. SoleScan' /\ CopyIsCurrent'
  BY <1>1, <1>3, <1>5 DEF SoleScan, CopyIsCurrent
<1> QED
  BY <1>2, <1>4, <1>6, <1>7 DEF TrailSound

(* A step of one scan that writes nothing: sound if its scan stays so. *)
LEMMA ScanOnlyKeeps ==
  ASSUME IndexerInv, NEW d \in Drivers, NEW s \in Scans, ~Idle(d),
         scan' = [scan EXCEPT ![d] = s],
         UNCHANGED <<number, blocks, audit, owner, saved, cursor, task, overlapped>>,
         faults' \in 0..MaxFaults, skipped' \in BOOLEAN, skipped => skipped',
         ScanShape(s), ~skipped' => ScanComplete(s),
         s.seen # None => s.seen = scan[d].seen
  PROVE  IndexerInv'
<1>1. TrailSound'
  BY TrailSoundKept
<1>2. /\ scan' \in [Drivers -> Scans \union {NoScan}]
      /\ ScansShaped' /\ ScansComplete' /\ SoleScan' /\ CopyIsCurrent'
  BY ScanStep
<1>3. IndexerTypeOK'
  BY <1>2 DEF IndexerInv, IndexerTypeOK
<1> QED
  BY <1>1, <1>2, <1>3 DEF IndexerInv, TrailSound

(* The logs of the kind at hand are all fetched. *)
LEMMA FetchKeeps ==
  ASSUME IndexerInv, NEW d \in Drivers, Fetch(d)
  PROVE  IndexerInv'
<1> DEFINE F == {e \in Happened : /\ e[2] >= scan[d].from /\ e[2] <= scan[d].to
                                  /\ blocks[e[2]].kind = scan[d].stage}
           s == [scan[d] EXCEPT !.fetched = F]
<1> USE DEF IndexerInv
<1>1. ~Idle(d) /\ scan[d] \in Scans /\ scan[d].stage # "end" /\ scan[d].fetched = None
      /\ ScanShape(scan[d]) /\ scan[d].held = None
  BY RunningScans DEF Fetch, CanFetch, ScansShaped, ScanShape
<1>2. F \in SUBSET Events /\ F # None
  BY HappenedFacts, SentinelAssumption
<1>3. F = InScan(scan[d])
  <2>1. \A e \in Happened : e[2] \in Nat
    BY HappenedFacts
  <2> QED
    BY <1>1, <2>1, ScansAreScans DEF InScan, Blocks
<1>4. scan' = [scan EXCEPT ![d] = Settled(s)]
  BY DEF Fetch
<1> HIDE DEF F
<1>5. /\ s \in Scans /\ s.from = scan[d].from /\ s.to = scan[d].to /\ s.stage = scan[d].stage
      /\ s.fetched = F /\ s.held = None /\ s.seen = scan[d].seen /\ s.failed = scan[d].failed
  BY <1>1, <1>2 DEF Scans
<1> HIDE DEF s
<1>6. InScan(s) = InScan(scan[d])
  BY <1>5 DEF InScan
<1>7. ScanShape(s)
  BY <1>1, <1>2, <1>3, <1>5, <1>6 DEF ScanShape
<1>8. ASSUME ~skipped
      PROVE  ScanComplete(s)
  <2>1. ScanComplete(scan[d])
    BY <1>1, <1>8 DEF ScansComplete
  <2> QED
    BY <1>3, <1>5, <2>1 DEF ScanComplete, CompleteIn, InScan
<1>9. Settled(s) \in Scans /\ Settled(s).seen = scan[d].seen /\ ScanShape(Settled(s))
      /\ (~skipped => ScanComplete(Settled(s)))
  BY <1>1, <1>2, <1>5, <1>7, <1>8, SettledFacts DEF ScanComplete
<1>10. UNCHANGED <<number, blocks, audit, owner, saved, cursor, task, faults, skipped, overlapped>>
  BY DEF Fetch, chain
<1>11. faults' \in 0..MaxFaults /\ skipped' \in BOOLEAN
  BY <1>10 DEF IndexerTypeOK
<1> QED
  BY <1>1, <1>4, <1>9, <1>10, <1>11, ScanOnlyKeeps

(* A failed call ends the scan or passes to the next kind. *)
LEMMA FetchFailsKeeps ==
  ASSUME IndexerInv, NEW d \in Drivers, FetchFails(d)
  PROVE  IndexerInv'
<1> DEFINE s == [scan[d] EXCEPT !.failed = TRUE, !.stage = Stage[@]]
<1> USE BoundAssumption DEF IndexerInv
<1>1. ~Idle(d) /\ scan[d] \in Scans /\ scan[d].stage \in {"transfer", "other"}
      /\ scan[d].fetched = None /\ ScanShape(scan[d]) /\ scan[d].held = None
  BY RunningScans, ScansAreScans DEF FetchFails, CanFetch, ScansShaped, ScanShape
<1>2. Stage[scan[d].stage] \in {"other", "end"}
  BY <1>1 DEF Stage
<1>3. scan' = [scan EXCEPT ![d] = s]
  BY DEF FetchFails, IndexerTypeOK
<1>4. \A k \in {"other", "end"} : [scan[d] EXCEPT !.failed = TRUE, !.stage = k] \in Scans
  BY <1>1 DEF Scans, Kinds
<1>5. s \in Scans
  BY <1>2, <1>4
<1>6. /\ s.from = scan[d].from /\ s.to = scan[d].to /\ s.stage \in {"other", "end"}
      /\ s.fetched = None /\ s.held = None /\ s.seen = scan[d].seen /\ s.failed = TRUE
  BY <1>1, <1>2 DEF Scans
<1> HIDE DEF s
<1>7. ScanShape(s)
  BY <1>1, <1>6 DEF ScanShape
<1>8. ~skipped => ScanComplete(s)
  BY <1>1, <1>6 DEF ScansComplete, ScanComplete, CompleteIn
<1>9. UNCHANGED <<number, blocks, audit, owner, saved, cursor, task, skipped, overlapped>>
  BY DEF FetchFails, chain
<1>10. faults' \in 0..MaxFaults /\ skipped' \in BOOLEAN
  BY <1>9 DEF FetchFails, IndexerTypeOK
<1> QED
  BY <1>1, <1>3, <1>5, <1>6, <1>7, <1>8, <1>9, <1>10, ScanOnlyKeeps

(* The earliest log is taken up, unless it is recorded. *)
LEMMA CheckKeeps ==
  ASSUME IndexerInv, NEW d \in Drivers, Check(d)
  PROVE  IndexerInv'
<1> DEFINE e == Earliest(d)
           left == scan[d].fetched \ {e}
           hold == IF Recorded(e) THEN None ELSE e
           s == [scan[d] EXCEPT !.fetched = left, !.held = hold]
<1> USE DEF IndexerInv
<1>1. ~Idle(d) /\ scan[d] \in Scans /\ ScanShape(scan[d])
      /\ scan[d].fetched # None /\ scan[d].fetched # {} /\ scan[d].held = None
  BY RunningScans DEF Check, ScansShaped
<1>2. scan[d].fetched \subseteq InScan(scan[d]) /\ InScan(scan[d]) \subseteq Happened
  BY <1>1 DEF ScanShape, InScan
<1>3. e \in scan[d].fetched /\ \A f \in scan[d].fetched : e[2] <= f[2]
  BY <1>1, <1>2, EarliestFacts
<1>4. scan' = [scan EXCEPT ![d] = Settled(s)]
  BY DEF Check
<1> HIDE DEF e
<1>5. left \in SUBSET Events /\ left # None /\ e \in Events /\ e # None
      /\ hold \in Events \union {None}
  BY <1>2, <1>3, HappenedFacts, SentinelAssumption
<1> HIDE DEF left, hold
<1>6. /\ s \in Scans /\ s.from = scan[d].from /\ s.to = scan[d].to /\ s.stage = scan[d].stage
      /\ s.fetched = left /\ s.held = hold /\ s.seen = scan[d].seen /\ s.failed = scan[d].failed
  BY <1>1, <1>5 DEF Scans
<1> HIDE DEF s
<1>7. InScan(s) = InScan(scan[d])
  BY <1>6 DEF InScan
<1>8. ScanShape(s)
  <2>1. \A f \in left : f \in InScan(s) /\ e[2] < f[2]
    <3>1. ASSUME NEW f \in left
          PROVE  f \in InScan(s) /\ e[2] < f[2]
      <4>1. f \in scan[d].fetched /\ f # e
        BY DEF left
      <4>2. f \in Happened /\ e \in Happened /\ e[2] <= f[2]
        BY <1>2, <1>3, <4>1
      <4>3. e[2] # f[2] /\ e[2] \in Nat /\ f[2] \in Nat
        BY <4>1, <4>2, HappenedFacts
      <4> QED
        BY <1>2, <1>7, <4>1, <4>2, <4>3
    <3> QED
      BY <3>1
  <2>2. hold # None => hold = e /\ e \in InScan(s)
    BY <1>2, <1>3, <1>7 DEF hold
  <2> QED
    BY <1>1, <1>5, <1>6, <2>1, <2>2 DEF ScanShape
<1>9. ASSUME ~skipped
      PROVE  ScanComplete(s)
  <2>1. ScanComplete(scan[d])
    BY <1>1, <1>9 DEF ScansComplete
  <2>2. \A f \in scan[d].fetched : f \in Trail \/ f \in left \/ f = hold
    BY <1>5 DEF left, hold, Trail
  <2>3. \A f \in Happened : f # None
    BY HappenedFacts, SentinelAssumption
  <2> QED
    BY <1>1, <1>6, <2>1, <2>2, <2>3 DEF ScanComplete, CompleteIn
<1>10. s.stage # "end"
  <2>1. e \in Happened /\ blocks[e[2]].kind = s.stage
    BY <1>2, <1>3, <1>6 DEF InScan
  <2> QED
    BY <2>1, HappenedFacts DEF Kinds
<1>11. Settled(s) \in Scans /\ Settled(s).seen = scan[d].seen /\ ScanShape(Settled(s))
      /\ (~skipped => ScanComplete(Settled(s)))
  BY <1>5, <1>6, <1>8, <1>9, <1>10, SettledFacts DEF ScanComplete
<1>12. UNCHANGED <<number, blocks, audit, owner, saved, cursor, task, faults, skipped, overlapped>>
  BY DEF Check, chain
<1>13. faults' \in 0..MaxFaults /\ skipped' \in BOOLEAN
  BY <1>12 DEF IndexerTypeOK
<1> QED
  BY <1>1, <1>4, <1>11, <1>12, <1>13, ScanOnlyKeeps

(* A failed commit leaves the log unrecorded and the scan failed. *)
LEMMA CommitFailsKeeps ==
  ASSUME IndexerInv, NEW d \in Drivers, NEW lost \in BOOLEAN, CommitFails(d, lost)
  PROVE  IndexerInv'
<1> DEFINE e == scan[d].held
           s == [scan[d] EXCEPT !.held = None, !.seen = None]
<1> USE BoundAssumption DEF IndexerInv
<1>1. ~Idle(d) /\ scan[d] \in Scans /\ ScanShape(scan[d]) /\ e # None
      /\ lost = Insertable(e)
  BY RunningScans DEF CommitFails, ScansShaped
<1>2. e \in InScan(scan[d]) /\ e \in Happened /\ scan[d].fetched # None
  BY <1>1 DEF ScanShape, InScan
<1>3. scan' = [scan EXCEPT ![d] = Settled(s)]
  BY DEF CommitFails
<1>4. /\ s \in Scans /\ s.from = scan[d].from /\ s.to = scan[d].to /\ s.stage = scan[d].stage
      /\ s.fetched = scan[d].fetched /\ s.held = None /\ s.seen = None
      /\ s.failed = scan[d].failed
  BY <1>1 DEF Scans
<1> HIDE DEF s
<1>5. InScan(s) = InScan(scan[d])
  BY <1>4 DEF InScan
<1>6. ScanShape(s)
  BY <1>1, <1>4, <1>5 DEF ScanShape
<1>7. skipped' = (skipped \/ lost)
  BY DEF CommitFails
<1>8. ASSUME ~skipped'
      PROVE  ScanComplete(s)
  <2>1. ~skipped /\ Recorded(e)
    BY <1>1, <1>7, <1>8 DEF Insertable
  <2>2. ScanComplete(scan[d])
    BY <1>1, <2>1 DEF ScansComplete
  <2>3. e \in Trail
    BY <1>2, <2>1, HappenedFacts DEF Trail
  <2> QED
    BY <1>4, <2>2, <2>3 DEF ScanComplete, CompleteIn
<1>9. s.stage # "end"
  BY <1>2, <1>4, HappenedFacts DEF InScan, Kinds
<1>10. Settled(s) \in Scans /\ Settled(s).seen = None /\ ScanShape(Settled(s))
      /\ (~skipped' => ScanComplete(Settled(s)))
  BY <1>2, <1>4, <1>6, <1>8, <1>9, SettledFacts DEF ScanComplete
<1>11. UNCHANGED <<number, blocks, audit, owner, saved, cursor, task, overlapped>>
  BY DEF CommitFails, chain
<1>12. faults' \in 0..MaxFaults /\ skipped' \in BOOLEAN /\ (skipped => skipped')
  BY <1>7 DEF CommitFails, IndexerTypeOK
<1> QED
  BY <1>1, <1>3, <1>10, <1>11, <1>12, ScanOnlyKeeps

(* A log is inserted: it is the next one of its kind, and the registry's   *)
(* owner is the recipient of a transfer that is inserted last.             *)
LEMMA CommitKeeps ==
  ASSUME IndexerInv, NEW d \in Drivers, Commit(d)
  PROVE  IndexerInv'
<1> DEFINE e == scan[d].held
           to == NewOwner(e)
           s == [scan[d] EXCEPT !.held = None, !.seen = IF to = None THEN scan[d].seen ELSE to]
<1> USE BoundAssumption DEF IndexerInv
<1>1. ~Idle(d) /\ scan[d] \in Scans /\ ScanShape(scan[d]) /\ e # None /\ ~Recorded(e)
  BY RunningScans DEF Commit, Insertable, ScansShaped
<1>2. e \in InScan(scan[d]) /\ e \in Happened /\ e \in Events /\ scan[d].fetched # None
      /\ \A f \in scan[d].fetched : e[2] < f[2]
  BY <1>1, HappenedFacts DEF ScanShape, InScan
<1>3. to \in Owner \union {None} /\ (to # None => to = blocks[e[2]].to)
      /\ (blocks[e[2]].to \in Owner => to = blocks[e[2]].to)
  BY DEF NewOwner
<1>4. /\ audit' = [audit EXCEPT ![e] = @ + 1]
      /\ scan' = [scan EXCEPT ![d] = Settled(s)]
      /\ Follow(d, to)
      /\ UNCHANGED <<number, blocks, saved, cursor, task, faults, skipped, overlapped>>
  BY DEF Commit, chain
<1> HIDE DEF to, e
<1>5. /\ s \in Scans /\ s.from = scan[d].from /\ s.to = scan[d].to /\ s.stage = scan[d].stage
      /\ s.fetched = scan[d].fetched /\ s.held = None /\ s.failed = scan[d].failed
      /\ s.seen = IF to = None THEN scan[d].seen ELSE to
  <2>1. PICK o \in Owner \union {None} : o = IF to = None THEN scan[d].seen ELSE to
    BY <1>1, <1>3, ScansAreScans
  <2>2. s = [scan[d] EXCEPT !.held = None, !.seen = o]
    BY <2>1
  <2> HIDE DEF s
  <2>3. /\ s \in Scans /\ s.from = scan[d].from /\ s.to = scan[d].to
        /\ s.stage = scan[d].stage /\ s.fetched = scan[d].fetched
        /\ s.held = None /\ s.failed = scan[d].failed /\ s.seen = o
    BY <1>1, <2>2 DEF Scans
  <2> QED
    BY <2>1, <2>3
<1> HIDE DEF s
<1>6. /\ audit' \in [Events -> Nat] /\ audit[e] = 0 /\ audit'[e] = 1
      /\ \A f \in Events : f # e => audit'[f] = audit[f]
  BY <1>1, <1>2, <1>4 DEF IndexerTypeOK, Recorded
<1>7. \A f \in Events : Recorded(f)' <=> Recorded(f) \/ f = e
  BY <1>6 DEF Recorded
<1>8. Top' = Top /\ Happened' = Happened /\ \A r : InScan(r)' = InScan(r)
  BY <1>4 DEF Top, Happened, InScan
<1>9. Trail' = Trail \union {e}
  BY <1>2, <1>7 DEF Trail
<1>10. owner' \in Owner /\ (to = None => owner' = owner)
  BY <1>3, <1>4 DEF Follow, IndexerTypeOK
<1>11. InScan(s) = InScan(scan[d]) /\ ScanShape(s)
  BY <1>1, <1>2, <1>5 DEF ScanShape, InScan
<1>12. ASSUME ~skipped
       PROVE  CompleteIn(s, Trail \union {e})
  <2>1. CompleteIn(scan[d], Trail)
    BY <1>1, <1>12 DEF ScansComplete, ScanComplete
  <2> QED
    BY <1>5, <2>1 DEF CompleteIn, e
<1>13. s.stage # "end"
  BY <1>2, <1>5, HappenedFacts DEF InScan, Kinds
<1>14. /\ Settled(s) \in Scans /\ Settled(s).seen = s.seen /\ ScanShape(Settled(s))
       /\ (~skipped => CompleteIn(Settled(s), Trail \union {e}))
  BY <1>2, <1>5, <1>11, <1>12, <1>13, SettledFacts
<1>15. /\ scan' \in [Drivers -> Scans \union {NoScan}]
       /\ \A x \in Drivers : scan'[x] = IF x = d THEN Settled(s) ELSE scan[x]
       /\ \A x \in Drivers : Idle(x)' <=> Idle(x)
  BY <1>1, <1>4, <1>14, ScansAreScans DEF IndexerTypeOK, Idle
<1>16. IndexerTypeOK'
  BY <1>4, <1>6, <1>10, <1>15 DEF IndexerTypeOK
<1>17. OnlyHappened' /\ RecordedOnce'
  BY <1>2, <1>4, <1>6, <1>7, <1>8 DEF OnlyHappened, RecordedOnce
<1>18. CursorOnChain' /\ SavedOnChain' /\ CursorCovers' /\ SavedCovers'
  BY <1>4, <1>7, <1>8, HappenedFacts
     DEF CursorOnChain, SavedOnChain, CursorCovers, SavedCovers
<1>19. ASSUME ~skipped, NEW f \in Happened, blocks[e[2]].kind = "transfer",
              blocks[f[2]].kind = "transfer", f[2] < e[2]
       PROVE  Recorded(f)
  <2>1. scan[d].stage = "transfer" /\ ~scan[d].failed /\ CompleteIn(scan[d], Trail)
    BY <1>1, <1>2, <1>19 DEF InScan, ScanShape, ScansComplete, ScanComplete
  <2>2. scan[d].from <= e[2] /\ e[2] <= scan[d].to
    BY <1>2 DEF InScan
  <2>3. scan[d].from \in Nat /\ scan[d].to \in Nat /\ e[2] \in Nat /\ f[2] \in Nat
    BY <1>1, <1>2, ScansAreScans, HappenedFacts DEF Blocks
  <2>4. f \notin scan[d].fetched /\ f # e
    BY <1>2, <1>19, <2>3
  <2>5. f \in Trail
    <3>1. CASE f[2] < scan[d].from
      BY <2>1, <3>1 DEF CompleteIn
    <3>2. CASE scan[d].from <= f[2]
      <4>1. f[2] <= scan[d].to
        BY <1>19, <2>2, <2>3
      <4> QED
        BY <1>2, <1>19, <2>1, <2>4, <3>2, <4>1 DEF CompleteIn, e
    <3> QED
      BY <2>3, <3>1, <3>2
  <2> QED
    BY <2>5 DEF Trail
<1>20. TransfersInOrder'
  BY <1>4, <1>7, <1>8, <1>19, HappenedFacts DEF TransfersInOrder
<1>21. ASSUME ~skipped, NEW f \in Moves, f # e, blocks[e[2]].to \in Owner
       PROVE  f[2] < e[2]
  <2>1. blocks[e[2]].kind = "transfer" /\ blocks[f[2]].kind = "transfer"
    BY <1>2, <1>21, HappenedFacts, OwnerAssumption DEF Moves, Logs
  <2>2. f \in Happened /\ Recorded(f) /\ ~(e[2] < f[2])
    BY <1>1, <1>2, <1>21, <2>1 DEF Moves, TransfersInOrder
  <2> QED
    BY <1>2, <1>21, <2>2, HappenedFacts
<1>22. ASSUME ~overlapped
       PROVE  to # None => owner' = to
  BY <1>1, <1>4, <1>22 DEF Follow, CopyIsCurrent
<1>23. OwnerFollowsChain'
  <2> SUFFICES ASSUME ~skipped, ~overlapped, NEW x \in Moves', \A f \in Moves' : f[2] <= x[2]
               PROVE  owner' = blocks[x[2]].to
    BY <1>4 DEF OwnerFollowsChain
  <2>1. x \in Happened /\ blocks[x[2]].to \in Owner /\ (Recorded(x) \/ x = e)
    BY <1>4, <1>7, <1>8, HappenedFacts DEF Moves
  <2>2. CASE blocks[e[2]].to \notin Owner
    <3>1. to = None /\ x # e
      BY <2>1, <2>2 DEF NewOwner, to
    <3>2. x \in Moves /\ \A f \in Moves : f \in Moves'
      BY <1>4, <1>7, <1>8, <2>1, <3>1, HappenedFacts DEF Moves
    <3> QED
      BY <1>10, <3>1, <3>2 DEF OwnerFollowsChain
  <2>3. CASE blocks[e[2]].to \in Owner
    <3>1. e \in Moves'
      BY <1>2, <1>4, <1>7, <1>8, <2>3 DEF Moves
    <3>2. x = e
      <4>1. x # e => x \in Moves
        BY <2>1 DEF Moves
      <4>2. e[2] <= x[2] /\ e[2] \in Nat /\ x[2] \in Nat
        BY <1>2, <2>1, <3>1, HappenedFacts
      <4> QED
        BY <1>21, <2>3, <4>1, <4>2
    <3> QED
      BY <1>3, <1>22, <2>3, <3>2, OwnerAssumption
  <2> QED
    BY <2>2, <2>3
<1>24. \A r : ScanShape(r)' = ScanShape(r)
  BY <1>8 DEF ScanShape
<1>25. ScansShaped'
  BY <1>14, <1>15, <1>24 DEF ScansShaped
<1>26. ASSUME ~skipped, NEW x \in Drivers, ~Idle(x)
       PROVE  CompleteIn(scan'[x], Trail \union {e})
  <2>1. CASE x = d
    BY <1>14, <1>15, <1>26, <2>1
  <2>2. CASE x # d
    <3>1. CompleteIn(scan[x], Trail) /\ scan'[x] = scan[x]
      BY <1>15, <1>26, <2>2 DEF ScansComplete, ScanComplete
    <3> QED
      BY <3>1 DEF CompleteIn
  <2> QED
    BY <2>1, <2>2
<1>27. \A r : CompleteIn(r, Trail \union {e}) => ScanComplete(r)'
  BY <1>4, <1>8, <1>9 DEF CompleteIn, ScanComplete
<1>28. ScansComplete'
  BY <1>4, <1>15, <1>26, <1>27 DEF ScansComplete
<1>29. SoleScan'
  BY <1>4, <1>15 DEF SoleScan
<1>30. CopyIsCurrent'
  <2> SUFFICES ASSUME ~overlapped, NEW x \in Drivers, ~Idle(x), scan'[x].seen # None
               PROVE  scan'[x].seen = owner'
    BY <1>4, <1>15 DEF CopyIsCurrent
  <2>1. x = d
    BY <1>1 DEF SoleScan
  <2>2. scan'[d].seen = s.seen
    BY <1>14, <1>15
  <2>3. CASE to = None
    BY <1>1, <1>5, <1>10, <2>1, <2>2, <2>3 DEF CopyIsCurrent
  <2>4. CASE to # None
    BY <1>5, <1>22, <2>1, <2>2, <2>4
  <2> QED
    BY <2>3, <2>4
<1> QED
  BY <1>16, <1>17, <1>18, <1>20, <1>23, <1>25, <1>28, <1>29, <1>30

-----------------------------------------------------------------------------
(* Every step, and what follows for every behaviour. *)

(* The first start of the indexer satisfies the invariant. *)
LEMMA IndexerInitInvariant == IndexerInit => IndexerInv
<1> SUFFICES ASSUME IndexerInit
             PROVE  IndexerInv
  OBVIOUS
<1> USE BoundAssumption DEF IndexerInit
<1>1. IndexerTypeOK /\ Top = 0
  <2>1. blocks \in Seq(Logs) /\ Len(blocks) = 0 /\ number \in Chains
    BY DEF Chains
  <2>2. audit \in [Events -> Nat] /\ scan \in [Drivers -> Scans \union {NoScan}]
    OBVIOUS
  <2>3. owner \in Owner /\ cursor \in 0..MaxBlock /\ faults \in 0..MaxFaults
    OBVIOUS
  <2>4. saved \in [chain : Chains, block : 0..MaxBlock] \union {None}
    OBVIOUS
  <2>5. /\ task \in {"starting", "polling", "saving", "dead"}
        /\ skipped \in BOOLEAN /\ overlapped \in BOOLEAN
    OBVIOUS
  <2>6. Len(blocks) <= MaxBlock
    BY <2>1
  <2> QED
    BY <2>1, <2>2, <2>3, <2>4, <2>5, <2>6 DEF IndexerTypeOK, Top
<1>2. Happened = {} /\ \A e \in Events : ~Recorded(e)
  BY <1>1 DEF Happened, Recorded
<1>3. \A d \in Drivers : Idle(d)
  BY DEF Idle
<1>4. OnlyHappened /\ RecordedOnce
  BY <1>2 DEF OnlyHappened, RecordedOnce
<1>5. CursorOnChain /\ SavedOnChain /\ CursorCovers /\ SavedCovers
  BY <1>1, <1>2 DEF CursorOnChain, SavedOnChain, CursorCovers, SavedCovers
<1>6. TransfersInOrder /\ OwnerFollowsChain
  BY <1>2 DEF TransfersInOrder, OwnerFollowsChain, Moves
<1>7. ScansShaped /\ ScansComplete /\ SoleScan /\ CopyIsCurrent
  BY <1>3 DEF ScansShaped, ScansComplete, SoleScan, CopyIsCurrent
<1> QED
  BY <1>1, <1>4, <1>5, <1>6, <1>7 DEF IndexerInv

(* Nothing happens. *)
LEMMA IndexerStutterKeeps ==
  ASSUME IndexerInv, UNCHANGED indexerVars
  PROVE  IndexerInv'
<1>1. UNCHANGED <<number, blocks, audit, owner, saved, cursor, task, scan, faults,
                  skipped, overlapped>>
  BY DEF indexerVars
<1>2. IndexerTypeOK'
  BY <1>1 DEF IndexerInv, IndexerTypeOK
<1>3. TrailSound'
  BY <1>1, TrailSoundKept
<1>4. ScansShaped' /\ ScansComplete' /\ SoleScan' /\ CopyIsCurrent'
  BY <1>1, ScansKept
<1> QED
  BY <1>2, <1>3, <1>4 DEF IndexerInv, TrailSound

(* Every step keeps the invariant. *)
LEMMA IndexerNextKeeps ==
  ASSUME IndexerInv, [IndexerNext]_indexerVars
  PROVE  IndexerInv'
<1>1. CASE Environment
  BY <1>1, NewBlockKeeps, ReplaceChainKeeps, TaskStepKeeps, CrashKeeps, CatchUpKeeps,
     FetchFailsKeeps, CommitFailsKeeps, ScanFailsKeeps DEF Environment
<1>2. ASSUME NEW d \in Drivers, Index(d)
      PROVE  IndexerInv'
  BY <1>2, FetchKeeps, CheckKeeps, CommitKeeps, EndScanKeeps, CommitFailsKeeps DEF Index
<1>3. CASE Work
  BY <1>2, <1>3, StartPollingKeeps, PollKeeps, SaveStateKeeps, TaskStepKeeps
     DEF Work, Drivers
<1>4. CASE Index("catchup")
  BY <1>2, <1>4 DEF Drivers
<1>5. CASE UNCHANGED indexerVars
  BY <1>5, IndexerStutterKeeps
<1> QED
  BY <1>1, <1>3, <1>4, <1>5 DEF IndexerNext

(* The inductive invariant of the indexer holds in every reachable state. *)
THEOREM IndexerInvariance == IndexerSpec => []IndexerInv
<1>1. IndexerInit => IndexerInv
  BY IndexerInitInvariant
<1>2. IndexerInv /\ [IndexerNext]_indexerVars => IndexerInv'
  BY IndexerNextKeeps
<1> QED
  BY <1>1, <1>2, PTL DEF IndexerSpec

(* The cursor, in memory and saved, stays on the chain, and what the scans *)
(* hold are logs of it.                                                    *)
THEOREM IndexerTypeCorrect == IndexerSpec => []IndexerTypeOK
<1>1. IndexerInv => IndexerTypeOK
  BY DEF IndexerInv
<1> QED
  BY <1>1, IndexerInvariance, PTL

(* However the poller and catch-ups overlap, fail and crash, a log is in   *)
(* the audit trail at most once (uq_audit_events_tx_log).                  *)
THEOREM LogsRecordedOnce == IndexerSpec => []RecordedOnce
<1>1. IndexerInv => RecordedOnce
  BY DEF IndexerInv
<1> QED
  BY <1>1, IndexerInvariance, PTL

(* Every log up to the cursor, in memory or saved for the next start, is   *)
(* in the audit trail, for chains of every length and every number of      *)
(* crashes, failed calls and replacements of the chain (run, catch_up,     *)
(* _validated_cursor).                                                     *)
THEOREM NoLogPassedOver == IndexerSpec => []NothingPassedOver
<1>1. IndexerInv => NothingPassedOver
  <2>1. ASSUME IndexerInv, ~skipped, NEW e \in Happened, e[2] <= cursor
        PROVE  Recorded(e)
    BY <2>1 DEF IndexerInv, CursorCovers
  <2>2. ASSUME IndexerInv, ~skipped, NEW e \in Happened, Resumable, e[2] <= saved.block
        PROVE  Recorded(e)
    <3>1. saved # None /\ saved.block \in Nat /\ e[2] \in Nat /\ e[2] > 0
      BY <2>2, HappenedFacts DEF IndexerInv, IndexerTypeOK, Resumable
    <3>2. saved.chain = number
      BY <2>2, <3>1 DEF Resumable
    <3> QED
      BY <2>2, <3>1, <3>2 DEF IndexerInv, SavedCovers
  <2> QED
    BY <2>1, <2>2 DEF NothingPassedOver
<1> QED
  BY <1>1, IndexerInvariance, PTL

(* The registry's owner is the recipient of the last transfer that was     *)
(* recorded, after re-scans from an old cursor too: transfers enter the    *)
(* trail in the order of the chain (_reconcile_transfer).                  *)
THEOREM OwnerIsLastRecipient == IndexerSpec => []OwnerFollowsChain
<1>1. IndexerInv => OwnerFollowsChain
  BY DEF IndexerInv
<1> QED
  BY <1>1, IndexerInvariance, PTL
=============================================================================
