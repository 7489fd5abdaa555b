------------------------ MODULE AssetLifecycle_proofs -----------------------
(***************************************************************************)
(* Identifiers, refusals, mint confirmations and the assets of removed     *)
(* people, for every number of people, identifiers, requests, token ids    *)
(* and transactions.                                                       *)
(***************************************************************************)
EXTENDS AssetLifecycle, TLAPS

Numbered(w) == At(w, "numbered") \/ At(w, "staged")

(* A registration between numbering and commit holds the counter and has a *)
(* token id of its own.                                                    *)
NumberHeld ==
  \A w \in Worker : Numbered(w) =>
    /\ counter = w
    /\ job[w].token \in 1..sequence
    /\ ~Recorded(job[w].token)

SequenceCovers == \A t \in Token : Recorded(t) => t <= sequence

(* Nobody's row comes in between an insert and its commit. *)
StagedFits == \A w \in Worker : At(w, "staged") => Insertable(job[w])

Registering == /\ NumberHeld /\ NumberIsReleased /\ SequenceCovers /\ StagedFits
               /\ IdentifiersUnique

(* Who lost a race lost it to a row that stays. *)
LoserCollides == \A w \in Worker : At(w, "lost") => ~Insertable(job[w])

Refusing == RefusedIsTaken /\ LoserCollides

(* What the chain holds was minted, what was minted is in the registry, and *)
(* so is what a request or an event is about.                              *)
MintedRecorded ==
  /\ \A t \in minted : Recorded(t)
  /\ \A t \in Token : holder[t] # None => t \in minted
  /\ \A i \in 1..Len(events) : Recorded(events[i].token)
  /\ indexing # NoEvent => Recorded(indexing.token)
  /\ \A w \in Worker : job[w].op = "status" => Recorded(job[w].token)

ConfirmsMinted ==
  \A w \in Worker : job[w].op = "status" /\ job[w].new = "MINTED" => job[w].token \in minted

Minting == MintedRecorded /\ ConfirmsMinted /\ ConfirmedWasMinted

(* Without an overlap, nobody who was removed is about to get an asset, and *)
(* nobody who is being removed has one.                                    *)
Leaving ==
  ~overlapped =>
    /\ \A w \in Worker : At(w, "staged") => person[job[w].to] # "removed"
    /\ indexing # NoEvent /\ indexing.to # None => person[indexing.to] # "removed"
    /\ \A u \in User : Removing(u) => OwnsNothing(u)

Owning == Leaving /\ RemovedOwnNothing

(* The inductive invariant. *)
IInv == TypeOK /\ Registering /\ Refusing /\ Minting /\ Owning

USE BoundAssumption, NormAssumption, NoneAssumption

-----------------------------------------------------------------------------
(* What the operators return. *)

(* An identifier is known when a row has it. *)
LEMMA KnownFacts ==
  ASSUME NEW i
  PROVE  i \in Known <=> \E t \in Token : Recorded(t) /\ i \in {Norm[registry[t].serial], Norm[registry[t].address]}
BY DEF Known

(* What is refused as a duplicate is known, and what is not insertable is  *)
(* refused.                                                                *)
LEMMA DuplicateFacts ==
  ASSUME NEW s \in Serial, NEW a \in Address
  PROVE  /\ Duplicate(s, a) \in Identifier \union {None}
         /\ Duplicate(s, a) # None => Duplicate(s, a) \in Known
         /\ Norm[s] \in Known \/ Norm[a] \in Known => Duplicate(s, a) # None
<1>1. Norm[s] \in Identifier /\ Norm[a] \in Identifier /\ Norm[s] # None /\ Norm[a] # None
  BY DEF Identifier
<1>2. CASE Norm[s] \in Known
  BY <1>1, <1>2 DEF Duplicate
<1>3. CASE Norm[s] \notin Known /\ Norm[a] \in Known
  BY <1>1, <1>3 DEF Duplicate
<1>4. CASE Norm[s] \notin Known /\ Norm[a] \notin Known
  BY <1>1, <1>4 DEF Duplicate
<1> QED
  BY <1>2, <1>3, <1>4

(* A row is not the absence of one. *)
LEMMA RowFacts ==
  ASSUME NEW r \in Row
  PROVE  r # NoRow /\ \A l \in Life : [r EXCEPT !.life = l] \in Row /\ [r EXCEPT !.life = l] # NoRow
BY DEF Row, NoRow, Life

-----------------------------------------------------------------------------
(* What keeps the parts of the invariant. *)

(* The registry, the numbers and the registrations are left alone, or a    *)
(* registration that has no number changes.                                *)
LEMMA RegisteringUntouched ==
  ASSUME IInv, UNCHANGED <<registry, sequence, counter>>,
         \A w \in Worker : job'[w] = job[w] \/ (~Numbered(w) /\ ~Numbered(w)')
  PROVE  Registering'
<1>1. Known' = Known
  BY DEF Known, Recorded
<1>2. \A w \in Worker : Numbered(w)' => job'[w] = job[w] /\ Numbered(w)
  BY DEF Numbered, At
<1>3. \A w \in Worker : At(w, "staged")' => job'[w] = job[w] /\ At(w, "staged")
  BY <1>2 DEF Numbered, At
<1>4. NumberHeld'
  BY <1>2 DEF IInv, Registering, NumberHeld, Recorded
<1>5. NumberIsReleased'
  <2>1. counter # None => counter \in Worker /\ Numbered(counter)
    BY DEF IInv, TypeOK, Registering, NumberIsReleased, Numbered
  <2>2. counter # None => Numbered(counter)'
    BY <2>1 DEF Numbered, At
  <2> QED
    BY <2>2 DEF NumberIsReleased, Numbered
<1>6. StagedFits'
  BY <1>1, <1>3 DEF IInv, Registering, StagedFits, Insertable
<1>7. SequenceCovers' /\ IdentifiersUnique'
  BY DEF IInv, Registering, SequenceCovers, IdentifiersUnique, Recorded
<1> QED
  BY <1>4, <1>5, <1>6, <1>7 DEF Registering

(* What the registry knows stays known, and nobody new has lost. *)
LEMMA RefusingUntouched ==
  ASSUME IInv, Known \subseteq Known', UNCHANGED misnamed,
         \A w \in Worker : At(w, "lost")' => At(w, "lost") /\ job'[w] = job[w]
  PROVE  Refusing'
BY DEF IInv, Refusing, RefusedIsTaken, LoserCollides, Insertable

(* The rows stay as they are, and so do the chain and the events. *)
LEMMA MintingUntouched ==
  ASSUME IInv, UNCHANGED <<registry, holder, events, minted, indexing>>,
         \A w \in Worker : job'[w] = job[w] \/ job'[w].op # "status"
  PROVE  Minting'
<1>1. MintedRecorded'
  BY DEF IInv, Minting, MintedRecorded, Recorded
<1>2. ConfirmsMinted'
  BY DEF IInv, Minting, ConfirmsMinted
<1>3. ConfirmedWasMinted'
  BY DEF IInv, Minting, ConfirmedWasMinted, Recorded
<1> QED
  BY <1>1, <1>2, <1>3 DEF Minting

(* Owners and people stay as they are, nobody new is about to get an asset *)
(* or to be removed.                                                       *)
LEMMA OwningUntouched ==
  ASSUME IInv, UNCHANGED <<person, overlapped>>,
         indexing' = indexing \/ indexing' = NoEvent,
         \A t \in Token : Recorded(t)' => Recorded(t) /\ registry'[t].owner = registry[t].owner,
         \A w \in Worker : job'[w] = job[w] \/ (~At(w, "staged")' /\ job'[w].op # "remove")
  PROVE  Owning'
<1>1. \A u \in User : Removing(u)' => Removing(u)
  BY DEF Removing
<1>2. \A u \in User : OwnsNothing(u) => OwnsNothing(u)'
  BY DEF OwnsNothing
<1>3. \A w \in Worker : At(w, "staged")' => At(w, "staged") /\ job'[w] = job[w]
  BY DEF At
<1>4. Leaving'
  BY <1>1, <1>2, <1>3 DEF IInv, Owning, Leaving
<1>5. RemovedOwnNothing'
  BY DEF IInv, Owning, RemovedOwnNothing
<1> QED
  BY <1>4, <1>5 DEF Owning

(* The initial state satisfies the invariant. *)
LEMMA InitInvariant == Init => IInv
<1> SUFFICES ASSUME Init PROVE IInv
  OBVIOUS
<1>1. TypeOK
  <2>1. registry \in [Token -> Row \union {NoRow}] /\ person \in [User -> {"active", "removed", "revoked"}]
    BY DEF Init
  <2>2. /\ job \in [Worker -> Proposal \union Status \union Removal \union {NoJob}]
        /\ indexing \in Event \union {NoEvent}
    BY DEF Init
  <2>3. /\ holder \in [Token -> User \union {None}] /\ events \in Seq(Event)
        /\ minted \in SUBSET Token
        /\ counter \in Worker \union {None}
    BY DEF Init
  <2>4. sequence \in 0..MaxToken /\ txs \in 0..MaxChain
    BY DEF Init
  <2>5. overlapped \in BOOLEAN /\ misnamed \in BOOLEAN
    BY DEF Init
  <2> QED
    BY <2>1, <2>2, <2>3, <2>4, <2>5 DEF TypeOK
<1>2. Registering
  BY DEF Init, Registering, NumberHeld, NumberIsReleased, SequenceCovers, StagedFits,
         IdentifiersUnique, Numbered, At, NoJob, Recorded
<1>3. Refusing
  BY DEF Init, Refusing, RefusedIsTaken, LoserCollides, At, NoJob
<1>4. Minting
  BY DEF Init, Minting, MintedRecorded, ConfirmsMinted, ConfirmedWasMinted, NoJob, Recorded
<1>5. Owning
  BY DEF Init, Owning, Leaving, RemovedOwnNothing, At, NoJob, Removing, Recorded
<1> QED
  BY <1>1, <1>2, <1>3, <1>4, <1>5 DEF IInv

-----------------------------------------------------------------------------
(* Each step of a registration keeps the invariant. *)

(* A job that changes is the only one that does. *)
LEMMA JobFacts ==
  ASSUME IInv, NEW w \in Worker, NEW new, job' = [job EXCEPT ![w] = new]
  PROVE  \A x \in Worker : job'[x] = IF x = w THEN new ELSE job[x]
BY DEF IInv, TypeOK

(* A registration is written down as one. *)
LEMMA ProposalFacts ==
  ASSUME IInv, NEW w \in Worker, job[w].op = "propose"
  PROVE  job[w] \in Proposal
BY DEF IInv, TypeOK, Status, Removal, NoJob

(* A request takes up work that is no registration yet, or ends. *)
LEMMA JobChanges ==
  ASSUME IInv, NEW w \in Worker, NEW new, job' = [job EXCEPT ![w] = new],
         ~Numbered(w), new.op = "propose" => new.step \in {"looked"},
         new \in Proposal \union Status \union Removal \union {NoJob},
         UNCHANGED <<registry, person, sequence, counter, chain, indexing, overlapped>>,
         misnamed' = misnamed,
         new.op = "status" => Recorded(new.token) /\ (new.new = "MINTED" => new.token \in minted),
         new.op = "remove" => OwnsNothing(new.of)
  PROVE  IInv'
<1>1. \A x \in Worker : job'[x] = IF x = w THEN new ELSE job[x]
  BY DEF IInv, TypeOK
<1>2. ~Numbered(w)' /\ ~At(w, "lost")' /\ ~At(w, "staged")'
  BY <1>1 DEF Numbered, At
<1>3. Known' = Known
  BY DEF Known, Recorded
<1>4. TypeOK'
  BY DEF IInv, TypeOK, chain
<1>5. Registering'
  BY <1>1, <1>2, RegisteringUntouched
<1>6. Refusing'
  <2>2. \A x \in Worker : At(x, "lost")' => At(x, "lost") /\ job'[x] = job[x]
    BY <1>1, <1>2 DEF At
  <2> QED
    BY <1>3, <2>2, RefusingUntouched
<1>7. Minting'
  <2>1. MintedRecorded'
    BY <1>1 DEF IInv, Minting, MintedRecorded, Recorded, chain
  <2>2. ConfirmsMinted'
    BY <1>1 DEF IInv, Minting, ConfirmsMinted, chain
  <2>3. ConfirmedWasMinted'
    BY DEF IInv, Minting, ConfirmedWasMinted, Recorded, chain
  <2> QED
    BY <2>1, <2>2, <2>3 DEF Minting
<1>8. Owning'
  <2>1. \A u \in User : OwnsNothing(u)' <=> OwnsNothing(u)
    BY DEF OwnsNothing, Recorded
  <2>2. \A u \in User : Removing(u)' => Removing(u) \/ OwnsNothing(u)
    BY <1>1 DEF Removing
  <2>3. \A x \in Worker : At(x, "staged")' => At(x, "staged") /\ job'[x] = job[x]
    BY <1>1, <1>2 DEF At
  <2>4. Leaving'
    BY <2>1, <2>2, <2>3 DEF IInv, Owning, Leaving
  <2>5. RemovedOwnNothing'
    BY DEF IInv, Owning, RemovedOwnNothing, Recorded
  <2> QED
    BY <2>4, <2>5 DEF Owning
<1> QED
  BY <1>4, <1>5, <1>6, <1>7, <1>8 DEF IInv

(* Looking a registration up writes nothing. *)
LEMMA ProposeKeeps ==
  ASSUME IInv, NEW w \in Worker, NEW s \in Serial, NEW a \in Address, NEW u \in User,
         Propose(w, s, a, u)
  PROVE  IInv'
<1> DEFINE new == [op |-> "propose", step |-> "looked",
                   serial |-> s, address |-> a, to |-> u, token |-> 0]
<1>1. /\ job' = [job EXCEPT ![w] = new] /\ job[w].op = "none"
      /\ UNCHANGED <<stored, chain, indexing, overlapped>>
  BY DEF Propose, Free
<1>2. 0 \in 0..MaxToken
  OBVIOUS
<1>3. new \in Proposal
  BY <1>2 DEF Proposal
<1>4. new.op = "propose" /\ new.step = "looked"
  OBVIOUS
<1> HIDE DEF new
<1> QED
  BY <1>1, <1>3, <1>4, JobChanges DEF stored, Numbered, At

(* A refusal names what is in the registry. *)
LEMMA ProposeDuplicateKeeps ==
  ASSUME IInv, NEW w \in Worker, NEW s \in Serial, NEW a \in Address, NEW u \in User,
         ProposeDuplicate(w, s, a, u)
  PROVE  IInv'
<1>1. /\ misnamed' = misnamed
      /\ UNCHANGED <<registry, person, sequence, counter, chain, job, indexing, overlapped>>
  BY DuplicateFacts DEF ProposeDuplicate, IInv, TypeOK
<1>2. Known' = Known
  BY <1>1 DEF Known, Recorded
<1>3. TypeOK'
  BY <1>1 DEF IInv, TypeOK, chain
<1>4. Refusing'
  BY <1>1, <1>2, RefusingUntouched DEF At
<1>5. Registering'
  BY <1>1, RegisteringUntouched
<1>6. Minting'
  BY <1>1, MintingUntouched DEF chain
<1>7. Owning'
  BY <1>1, OwningUntouched DEF Recorded
<1> QED
  BY <1>3, <1>4, <1>5, <1>6, <1>7 DEF IInv

(* Whoever takes the counter is the only one that holds it, and the token  *)
(* id is one that no row has.                                              *)
LEMMA NumberKeeps ==
  ASSUME IInv, NEW w \in Worker, Number(w)
  PROVE  IInv'
<1> DEFINE new == [job[w] EXCEPT !.step = "numbered", !.token = sequence + 1]
<1>1. /\ At(w, "looked") /\ counter = None /\ sequence < MaxToken
      /\ counter' = w /\ sequence' = sequence + 1
      /\ UNCHANGED <<registry, person, misnamed, chain, indexing, overlapped>>
  BY DEF Number
<1>2. job' = [job EXCEPT ![w] = new]
  BY DEF Number
<1>3. job[w] \in Proposal
  BY <1>1, ProposalFacts DEF At
<1>4. sequence \in 0..MaxToken /\ sequence + 1 \in 1..MaxToken /\ sequence + 1 \in 0..MaxToken
  BY <1>1 DEF IInv, TypeOK
<1>5. new \in Proposal /\ new.step = "numbered" /\ new.token = sequence + 1
  BY <1>3, <1>4 DEF Proposal
<1> HIDE DEF new
<1>6. \A x \in Worker : job'[x] = IF x = w THEN new ELSE job[x]
  BY <1>2, JobFacts
<1>7. TypeOK'
  BY <1>1, <1>2, <1>4, <1>5 DEF IInv, TypeOK, chain
<1>8. \A x \in Worker : ~Numbered(x)
  BY <1>1 DEF IInv, Registering, NumberHeld
<1>9. ~Recorded(sequence + 1)
  BY <1>4 DEF IInv, Registering, SequenceCovers, Token
<1>10. Registering'
  <2>1. \A x \in Worker : Numbered(x)' => x = w
    BY <1>6, <1>8 DEF Numbered, At
  <2>2. NumberHeld'
    <3>1. sequence + 1 \in 1..(sequence + 1)
      BY <1>4
    <3> QED
      BY <1>1, <1>5, <1>6, <1>9, <2>1, <3>1 DEF NumberHeld, Recorded
  <2>3. NumberIsReleased'
    BY <1>1, <1>5, <1>6 DEF NumberIsReleased, At, Proposal
  <2>4. SequenceCovers'
    BY <1>1, <1>4 DEF IInv, Registering, SequenceCovers, Recorded, Token
  <2>5. StagedFits'
    BY <1>5, <1>6, <1>8 DEF StagedFits, At, Numbered
  <2>6. IdentifiersUnique'
    BY <1>1 DEF IInv, Registering, IdentifiersUnique, Recorded
  <2> QED
    BY <2>2, <2>3, <2>4, <2>5, <2>6 DEF Registering
<1>11. Refusing'
  <2>1. Known' = Known
    BY <1>1 DEF Known, Recorded
  <2>2. \A x \in Worker : At(x, "lost")' => At(x, "lost") /\ job'[x] = job[x]
    BY <1>5, <1>6 DEF At
  <2> QED
    BY <1>1, <2>1, <2>2, RefusingUntouched
<1>12. Minting'
  BY <1>1, <1>5, <1>6, MintingUntouched DEF chain, Proposal
<1>13. Owning'
  <2>1. \A x \in Worker : job'[x] = job[x] \/ (~At(x, "staged")' /\ job'[x].op # "remove")
    BY <1>5, <1>6 DEF At, Proposal
  <2> QED
    BY <1>1, <2>1, OwningUntouched DEF Recorded
<1> QED
  BY <1>7, <1>10, <1>11, <1>12, <1>13 DEF IInv

(* A registration that has its number leaves it: it loses, or ends. *)
LEMMA ReleaseKeeps ==
  ASSUME IInv, NEW w \in Worker, NEW new, job' = [job EXCEPT ![w] = new],
         new = NoJob \/ (new \in Proposal /\ new.step = "lost" /\ ~Insertable(new)),
         counter' = IF counter = w THEN None ELSE counter,
         UNCHANGED <<registry, person, sequence, misnamed, chain, indexing, overlapped>>
  PROVE  IInv'
<1>1. \A x \in Worker : job'[x] = IF x = w THEN new ELSE job[x]
  BY DEF IInv, TypeOK
<1>2. ~Numbered(w)' /\ ~At(w, "staged")' /\ new.op \notin {"status", "remove"}
  BY <1>1 DEF Numbered, At, Proposal, NoJob
<1>3. Known' = Known
  BY DEF Known, Recorded
<1>4. TypeOK'
  <2>1. job' \in [Worker -> Proposal \union Status \union Removal \union {NoJob}]
    BY DEF IInv, TypeOK
  <2> QED
    BY <2>1 DEF IInv, TypeOK, chain
<1>5. Registering'
  <2>1. \A x \in Worker : Numbered(x)' => x # w /\ Numbered(x) /\ job'[x] = job[x]
    BY <1>1, <1>2 DEF Numbered, At
  <2>2. NumberHeld'
    BY <2>1 DEF IInv, Registering, NumberHeld, Recorded
  <2>3. NumberIsReleased'
    <3>1. counter' # None => counter' = counter /\ counter # w /\ counter \in Worker
      BY DEF IInv, TypeOK
    <3> QED
      BY <1>1, <3>1 DEF IInv, Registering, NumberIsReleased, At
  <2>4. StagedFits'
    BY <1>1, <1>2, <1>3 DEF IInv, Registering, StagedFits, Insertable, At
  <2>5. SequenceCovers' /\ IdentifiersUnique'
    BY DEF IInv, Registering, SequenceCovers, IdentifiersUnique, Recorded
  <2> QED
    BY <2>2, <2>3, <2>4, <2>5 DEF Registering
<1>6. Refusing'
  BY <1>1, <1>3 DEF IInv, Refusing, RefusedIsTaken, LoserCollides, At, NoJob, Insertable
<1>7. Minting'
  BY <1>1, <1>2, MintingUntouched DEF chain
<1>8. Owning'
  BY <1>1, <1>2, OwningUntouched DEF Recorded
<1> QED
  BY <1>4, <1>5, <1>6, <1>7, <1>8 DEF IInv

(* A row that was inserted fits the registry, and its owner is active. *)
LEMMA StageKeeps ==
  ASSUME IInv, NEW w \in Worker, Stage(w)
  PROVE  IInv'
<1>1. /\ At(w, "numbered") /\ Insertable(job[w])
      /\ UNCHANGED <<registry, person, sequence, misnamed, chain, indexing, overlapped>>
  BY DEF Stage
<1>2. counter = w
  BY <1>1 DEF IInv, Registering, NumberHeld, Numbered
<1>3. CASE ~Ownable(job[w].to)
  <2>1. job' = [job EXCEPT ![w] = NoJob] /\ counter' = None
    BY <1>3 DEF Stage
  <2> QED
    BY <1>1, <1>2, <2>1, ReleaseKeeps
<1>4. CASE Ownable(job[w].to)
  <2> DEFINE new == [job[w] EXCEPT !.step = "staged"]
  <2>1. job' = [job EXCEPT ![w] = new] /\ UNCHANGED counter
    BY <1>4 DEF Stage
  <2>2. job[w] \in Proposal
    BY <1>1, ProposalFacts DEF At
  <2>3. /\ new \in Proposal /\ new.step = "staged" /\ new.token = job[w].token
        /\ new.to = job[w].to /\ new.serial = job[w].serial /\ new.address = job[w].address
    BY <2>2 DEF Proposal
  <2> HIDE DEF new
  <2>4. \A x \in Worker : job'[x] = IF x = w THEN new ELSE job[x]
    BY <2>1, JobFacts
  <2>5. new.op = "propose"
    BY <2>3 DEF Proposal
  <2>6. Known' = Known
    BY <1>1 DEF Known, Recorded
  <2>7. TypeOK'
    BY <1>1, <2>1, <2>3 DEF IInv, TypeOK, chain
  <2>8. Registering'
    <3>1. \A x \in Worker : Numbered(x)' => Numbered(x) /\ job'[x].token = job[x].token
      BY <1>1, <2>3, <2>4 DEF Numbered, At
    <3>2. NumberHeld'
      BY <1>1, <2>1, <3>1 DEF IInv, Registering, NumberHeld, Recorded
    <3>3. NumberIsReleased'
      BY <1>2, <2>1, <2>3, <2>4, <2>5 DEF NumberIsReleased, At
    <3>4. StagedFits'
      BY <1>1, <2>3, <2>4, <2>6 DEF IInv, Registering, StagedFits, Insertable, At
    <3>5. SequenceCovers' /\ IdentifiersUnique'
      BY <1>1 DEF IInv, Registering, SequenceCovers, IdentifiersUnique, Recorded
    <3> QED
      BY <3>2, <3>3, <3>4, <3>5 DEF Registering
  <2>9. Refusing'
    <3>1. \A x \in Worker : At(x, "lost")' => At(x, "lost") /\ job'[x] = job[x]
      BY <2>3, <2>4 DEF At
    <3> QED
      BY <1>1, <2>6, <3>1, RefusingUntouched
  <2>10. Minting'
    BY <1>1, <2>4, <2>5, MintingUntouched DEF chain
  <2>11. Owning'
    <3>1. person[job[w].to] # "removed"
      BY <1>4 DEF Ownable, Active
    <3>2. \A x \in Worker : At(x, "staged")' => x = w \/ (At(x, "staged") /\ job'[x] = job[x])
      BY <2>4 DEF At
    <3>3. \A u \in User : (Removing(u)' => Removing(u)) /\ (OwnsNothing(u)' <=> OwnsNothing(u))
      BY <1>1, <2>4, <2>5 DEF Removing, OwnsNothing, Recorded
    <3>4. Leaving'
      BY <1>1, <2>3, <2>4, <3>1, <3>2, <3>3 DEF IInv, Owning, Leaving
    <3>5. RemovedOwnNothing'
      BY <1>1 DEF IInv, Owning, RemovedOwnNothing, Recorded
    <3> QED
      BY <3>4, <3>5 DEF Owning
  <2> QED
    BY <2>7, <2>8, <2>9, <2>10, <2>11 DEF IInv
<1> QED
  BY <1>3, <1>4

(* Losing, being refused and failing let the counter go. *)
LEMMA LoseKeeps ==
  ASSUME IInv, NEW w \in Worker, Lose(w)
  PROVE  IInv'
<1> DEFINE new == [job[w] EXCEPT !.step = "lost"]
<1>1. /\ At(w, "numbered") /\ ~Insertable(job[w]) /\ counter' = None
      /\ UNCHANGED <<registry, person, sequence, misnamed, chain, indexing, overlapped>>
  BY DEF Lose
<1>2. job' = [job EXCEPT ![w] = new]
  BY DEF Lose
<1>3. job[w] \in Proposal
  BY <1>1, ProposalFacts DEF At
<1>4. new \in Proposal /\ new.step = "lost" /\ new.serial = job[w].serial /\ new.address = job[w].address
  BY <1>3 DEF Proposal
<1> HIDE DEF new
<1>5. ~Insertable(new)
  BY <1>1, <1>4 DEF Insertable
<1>6. counter = w
  BY <1>1 DEF IInv, Registering, NumberHeld, Numbered
<1> QED
  BY <1>1, <1>2, <1>4, <1>5, <1>6, ReleaseKeeps

(* The refusal of the loser names what it lost to. *)
LEMMA RefuseLoserKeeps ==
  ASSUME IInv, NEW w \in Worker, RefuseLoser(w)
  PROVE  IInv'
<1>1. /\ At(w, "lost") /\ misnamed' \in {misnamed, misnamed \/ Blamed(job[w]) \notin Known}
      /\ job' = [job EXCEPT ![w] = NoJob]
      /\ UNCHANGED <<registry, person, sequence, counter, chain, indexing, overlapped>>
  BY DEF RefuseLoser
<1>2. job[w].serial \in Serial /\ job[w].address \in Address
  BY <1>1, ProposalFacts DEF At, Proposal
<1>3. ~Insertable(job[w])
  BY <1>1 DEF IInv, Refusing, LoserCollides
<1>4. Blamed(job[w]) \in Known /\ Blamed(job[w]) \in Identifier \union {None}
  BY <1>2, <1>3, DuplicateFacts DEF Blamed, Insertable
<1>5. misnamed \in BOOLEAN
  BY DEF IInv, TypeOK
<1>6. ~Numbered(w) /\ NoJob.op \notin {"propose", "status", "remove"}
  BY <1>1 DEF Numbered, At, NoJob
<1>7. misnamed' = misnamed
  BY <1>1, <1>4, <1>5
<1>8. NoJob \in Proposal \union Status \union Removal \union {NoJob}
  OBVIOUS
<1> QED
  BY <1>1, <1>6, <1>7, <1>8, JobChanges

(* The server forgets the request. *)
LEMMA AbortKeeps ==
  ASSUME IInv, NEW w \in Worker, Abort(w)
  PROVE  IInv'
BY ReleaseKeeps DEF Abort

(* The row that is committed has identifiers of its own. *)
LEMMA RecordKeeps ==
  ASSUME IInv, NEW w \in Worker, Record(w)
  PROVE  IInv'
<1> DEFINE p == job[w]
           row == [serial |-> p.serial, address |-> p.address, owner |-> p.to,
                   life |-> "CREATED"]
<1>1. /\ At(w, "staged") /\ registry' = [registry EXCEPT ![p.token] = row]
      /\ counter' = None /\ job' = [job EXCEPT ![w] = NoJob]
      /\ overlapped' = (overlapped \/ Removing(p.to))
      /\ UNCHANGED <<person, sequence, misnamed, chain, indexing>>
  BY DEF Record
<1>2. p \in Proposal
  BY <1>1, ProposalFacts DEF At
<1>3. /\ row \in Row /\ row.serial = p.serial /\ row.address = p.address
      /\ row.owner = p.to /\ row.life = "CREATED"
  BY <1>2 DEF Row, Proposal, Life
<1>4. row # NoRow
  BY <1>3, RowFacts
<1>5. /\ counter = w /\ p.token \in Token /\ p.token <= sequence /\ ~Recorded(p.token)
      /\ Insertable(p) /\ p.to \in User
  <2>1. counter = w /\ p.token \in 1..sequence /\ ~Recorded(p.token) /\ Insertable(p)
    BY <1>1 DEF IInv, Registering, NumberHeld, StagedFits, Numbered
  <2>2. sequence \in 0..MaxToken /\ p.to \in User
    BY <1>2 DEF IInv, TypeOK, Proposal
  <2> QED
    BY <2>1, <2>2 DEF Token
<1> HIDE DEF row
<1>6. \A x \in Worker : job'[x] = IF x = w THEN NoJob ELSE job[x]
  BY <1>1, JobFacts
<1>7. \A t \in Token : registry'[t] = IF t = p.token THEN row ELSE registry[t]
  BY <1>1 DEF IInv, TypeOK
<1>8. \A t \in Token : Recorded(t)' <=> Recorded(t) \/ t = p.token
  BY <1>4, <1>7 DEF Recorded
<1>9. Known \subseteq Known'
  <2> SUFFICES ASSUME NEW i \in Known PROVE i \in Known'
    OBVIOUS
  <2>1. PICK t \in Token : Recorded(t) /\ i \in {Norm[registry[t].serial], Norm[registry[t].address]}
    BY KnownFacts
  <2>2. Recorded(t)' /\ registry'[t] = registry[t]
    BY <1>5, <1>7, <1>8, <2>1
  <2> QED
    BY <2>1, <2>2 DEF Known
<1>10. \A x \in Worker : ~Numbered(x)'
  <2>1. \A x \in Worker : Numbered(x)' => x # w /\ Numbered(x)
    BY <1>6 DEF Numbered, At, NoJob
  <2> QED
    BY <1>5, <2>1 DEF IInv, Registering, NumberHeld
<1>11. TypeOK'
  <2>1. registry' \in [Token -> Row \union {NoRow}]
    BY <1>1, <1>3 DEF IInv, TypeOK
  <2>2. job' \in [Worker -> Proposal \union Status \union Removal \union {NoJob}]
    BY <1>1 DEF IInv, TypeOK
  <2>3. overlapped' \in BOOLEAN
    BY <1>1 DEF IInv, TypeOK, Removing
  <2> QED
    BY <1>1, <2>1, <2>2, <2>3 DEF IInv, TypeOK, chain
<1>12. Registering'
  <2>1. NumberHeld' /\ StagedFits' /\ NumberIsReleased'
    BY <1>1, <1>10 DEF NumberHeld, StagedFits, NumberIsReleased, Numbered
  <2>2. SequenceCovers'
    BY <1>1, <1>5, <1>8 DEF IInv, Registering, SequenceCovers
  <2>3. \A t \in Token : Recorded(t) =>
          /\ Norm[registry[t].serial] # Norm[p.serial]
          /\ Norm[registry[t].address] # Norm[p.address]
    BY <1>5, KnownFacts DEF Insertable
  <2>4. IdentifiersUnique'
    BY <1>3, <1>7, <1>8, <2>3 DEF IInv, Registering, IdentifiersUnique
  <2> QED
    BY <2>1, <2>2, <2>4 DEF Registering
<1>13. Refusing'
  <2>1. \A x \in Worker : At(x, "lost")' => At(x, "lost") /\ job'[x] = job[x]
    BY <1>6 DEF At, NoJob
  <2> QED
    BY <1>1, <1>9, <2>1, RefusingUntouched
<1>14. Minting'
  <2>1. MintedRecorded'
    <3>1. minted \in SUBSET Token /\ (indexing # NoEvent => indexing.token \in Token)
      BY DEF IInv, TypeOK, Event
    <3>2. ASSUME NEW k \in 1..Len(events) PROVE events[k].token \in Token
      <4>1. events[k] \in Event
        BY <3>2 DEF IInv, TypeOK
      <4> QED
        BY <4>1 DEF Event
    <3>3. \A x \in Worker : job[x].op = "status" => job[x].token \in Token
      BY DEF IInv, TypeOK, Status, Proposal, Removal, NoJob
    <3>4. \A x \in Worker : job'[x].op = "status" => job[x].op = "status" /\ job'[x] = job[x]
      BY <1>6 DEF NoJob
    <3>5. \A x \in Worker : (job[x].op = "status" => Recorded(job[x].token))'
      BY <1>8, <3>3, <3>4 DEF IInv, Minting, MintedRecorded
    <3>6. \A t \in minted : Recorded(t)'
      BY <1>8, <3>1 DEF IInv, Minting, MintedRecorded
    <3>7. \A k \in 1..Len(events) : Recorded(events[k].token)'
      BY <1>1, <1>8, <3>2 DEF IInv, Minting, MintedRecorded, chain
    <3>8. indexing # NoEvent => Recorded(indexing.token)'
      BY <1>1, <1>8, <3>1 DEF IInv, Minting, MintedRecorded
    <3> QED
      BY <1>1, <3>5, <3>6, <3>7, <3>8 DEF IInv, Minting, MintedRecorded, chain
  <2>2. ConfirmsMinted'
    BY <1>1, <1>6 DEF IInv, Minting, ConfirmsMinted, NoJob, chain
  <2>3. ConfirmedWasMinted'
    BY <1>1, <1>3, <1>7, <1>8 DEF IInv, Minting, ConfirmedWasMinted, chain
  <2> QED
    BY <2>1, <2>2, <2>3 DEF Minting
<1>15. Owning'
  <2>1. ~overlapped' => ~overlapped /\ ~Removing(p.to) /\ person[p.to] # "removed"
    BY <1>1 DEF IInv, Owning, Leaving
  <2>2. \A u \in User : Removing(u)' => Removing(u)
    BY <1>6 DEF Removing, NoJob
  <2>3. \A u \in User : OwnsNothing(u) /\ u # p.to => OwnsNothing(u)'
    BY <1>3, <1>7, <1>8 DEF OwnsNothing
  <2>4. \A x \in Worker : ~At(x, "staged")'
    BY <1>10 DEF Numbered
  <2>5. Leaving'
    BY <1>1, <2>1, <2>2, <2>3, <2>4 DEF IInv, Owning, Leaving
  <2>6. RemovedOwnNothing'
    BY <1>1, <1>3, <1>7, <1>8, <2>1 DEF IInv, Owning, RemovedOwnNothing
  <2> QED
    BY <2>5, <2>6 DEF Owning
<1> QED
  BY <1>11, <1>12, <1>13, <1>14, <1>15 DEF IInv

-----------------------------------------------------------------------------
(* Statuses and removals. *)

(* A status is asked for an asset of the registry, MINTED for one that was *)
(* minted.                                                                 *)
LEMMA ReadForStatusKeeps ==
  ASSUME IInv, NEW w \in Worker, NEW t \in Token, NEW new \in Life,
         ReadForStatus(w, t, new), new = "MINTED" => t \in minted
  PROVE  IInv'
<1> DEFINE j == [op |-> "status", token |-> t, new |-> new]
<1>1. /\ job' = [job EXCEPT ![w] = j] /\ job[w].op = "none" /\ Recorded(t)
      /\ UNCHANGED <<stored, chain, indexing, overlapped>>
  BY DEF ReadForStatus, Free
<1>2. j \in Status /\ j.op = "status" /\ j.token = t /\ j.new = new
  BY DEF Status
<1> HIDE DEF j
<1> QED
  BY <1>1, <1>2, JobChanges DEF stored, Numbered, At

(* Whoever asks for MINTED has seen the token on the chain. *)
LEMMA StatusAskedKeeps ==
  ASSUME IInv, NEW w \in Worker, NEW t \in Token,
         ChangeStatus(w, t) \/ Confirm(w, t) \/ \E new \in Life : Assign(w, t, new)
  PROVE  IInv'
<1>1. holder[t] # None => t \in minted
  BY DEF IInv, Minting, MintedRecorded
<1>2. "ASSIGNED" \in Life /\ "MINTED" \in Life
  BY DEF Life
<1> QED
  BY <1>1, <1>2, ReadForStatusKeeps DEF ChangeStatus, Confirm, Assign, Shown

(* A removal starts from somebody who owns nothing. *)
LEMMA ReadForRemovalKeeps ==
  ASSUME IInv, NEW w \in Worker, NEW u \in User, ReadForRemoval(w, u)
  PROVE  IInv'
<1> DEFINE j == [op |-> "remove", of |-> u]
<1>1. /\ job' = [job EXCEPT ![w] = j] /\ job[w].op = "none" /\ OwnsNothing(u)
      /\ UNCHANGED <<stored, chain, indexing, overlapped>>
  BY DEF ReadForRemoval, Free
<1>2. j \in Removal /\ j.op = "remove" /\ j.of = u
  BY DEF Removal
<1> HIDE DEF j
<1> QED
  BY <1>1, <1>2, JobChanges DEF stored, Numbered, At

(* Changing the status or the owner of a row changes no identifier. *)
LEMMA RowChanges ==
  ASSUME IInv, NEW t \in Token, Recorded(t), NEW row \in Row,
         registry' = [registry EXCEPT ![t] = row],
         row.serial = registry[t].serial, row.address = registry[t].address,
         UNCHANGED <<sequence, counter, misnamed>>,
         \A w \in Worker : job'[w] = job[w] \/ (job[w].op # "propose" /\ job'[w].op # "propose")
  PROVE  /\ registry' \in [Token -> Row \union {NoRow}]
         /\ \A x \in Token : registry'[x] = IF x = t THEN row ELSE registry[x]
         /\ \A x \in Token : Recorded(x)' <=> Recorded(x)
         /\ Registering' /\ Refusing'
<1>1. \A x \in Token : registry'[x] = IF x = t THEN row ELSE registry[x]
  BY DEF IInv, TypeOK
<1>2. registry' \in [Token -> Row \union {NoRow}]
  BY DEF IInv, TypeOK
<1>3. row # NoRow
  BY RowFacts
<1>4. \A x \in Token : /\ Recorded(x)' <=> Recorded(x)
                       /\ registry'[x].serial = registry[x].serial
                       /\ registry'[x].address = registry[x].address
  BY <1>1, <1>3 DEF Recorded
<1>5. \A i : i \in Known' <=> i \in Known
  BY <1>4 DEF Known
<1>6. \A w \in Worker, step \in {"numbered", "staged", "lost"} :
        At(w, step)' <=> At(w, step) /\ job'[w] = job[w]
  BY DEF At
<1>7. NumberHeld'
  <2>1. \A w \in Worker : Numbered(w)' => Numbered(w) /\ job'[w] = job[w] /\ job[w].token \in Token
    <3>1. \A w \in Worker : Numbered(w)' => Numbered(w) /\ job'[w] = job[w]
      BY <1>6 DEF Numbered
    <3>2. \A w \in Worker : Numbered(w) => job[w].token \in Token
      BY DEF IInv, TypeOK, Registering, NumberHeld, Token
    <3> QED
      BY <3>1, <3>2
  <2> QED
    BY <1>4, <2>1 DEF IInv, Registering, NumberHeld
<1>8. NumberIsReleased'
  <2>1. counter # None => counter \in Worker /\ Numbered(counter) /\ job[counter].op = "propose"
    BY DEF IInv, TypeOK, Registering, NumberIsReleased, Numbered, At
  <2>2. counter # None => job'[counter] = job[counter]
    BY <2>1
  <2> QED
    BY <2>1, <2>2 DEF NumberIsReleased, Numbered, At
<1>9. StagedFits' /\ Refusing'
  BY <1>5, <1>6 DEF IInv, Registering, StagedFits, Insertable, Refusing, RefusedIsTaken, LoserCollides
<1>10. SequenceCovers' /\ IdentifiersUnique'
  BY <1>4 DEF IInv, Registering, SequenceCovers, IdentifiersUnique
<1> QED
  BY <1>1, <1>2, <1>4, <1>7, <1>8, <1>9, <1>10 DEF Registering

(* The status that is written was asked for. *)
LEMMA WriteStatusKeeps ==
  ASSUME IInv, NEW w \in Worker, WriteStatus(w)
  PROVE  IInv'
<1> DEFINE t == job[w].token
           row == [registry[t] EXCEPT !.life = job[w].new]
<1>1. /\ job[w].op = "status" /\ registry' = [registry EXCEPT ![t].life = job[w].new]
      /\ job' = [job EXCEPT ![w] = NoJob]
      /\ UNCHANGED <<person, sequence, counter, misnamed, chain, indexing, overlapped>>
  BY DEF WriteStatus
<1>2. job[w] \in Status
  BY <1>1 DEF IInv, TypeOK, Proposal, Removal, NoJob
<1>3. t \in Token /\ job[w].new \in Life /\ Recorded(t)
  BY <1>1, <1>2 DEF Status, IInv, Minting, MintedRecorded
<1>4. registry[t] \in Row
  BY <1>3 DEF IInv, TypeOK, Recorded
<1>5. /\ row \in Row /\ row.serial = registry[t].serial /\ row.address = registry[t].address
      /\ row.owner = registry[t].owner /\ row.life = job[w].new
  BY <1>3, <1>4 DEF Row
<1>6. registry' = [registry EXCEPT ![t] = row]
  BY <1>1
<1>7. \A x \in Worker : job'[x] = IF x = w THEN NoJob ELSE job[x]
  BY <1>1 DEF IInv, TypeOK
<1> HIDE DEF row
<1>8. NoJob.op \notin {"propose", "status", "remove"}
  BY DEF NoJob
<1>9. \A x \in Worker : job'[x] = job[x] \/ (job[x].op # "propose" /\ job'[x].op # "propose")
  BY <1>1, <1>7, <1>8
<1>10. /\ registry' \in [Token -> Row \union {NoRow}]
       /\ \A x \in Token : registry'[x] = IF x = t THEN row ELSE registry[x]
       /\ \A x \in Token : Recorded(x)' <=> Recorded(x)
       /\ Registering' /\ Refusing'
  BY <1>1, <1>3, <1>5, <1>6, <1>9, RowChanges
<1>11. TypeOK'
  BY <1>1, <1>10 DEF IInv, TypeOK, chain
<1>12. Minting'
  <2>1. /\ \A x \in minted : Recorded(x)'
        /\ \A k \in 1..Len(events) : Recorded(events[k].token)'
        /\ indexing # NoEvent => Recorded(indexing.token)'
        /\ \A x \in Worker : job[x].op = "status" => registry'[job[x].token] # NoRow
    <3>1. minted \in SUBSET Token /\ (indexing # NoEvent => indexing.token \in Token)
      BY DEF IInv, TypeOK, Event
    <3>2. ASSUME NEW k \in 1..Len(events) PROVE events[k].token \in Token
      <4>1. events[k] \in Event
        BY <3>2 DEF IInv, TypeOK
      <4> QED
        BY <4>1 DEF Event
    <3>3. \A x \in Worker : job[x].op = "status" => job[x].token \in Token
      BY DEF IInv, TypeOK, Status, Proposal, Removal, NoJob
    <3>4. \A x \in minted : Recorded(x)'
      BY <1>10, <3>1 DEF IInv, Minting, MintedRecorded
    <3>5. \A k \in 1..Len(events) : Recorded(events[k].token)'
      BY <1>1, <1>10, <3>2 DEF IInv, Minting, MintedRecorded, chain
    <3>6. indexing # NoEvent => Recorded(indexing.token)'
      BY <1>1, <1>10, <3>1 DEF IInv, Minting, MintedRecorded
    <3>7. \A x \in Worker : job[x].op = "status" => registry'[job[x].token] # NoRow
      BY <1>10, <3>3 DEF IInv, Minting, MintedRecorded, Recorded
    <3> QED
      BY <3>4, <3>5, <3>6, <3>7
  <2>2. \A x \in Worker : (job[x].op = "status" => Recorded(job[x].token))'
    BY <1>7, <1>8, <2>1 DEF Recorded
  <2>3. MintedRecorded'
    BY <1>1, <2>1, <2>2 DEF IInv, Minting, MintedRecorded, chain
  <2>4. ConfirmsMinted'
    BY <1>1, <1>7, <1>8 DEF IInv, Minting, ConfirmsMinted, chain
  <2>5. ConfirmedWasMinted'
    BY <1>1, <1>3, <1>5, <1>10 DEF IInv, Minting, ConfirmsMinted, ConfirmedWasMinted, chain
  <2> QED
    BY <2>3, <2>4, <2>5 DEF Minting
<1>13. Owning'
  <2>1. \A x \in Token : Recorded(x)' => Recorded(x) /\ registry'[x].owner = registry[x].owner
    BY <1>5, <1>10
  <2>2. \A x \in Worker : job'[x] = job[x] \/ (~At(x, "staged")' /\ job'[x].op # "remove")
    BY <1>7, <1>8 DEF At
  <2> QED
    BY <1>1, <2>1, <2>2, OwningUntouched
<1> QED
  BY <1>10, <1>11, <1>12, <1>13 DEF IInv

(* Somebody who is removed without an overlap owns nothing and gets        *)
(* nothing.                                                                *)
LEMMA RemoveKeeps ==
  ASSUME IInv, NEW w \in Worker, Remove(w)
  PROVE  IInv'
<1> DEFINE u == job[w].of
<1>1. /\ job[w].op = "remove" /\ person' = [person EXCEPT ![u] = "removed"]
      /\ job' = [job EXCEPT ![w] = NoJob]
      /\ overlapped' = (overlapped \/ Receiving(u))
      /\ UNCHANGED <<registry, sequence, counter, misnamed, chain, indexing>>
  BY DEF Remove
<1>2. job[w] \in Removal
  BY <1>1 DEF IInv, TypeOK, Proposal, Status, NoJob
<1>3. u \in User /\ job[w] = [op |-> "remove", of |-> u]
  BY <1>1, <1>2 DEF Removal
<1>4. \A x \in Worker : job'[x] = IF x = w THEN NoJob ELSE job[x]
  BY <1>1 DEF IInv, TypeOK
<1>5. NoJob.op \notin {"propose", "status", "remove"}
  BY DEF NoJob
<1>6. Removing(u)
  BY <1>3 DEF Removing
<1>7. Known' = Known
  BY <1>1 DEF Known, Recorded
<1>8. TypeOK'
  <2>1. person' \in [User -> {"active", "removed", "revoked"}]
    BY <1>1 DEF IInv, TypeOK
  <2>2. job' \in [Worker -> Proposal \union Status \union Removal \union {NoJob}]
    BY <1>1 DEF IInv, TypeOK
  <2>3. overlapped' \in BOOLEAN
    BY <1>1 DEF IInv, TypeOK, Receiving
  <2> QED
    BY <1>1, <2>1, <2>2, <2>3 DEF IInv, TypeOK, chain
<1>9. Registering'
  <2>1. \A x \in Worker : job'[x] = job[x] \/ (~Numbered(x) /\ ~Numbered(x)')
    BY <1>1, <1>4, <1>5 DEF Numbered, At
  <2> QED
    BY <1>1, <2>1, RegisteringUntouched
<1>10. Refusing'
  <2>1. \A x \in Worker : At(x, "lost")' => At(x, "lost") /\ job'[x] = job[x]
    BY <1>4, <1>5 DEF At
  <2> QED
    BY <1>1, <1>7, <2>1, RefusingUntouched
<1>11. Minting'
  <2>1. \A x \in Worker : job'[x] = job[x] \/ job'[x].op # "status"
    BY <1>4, <1>5
  <2> QED
    BY <1>1, <2>1, MintingUntouched DEF chain
<1>12. Owning'
  <2>1. ~overlapped' => ~overlapped /\ ~Receiving(u)
    BY <1>1
  <2>2. \A v \in User : v # u => person'[v] = person[v]
    BY <1>1 DEF IInv, TypeOK
  <2>3. \A v \in User : (Removing(v)' => Removing(v)) /\ (OwnsNothing(v)' <=> OwnsNothing(v))
    BY <1>1, <1>4, <1>5 DEF Removing, OwnsNothing, Recorded
  <2>4. \A x \in Worker : At(x, "staged")' => At(x, "staged") /\ job'[x] = job[x] /\ job[x].to \in User
    <3>1. \A x \in Worker : At(x, "staged")' => At(x, "staged") /\ job'[x] = job[x]
      BY <1>4, <1>5 DEF At
    <3>2. \A x \in Worker : At(x, "staged") => job[x].to \in User
      BY ProposalFacts DEF At, Proposal
    <3> QED
      BY <3>1, <3>2
  <2>5. indexing # NoEvent /\ indexing.to # None => indexing.to \in User
    BY DEF IInv, TypeOK, Event
  <2>6. Leaving'
    <3>1. ASSUME ~overlapped' PROVE \A x \in Worker : At(x, "staged")' => person'[job'[x].to] # "removed"
      BY <2>1, <2>2, <2>4, <3>1 DEF IInv, Owning, Leaving, Receiving
    <3>2. ASSUME ~overlapped', indexing # NoEvent, indexing.to # None
          PROVE  person'[indexing.to] # "removed"
      BY <2>1, <2>2, <2>5, <3>2 DEF IInv, Owning, Leaving, Receiving
    <3>3. ASSUME ~overlapped' PROVE \A v \in User : Removing(v)' => OwnsNothing(v)'
      BY <2>1, <2>3, <3>3 DEF IInv, Owning, Leaving
    <3> QED
      BY <1>1, <3>1, <3>2, <3>3 DEF Leaving
  <2>7. RemovedOwnNothing'
    <3>1. ASSUME ~overlapped' PROVE OwnsNothing(u)
      BY <1>3, <1>6, <2>1, <3>1 DEF IInv, Owning, Leaving
    <3>2. \A t \in Token : Recorded(t) => registry[t].owner \in User
      BY DEF IInv, TypeOK, Recorded, Row
    <3> QED
      BY <1>1, <2>1, <2>2, <3>1, <3>2 DEF IInv, Owning, RemovedOwnNothing, OwnsNothing, Recorded
  <2> QED
    BY <2>6, <2>7 DEF Owning
<1> QED
  BY <1>8, <1>9, <1>10, <1>11, <1>12 DEF IInv

(* The alert chain removes nobody in the sense of the administrators. *)
LEMMA RevokeIdentityKeeps ==
  ASSUME IInv, NEW u \in User, RevokeIdentity(u)
  PROVE  IInv'
<1>1. /\ person' = [person EXCEPT ![u] = "revoked"]
      /\ UNCHANGED <<registry, sequence, counter, misnamed, chain, job, indexing, overlapped>>
  BY DEF RevokeIdentity
<1>2. \A v \in User : person'[v] = "removed" => person[v] = "removed"
  BY <1>1 DEF IInv, TypeOK
<1>3. person' \in [User -> {"active", "removed", "revoked"}]
  BY <1>1 DEF IInv, TypeOK
<1>4. TypeOK'
  BY <1>1, <1>3 DEF IInv, TypeOK, chain
<1>5. Known' = Known
  BY <1>1 DEF Known, Recorded
<1>6. Registering' /\ Refusing' /\ Minting'
  BY <1>1, <1>5, RegisteringUntouched, RefusingUntouched, MintingUntouched DEF chain, At
<1>7. Owning'
  <2>1. \A x \in Worker : At(x, "staged") => job[x].to \in User
    BY ProposalFacts DEF At, Proposal
  <2>2. indexing # NoEvent /\ indexing.to # None => indexing.to \in User
    BY DEF IInv, TypeOK, Event
  <2>3. \A t \in Token : Recorded(t) => registry[t].owner \in User
    BY DEF IInv, TypeOK, Recorded, Row
  <2>4. \A v \in User : (Removing(v)' <=> Removing(v)) /\ (OwnsNothing(v)' <=> OwnsNothing(v))
    BY <1>1 DEF Removing, OwnsNothing, Recorded
  <2>5. Leaving'
    BY <1>1, <1>2, <2>1, <2>2, <2>4 DEF IInv, Owning, Leaving, At
  <2>6. RemovedOwnNothing'
    BY <1>1, <1>2, <2>3 DEF IInv, Owning, RemovedOwnNothing, Recorded
  <2> QED
    BY <2>5, <2>6 DEF Owning
<1> QED
  BY <1>4, <1>6, <1>7 DEF IInv

-----------------------------------------------------------------------------
(* The chain and the indexer. *)

(* The chain acts on what is in the registry. *)
LEMMA ChainKeeps ==
  ASSUME IInv, NEW t \in Token, NEW to \in User \union {None},
         Recorded(t), holder' = [holder EXCEPT ![t] = to],
         minted' = minted \union {t} \/ (t \in minted /\ minted' = minted),
         txs < MaxChain, txs' = txs + 1,
         events' = events \/ events' = Append(events, [token |-> t, to |-> to]),
         UNCHANGED <<stored, job, indexing, overlapped>>
  PROVE  IInv'
<1>1. [token |-> t, to |-> to] \in Event
  BY DEF Event
<1>2. events' \in Seq(Event)
  <2>1. events \in Seq(Event)
    BY DEF IInv, TypeOK
  <2>2. Append(events, [token |-> t, to |-> to]) \in Seq(Event)
    BY <1>1, <2>1
  <2> QED
    BY <2>1, <2>2
<1>3. txs' \in 0..MaxChain
  BY DEF IInv, TypeOK
<1>4. TypeOK'
  <2>1. holder' \in [Token -> User \union {None}] /\ minted' \in SUBSET Token
    BY DEF IInv, TypeOK
  <2> QED
    BY <1>2, <1>3, <2>1 DEF IInv, TypeOK, stored
<1>5. Known' = Known
  BY DEF Known, Recorded, stored
<1>6. Registering' /\ Refusing'
  BY <1>5, RegisteringUntouched, RefusingUntouched DEF stored, At
<1>7. Owning'
  BY OwningUntouched DEF stored, Recorded
<1>8. Minting'
  <2>1. \A k \in 1..Len(events') : Recorded(events'[k].token)
    <3>1. events \in Seq(Event) /\ \A k \in 1..Len(events) : Recorded(events[k].token)
      BY DEF IInv, TypeOK, Minting, MintedRecorded
    <3>2. CASE events' = events
      BY <3>1, <3>2
    <3>3. CASE events' = Append(events, [token |-> t, to |-> to])
      <4> DEFINE e == [token |-> t, to |-> to]
      <4>1. Len(events') = Len(events) + 1 /\ Len(events) \in Nat
        BY <1>1, <3>1, <3>3
      <4>2. \A k \in 1..Len(events') : events'[k] = IF k <= Len(events) THEN events[k] ELSE e
        BY <1>1, <3>1, <3>3
      <4>3. e.token = t
        OBVIOUS
      <4> HIDE DEF e
      <4>4. ASSUME NEW k \in 1..Len(events') PROVE Recorded(events'[k].token)
        <5>1. CASE k <= Len(events)
          <6>1. k \in 1..Len(events)
            BY <4>1, <5>1
          <6> QED
            BY <3>1, <4>2, <5>1, <6>1
        <5>2. CASE ~(k <= Len(events))
          BY <4>2, <4>3, <5>2
        <5> QED
          BY <5>1, <5>2
      <4> QED
        BY <4>4
    <3> QED
      BY <3>2, <3>3
  <2>2. \A x \in Token : holder'[x] = IF x = t THEN to ELSE holder[x]
    BY DEF IInv, TypeOK
  <2>3. \A x : minted \subseteq minted' /\ t \in minted' /\ (x \in minted' => x = t \/ x \in minted)
    OBVIOUS
  <2>4. MintedRecorded'
    BY <2>1, <2>2, <2>3 DEF IInv, Minting, MintedRecorded, Recorded, stored
  <2>5. ConfirmsMinted' /\ ConfirmedWasMinted'
    BY <2>3 DEF IInv, Minting, ConfirmsMinted, ConfirmedWasMinted, Recorded, stored
  <2> QED
    BY <2>4, <2>5 DEF Minting
<1> QED
  BY <1>4, <1>6, <1>7, <1>8 DEF IInv

(* A mint is of an asset of the registry, a transfer or a burn of a token  *)
(* that was minted.                                                        *)
LEMMA MintMoveKeeps ==
  ASSUME IInv, Chain
  PROVE  IInv'
<1>1. ASSUME NEW t \in Token, NEW u \in User, Mint(t, u) PROVE IInv'
  BY <1>1, ChainKeeps DEF Mint
<1>2. ASSUME NEW t \in Token, NEW to \in User \union {None}, Move(t, to) PROVE IInv'
  <2>1. t \in minted /\ Recorded(t)
    BY <1>2 DEF Move, IInv, Minting, MintedRecorded
  <2> QED
    BY <1>2, <2>1, ChainKeeps DEF Move
<1> QED
  BY <1>1, <1>2 DEF Chain

(* An event that is taken up names an asset, and an active person. *)
LEMMA ReadEventKeeps ==
  ASSUME IInv, ReadEvent
  PROVE  IInv'
<1> DEFINE e == Head(events)
<1>1. /\ indexing = NoEvent /\ events # <<>> /\ events' = Tail(events)
      /\ UNCHANGED <<stored, holder, txs, minted, job, overlapped>>
  BY DEF ReadEvent
<1>2. events \in Seq(Event) /\ \A k \in 1..Len(events) : Recorded(events[k].token)
  BY DEF IInv, TypeOK, Minting, MintedRecorded
<1>3. e \in Event /\ e = events[1] /\ 1 \in 1..Len(events) /\ events' \in Seq(Event)
  BY <1>1, <1>2
<1>4. Recorded(e.token)
  BY <1>2, <1>3
<1>5. \A k \in 1..Len(events') : k + 1 \in 1..Len(events) /\ events'[k] = events[k + 1]
  BY <1>1, <1>2
<1>6. \/ indexing' = NoEvent
      \/ indexing' = e /\ (e.to # None => person[e.to] # "removed")
  BY <1>1 DEF ReadEvent, Active
<1> HIDE DEF e
<1>7. TypeOK'
  BY <1>1, <1>3, <1>6 DEF IInv, TypeOK, stored
<1>8. Known' = Known
  BY <1>1 DEF Known, Recorded, stored
<1>9. Registering' /\ Refusing'
  BY <1>1, <1>8, RegisteringUntouched, RefusingUntouched DEF stored, At
<1>10. Minting'
  <2>1. \A k \in 1..Len(events') : Recorded(events'[k].token)
    BY <1>2, <1>5
  <2>2. indexing' # NoEvent => Recorded(indexing'.token)
    BY <1>4, <1>6
  <2>3. MintedRecorded'
    BY <1>1, <2>1, <2>2 DEF IInv, Minting, MintedRecorded, Recorded, stored
  <2>4. ConfirmsMinted' /\ ConfirmedWasMinted'
    BY <1>1 DEF IInv, Minting, ConfirmsMinted, ConfirmedWasMinted, Recorded, stored
  <2> QED
    BY <2>3, <2>4 DEF Minting
<1>11. Owning'
  <2>1. \A v \in User : (Removing(v)' <=> Removing(v)) /\ (OwnsNothing(v)' <=> OwnsNothing(v))
    BY <1>1 DEF Removing, OwnsNothing, Recorded, stored
  <2>2. Leaving'
    BY <1>1, <1>6, <2>1 DEF IInv, Owning, Leaving, At, stored
  <2>3. RemovedOwnNothing'
    BY <1>1 DEF IInv, Owning, RemovedOwnNothing, Recorded, stored
  <2> QED
    BY <2>2, <2>3 DEF Owning
<1> QED
  BY <1>7, <1>9, <1>10, <1>11 DEF IInv

(* The event changes the owner or the status of its row. *)
LEMMA WriteEventKeeps ==
  ASSUME IInv, WriteEvent
  PROVE  IInv'
<1> DEFINE t == indexing.token
           u == indexing.to
           row == IF u = None THEN [registry[t] EXCEPT !.life = "REVOKED"]
                  ELSE [registry[t] EXCEPT !.owner = u]
<1>1. /\ indexing # NoEvent /\ registry' = [registry EXCEPT ![t] = row]
      /\ overlapped' = (overlapped \/ (u # None /\ Removing(u)))
      /\ indexing' = NoEvent
      /\ UNCHANGED <<person, sequence, counter, misnamed, chain, job>>
  BY DEF WriteEvent
<1>2. t \in Token /\ u \in User \union {None} /\ Recorded(t)
  BY <1>1 DEF IInv, TypeOK, Event, Minting, MintedRecorded
<1>3. registry[t] \in Row
  BY <1>2 DEF IInv, TypeOK, Recorded
<1>4. /\ row \in Row /\ row.serial = registry[t].serial /\ row.address = registry[t].address
      /\ row.owner \in {registry[t].owner, u} /\ row.owner # None
      /\ row.life \in {registry[t].life, "REVOKED"}
  BY <1>2, <1>3 DEF Row, Life
<1> HIDE DEF row
<1>5. /\ registry' \in [Token -> Row \union {NoRow}]
      /\ \A x \in Token : registry'[x] = IF x = t THEN row ELSE registry[x]
      /\ \A x \in Token : Recorded(x)' <=> Recorded(x)
      /\ Registering' /\ Refusing'
  BY <1>1, <1>2, <1>4, RowChanges
<1>6. TypeOK'
  <2>1. overlapped' \in BOOLEAN
    BY <1>1 DEF IInv, TypeOK, Removing
  <2> QED
    BY <1>1, <1>5, <2>1 DEF IInv, TypeOK, chain
<1>7. Minting'
  <2>1. minted \in SUBSET Token
    BY DEF IInv, TypeOK
  <2>2. ASSUME NEW k \in 1..Len(events) PROVE events[k].token \in Token
    <3>1. events[k] \in Event
      BY <2>2 DEF IInv, TypeOK
    <3> QED
      BY <3>1 DEF Event
  <2>3. \A x \in Worker : job[x].op = "status" => job[x].token \in Token
    BY DEF IInv, TypeOK, Status, Proposal, Removal, NoJob
  <2>4. \A x \in minted : Recorded(x)'
    BY <1>5, <2>1 DEF IInv, Minting, MintedRecorded
  <2>5. \A k \in 1..Len(events) : Recorded(events[k].token)'
    BY <1>1, <1>5, <2>2 DEF IInv, Minting, MintedRecorded, chain
  <2>6. \A x \in Worker : (job[x].op = "status" => Recorded(job[x].token))'
    BY <1>1, <1>5, <2>3 DEF IInv, Minting, MintedRecorded
  <2>7. MintedRecorded'
    BY <1>1, <2>4, <2>5, <2>6 DEF IInv, Minting, MintedRecorded, chain
  <2>8. ConfirmsMinted' /\ ConfirmedWasMinted'
    BY <1>1, <1>2, <1>4, <1>5 DEF IInv, Minting, ConfirmsMinted, ConfirmedWasMinted, chain
  <2> QED
    BY <2>7, <2>8 DEF Minting
<1>8. Owning'
  <2>1. ~overlapped' => ~overlapped /\ (u # None => ~Removing(u) /\ person[u] # "removed")
    BY <1>1 DEF IInv, Owning, Leaving
  <2>2. \A v \in User : Removing(v)' <=> Removing(v)
    BY <1>1 DEF Removing
  <2>3. \A v \in User : OwnsNothing(v) /\ v # u => OwnsNothing(v)'
    BY <1>2, <1>4, <1>5 DEF OwnsNothing
  <2>4. Leaving'
    BY <1>1, <2>1, <2>2, <2>3 DEF IInv, Owning, Leaving, At
  <2>5. RemovedOwnNothing'
    BY <1>1, <1>2, <1>4, <1>5, <2>1 DEF IInv, Owning, RemovedOwnNothing
  <2> QED
    BY <2>4, <2>5 DEF Owning
<1> QED
  BY <1>5, <1>6, <1>7, <1>8 DEF IInv

-----------------------------------------------------------------------------
(* The theorems. *)

(* Every step keeps the invariant. *)
LEMMA StepInvariant == IInv /\ [Next]_vars => IInv'
<1> SUFFICES ASSUME IInv, [Next]_vars PROVE IInv'
  OBVIOUS
<1>1. ASSUME NEW w \in Worker, Ask(w) PROVE IInv'
  <2>1. ASSUME NEW i \in Asked, NEW u \in User,
               Propose(w, i[1], i[2], u) \/ ProposeDuplicate(w, i[1], i[2], u)
        PROVE  IInv'
    <3>1. i[1] \in Serial /\ i[2] \in Address
      BY AskedAssumption
    <3> QED
      BY <2>1, <3>1, ProposeKeeps, ProposeDuplicateKeeps
  <2> QED
    BY <1>1, <2>1, StatusAskedKeeps, ReadForRemovalKeeps DEF Ask
<1>2. ASSUME NEW w \in Worker, Serve(w) PROVE IInv'
  BY <1>2, NumberKeeps, StageKeeps, LoseKeeps, RefuseLoserKeeps, RecordKeeps,
     WriteStatusKeeps, RemoveKeeps DEF Serve
<1>3. ASSUME NEW w \in Worker, Abort(w) PROVE IInv'
  BY <1>3, AbortKeeps
<1>4. ASSUME NEW u \in User, RevokeIdentity(u) PROVE IInv'
  BY <1>4, RevokeIdentityKeeps
<1>5. CASE UNCHANGED vars
  <2>1. Known' = Known /\ TypeOK'
    BY <1>5 DEF vars, stored, chain, Known, Recorded, IInv, TypeOK
  <2> QED
    BY <1>5, <2>1, RegisteringUntouched, RefusingUntouched, MintingUntouched, OwningUntouched
       DEF vars, stored, chain, IInv, At, Recorded
<1> QED
  BY <1>1, <1>2, <1>3, <1>4, <1>5, MintMoveKeeps, ReadEventKeeps, WriteEventKeeps
     DEF Next, Indexing

(* The registry, the requests, the chain and the indexer keep their types  *)
(* and the parts of the inductive invariant.                               *)
THEOREM InvariantHolds == Spec => []IInv
<1> QED
  BY InitInvariant, StepInvariant, PTL DEF Spec

(* No two physical assets share an identifier, however it is written and   *)
(* however many registrations race (physical.py, domain.py's indexes).     *)
THEOREM RegistryIsUnique == Spec => []IdentifiersUnique
<1>1. IInv => IdentifiersUnique
  BY DEF IInv, Registering
<1> QED
  BY InvariantHolds, <1>1, PTL

(* Nobody is recorded as having tried to register a duplicate of nothing   *)
(* (assets.py, _reject_duplicate and its fallback to "serial").            *)
THEOREM RefusalsAreTrue == Spec => []RefusedIsTaken
<1>1. IInv => RefusedIsTaken
  BY DEF IInv, Refusing
<1> QED
  BY InvariantHolds, <1>1, PTL

(* MINTED in the registry means that the chain minted it (assets.py,       *)
(* _confirm_on_chain and assign_asset_custodian).                          *)
THEOREM ConfirmationsAreTrue == Spec => []ConfirmedWasMinted
<1>1. IInv => ConfirmedWasMinted
  BY DEF IInv, Minting
<1> QED
  BY InvariantHolds, <1>1, PTL

(* Whoever is removed owns nothing, if no removal overlaps a change of     *)
(* ownership (identity.py, revoke_identity).                               *)
THEOREM RemovalsLeaveNothing == Spec => []RemovedOwnNothing
<1>1. IInv => RemovedOwnNothing
  BY DEF IInv, Owning
<1> QED
  BY InvariantHolds, <1>1, PTL

(* The counter that every registration waits for is let go by each         *)
(* transaction that ends, however it ends (action_ids.py).                 *)
THEOREM CounterIsReleased == Spec => []NumberIsReleased
<1>1. IInv => NumberIsReleased
  BY DEF IInv, Registering
<1> QED
  BY InvariantHolds, <1>1, PTL
=============================================================================
