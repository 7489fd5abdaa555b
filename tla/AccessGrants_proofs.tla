------------------------ MODULE AccessGrants_proofs -------------------------
(***************************************************************************)
(* Metered access, for every number of users, versions, grants and         *)
(* concurrent handlers and every choice of limits.                         *)
(***************************************************************************)
EXTENDS AccessGrants, FiniteSetTheorems, TLAPS

(* The inductive invariant.  The limit and the truth of the counter hold   *)
(* because of what the row lock protects: between a handler's count and    *)
(* its commit nobody else changes the grant, so the value it will write is *)
(* still one more than the committed one.                                  *)

Blank == \A g \in Grant : ~grant[g].issued => grant[g] = NoGrantRow

LocksMatchJobs ==
  /\ \A g \in Grant : lock[g] # NoWorker
       => job[lock[g]].op = "render" /\ job[lock[g]].grant = g
  /\ \A w \in Worker : job[w].op = "render" => lock[job[w].grant] = w

JobSound(w) ==
  /\ job[w].op \in {"view", "count", "render", "revoke"} => job[w].grant \in Issued
  /\ job[w].op \in {"approve", "reject"}
       => job[w].share \in Share /\ share[job[w].share].status # "NONE"
  /\ job[w].op = "render"
       => LET g == job[w].grant
          IN /\ job[w].counted = grant[g].views + 1
             /\ ~grant[g].revoked
             /\ grant[g].max # NoLimit => job[w].counted <= grant[g].max
JobsSound == \A w \in Worker : JobSound(w)

CountsSound == CounterIsTrue /\ ViewsWithinLimit

SharesSound == \A s \in Share : share[s].status # "NONE" => share[s].target \in User

IInv == TypeOK /\ Blank /\ LocksMatchJobs /\ JobsSound /\ CountsSound /\ SharesSound

USE RoleAssumption, ScopeAssumption, OwnerAssumption, UserAssumption,
    LimitAssumption, NoneAssumption
USE DEF Ops

-----------------------------------------------------------------------------
(* Each step keeps the invariant. *)

(* The initial state satisfies the invariant. *)
LEMMA InitInvariant == Init => IInv
BY DEF Init, IInv, TypeOK, Blank, LocksMatchJobs, JobsSound, JobSound,
   CountsSound, CounterIsTrue, ViewsWithinLimit, SharesSound, Issued, NoShareRow,
   NoGrantRow, Idle, Shares, Grants, Jobs

(* Issuing grants fills blank rows with fresh grants and touches no other. *)
LEMMA IssueFillsBlankRows ==
  ASSUME TypeOK, NEW s \in Share, NEW target \in User, NEW versions \in SUBSET Version,
         NEW max \in Limits, NEW download \in BOOLEAN, NEW expiry \in Lifetimes,
         IssueGrants(s, target, versions, max, download, expiry)
  PROVE  /\ grant' \in [Grant -> Grants]
         /\ \A g \in Grant :
              \/ grant'[g] = grant[g]
              \/ /\ ~grant[g].issued /\ grant'[g].issued
                 /\ grant'[g].views = 0 /\ ~grant'[g].revoked
<1> DEFINE age == Cardinality(Issued) + 1
<1>1. age \in Nat
  <2>1. IsFiniteSet(Issued)
    BY FiniteAssumption, FS_Subset DEF Issued
  <2> QED
    BY <2>1, FS_CardinalityType
<1> HIDE DEF age
<1>2. PICK f \in [versions -> Grant \ Issued] :
        /\ \A v1, v2 \in versions : f[v1] = f[v2] => v1 = v2
        /\ grant' = [g \in Grant |->
             IF \E v \in versions : f[v] = g
             THEN [NoGrantRow EXCEPT !.issued = TRUE, !.by = s, !.grantee = target,
                                     !.version = {v \in versions : f[v] = g},
                                     !.download = download, !.max = max,
                                     !.expiry = expiry, !.age = age]
             ELSE grant[g]]
  BY DEF IssueGrants, age
<1> DEFINE New(g) == [NoGrantRow EXCEPT !.issued = TRUE, !.by = s, !.grantee = target,
                                        !.version = {v \in versions : f[v] = g},
                                        !.download = download, !.max = max,
                                        !.expiry = expiry, !.age = age]
<1>3. ASSUME NEW g \in Grant PROVE New(g) \in Grants
  BY <1>1 DEF Grants, NoGrantRow, Lifetimes
<1>4. ASSUME NEW g \in Grant
      PROVE  New(g).issued /\ New(g).views = 0 /\ ~New(g).revoked
  BY DEF NoGrantRow
<1>5. grant \in [Grant -> Grants]
  BY DEF TypeOK
<1>6. grant' = [g \in Grant |-> IF \E v \in versions : f[v] = g THEN New(g) ELSE grant[g]]
  BY <1>2
<1> HIDE DEF New
<1>7. grant' \in [Grant -> Grants]
  BY <1>3, <1>5, <1>6
<1>8. ASSUME NEW g \in Grant
      PROVE  \/ grant'[g] = grant[g]
             \/ /\ ~grant[g].issued /\ grant'[g].issued
                /\ grant'[g].views = 0 /\ ~grant'[g].revoked
  <2>1. CASE \E v \in versions : f[v] = g
    <3>1. ~grant[g].issued
      BY <2>1 DEF Issued
    <3>2. grant'[g] = New(g)
      BY <1>6, <2>1
    <3> QED
      BY <1>4, <3>1, <3>2
  <2>2. CASE ~ \E v \in versions : f[v] = g
    BY <1>6, <2>2
  <2> QED
    BY <2>1, <2>2
<1> QED
  BY <1>7, <1>8

(* Issuing grants keeps what the invariant says of the other variables.    *)
LEMMA IssueKeeps ==
  ASSUME IInv, NEW s \in Share, NEW target \in User, NEW versions \in SUBSET Version,
         NEW max \in Limits, NEW download \in BOOLEAN, NEW expiry \in Lifetimes,
         IssueGrants(s, target, versions, max, download, expiry),
         UNCHANGED shown
  PROVE  /\ grant' \in [Grant -> Grants]
         /\ Blank' /\ CountsSound'
         /\ \A g \in Issued : g \in Issued' /\ grant'[g] = grant[g]
<1>1. /\ grant' \in [Grant -> Grants]
      /\ \A g \in Grant :
           \/ grant'[g] = grant[g]
           \/ /\ ~grant[g].issued /\ grant'[g].issued
              /\ grant'[g].views = 0 /\ ~grant'[g].revoked
  BY IssueFillsBlankRows DEF IInv
<1>2. Blank'
  BY <1>1 DEF IInv, Blank
<1>3. ASSUME NEW g \in Grant, ~grant[g].issued
      PROVE  shown[g] = 0
  BY <1>3 DEF IInv, Blank, CountsSound, CounterIsTrue, NoGrantRow
<1>4. CountsSound'
  BY <1>1, <1>3 DEF IInv, CountsSound, CounterIsTrue, ViewsWithinLimit, TypeOK, Grants
<1>5. \A g \in Issued : g \in Issued' /\ grant'[g] = grant[g]
  BY <1>1 DEF Issued
<1> QED
  BY <1>1, <1>2, <1>4, <1>5

(* propose_document_share *)
LEMMA ProposeShareKeeps ==
  ASSUME IInv, NEW u \in User, NEW s \in Share, NEW target \in User,
         NEW versions \in SUBSET Version, NEW max \in Limits,
         NEW download \in BOOLEAN, NEW expiry \in Lifetimes,
         ProposeShare(u, s, target, versions, max, download, expiry)
  PROVE  IInv'
<1>1. share' \in [Share -> Shares] /\ SharesSound'
  BY DEF ProposeShare, IInv, TypeOK, SharesSound, Shares
<1>2. /\ grant' \in [Grant -> Grants]
      /\ Blank' /\ CountsSound'
      /\ \A g \in Issued : g \in Issued' /\ grant'[g] = grant[g]
  <2>1. CASE CanManage(u)
    BY <2>1, IssueKeeps DEF ProposeShare
  <2>2. CASE ~CanManage(u)
    BY <2>2 DEF ProposeShare, IInv, TypeOK, Blank, CountsSound, CounterIsTrue,
       ViewsWithinLimit, Issued
  <2> QED
    BY <2>1, <2>2
<1>3. UNCHANGED <<lock, job, shown>>
  BY DEF ProposeShare
<1>4. TypeOK'
  BY <1>1, <1>2, <1>3 DEF IInv, TypeOK
<1>5. LocksMatchJobs'
  BY <1>3 DEF IInv, LocksMatchJobs
<1>6. JobsSound'
  <2>1. \A q \in Share : share[q].status # "NONE" => share'[q].status # "NONE"
    BY DEF ProposeShare, IInv, TypeOK
  <2> QED
    BY <1>2, <1>3, <2>1 DEF IInv, JobsSound, JobSound, TypeOK, Jobs
<1> QED
  BY <1>1, <1>2, <1>4, <1>5, <1>6 DEF IInv

(* Every handler that starts by reading. *)
LEMMA StartKeeps ==
  ASSUME IInv, NEW w \in Worker, NEW new \in Jobs, Start(w, new),
         new.op \in {"approve", "reject", "view", "revoke"},
         new.op \in {"view", "revoke"} => new.grant \in Issued,
         new.op \in {"approve", "reject"}
           => new.share \in Share /\ share[new.share].status # "NONE",
         UNCHANGED <<share, grant, lock, shown>>
  PROVE  IInv'
<1>1. job' = [job EXCEPT ![w] = new] /\ job[w].op = "idle"
  BY DEF Start, Serving
<1>2. TypeOK'
  BY <1>1 DEF IInv, TypeOK
<1>3. LocksMatchJobs'
  BY <1>1 DEF IInv, TypeOK, LocksMatchJobs
<1>4. JobsSound'
  BY <1>1 DEF IInv, TypeOK, JobsSound, JobSound, Issued
<1> QED
  BY <1>2, <1>3, <1>4 DEF IInv, Blank, CountsSound, CounterIsTrue,
     ViewsWithinLimit, SharesSound

(* A decision starts on a request that exists. *)
LEMMA ReadForDecisionKeeps ==
  ASSUME IInv, NEW w \in Worker, NEW u \in User, NEW s \in Share, ReadForDecision(w, u, s)
  PROVE  IInv'
<1>1. PICK op \in {"approve", "reject"} :
        Start(w, [Idle EXCEPT !.op = op, !.user = u, !.share = s])
  BY DEF ReadForDecision
<1> DEFINE new == [Idle EXCEPT !.op = op, !.user = u, !.share = s]
<1>2. new \in Jobs /\ new.op = op /\ new.share = s
  BY DEF Jobs, Idle
<1>3. share[s].status # "NONE" /\ UNCHANGED <<share, grant, lock, shown>>
  BY DEF ReadForDecision
<1> HIDE DEF new
<1>4. Start(w, new)
  BY <1>1 DEF new
<1> QED
  BY <1>2, <1>3, <1>4, StartKeeps

(* A view starts on a grant that was issued. *)
LEMMA ReadForViewKeeps ==
  ASSUME IInv, NEW w \in Worker, NEW u \in User, NEW v \in Version, ReadForView(w, u, v)
  PROVE  IInv'
<1>1. PICK g \in Newest(Viewable(u, v)) :
        Start(w, [Idle EXCEPT !.op = "view", !.user = u, !.grant = g])
  BY DEF ReadForView
<1>2. g \in Issued /\ g \in Grant
  BY <1>1 DEF Newest, Viewable, Valid, Issued
<1> DEFINE new == [Idle EXCEPT !.op = "view", !.user = u, !.grant = g]
<1>3. new \in Jobs /\ new.op = "view" /\ new.grant = g
  BY <1>2 DEF Jobs, Idle
<1>4. UNCHANGED <<share, grant, lock, shown>>
  BY DEF ReadForView
<1> HIDE DEF new
<1>5. Start(w, new)
  BY <1>1 DEF new
<1> QED
  BY <1>2, <1>3, <1>4, <1>5, StartKeeps

(* A revocation starts on a grant that was issued. *)
LEMMA ReadForRevokeKeeps ==
  ASSUME IInv, NEW w \in Worker, NEW u \in User, NEW g \in Grant, ReadForRevoke(w, u, g)
  PROVE  IInv'
<1> DEFINE new == [Idle EXCEPT !.op = "revoke", !.user = u, !.grant = g]
<1>1. new \in Jobs /\ new.op = "revoke" /\ new.grant = g
  BY DEF Jobs, Idle
<1>2. Start(w, new) /\ g \in Issued /\ UNCHANGED <<share, grant, lock, shown>>
  BY DEF ReadForRevoke
<1> HIDE DEF new
<1> QED
  BY <1>1, <1>2, StartKeeps

(* A handler that holds no row lock and ends without touching a grant. *)
LEMMA FinishKeeps ==
  ASSUME IInv, NEW w \in Worker, job[w].op # "render", Finish(w),
         UNCHANGED <<grant, lock, shown>>, share' \in [Share -> Shares],
         \A s \in Share : share[s].status # "NONE" => share'[s].status # "NONE",
         SharesSound'
  PROVE  IInv'
<1>1. job' = [job EXCEPT ![w] = Idle]
  BY DEF Finish
<1>2. TypeOK'
  BY <1>1 DEF IInv, TypeOK, Jobs, Idle
<1>3. LocksMatchJobs'
  BY <1>1 DEF IInv, TypeOK, LocksMatchJobs, Idle
<1>4. JobsSound'
  BY <1>1 DEF IInv, TypeOK, JobsSound, JobSound, Issued, Idle
<1> QED
  BY <1>2, <1>3, <1>4 DEF IInv, Blank, CountsSound, CounterIsTrue, ViewsWithinLimit

(* A decision issues grants on blank rows only, so no count or lock is disturbed,
   even when the request was decided before. *)
LEMMA ApproveKeeps ==
  ASSUME IInv, NEW w \in Worker, NEW max \in Limits, NEW download \in BOOLEAN,
         NEW expiry \in Lifetimes, Approve(w, max, download, expiry)
  PROVE  IInv'
<1> DEFINE s == job[w].share
<1>1. s \in Share /\ share[s].status # "NONE" /\ share[s] \in Shares /\ job[w].op = "approve"
  BY DEF Approve, Serving, IInv, TypeOK, JobsSound, JobSound
<1>2. share[s].target \in User /\ share[s].versions \in SUBSET Version
  BY <1>1 DEF IInv, SharesSound, Shares
<1>3. /\ share' = [share EXCEPT ![s].status = "APPROVED"]
      /\ IssueGrants(s, share[s].target, share[s].versions, max, download, expiry)
      /\ Finish(w) /\ UNCHANGED <<lock, shown>>
  BY DEF Approve
<1>4. share' \in [Share -> Shares] /\ SharesSound'
  BY <1>1, <1>3 DEF IInv, TypeOK, Shares, SharesSound
<1>5. \A q \in Share : share[q].status # "NONE" => share'[q].status # "NONE"
  BY <1>1, <1>3 DEF IInv, TypeOK
<1> HIDE DEF s
<1>6. /\ grant' \in [Grant -> Grants]
      /\ Blank' /\ CountsSound'
      /\ \A g \in Issued : g \in Issued' /\ grant'[g] = grant[g]
  BY <1>1, <1>2, <1>3, IssueKeeps
<1>7. job' = [job EXCEPT ![w] = Idle]
  BY <1>3 DEF Finish
<1>8. TypeOK'
  BY <1>3, <1>4, <1>6, <1>7 DEF IInv, TypeOK, Jobs, Idle
<1>9. LocksMatchJobs'
  BY <1>1, <1>3, <1>7 DEF IInv, TypeOK, LocksMatchJobs, Idle
<1>10. JobsSound'
  BY <1>5, <1>6, <1>7 DEF IInv, TypeOK, JobsSound, JobSound, Idle
<1> QED
  BY <1>4, <1>6, <1>8, <1>9, <1>10 DEF IInv

(* A rejection leaves every grant alone. *)
LEMMA RejectKeeps ==
  ASSUME IInv, NEW w \in Worker, Reject(w)
  PROVE  IInv'
<1>1. job[w].share \in Share /\ share[job[w].share].status # "NONE" /\ job[w].op = "reject"
  BY DEF Reject, Serving, IInv, TypeOK, JobsSound, JobSound
<1>2. share' \in [Share -> Shares] /\ SharesSound'
  BY SMTT(20), <1>1 DEF Reject, IInv, TypeOK, Shares, SharesSound
<1>3. \A q \in Share : share[q].status # "NONE" => share'[q].status # "NONE"
  BY <1>1 DEF Reject, IInv, TypeOK
<1> QED
  BY <1>1, <1>2, <1>3, FinishKeeps DEF Reject

(* Issuing the counting statement changes nothing but the job. *)
LEMMA IssueCountKeeps ==
  ASSUME IInv, NEW w \in Worker, IssueCount(w)
  PROVE  IInv'
<1>1. job[w].op = "view" /\ UNCHANGED <<share, grant, lock, shown>>
  BY DEF IssueCount, Serving
<1>2. CASE Finish(w)
  BY <1>1, <1>2, FinishKeeps DEF IInv, TypeOK, SharesSound
<1>3. CASE job' = [job EXCEPT ![w].op = "count"]
  <2>1. TypeOK'
    BY <1>1, <1>3 DEF IInv, TypeOK, Jobs
  <2>2. LocksMatchJobs'
    BY <1>1, <1>3 DEF IInv, TypeOK, LocksMatchJobs
  <2>3. JobsSound'
    BY <1>1, <1>3 DEF IInv, TypeOK, JobsSound, JobSound, Issued
  <2> QED
    BY <1>1, <2>1, <2>2, <2>3 DEF IInv, Blank, CountsSound, CounterIsTrue,
       ViewsWithinLimit, SharesSound
<1> QED
  BY <1>2, <1>3 DEF IssueCount

(* The count is right when the lock is taken: revocation and limit are read under it. *)
LEMMA CountKeeps ==
  ASSUME IInv, NEW w \in Worker, Count(w)
  PROVE  IInv'
<1> DEFINE g == job[w].grant
<1>1. /\ job[w].op = "count" /\ g \in Issued /\ g \in Grant /\ lock[g] = NoWorker
      /\ UNCHANGED <<share, grant, shown>>
  BY DEF Count, Serving, IInv, JobsSound, JobSound, Issued
<1>2. CASE ~grant[g].revoked /\ ViewsLeft(g)
  <2>1. /\ lock' = [lock EXCEPT ![g] = w]
        /\ job' = [job EXCEPT ![w].op = "render", ![w].counted = grant[g].views + 1]
    BY <1>2 DEF Count
  <2>2. job[w] \in Jobs /\ grant[g] \in Grants
    BY <1>1 DEF IInv, TypeOK
  <2>3. job'[w] = [job[w] EXCEPT !.op = "render", !.counted = grant[g].views + 1]
    BY <2>1 DEF IInv, TypeOK
  <2>4. /\ job'[w].op = "render" /\ job'[w].grant = g /\ job'[w].counted = grant[g].views + 1
        /\ job'[w] \in Jobs
    <3>1. grant[g].views + 1 \in Nat
      BY <2>2 DEF Grants
    <3> QED
      BY <2>2, <2>3, <3>1 DEF Jobs
  <2>5. \A x \in Worker : x # w => job'[x] = job[x]
    BY <2>1 DEF IInv, TypeOK
  <2>6. TypeOK'
    BY <1>1, <2>1, <2>4 DEF IInv, TypeOK
  <2>7. LocksMatchJobs'
    BY <1>1, <2>1, <2>4, <2>5 DEF IInv, TypeOK, LocksMatchJobs
  <2>8. grant[g].max # NoLimit => grant[g].views + 1 <= grant[g].max
    BY <1>2, <2>2 DEF ViewsLeft, Grants
  <2>9. JobsSound'
    BY <1>1, <1>2, <2>4, <2>5, <2>8 DEF IInv, JobsSound, JobSound, Issued
  <2> QED
    BY <1>1, <2>6, <2>7, <2>9 DEF IInv, Blank, CountsSound, CounterIsTrue,
       ViewsWithinLimit, SharesSound
<1>3. CASE ~(~grant[g].revoked /\ ViewsLeft(g))
  <2>1. Finish(w) /\ UNCHANGED lock
    BY <1>3 DEF Count
  <2> QED
    BY <1>1, <2>1, FinishKeeps DEF IInv, TypeOK, SharesSound
<1> QED
  BY <1>2, <1>3

(* What is committed is what was counted, because nobody else could change the row. *)
LEMMA ShowKeeps ==
  ASSUME IInv, NEW w \in Worker, Show(w)
  PROVE  IInv'
<1> DEFINE g == job[w].grant
<1>1. /\ job[w].op = "render" /\ g \in Issued /\ g \in Grant /\ lock[g] = w
      /\ job[w].counted = grant[g].views + 1
      /\ grant[g].max # NoLimit => job[w].counted <= grant[g].max
  BY DEF Show, Serving, IInv, JobsSound, JobSound, LocksMatchJobs, Issued
<1>2. /\ grant' = [grant EXCEPT ![g].views = job[w].counted]
      /\ lock' = [lock EXCEPT ![g] = NoWorker]
      /\ shown' = [shown EXCEPT ![g] = @ + 1]
      /\ job' = [job EXCEPT ![w] = Idle]
      /\ UNCHANGED share
  BY DEF Show, Finish
<1>3. job[w] \in Jobs /\ grant[g] \in Grants
  BY <1>1 DEF IInv, TypeOK
<1>4. /\ grant'[g] = [grant[g] EXCEPT !.views = job[w].counted]
      /\ \A h \in Grant : h # g => grant'[h] = grant[h]
  BY <1>1, <1>2 DEF IInv, TypeOK
<1>5. TypeOK'
  <2>1. grant'[g] \in Grants
    BY <1>1, <1>3, <1>4 DEF Grants, Jobs
  <2> QED
    BY SMTT(20), <1>1, <1>2, <2>1 DEF IInv, TypeOK, Jobs, Idle
<1>6. Blank'
  <2>1. grant'[g].issued
    BY <1>1, <1>3, <1>4 DEF Grants, Issued
  <2> QED
    BY <1>4, <2>1 DEF IInv, Blank
<1>7. LocksMatchJobs'
  BY <1>1, <1>2 DEF IInv, TypeOK, LocksMatchJobs, Idle
<1>8. JobsSound'
  <2>1. ASSUME NEW x \in Worker PROVE JobSound(x)'
    <3>1. CASE x = w
      BY <1>2, <3>1 DEF IInv, TypeOK, JobSound, Idle
    <3>2. CASE x # w
      <4>1. job'[x] = job[x] /\ JobSound(x)
        BY <1>2, <3>2 DEF IInv, TypeOK, JobsSound
      <4>2. job[x].op = "render" => job[x].grant # g
        BY <1>1, <3>2 DEF IInv, LocksMatchJobs
      <4>3. Issued' = Issued
        BY <1>3, <1>4, <1>1 DEF Issued, Grants
      <4>4. job[x].grant \in Issued => job[x].grant \in Grant
        BY DEF Issued
      <4> QED
        BY <1>2, <1>4, <4>1, <4>2, <4>3, <4>4 DEF JobSound
    <3> QED
      BY <3>1, <3>2
  <2> QED
    BY <2>1 DEF JobsSound
<1>9. CountsSound'
  BY <1>1, <1>2, <1>3, <1>4 DEF IInv, TypeOK, CountsSound, CounterIsTrue,
     ViewsWithinLimit, Grants
<1> QED
  BY <1>2, <1>5, <1>6, <1>7, <1>8, <1>9 DEF IInv, SharesSound

(* A committed change of a grant that neither counts nor revokes. *)
LEMMA MarkKeeps ==
  ASSUME IInv, NEW g \in Grant, NEW row \in Grants, grant[g].issued,
         row.issued, row.views = grant[g].views, row.max = grant[g].max,
         row.revoked = grant[g].revoked,
         grant' = [grant EXCEPT ![g] = row], UNCHANGED <<share, lock, job, shown>>
  PROVE  IInv'
<1>1. /\ grant'[g] = row /\ grant' \in [Grant -> Grants]
      /\ \A h \in Grant : h # g => grant'[h] = grant[h]
  BY DEF IInv, TypeOK
<1>2. Issued' = Issued
  BY <1>1 DEF Issued
<1>3. JobsSound'
  <2>1. ASSUME NEW x \in Worker PROVE JobSound(x)'
    <3>1. job'[x] = job[x] /\ JobSound(x)
      BY DEF IInv, JobsSound
    <3>2. job[x].op = "render" => job[x].grant \in Grant
      BY <3>1 DEF JobSound, Issued
    <3> QED
      BY <1>1, <1>2, <3>1, <3>2 DEF JobSound
  <2> QED
    BY <2>1 DEF JobsSound
<1>4. CountsSound' /\ Blank'
  BY <1>1 DEF IInv, CountsSound, CounterIsTrue, ViewsWithinLimit, Blank
<1> QED
  BY <1>1, <1>3, <1>4 DEF IInv, TypeOK, LocksMatchJobs, SharesSound

(* A revocation waits for the row lock, so no counted view is outstanding. *)
LEMMA RevokeKeeps ==
  ASSUME IInv, NEW w \in Worker, Revoke(w)
  PROVE  IInv'
<1> DEFINE g == job[w].grant
           row == [grant[g] EXCEPT !.revoked = TRUE]
<1>1. job[w].op = "revoke" /\ g \in Grant /\ grant[g].issued /\ lock[g] = NoWorker
  BY DEF Revoke, Serving, IInv, JobsSound, JobSound, Issued
<1>2. /\ grant' = [grant EXCEPT ![g] = row] /\ job' = [job EXCEPT ![w] = Idle]
      /\ UNCHANGED <<share, lock, shown>>
  BY DEF Revoke, Finish
<1>3. grant[g] \in Grants
  BY <1>1 DEF IInv, TypeOK
<1>4. /\ row \in Grants /\ row.issued /\ row.views = grant[g].views
      /\ row.max = grant[g].max
  BY <1>1, <1>3 DEF Grants
<1> HIDE DEF row
<1>5. /\ grant'[g] = row /\ grant' \in [Grant -> Grants]
      /\ \A h \in Grant : h # g => grant'[h] = grant[h]
  BY <1>1, <1>2, <1>4 DEF IInv, TypeOK
<1>6. Issued' = Issued
  BY <1>1, <1>4, <1>5 DEF Issued
<1>7. TypeOK' /\ LocksMatchJobs'
  BY <1>1, <1>2, <1>5 DEF IInv, TypeOK, Jobs, Idle, LocksMatchJobs
<1>8. JobsSound'
  <2>1. ASSUME NEW x \in Worker PROVE JobSound(x)'
    <3>1. CASE x = w
      BY <1>2, <3>1 DEF IInv, TypeOK, JobSound, Idle
    <3>2. CASE x # w
      <4>1. job'[x] = job[x] /\ JobSound(x)
        BY <1>2, <3>2 DEF IInv, TypeOK, JobsSound
      <4>2. job[x].op = "render" => job[x].grant # g /\ job[x].grant \in Grant
        BY <1>1, <4>1 DEF IInv, LocksMatchJobs, JobSound, Issued
      <4> QED
        BY <1>2, <1>5, <1>6, <4>1, <4>2 DEF JobSound
    <3> QED
      BY <3>1, <3>2
  <2> QED
    BY <2>1 DEF JobsSound
<1>9. CountsSound' /\ Blank'
  BY <1>1, <1>2, <1>4, <1>5 DEF IInv, CountsSound, CounterIsTrue, ViewsWithinLimit, Blank
<1> QED
  BY <1>2, <1>7, <1>8, <1>9 DEF IInv, SharesSound

(* An expiry is no count and no revocation. *)
LEMMA ExpireKeeps ==
  ASSUME IInv, NEW g \in Grant, Expire(g)
  PROVE  IInv'
<1> DEFINE row == [grant[g] EXCEPT !.expiry = "past"]
<1>1. grant[g] \in Grants /\ grant[g].expiry = "later"
  BY DEF Expire, IInv, TypeOK
<1>2. grant[g].issued
  BY <1>1 DEF IInv, Blank, NoGrantRow
<1>3. /\ row \in Grants /\ row.issued /\ row.views = grant[g].views
      /\ row.max = grant[g].max /\ row.revoked = grant[g].revoked
  BY <1>1, <1>2 DEF Grants
<1>4. grant' = [grant EXCEPT ![g] = row] /\ UNCHANGED <<share, lock, job, shown>>
  BY DEF Expire
<1> HIDE DEF row
<1> QED
  BY <1>2, <1>3, <1>4, MarkKeeps

(* A handler that ends without committing leaves every counter as it was. *)
LEMMA AbortKeeps ==
  ASSUME IInv, NEW w \in Worker, Abort(w)
  PROVE  IInv'
<1>1. /\ job' = [job EXCEPT ![w] = Idle]
      /\ lock' = [g \in Grant |-> IF lock[g] = w THEN NoWorker ELSE lock[g]]
      /\ UNCHANGED <<share, grant, shown>>
  BY DEF Abort, Finish
<1>2. TypeOK'
  BY <1>1 DEF IInv, TypeOK, Jobs, Idle
<1>3. LocksMatchJobs'
  <2>1. \A x \in Worker : job[x].op = "render" => job[x].grant \in Grant
    BY DEF IInv, JobsSound, JobSound, Issued
  <2> QED
    BY <1>1, <2>1 DEF IInv, TypeOK, LocksMatchJobs, Idle
<1>4. JobsSound'
  BY <1>1 DEF IInv, TypeOK, JobsSound, JobSound, Issued, Idle
<1> QED
  BY <1>1, <1>2, <1>3, <1>4 DEF IInv, Blank, CountsSound, CounterIsTrue,
     ViewsWithinLimit, SharesSound

-----------------------------------------------------------------------------
(* The theorems. *)

(* Every step of Next keeps the invariant. *)
LEMMA NextKeeps == IInv /\ [Next]_vars => IInv'
<1> SUFFICES ASSUME IInv, [Next]_vars PROVE IInv'
  OBVIOUS
<1>1. CASE \E w \in Worker : HandlerStep(w) \/ Abort(w)
  <2> PICK w \in Worker : HandlerStep(w) \/ Abort(w)
    BY <1>1
  <2> QED
    BY ApproveKeeps, RejectKeeps, IssueCountKeeps, CountKeeps, ShowKeeps,
       RevokeKeeps, AbortKeeps DEF HandlerStep
<1>2. CASE UNCHANGED vars
  BY <1>2 DEF vars, IInv, TypeOK, Blank, LocksMatchJobs, JobsSound, JobSound,
     CountsSound, CounterIsTrue, ViewsWithinLimit, SharesSound, Issued
<1> QED
  BY <1>1, <1>2, ProposeShareKeeps, ReadForDecisionKeeps, ReadForViewKeeps,
     ReadForRevokeKeeps, ExpireKeeps DEF Next

(* The inductive invariant holds of every behaviour. *)
THEOREM Invariance == Spec => []IInv
BY InitInvariant, NextKeeps, PTL DEF Spec

(* Every value stays in the columns' types. *)
THEOREM TypeCorrect == Spec => []TypeOK
BY Invariance, PTL DEF IInv

(* "The limit can never be exceeded", by any number of concurrent viewers. *)
THEOREM LimitIsNeverExceeded == Spec => []ViewsWithinLimit
<1>1. IInv => ViewsWithinLimit
  BY DEF IInv, CountsSound
<1> QED
  BY <1>1, Invariance, PTL

(* No view is counted that was not shown, and none is shown uncounted. *)
THEOREM CounterNeverDrifts == Spec => []CounterIsTrue
<1>1. IInv => CounterIsTrue
  BY DEF IInv, CountsSound
<1> QED
  BY <1>1, Invariance, PTL

(* What a revocation settles: with the row lock free no copy of that grant *)
(* is being made, and none is started again.                               *)
LEMMA RevokedShowsNothing ==
  ASSUME IInv, [Next]_vars, NEW g \in Grant, grant[g].revoked
  PROVE  shown'[g] = shown[g]
<1>1. CASE UNCHANGED shown
  BY <1>1
<1>2. ASSUME NEW w \in Worker, Show(w)
      PROVE  shown'[g] = shown[g]
  <2>1. job[w].grant # g
    BY <1>2 DEF Show, Serving, IInv, JobsSound, JobSound
  <2> QED
    BY <1>2, <2>1 DEF Show, IInv, TypeOK
<1> QED
  BY ZenonT(30), <1>1, <1>2 DEF Next, HandlerStep, ProposeShare, ReadForDecision, ReadForView,
     ReadForRevoke, Approve, Reject, IssueCount, Count, Revoke, Expire, Abort, vars

(* No copy is shown through a grant after its revocation has committed.    *)
THEOREM RevocationIsFinal == Spec => NoCopyAfterRevocation
<1>1. IInv /\ [Next]_vars
        => [\A g \in Grant : grant[g].revoked => shown'[g] = shown[g]]_vars
  BY RevokedShowsNothing
<1> QED
  BY <1>1, Invariance, PTL DEF Spec, NoCopyAfterRevocation

-----------------------------------------------------------------------------
(* The grants implement MeteredAccess. *)

Max == [g \in Grant |-> grant[g].max]

(* Nothing is issued in the beginning. *)
LEMMA InitImplements == Init => Promise!Init
BY DEF Init, Promise!Init, Phase, NoGrantRow

(* Issuing grants is one Issue of the abstract promise. *)
LEMMA IssueImplements ==
  ASSUME IInv, NEW s \in Share, NEW target \in User, NEW versions \in SUBSET Version,
         NEW max \in Limits, NEW download \in BOOLEAN, NEW expiry \in Lifetimes,
         IssueGrants(s, target, versions, max, download, expiry), UNCHANGED shown
  PROVE  \E G \in SUBSET Grant : Promise!Issue(G)
<1> DEFINE F == {g \in Grant : grant'[g] # grant[g]}
<1>1. /\ grant' \in [Grant -> Grants]
      /\ \A g \in Grant :
           \/ grant'[g] = grant[g]
           \/ /\ ~grant[g].issued /\ grant'[g].issued
              /\ grant'[g].views = 0 /\ ~grant'[g].revoked
  BY IssueFillsBlankRows DEF IInv
<1>2. \A g \in F : Phase[g] = "unissued"
  BY <1>1 DEF Phase
<1>3. Phase' = [g \in Grant |-> IF g \in F THEN "open" ELSE Phase[g]]
  BY <1>1 DEF Phase
<1>4. Max' \in [Grant -> Nat \union {NoLimit}]
  BY <1>1 DEF Max, Grants
<1>5. \A g \in Grant \ F : Max'[g] = Max[g]
  BY DEF Max
<1>6. Promise!Issue(F)
  BY <1>2, <1>3, <1>4, <1>5 DEF Promise!Issue, Max
<1>7. F \in SUBSET Grant
  OBVIOUS
<1> HIDE DEF F
<1> QED
  BY <1>6, <1>7 DEF Promise!Issue

(* Every step is a step of the abstract promise or a stutter. *)
LEMMA NextImplements ==
  ASSUME IInv, [Next]_vars
  PROVE  [Promise!Next]_(Promise!vars)
<1> DEFINE Same == UNCHANGED Promise!vars
<1>1. ASSUME UNCHANGED <<grant, shown>>
      PROVE  Same
  BY <1>1 DEF Promise!vars, Phase
<1>2. ASSUME NEW u \in User, NEW s \in Share, NEW target \in User,
             NEW versions \in SUBSET Version, NEW max \in Limits,
             NEW download \in BOOLEAN, NEW expiry \in Lifetimes,
             ProposeShare(u, s, target, versions, max, download, expiry)
      PROVE  Promise!Next \/ Same
  <2>1. CASE CanManage(u)
    BY <1>2, <2>1, IssueImplements DEF ProposeShare, Promise!Next
  <2>2. CASE ~CanManage(u)
    BY <1>1, <1>2, <2>2 DEF ProposeShare
  <2> QED
    BY <2>1, <2>2
<1>3. ASSUME NEW w \in Worker, NEW max \in Limits, NEW download \in BOOLEAN,
             NEW expiry \in Lifetimes, Approve(w, max, download, expiry)
      PROVE  Promise!Next
  <2> DEFINE s == job[w].share
  <2>1. s \in Share /\ share[s].status # "NONE" /\ share[s] \in Shares
    BY <1>3 DEF Approve, Serving, IInv, TypeOK, JobsSound, JobSound
  <2>2. share[s].target \in User /\ share[s].versions \in SUBSET Version
    BY <2>1 DEF IInv, SharesSound, Shares
  <2>3. /\ IssueGrants(s, share[s].target, share[s].versions, max, download, expiry)
        /\ UNCHANGED shown
    BY <1>3 DEF Approve
  <2> HIDE DEF s
  <2> QED
    BY <2>1, <2>2, <2>3, IssueImplements DEF Promise!Next
<1>4. ASSUME NEW w \in Worker, Show(w)
      PROVE  Promise!Next
  <2> DEFINE g == job[w].grant
  <2>1. /\ g \in Grant /\ grant[g] \in Grants /\ grant[g].issued /\ ~grant[g].revoked
        /\ job[w].counted = grant[g].views + 1 /\ grant[g].views = shown[g]
        /\ grant[g].max # NoLimit => job[w].counted <= grant[g].max
    BY <1>4 DEF Show, Serving, IInv, TypeOK, JobsSound, JobSound, Issued,
       CountsSound, CounterIsTrue
  <2>2. /\ grant' = [grant EXCEPT ![g].views = job[w].counted]
        /\ shown' = [shown EXCEPT ![g] = @ + 1]
    BY <1>4 DEF Show
  <2>3. Phase[g] = "open"
    BY <2>1 DEF Phase
  <2>4. /\ grant'[g] = [grant[g] EXCEPT !.views = job[w].counted]
        /\ \A h \in Grant : h # g => grant'[h] = grant[h]
    BY <2>1, <2>2 DEF IInv, TypeOK
  <2>5. /\ grant'[g].issued = grant[g].issued /\ grant'[g].revoked = grant[g].revoked
        /\ grant'[g].max = grant[g].max
    BY <2>1, <2>4 DEF Grants
  <2>6. Phase' = Phase /\ Max' = Max
    <3>1. \A h \in Grant : /\ grant'[h].issued = grant[h].issued
                           /\ grant'[h].revoked = grant[h].revoked
                           /\ grant'[h].max = grant[h].max
      BY <2>4, <2>5
    <3> QED
      BY <3>1 DEF Phase, Max
  <2>7. grant[g].max # NoLimit => shown[g] < grant[g].max
    BY <2>1 DEF Grants
  <2>8. Promise!Show(g)
    BY <2>1, <2>2, <2>3, <2>6, <2>7 DEF Promise!Show, Max
  <2> QED
    BY <2>1, <2>8 DEF Promise!Next
<1>5. ASSUME NEW w \in Worker, Revoke(w)
      PROVE  Promise!Next \/ Same
  <2> DEFINE g == job[w].grant
  <2>1. g \in Grant /\ grant[g].issued /\ grant[g] \in Grants
    BY <1>5 DEF Revoke, Serving, IInv, TypeOK, JobsSound, JobSound, Issued
  <2>2. grant' = [grant EXCEPT ![g].revoked = TRUE] /\ UNCHANGED shown
    BY <1>5 DEF Revoke
  <2>3. /\ grant'[g] = [grant[g] EXCEPT !.revoked = TRUE]
        /\ \A h \in Grant : h # g => grant'[h] = grant[h]
    BY <2>1, <2>2 DEF IInv, TypeOK
  <2>4. grant'[g].issued /\ grant'[g].revoked /\ grant'[g].max = grant[g].max
    BY <2>1, <2>3 DEF Grants
  <2>5. Max' = Max
    BY <2>3, <2>4 DEF Max
  <2>6. Phase' = [Phase EXCEPT ![g] = "withdrawn"]
    BY <2>1, <2>3, <2>4 DEF Phase
  <2>7. CASE grant[g].revoked
    <3>1. Phase' = Phase
      BY <2>1, <2>6, <2>7 DEF Phase
    <3> QED
      BY <2>2, <2>5, <3>1 DEF Promise!vars, Max
  <2>8. CASE ~grant[g].revoked
    <3>1. Phase[g] = "open"
      BY <2>1, <2>8 DEF Phase
    <3>2. Promise!Withdraw(g)
      BY <2>2, <2>5, <2>6, <3>1 DEF Promise!Withdraw, Max
    <3> QED
      BY <2>1, <3>2 DEF Promise!Next
  <2> QED
    BY <2>7, <2>8
<1>6. ASSUME NEW g \in Grant, Expire(g)
      PROVE  Same
  <2>1. grant[g] \in Grants
    BY DEF IInv, TypeOK
  <2>2. /\ grant'[g] = [grant[g] EXCEPT !.expiry = "past"]
        /\ \A h \in Grant : h # g => grant'[h] = grant[h]
    BY <1>6 DEF Expire, IInv, TypeOK
  <2>3. /\ grant'[g].issued = grant[g].issued /\ grant'[g].revoked = grant[g].revoked
        /\ grant'[g].max = grant[g].max
    BY <2>1, <2>2 DEF Grants
  <2>4. Phase' = Phase /\ Max' = Max /\ UNCHANGED shown
    BY <1>6, <2>2, <2>3 DEF Phase, Max, Expire
  <2> QED
    BY <2>4 DEF Promise!vars, Max
<1>7. CASE UNCHANGED vars
  BY <1>1, <1>7 DEF vars
<1>8. ASSUME NEW w \in Worker,
             Reject(w) \/ IssueCount(w) \/ Count(w) \/ Abort(w)
      PROVE  Same
  BY <1>1, <1>8 DEF Reject, IssueCount, Count, Abort
<1>9. ASSUME NEW w \in Worker, HandlerStep(w) \/ Abort(w)
       PROVE  Promise!Next \/ Same
  BY <1>3, <1>4, <1>5, <1>8, <1>9 DEF HandlerStep
<1>10. CASE \E w \in Worker, u \in User, s \in Share : ReadForDecision(w, u, s)
  BY <1>1, <1>10 DEF ReadForDecision
<1>11. CASE \E w \in Worker, u \in User, v \in Version : ReadForView(w, u, v)
  BY <1>1, <1>11 DEF ReadForView
<1>12. CASE \E w \in Worker, u \in User, g \in Grant : ReadForRevoke(w, u, g)
  BY <1>1, <1>12 DEF ReadForRevoke
<1> QED
  BY <1>2, <1>6, <1>7, <1>9, <1>10, <1>11, <1>12 DEF Next

(* Whatever the interleaving of views, revocations and decisions, every    *)
(* grant keeps the abstract metered promise.                               *)
THEOREM Implements == Spec => MeteredPromise
<1>1. IInv /\ [Next]_vars => [Promise!Next]_(Promise!vars)
  BY NextImplements
<1> QED
  BY <1>1, InitImplements, Invariance, PTL DEF Spec, MeteredPromise, Promise!Spec
=============================================================================
