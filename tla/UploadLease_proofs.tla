------------------------- MODULE UploadLease_proofs -------------------------
(***************************************************************************)
(* Proofs about UploadLease, for every set of writers, timers and closes   *)
(* and every quiet period, longest wait and lease.  The argument: the row  *)
(* can only drop debt in Finish, under the token of the owner; LeaseInvariant *)
(* says that what the owner recorded when it claimed (the generation) and  *)
(* when it read the store (the snapshot) still bounds every mark.          *)
(***************************************************************************)
EXTENDS UploadLease, TLAPS

-----------------------------------------------------------------------------
(* Types.                                                                  *)

\* Attempts start from IdleAttempt, rows from EmptyRow: both are well typed.
LEMMA EmptyTypes ==
  /\ IdleAttempt \in Attempt
  /\ EmptyRow("active") \in Row /\ EmptyRow("absent") \in Row
BY DEF IdleAttempt, Attempt, EmptyRow, Row, MaybeNat

\* A mark keeps the row and the set of marks well typed.
LEMMA MarkTypes ==
  ASSUME TypeOK, NEW v \in Nat, MarkUploadOwed(v)
  PROVE  row' \in Row /\ marks' \in SUBSET Mark
<1>1. row.generation \in Nat /\ row.generation + 1 \in Nat
  BY DEF TypeOK, Row
<1>2. [version |-> v, at |-> now, generation |-> row.generation + 1] \in Mark
  BY <1>1 DEF TypeOK, Mark
<1>3. /\ Coalesce(row.firstOwedAt, now) \in MaybeNat
      /\ Coalesce(row.firstAfterClaimAt, now) \in MaybeNat
  BY DEF TypeOK, Row, MaybeNat, Coalesce
<1>4. row' \in Row
  <2> DEFINE after == IF row.leaseToken = None THEN row.firstAfterClaimAt
                      ELSE Coalesce(row.firstAfterClaimAt, now)
  <2>1. after \in MaybeNat /\ now \in MaybeNat
    BY <1>3 DEF TypeOK, Row, MaybeNat
  <2>2. row' = [row EXCEPT !.firstOwedAt = Coalesce(row.firstOwedAt, now),
                           !.latestWriteAt = now, !.firstAfterClaimAt = after,
                           !.generation = row.generation + 1]
    BY DEF MarkUploadOwed
  <2> HIDE DEF after
  <2>3. QED
    BY <1>1, <1>3, <2>1, <2>2 DEF TypeOK, Row
<1>5. QED
  BY <1>2, <1>4 DEF TypeOK, MarkUploadOwed

\* So does a claim, which also keeps the attempts well typed.
LEMMA ClaimTypes ==
  ASSUME TypeOK, NEW a \in Attempts, ClaimUpload(a)
  PROVE  row' \in Row /\ att' \in [Attempts -> Attempt] /\ claims' \in Nat
<1>1. row' \in Row /\ claims' \in Nat
  <2>1. claims' \in MaybeNat /\ claims' \in Nat /\ now + LEASE \in MaybeNat
    BY DurationsAreNaturals DEF TypeOK, ClaimUpload, MaybeNat
  <2>2. row' = [row EXCEPT !.leaseToken = claims', !.leaseExpiresAt = now + LEASE,
                           !.firstAfterClaimAt = None]
    BY DEF ClaimUpload
  <2>3. QED
    BY <2>1, <2>2 DEF TypeOK, Row, MaybeNat
<1>2. [IdleAttempt EXCEPT !.pc = "held", !.token = claims',
                          !.generation = row.generation] \in Attempt
  BY <1>1, EmptyTypes DEF TypeOK, Attempt, Row, MaybeNat
<1>3. QED
  BY <1>1, <1>2 DEF TypeOK, ClaimUpload

\* And so does the end of an attempt.
LEMMA FinishTypes ==
  ASSUME TypeOK, NEW a \in Attempts, FinishUpload(a)
  PROVE  row' \in Row
<1>1. \E blocked \in {0, 1}, first \in MaybeNat, latest \in MaybeNat :
        row' = [row EXCEPT !.leaseToken = None, !.leaseExpiresAt = None,
                           !.blocked = blocked, !.firstOwedAt = first,
                           !.latestWriteAt = latest, !.firstAfterClaimAt = None]
  <2> DEFINE success == att[a].outcome = "success"
             same == row.generation = att[a].generation
             blocked == IF success THEN 0
                        ELSE IF att[a].outcome = "blocked" THEN 1 ELSE row.blocked
             first == IF ~success THEN row.firstOwedAt
                      ELSE IF same THEN None
                      ELSE Coalesce(row.firstAfterClaimAt, row.firstOwedAt)
             latest == IF success /\ same THEN None ELSE row.latestWriteAt
  <2>1. blocked \in {0, 1} /\ first \in MaybeNat /\ latest \in MaybeNat
    BY DEF TypeOK, Row, MaybeNat, Coalesce
  <2>2. row' = [row EXCEPT !.leaseToken = None, !.leaseExpiresAt = None,
                           !.blocked = blocked, !.firstOwedAt = first,
                           !.latestWriteAt = latest, !.firstAfterClaimAt = None]
    BY DEF FinishUpload
  <2> HIDE DEF blocked, first, latest
  <2>3. QED
    BY <2>1, <2>2
<1>2. PICK blocked \in {0, 1}, first \in MaybeNat, latest \in MaybeNat :
        row' = [row EXCEPT !.leaseToken = None, !.leaseExpiresAt = None,
                           !.blocked = blocked, !.firstOwedAt = first,
                           !.latestWriteAt = latest, !.firstAfterClaimAt = None]
  BY <1>1
<1>3. row \in Row /\ None \in MaybeNat
  BY DEF TypeOK, MaybeNat
<1>4. QED
  BY <1>2, <1>3 DEF Row

\* The steps that move an attempt on, with a snapshot or with an outcome.
LEMMA AttemptTypes ==
  ASSUME TypeOK, NEW a \in Attempts, NEW n \in Nat,
         NEW outcome \in {"none", "success", "failed", "blocked"}
  PROVE  /\ [att EXCEPT ![a].pc = "sending", ![a].snapshot = n] \in [Attempts -> Attempt]
         /\ [att EXCEPT ![a].pc = "replaying", ![a].snapshot = n] \in [Attempts -> Attempt]
         /\ [att EXCEPT ![a].pc = "done", ![a].outcome = outcome] \in [Attempts -> Attempt]
<1>1. /\ [att[a] EXCEPT !.pc = "sending", !.snapshot = n] \in Attempt
      /\ [att[a] EXCEPT !.pc = "replaying", !.snapshot = n] \in Attempt
      /\ [att[a] EXCEPT !.pc = "done", !.outcome = outcome] \in Attempt
  BY DEF TypeOK, Attempt
<1>2. /\ [att EXCEPT ![a].pc = "sending", ![a].snapshot = n]
           = [att EXCEPT ![a] = [att[a] EXCEPT !.pc = "sending", !.snapshot = n]]
      /\ [att EXCEPT ![a].pc = "replaying", ![a].snapshot = n]
           = [att EXCEPT ![a] = [att[a] EXCEPT !.pc = "replaying", !.snapshot = n]]
      /\ [att EXCEPT ![a].pc = "done", ![a].outcome = outcome]
           = [att EXCEPT ![a] = [att[a] EXCEPT !.pc = "done", !.outcome = outcome]]
  OBVIOUS
<1>3. QED
  BY <1>1, <1>2 DEF TypeOK

\* Every step keeps every variable well typed.
LEMMA TypesPreserved == TypeOK /\ [Next]_vars => TypeOK'
<1> SUFFICES ASSUME TypeOK, [Next]_vars PROVE TypeOK'
  OBVIOUS
<1> USE DEF TypeOK
<1>1. CASE Tick
  BY <1>1 DEF Tick
<1>2. ASSUME NEW w \in Writers, WriterStep(w) PROVE TypeOK'
  <2>1. CASE Write(w)
    BY <2>1 DEF Write, MaybeNat
  <2>2. CASE MarkWrite(w)
    BY <2>2, MarkTypes DEF MarkWrite, MaybeNat
  <2>3. CASE DropMark(w)
    BY <2>3 DEF DropMark, MaybeNat
  <2>4. QED
    BY <1>2, <2>1, <2>2, <2>3 DEF WriterStep
<1>3. ASSUME NEW a \in Attempts, AttemptStep(a) PROVE TypeOK'
  <2>1. CASE OpenClose(a)
    BY <2>1, EmptyTypes DEF OpenClose, MoveTo, Attempt
  <2>2. CASE MarkClose(a)
    BY <2>2, EmptyTypes, MarkTypes DEF MarkClose, MoveTo, Attempt
  <2>3. CASE ClaimClose(a)
    BY <2>3, ClaimTypes DEF ClaimClose
  <2>4. CASE LeaveToHolder(a)
    BY <2>4, EmptyTypes DEF LeaveToHolder
  <2>5. CASE ClaimTimer(a)
    BY <2>5, ClaimTypes DEF ClaimTimer
  <2>6. CASE Renew(a)
    BY <2>6, DurationsAreNaturals DEF Renew, Row, Attempt, MaybeNat
  <2>7. CASE RenewThrows(a)
    BY <2>7 DEF RenewThrows, Attempt
  <2>8. CASE RegisterDashboard(a)
    BY <2>8 DEF RegisterDashboard
  <2>9. CASE Snapshot(a)
    BY <2>9, AttemptTypes DEF Snapshot
  <2>10. CASE Deliver(a)
    <3>1. delivered' \in Nat
      BY <2>10 DEF Deliver, Newest, Attempt
    <3>2. PICK outcome \in {"success", "failed"} :
            att' = [att EXCEPT ![a].pc = "done", ![a].outcome = outcome]
      BY <2>10 DEF Deliver
    <3>3. att' \in [Attempts -> Attempt]
      BY <3>2, AttemptTypes
    <3>4. QED
      BY <2>10, <3>1, <3>3 DEF Deliver
  <2>11. CASE StartReplay(a)
    BY <2>11, AttemptTypes DEF StartReplay
  <2>12. CASE EndReplay(a)
    <3>1. delivered' \in Nat /\ vouched' \in Nat
      BY <2>12 DEF EndReplay, Newest, Attempt
    <3>2. PICK outcome \in {"success", "failed"} :
            att' = [att EXCEPT ![a].pc = "done", ![a].outcome = outcome]
      BY <2>12 DEF EndReplay
    <3>3. att' \in [Attempts -> Attempt]
      BY <3>2, AttemptTypes
    <3>4. QED
      BY <2>12, <3>1, <3>3 DEF EndReplay
  <2>13. CASE SendFails(a)
    <3>1. PICK outcome \in {"failed", "blocked"} :
            att' = [att EXCEPT ![a].pc = "done", ![a].outcome = outcome]
      BY <2>13 DEF SendFails
    <3>2. att' \in [Attempts -> Attempt]
      BY <3>1, AttemptTypes
    <3>3. QED
      BY <2>13, <3>2 DEF SendFails
  <2>14. CASE Finish(a)
    BY <2>14, EmptyTypes, FinishTypes DEF Finish
  <2>15. CASE Crash(a)
    BY <2>15, EmptyTypes DEF Crash
  <2>16. QED
    BY <1>3, <2>1, <2>2, <2>3, <2>4, <2>5, <2>6, <2>7, <2>8, <2>9, <2>10,
       <2>11, <2>12, <2>13, <2>14, <2>15 DEF AttemptStep
<1>4. CASE RegistryStep
  BY <1>4, EmptyTypes DEF RegistryStep, Archive, Unarchive, Register, Unregister, Row
<1>5. CASE UNCHANGED vars
  BY <1>5 DEF vars
<1>6. QED
  BY <1>1, <1>2, <1>3, <1>4, <1>5 DEF Next

\* Type correctness: every reachable row, attempt and mark is well formed.
THEOREM TypeCorrect == Spec => []TypeOK
<1>1. Init => TypeOK
  BY EmptyTypes DEF Init, TypeOK, MaybeNat
<1>2. QED
  BY <1>1, TypesPreserved, PTL DEF Spec

-----------------------------------------------------------------------------
(* The inductive invariant, one lemma per statement of the row.            *)

\* What the steps that leave the row and its marks alone keep.
LEMMA RowUntouched ==
  ASSUME LeaseInvariant, TypeOK',
         UNCHANGED <<now, store, row, unmarked, claims, marks>>, delivered' >= delivered,
         vouched' >= vouched
  PROVE  NothingAhead' /\ DebtColumnsAgree' /\ DebtDatesFromOldestUnpaidMark'
<1>1. NothingAhead' /\ DebtColumnsAgree'
  BY DEF LeaseInvariant, NothingAhead, DebtColumnsAgree
<1>2. DebtDatesFromOldestUnpaidMark'
  BY DEF LeaseInvariant, TypeOK, Mark, DebtDatesFromOldestUnpaidMark
<1>3. QED
  BY <1>1, <1>2

\* An attempt that goes back to idle owns nothing; the others are as they were.
LEMMA AttemptReset ==
  ASSUME LeaseInvariant, TypeOK', NEW a \in Attempts,
         att' = [att EXCEPT ![a] = IdleAttempt],
         UNCHANGED <<now, store, row, unmarked, claims, delivered, vouched, marks>>
  PROVE  LeaseInvariant'
<1> USE DEF LeaseInvariant
<1>1. /\ att'[a] = IdleAttempt
      /\ \A b \in Attempts : b # a => att'[b] = att[b]
  BY DEF TypeOK
<1>2. NothingAhead' /\ DebtColumnsAgree' /\ DebtDatesFromOldestUnpaidMark'
  BY RowUntouched DEF TypeOK
<1>3. TokensAreFresh' /\ OutcomeIsLast' /\ AbsentRowIsEmpty'
  BY <1>1 DEF TokensAreFresh, OutcomeIsLast, IdleAttempt, AbsentRowIsEmpty
<1>4. OwnersKnow'
  BY <1>1 DEF OwnersKnow, Owns, OwnerKnows, IdleAttempt
<1>5. QED
  BY <1>2, <1>3, <1>4

\* markUploadOwed, for a write that the store has: the new mark is dated now and
\* bears a generation no owner has seen.  Attempts may move, short of sending.
LEMMA MarkKeeps ==
  ASSUME LeaseInvariant, TypeOK', NEW v \in Nat, v <= store, Active, MarkUploadOwed(v),
         UNCHANGED <<now, store, claims, delivered, vouched>>,
         \A w \in Writers : unmarked'[w] \in {unmarked[w], None},
         \A a \in Attempts : /\ att'[a].token = att[a].token
                             /\ att'[a].generation = att[a].generation
                             /\ att'[a].snapshot = att[a].snapshot
                             /\ att'[a].outcome = att[a].outcome
                             /\ \/ att'[a].pc = att[a].pc
                                \/ att'[a].pc = "owed" /\ att[a].outcome = "none"
  PROVE  LeaseInvariant'
<1> USE DEF LeaseInvariant
<1> DEFINE new == [version |-> v, at |-> now, generation |-> row.generation + 1]
<1>1. /\ row'.firstOwedAt = Coalesce(row.firstOwedAt, now)
      /\ row'.latestWriteAt = now
      /\ row'.firstAfterClaimAt = IF row.leaseToken = None THEN row.firstAfterClaimAt
                                  ELSE Coalesce(row.firstAfterClaimAt, now)
      /\ row'.generation = row.generation + 1
      /\ row'.leaseToken = row.leaseToken
      /\ row'.blocked = row.blocked /\ row'.status = row.status
  BY DEF MarkUploadOwed, TypeOK, Row
<1>2. marks' = marks \cup {new}
  BY DEF MarkUploadOwed
<1>3. /\ now \in Nat /\ store \in Nat /\ row.generation \in Nat /\ None \notin Int
      /\ row.firstOwedAt \in Nat \cup {None} /\ row.firstAfterClaimAt \in Nat \cup {None}
      /\ row.latestWriteAt \in Nat \cup {None}
  BY NoneIsNoNumber DEF TypeOK, Row, MaybeNat
<1>4. \A m \in marks : /\ m.version \in Nat /\ m.at \in Nat /\ m.generation \in Nat
  BY DEF TypeOK, Mark
<1>5. NothingAhead'
  <2>1. \A m \in marks' : m.version <= store' /\ m.generation <= row'.generation
    BY <1>1, <1>2, <1>3, <1>4 DEF NothingAhead
  <2>2. QED
    BY <1>1, <1>3, <2>1 DEF NothingAhead, Coalesce
<1>6. DebtColumnsAgree'
  BY <1>1, <1>3 DEF DebtColumnsAgree, NothingAhead, Coalesce
<1>7. TokensAreFresh' /\ OutcomeIsLast' /\ AbsentRowIsEmpty'
  BY <1>1 DEF TokensAreFresh, OutcomeIsLast, AbsentRowIsEmpty, Active
<1>8. OwnersKnow'
  <2> SUFFICES ASSUME NEW a \in Attempts, Owns(a)' PROVE OwnerKnows(a)'
    BY DEF OwnersKnow
  <2>1. Owns(a) /\ OwnerKnows(a)
    BY <1>1 DEF OwnersKnow, Owns
  <2>2. att[a].generation \in Nat
    BY DEF TypeOK, Attempt
  <2>3. (a \in Timers => row.blocked = 0)' /\ (att[a].generation <= row.generation)'
    BY <1>1, <1>3, <2>1, <2>2 DEF OwnerKnows
  <2>4. ASSUME NEW m \in marks', m.generation > att'[a].generation
        PROVE  row'.firstAfterClaimAt # None /\ row'.firstAfterClaimAt <= m.at
    <3>1. CASE m = new
      BY <1>1, <1>3, <2>1, <3>1 DEF Owns, Coalesce, NothingAhead
    <3>2. CASE m \in marks
      BY <1>1, <1>3, <2>1, <2>4, <3>2 DEF Owns, OwnerKnows, Coalesce
    <3>3. QED
      BY <1>2, <3>1, <3>2
  <2>5. ASSUME NEW m \in marks',
               att'[a].pc \in {"sending", "replaying"} \/ att'[a].outcome = "success",
               m.generation <= att'[a].generation
        PROVE  m.version <= att'[a].snapshot
    <3>1. m # new
      BY <1>3, <2>1, <2>2, <2>5 DEF OwnerKnows
    <3>2. QED
      BY <1>2, <2>1, <2>5, <3>1 DEF OwnerKnows
  <2>6. (att[a].outcome = "success" =>
           att[a].snapshot <= delivered \/ att[a].snapshot <= vouched)'
    BY <2>1 DEF OwnerKnows
  <2>7. QED
    BY <2>3, <2>4, <2>5, <2>6 DEF OwnerKnows
<1>9. DebtDatesFromOldestUnpaidMark'
  <2> SUFFICES ASSUME NEW m \in marks'
               PROVE  \/ m.version <= delivered' \/ m.version <= vouched'
                      \/ row'.firstOwedAt # None /\ row'.firstOwedAt <= m.at
    BY DEF DebtDatesFromOldestUnpaidMark
  <2>1. CASE m = new
    BY <1>1, <1>3, <2>1 DEF Coalesce, NothingAhead
  <2>2. CASE m \in marks
    BY <1>1, <1>3, <2>2 DEF Coalesce, DebtDatesFromOldestUnpaidMark
  <2>3. QED
    BY <1>2, <2>1, <2>2
<1>10. QED
  BY <1>5, <1>6, <1>7, <1>8, <1>9

\* claimUpload: the fresh token makes the claimant the only owner, and it has
\* read the generation of every mark the row took so far.
LEMMA ClaimKeeps ==
  ASSUME LeaseInvariant, TypeOK', NEW a \in Attempts, ClaimUpload(a),
         UNCHANGED <<now, store, unmarked, delivered, vouched, marks>>
  PROVE  LeaseInvariant'
<1> USE DEF LeaseInvariant
<1>1. /\ row'.firstOwedAt = row.firstOwedAt
      /\ row'.latestWriteAt = row.latestWriteAt
      /\ row'.firstAfterClaimAt = None
      /\ row'.generation = row.generation
      /\ row'.leaseToken = claims'
      /\ row'.blocked = row.blocked
      /\ row'.status = "active"
      /\ claims' = claims + 1
  BY DEF ClaimUpload, TypeOK, Row, Active
<1>2. /\ att'[a].token = claims' /\ att'[a].pc = "held" /\ att'[a].outcome = "none"
      /\ att'[a].generation = row.generation
      /\ \A b \in Attempts : b # a => att'[b] = att[b]
  BY DEF ClaimUpload, TypeOK, IdleAttempt
<1>3. claims \in Nat /\ None \notin Int /\ row.generation \in Nat
  BY NoneIsNoNumber DEF TypeOK, Row
<1>4. \A b \in Attempts : att[b].token \in Nat \cup {None}
  BY DEF TypeOK, Attempt, MaybeNat
<1>5. NothingAhead' /\ DebtColumnsAgree' /\ DebtDatesFromOldestUnpaidMark'
  BY <1>1 DEF NothingAhead, DebtColumnsAgree, DebtDatesFromOldestUnpaidMark
<1>6. TokensAreFresh' /\ OutcomeIsLast' /\ AbsentRowIsEmpty'
  BY <1>1, <1>2, <1>3, <1>4 DEF TokensAreFresh, OutcomeIsLast, AbsentRowIsEmpty
<1>7. OwnersKnow'
  <2> SUFFICES ASSUME NEW b \in Attempts, Owns(b)' PROVE OwnerKnows(b)'
    BY DEF OwnersKnow
  <2>1. b = a
    BY <1>1, <1>2, <1>3, <1>4 DEF Owns, TokensAreFresh
  <2>2. a \in Timers => row.blocked = 0
    BY AttemptKindsDiffer DEF ClaimUpload, Due
  <2>3. \A m \in marks : m.generation \in Nat /\ m.generation <= row.generation
    BY DEF TypeOK, Mark, NothingAhead
  <2>4. QED
    BY <1>1, <1>2, <1>3, <2>1, <2>2, <2>3 DEF OwnerKnows
<1>8. QED
  BY <1>5, <1>6, <1>7

\* finishUpload by the owner: after a success, every mark of its generation is
\* in the snapshot it delivered or answered for, and firstAfterClaimAt dates the later ones.
LEMMA FinishKeeps ==
  ASSUME LeaseInvariant, TypeOK', NEW a \in Attempts, HoldsLease(a), FinishUpload(a),
         att' = [att EXCEPT ![a] = IdleAttempt],
         UNCHANGED <<now, store, unmarked, claims, delivered, vouched, marks>>
  PROVE  LeaseInvariant'
<1> USE DEF LeaseInvariant
<1> DEFINE success == att[a].outcome = "success"
           same == row.generation = att[a].generation
<1>1. /\ row'.firstOwedAt = IF ~success THEN row.firstOwedAt
                            ELSE IF same THEN None
                            ELSE Coalesce(row.firstAfterClaimAt, row.firstOwedAt)
      /\ row'.latestWriteAt = IF success /\ same THEN None ELSE row.latestWriteAt
      /\ row'.firstAfterClaimAt = None
      /\ row'.generation = row.generation
      /\ row'.leaseToken = None
      /\ row'.status = row.status
  BY DEF FinishUpload, TypeOK, Row
<1>2. /\ att'[a] = IdleAttempt
      /\ \A b \in Attempts : b # a => att'[b] = att[b]
  BY DEF TypeOK
<1>3. Owns(a) /\ OwnerKnows(a)
  BY DEF HoldsLease, Owns, OwnersKnow
<1>4. /\ row.generation \in Nat /\ att[a].generation \in Nat /\ att[a].snapshot \in Nat
      /\ delivered \in Nat /\ vouched \in Nat
      /\ \A m \in marks : m.version \in Nat /\ m.generation \in Nat
  BY DEF TypeOK, Row, Attempt, Mark
<1>5. NothingAhead' /\ DebtColumnsAgree'
  BY <1>1 DEF NothingAhead, DebtColumnsAgree, Coalesce
<1>6. TokensAreFresh' /\ OutcomeIsLast' /\ OwnersKnow'
  BY <1>1, <1>2 DEF TokensAreFresh, OutcomeIsLast, OwnersKnow, Owns, IdleAttempt
<1>7. AbsentRowIsEmpty'
  BY <1>1, <1>3 DEF AbsentRowIsEmpty, Owns, EmptyRow
<1>8. DebtDatesFromOldestUnpaidMark'
  <2> SUFFICES ASSUME NEW m \in marks
               PROVE  \/ m.version <= delivered \/ m.version <= vouched
                      \/ row'.firstOwedAt # None /\ row'.firstOwedAt <= m.at
    BY DEF DebtDatesFromOldestUnpaidMark
  <2>1. CASE ~success
    BY <1>1, <2>1 DEF DebtDatesFromOldestUnpaidMark
  <2>2. CASE success /\ m.generation <= att[a].generation
    BY <1>3, <1>4, <2>2 DEF OwnerKnows
  <2>3. CASE success /\ m.generation > att[a].generation
    <3>1. ~same
      BY <1>4, <2>3 DEF NothingAhead
    <3>2. row.firstAfterClaimAt # None /\ row.firstAfterClaimAt <= m.at
      BY <1>3, <2>3 DEF OwnerKnows
    <3>3. QED
      BY <1>1, <2>3, <3>1, <3>2 DEF Coalesce
  <2>4. QED
    BY <1>4, <2>1, <2>2, <2>3
<1>9. QED
  BY <1>5, <1>6, <1>7, <1>8

-----------------------------------------------------------------------------
(* Every step preserves the invariant.                                     *)

\* The steps of a tool call: only the mark touches the row.
LEMMA WriterKeeps ==
  ASSUME LeaseInvariant, TypeOK', NEW w \in Writers, WriterStep(w)
  PROVE  LeaseInvariant'
<1> USE DEF LeaseInvariant
<1>1. /\ store \in Nat /\ now \in Nat /\ None \notin Int
      /\ \A u \in Writers : unmarked[u] \in Nat \cup {None}
      /\ \A m \in marks : m.version \in Nat
  BY NoneIsNoNumber DEF TypeOK, Mark, MaybeNat
<1>2. CASE Write(w)
  <2>1. store' = store + 1 /\ unmarked' = [unmarked EXCEPT ![w] = store']
        /\ UNCHANGED <<now, row, att, claims, delivered, vouched, marks>>
    BY <1>2 DEF Write
  <2>2. NothingAhead'
    BY <1>1, <2>1 DEF NothingAhead, TypeOK
  <2>3. /\ DebtColumnsAgree' /\ TokensAreFresh' /\ OutcomeIsLast' /\ OwnersKnow'
        /\ DebtDatesFromOldestUnpaidMark' /\ AbsentRowIsEmpty'
    BY <2>1 DEF AbsentRowIsEmpty, DebtColumnsAgree, TokensAreFresh, OutcomeIsLast, OwnersKnow, Owns,
                OwnerKnows, DebtDatesFromOldestUnpaidMark
  <2>4. QED
    BY <2>2, <2>3
<1>3. CASE DropMark(w) \/ (MarkWrite(w) /\ ~(registered /\ Active))
  <2>1. /\ \A u \in Writers : unmarked'[u] \in {unmarked[u], None}
        /\ UNCHANGED <<now, store, row, att, claims, delivered, vouched, marks>>
    BY <1>3 DEF DropMark, MarkWrite, TypeOK
  <2>2. NothingAhead'
    BY <2>1 DEF NothingAhead
  <2>3. /\ DebtColumnsAgree' /\ TokensAreFresh' /\ OutcomeIsLast' /\ OwnersKnow'
        /\ DebtDatesFromOldestUnpaidMark' /\ AbsentRowIsEmpty'
    BY <2>1 DEF AbsentRowIsEmpty, DebtColumnsAgree, TokensAreFresh, OutcomeIsLast, OwnersKnow, Owns,
                OwnerKnows, DebtDatesFromOldestUnpaidMark
  <2>4. QED
    BY <2>2, <2>3
<1>4. CASE MarkWrite(w) /\ registered /\ Active
  <2>1. /\ unmarked[w] \in Nat /\ unmarked[w] <= store
        /\ MarkUploadOwed(unmarked[w])
        /\ \A u \in Writers : unmarked'[u] \in {unmarked[u], None}
        /\ UNCHANGED <<now, store, att, claims, delivered, vouched>>
    BY <1>1, <1>4 DEF MarkWrite, NothingAhead, TypeOK
  <2>2. QED
    BY <1>4, <2>1, MarkKeeps
<1>5. QED
  BY <1>2, <1>3, <1>4 DEF WriterStep

\* The steps of an attempt.
LEMMA AttemptKeeps ==
  ASSUME LeaseInvariant, TypeOK', NEW a \in Attempts, AttemptStep(a)
  PROVE  LeaseInvariant'
<1> USE DEF LeaseInvariant
<1>1. /\ store \in Nat /\ now \in Nat /\ None \notin Int
      /\ delivered \in Nat /\ vouched \in Nat
      /\ \A b \in Attempts : att[b].token \in Nat \cup {None} /\ att[b].snapshot \in Nat
                            /\ att[b].generation \in Nat
      /\ \A m \in marks : m.version \in Nat /\ m.version <= store
  BY NoneIsNoNumber DEF TypeOK, Mark, Attempt, MaybeNat, NothingAhead
<1>2. CASE OpenClose(a)
  <2>1. /\ att'[a] = [att[a] EXCEPT !.pc = "opened"] /\ att[a].outcome = "none"
        /\ \A b \in Attempts : b # a => att'[b] = att[b]
        /\ UNCHANGED <<now, store, unmarked, claims, delivered, vouched, marks>>
    BY <1>2 DEF OpenClose, MoveTo, TypeOK, OutcomeIsLast
  <2>2. /\ att'[a].token = att[a].token /\ att'[a].outcome = "none"
        /\ att'[a].generation = att[a].generation /\ att'[a].pc = "opened"
    BY <2>1 DEF TypeOK, Attempt
  <2>3. CASE row.status = "absent"
    <3>1. row' = EmptyRow("active")
      BY <1>2, <2>3 DEF OpenClose
    <3>2. row.leaseToken = None /\ marks = {}
      BY <2>3 DEF AbsentRowIsEmpty, EmptyRow
    <3>3. QED
      BY <2>1, <2>2, <3>1, <3>2, <1>1
      DEF NothingAhead, DebtColumnsAgree, TokensAreFresh, OutcomeIsLast, OwnersKnow,
          Owns, DebtDatesFromOldestUnpaidMark, EmptyRow, AbsentRowIsEmpty
  <2>4. CASE row.status # "absent"
    <3>1. UNCHANGED row
      BY <1>2, <2>4 DEF OpenClose
    <3>2. NothingAhead' /\ DebtColumnsAgree' /\ DebtDatesFromOldestUnpaidMark'
      BY <2>1, <3>1, <1>1, RowUntouched
    <3>3. TokensAreFresh' /\ OutcomeIsLast' /\ AbsentRowIsEmpty'
      BY <2>1, <2>2, <3>1 DEF TokensAreFresh, OutcomeIsLast, AbsentRowIsEmpty
    <3>4. ASSUME NEW b \in Attempts, Owns(b)' PROVE OwnerKnows(b)'
      <4>1. Owns(b) /\ OwnerKnows(b)
        BY <2>1, <2>2, <3>1, <3>4 DEF OwnersKnow, Owns
      <4>2. CASE b = a
        BY <2>1, <2>2, <3>1, <4>1, <4>2 DEF OwnerKnows
      <4>3. CASE b # a
        BY <2>1, <3>1, <4>1, <4>3 DEF OwnerKnows
      <4>4. QED
        BY <4>2, <4>3
    <3>5. QED
      BY <3>2, <3>3, <3>4 DEF OwnersKnow
  <2>5. QED
    BY <2>3, <2>4
<1>3. CASE MarkClose(a)
  <2>1. CASE Active
    <3>1. /\ MarkUploadOwed(store) /\ att' = [att EXCEPT ![a].pc = "owed"]
          /\ att[a].outcome = "none" /\ UNCHANGED <<now, store, unmarked, claims, delivered, vouched>>
      BY <1>3, <2>1 DEF MarkClose, MoveTo, OutcomeIsLast
    <3>2. \A b \in Attempts :
            /\ att'[b].token = att[b].token /\ att'[b].generation = att[b].generation
            /\ att'[b].snapshot = att[b].snapshot /\ att'[b].outcome = att[b].outcome
            /\ att'[b].pc = att[b].pc \/ (att'[b].pc = "owed" /\ att[b].outcome = "none")
      BY <3>1 DEF TypeOK, Attempt
    <3>3. QED
      BY <1>1, <2>1, <3>1, <3>2, MarkKeeps
  <2>2. CASE ~Active
    BY <1>3, <2>2, AttemptReset DEF MarkClose
  <2>3. QED
    BY <2>1, <2>2
<1>4. CASE ClaimClose(a) \/ ClaimTimer(a)
  BY <1>4, ClaimKeeps DEF ClaimClose, ClaimTimer
<1>5. CASE LeaveToHolder(a) \/ Crash(a)
  BY <1>5, AttemptReset DEF LeaveToHolder, Crash
<1>6. CASE Renew(a) \/ RenewThrows(a)
  <2>1. /\ \A b \in Attempts :
            /\ att'[b].token = att[b].token /\ att'[b].generation = att[b].generation
            /\ att'[b].snapshot = att[b].snapshot /\ att'[b].outcome = att[b].outcome
            /\ att'[b].pc = att[b].pc
        /\ row'.firstOwedAt = row.firstOwedAt /\ row'.latestWriteAt = row.latestWriteAt
        /\ row'.firstAfterClaimAt = row.firstAfterClaimAt
        /\ row'.generation = row.generation /\ row'.leaseToken = row.leaseToken
        /\ row'.blocked = row.blocked /\ row'.status = row.status
        /\ row' = row \/ row.status = "active"
        /\ UNCHANGED <<now, store, unmarked, claims, delivered, vouched, marks>>
    BY <1>6 DEF Renew, RenewThrows, TypeOK, Attempt, Row, Active
  <2>2. NothingAhead' /\ DebtColumnsAgree' /\ DebtDatesFromOldestUnpaidMark'
    BY <2>1 DEF NothingAhead, DebtColumnsAgree, DebtDatesFromOldestUnpaidMark
  <2>3. TokensAreFresh' /\ OutcomeIsLast' /\ AbsentRowIsEmpty'
    BY <2>1 DEF TokensAreFresh, OutcomeIsLast, AbsentRowIsEmpty
  <2>4. OwnersKnow'
    BY <2>1 DEF OwnersKnow, Owns, OwnerKnows
  <2>5. QED
    BY <2>2, <2>3, <2>4
<1>7. CASE RegisterDashboard(a)
  BY <1>7 DEF RegisterDashboard, NothingAhead, DebtColumnsAgree, TokensAreFresh,
    OutcomeIsLast, OwnersKnow, Owns, OwnerKnows, DebtDatesFromOldestUnpaidMark,
    AbsentRowIsEmpty
<1>8. CASE Snapshot(a) \/ Deliver(a) \/ StartReplay(a) \/ EndReplay(a) \/ SendFails(a)
  <2>1. /\ \A b \in Attempts : b # a => att'[b] = att[b]
        /\ att'[a].token = att[a].token /\ att'[a].generation = att[a].generation
        /\ UNCHANGED <<now, store, row, unmarked, claims, marks>>
        /\ delivered' >= delivered /\ delivered' \in Nat
        /\ vouched' >= vouched /\ vouched' \in Nat
    BY <1>1, <1>8 DEF Snapshot, Deliver, StartReplay, EndReplay, SendFails, Newest, TypeOK,
      Attempt
  <2>2. NothingAhead' /\ DebtColumnsAgree' /\ DebtDatesFromOldestUnpaidMark'
    BY <2>1, RowUntouched
  <2>3. OutcomeIsLast'
    BY <1>8, <2>1 DEF Snapshot, Deliver, StartReplay, EndReplay, SendFails, TypeOK, Attempt, OutcomeIsLast
  <2>4. TokensAreFresh' /\ AbsentRowIsEmpty'
    BY <2>1 DEF TokensAreFresh, AbsentRowIsEmpty
  <2>5. ASSUME Owns(a)' PROVE OwnerKnows(a)'
    <3>1. OwnerKnows(a)
      BY <2>1, <2>5 DEF OwnersKnow, Owns
    <3>2. CASE Snapshot(a) \/ StartReplay(a)
      <4>1. att'[a].snapshot = store /\ att'[a].outcome = "none" /\ delivered' = delivered
        BY <3>2 DEF Snapshot, StartReplay, TypeOK, Attempt, OutcomeIsLast
      <4>2. QED
        BY <1>1, <2>1, <3>1, <4>1 DEF OwnerKnows
    <3>3. CASE Deliver(a) \/ EndReplay(a)
      <4>1. att'[a].snapshot = att[a].snapshot /\ att[a].pc \in {"sending", "replaying"}
        BY <3>3 DEF Deliver, EndReplay, TypeOK, Attempt
      <4>2. att'[a].outcome = "success" =>
              att[a].snapshot <= delivered' \/ att[a].snapshot <= vouched'
        <5>1. CASE Deliver(a)
          BY <1>1, <5>1 DEF Deliver, Newest
        <5>2. CASE EndReplay(a)
          BY <1>1, <5>2 DEF EndReplay, Newest, TypeOK, Attempt
        <5>3. QED
          BY <3>3, <5>1, <5>2
      <4>3. QED
        BY <1>1, <2>1, <3>1, <4>1, <4>2 DEF OwnerKnows
    <3>4. CASE SendFails(a)
      <4>1. att'[a].outcome # "success" /\ att'[a].pc = "done"
        BY <3>4 DEF SendFails, TypeOK, Attempt
      <4>2. QED
        BY <2>1, <3>1, <4>1 DEF OwnerKnows
    <3>5. QED
      BY <1>8, <3>2, <3>3, <3>4
  <2>6. ASSUME NEW b \in Attempts, b # a, Owns(b)' PROVE OwnerKnows(b)'
    <3>1. OwnerKnows(b)
      BY <2>1, <2>6 DEF OwnersKnow, Owns
    <3>2. QED
      BY <1>1, <2>1, <2>6, <3>1 DEF OwnerKnows
  <2>7. QED
    BY <2>2, <2>3, <2>4, <2>5, <2>6 DEF OwnersKnow
<1>9. CASE Finish(a)
  <2>1. CASE att[a].lease = "kept" /\ HoldsLease(a)
    BY <1>9, <2>1, FinishKeeps DEF Finish
  <2>2. CASE ~(att[a].lease = "kept" /\ HoldsLease(a))
    BY <1>9, <2>2, AttemptReset DEF Finish
  <2>3. QED
    BY <2>1, <2>2
<1>10. QED
  BY <1>2, <1>3, <1>4, <1>5, <1>6, <1>7, <1>8, <1>9 DEF AttemptStep

\* The registry's own operations: they move the status, or empty the row.
LEMMA RegistryKeeps ==
  ASSUME LeaseInvariant, TypeOK', RegistryStep
  PROVE  LeaseInvariant'
<1> USE DEF LeaseInvariant
<1>1. UNCHANGED <<now, store, unmarked, att, claims, delivered, vouched>>
  BY DEF RegistryStep, Archive, Unarchive, Register, Unregister
<1>2. CASE row.status # "absent" /\ ~Unregister
  <2>1. /\ row'.firstOwedAt = row.firstOwedAt /\ row'.latestWriteAt = row.latestWriteAt
        /\ row'.firstAfterClaimAt = row.firstAfterClaimAt
        /\ row'.generation = row.generation /\ row'.leaseToken = row.leaseToken
        /\ row'.blocked = row.blocked /\ row'.status # "absent"
        /\ UNCHANGED marks
    BY <1>2 DEF RegistryStep, Archive, Unarchive, Register, TypeOK, Row
  <2>2. QED
    BY <1>1, <2>1 DEF NothingAhead, DebtColumnsAgree, TokensAreFresh, OutcomeIsLast,
      OwnersKnow, Owns, OwnerKnows, DebtDatesFromOldestUnpaidMark, AbsentRowIsEmpty
<1>3. CASE row.status = "absent" \/ Unregister
  <2>1. (row' = EmptyRow("active") \/ row' = EmptyRow("absent")) /\ marks' = {}
    BY <1>3 DEF RegistryStep, Archive, Unarchive, Register, Unregister, Active,
                AbsentRowIsEmpty
  <2>2. QED
    BY <1>1, <2>1 DEF EmptyRow, NothingAhead, DebtColumnsAgree, TokensAreFresh,
      OutcomeIsLast, OwnersKnow, Owns, DebtDatesFromOldestUnpaidMark, AbsentRowIsEmpty
<1>4. QED
  BY <1>2, <1>3

LEMMA InvariantPreserved == LeaseInvariant /\ [Next]_vars => LeaseInvariant'
<1> SUFFICES ASSUME LeaseInvariant, [Next]_vars PROVE LeaseInvariant'
  OBVIOUS
<1>1. TypeOK'
  BY TypesPreserved DEF LeaseInvariant
<1>2. CASE Tick
  <2>1. now' = now + 1 /\ UNCHANGED <<store, row, unmarked, att, claims, delivered, vouched, marks>>
    BY <1>2 DEF Tick
  <2>2. NothingAhead'
    BY <2>1, NoneIsNoNumber DEF LeaseInvariant, NothingAhead, TypeOK, Row, MaybeNat
  <2>3. QED
    BY <1>1, <2>1, <2>2 DEF LeaseInvariant, DebtColumnsAgree, TokensAreFresh,
      OutcomeIsLast, OwnersKnow, Owns, OwnerKnows, DebtDatesFromOldestUnpaidMark,
      AbsentRowIsEmpty
<1>3. CASE UNCHANGED vars
  BY <1>1, <1>3 DEF vars, LeaseInvariant, NothingAhead, DebtColumnsAgree,
    TokensAreFresh, OutcomeIsLast, OwnersKnow, Owns, OwnerKnows,
    DebtDatesFromOldestUnpaidMark, AbsentRowIsEmpty
<1>4. QED
  BY <1>1, <1>2, <1>3, WriterKeeps, AttemptKeeps, RegistryKeeps DEF Next

\* LeaseInvariant holds in every reachable state.
THEOREM LeaseInvariantHolds == Spec => []LeaseInvariant
<1>1. Init => LeaseInvariant
  <2> SUFFICES ASSUME Init PROVE LeaseInvariant
    OBVIOUS
  <2>1. TypeOK
    BY EmptyTypes DEF Init, TypeOK, MaybeNat
  <2>2. QED
    BY <2>1 DEF Init, LeaseInvariant, EmptyRow, IdleAttempt, NothingAhead,
      DebtColumnsAgree, TokensAreFresh, OutcomeIsLast, OwnersKnow, Owns,
      DebtDatesFromOldestUnpaidMark, AbsentRowIsEmpty
<1>2. QED
  BY <1>1, InvariantPreserved, PTL DEF Spec

-----------------------------------------------------------------------------
(* What follows from it.                                                   *)

\* Every mark the row took is delivered, or answered for by an event replay, or the
\* row owes an upload since a time no later than that mark, in every state of every behaviour.
THEOREM DebtIsDatedByItsOldestMark == Spec => []DebtDatesFromOldestUnpaidMark
BY LeaseInvariantHolds, PTL DEF LeaseInvariant

\* The columns of a debt come and go together.
THEOREM DebtIsWhole == Spec => []DebtColumnsAgree
BY LeaseInvariantHolds, PTL DEF LeaseInvariant

\* A mark and a claim leave the pause of the automatic uploads alone.
LEMMA BlockedUntouched ==
  ASSUME TypeOK
  PROVE  /\ \A v : MarkUploadOwed(v) => row'.blocked = row.blocked
         /\ \A a : ClaimUpload(a) => row'.blocked = row.blocked
<1>1. ASSUME NEW v, MarkUploadOwed(v) PROVE row'.blocked = row.blocked
  BY <1>1 DEF MarkUploadOwed, TypeOK, Row
<1>2. ASSUME NEW a, ClaimUpload(a) PROVE row'.blocked = row.blocked
  BY <1>2 DEF ClaimUpload, TypeOK, Row
<1>3. QED
  BY <1>1, <1>2

\* No step but the successful end of an explicit close, or the removal of the
\* row, ends the pause of the automatic uploads.
THEOREM BackoffIsClearedOnlyByClose == Spec => BackoffClearedOnlyByClose
<1> DEFINE Cleared == row.blocked = 1 /\ row'.blocked = 0 =>
                        \/ \E a \in Closes : Finish(a) /\ att[a].outcome = "success"
                        \/ row'.status = "absent"
<1>1. LeaseInvariant /\ [Next]_vars => [Cleared]_vars
  <2> SUFFICES ASSUME LeaseInvariant, Next, row.blocked = 1, row'.blocked = 0,
                      row'.status # "absent"
               PROVE  \E a \in Closes : Finish(a) /\ att[a].outcome = "success"
    BY DEF vars
  <2> USE DEF LeaseInvariant
  <2>1. ASSUME NEW w \in Writers, WriterStep(w) PROVE row'.blocked = row.blocked
    BY <2>1 DEF WriterStep, Write, MarkWrite, DropMark, MarkUploadOwed, TypeOK, Row
  <2>2. CASE RegistryStep
    <3>1. row.status # "absent"
      BY DEF AbsentRowIsEmpty, EmptyRow
    <3>2. row'.blocked = row.blocked \/ row' = EmptyRow("absent")
      BY <2>2, <3>1 DEF RegistryStep, Archive, Unarchive, Register, Unregister, TypeOK, Row
    <3>3. QED
      BY <3>2 DEF EmptyRow
  <2>3. ASSUME NEW a \in Attempts, AttemptStep(a)
        PROVE  a \in Closes /\ Finish(a) /\ att[a].outcome = "success"
    <3>1. row.status # "absent"
      BY DEF AbsentRowIsEmpty, EmptyRow
    <3>2. ~OpenClose(a)
      BY <3>1 DEF OpenClose
    <3>3. ~MarkClose(a)
      BY BlockedUntouched DEF MarkClose
    <3>4. ~ClaimClose(a) /\ ~ClaimTimer(a)
      BY BlockedUntouched DEF ClaimClose, ClaimTimer
    <3>5. ~Renew(a) /\ ~RenewThrows(a)
      BY DEF Renew, RenewThrows, TypeOK, Row
    <3>6. /\ ~LeaveToHolder(a) /\ ~RegisterDashboard(a) /\ ~Snapshot(a)
          /\ ~Deliver(a) /\ ~StartReplay(a) /\ ~EndReplay(a) /\ ~SendFails(a) /\ ~Crash(a)
      BY DEF LeaveToHolder, RegisterDashboard, Snapshot, Deliver, StartReplay, EndReplay,
        SendFails, Crash
    <3>7. Finish(a)
      BY <2>3, <3>2, <3>3, <3>4, <3>5, <3>6 DEF AttemptStep
    <3>8. HoldsLease(a) /\ FinishUpload(a)
      BY <3>7 DEF Finish
    <3>9. att[a].outcome = "success"
      BY <3>8 DEF FinishUpload, TypeOK, Row
    <3>10. a \notin Timers
      BY <3>8 DEF HoldsLease, OwnersKnow, Owns, OwnerKnows
    <3>11. QED
      BY <3>7, <3>9, <3>10 DEF Attempts
  <2>4. ~Tick
    BY DEF Tick
  <2>5. QED
    BY <2>1, <2>2, <2>3, <2>4 DEF Next
<1>2. QED
  BY <1>1, LeaseInvariantHolds, PTL DEF Spec, BackoffClearedOnlyByClose

\* Only the attempt of the latest claim changes the row when it ends.
THEOREM OvertakenAttemptsChangeNothing == Spec => OnlyLatestClaimCommits
<1>1. LeaseInvariant /\ [Next]_vars =>
        [\A a \in Attempts : Finish(a) /\ row' # row => att[a].token = claims]_vars
  BY DEF LeaseInvariant, TokensAreFresh, Finish, HoldsLease
<1>2. QED
  BY <1>1, LeaseInvariantHolds, PTL DEF Spec, OnlyLatestClaimCommits

-----------------------------------------------------------------------------
(* The row implements the debt of UploadDebt.                              *)

\* A mark is a promise recorded.
LEMMA MarkRecords ==
  ASSUME TypeOK, NEW v, MarkUploadOwed(v), UNCHANGED <<delivered, vouched>>
  PROVE  Debt!Record
<1> DEFINE new == [version |-> v, at |-> now, generation |-> row.generation + 1]
<1>1. marks' = marks \cup {new} /\ new.at = now /\ new \in marks'
  BY DEF MarkUploadOwed
<1>2. row'.firstOwedAt = IF row.firstOwedAt = None THEN now ELSE row.firstOwedAt
  BY DEF TypeOK, Row, MarkUploadOwed, Coalesce
<1> HIDE DEF new
<1>3. QED
  BY <1>1, <1>2 DEF Debt!Record

\* The end of an attempt that owns the lease settles promises, or leaves them.
LEMMA FinishSettles ==
  ASSUME LeaseInvariant, LeaseInvariant', NEW a \in Attempts, FinishUpload(a),
         UNCHANGED <<delivered, vouched, marks>>
  PROVE  Debt!Settle \/ UNCHANGED Debt!debtVars
<1> USE DEF LeaseInvariant
<1>1. row'.firstOwedAt \in {row.firstOwedAt, row.firstAfterClaimAt, None}
  BY DEF FinishUpload, Coalesce, TypeOK, Row
<1>2. Debt!KeptUntil(row'.firstOwedAt)
  BY DEF DebtDatesFromOldestUnpaidMark, Debt!KeptUntil
<1>3. \/ row'.firstOwedAt = row.firstOwedAt
      \/ /\ row.firstOwedAt # None
         /\ row'.firstOwedAt # None => row.firstOwedAt <= row'.firstOwedAt
  <2>1. CASE row.firstOwedAt = None
    BY <1>1, <2>1 DEF DebtColumnsAgree
  <2>2. CASE row.firstOwedAt # None
    BY <1>1, <2>2 DEF DebtColumnsAgree, TypeOK, Row, MaybeNat
  <2>3. QED
    BY <2>1, <2>2
<1>4. QED
  BY <1>2, <1>3 DEF Debt!Settle, Debt!debtVars

\* Every step of the processes is a step of the debt, or leaves it alone.
LEMMA StepImplementsDebt ==
  LeaseInvariant /\ LeaseInvariant' /\ [Next]_vars => [Debt!Next]_(Debt!debtVars)
<1> SUFFICES ASSUME LeaseInvariant, LeaseInvariant', [Next]_vars
             PROVE  Debt!Next \/ UNCHANGED Debt!debtVars
  OBVIOUS
<1> USE DEF LeaseInvariant
<1>1. ASSUME NEW w \in Writers, WriterStep(w) PROVE Debt!Next \/ UNCHANGED Debt!debtVars
  BY <1>1, MarkRecords DEF WriterStep, Write, MarkWrite, DropMark, Debt!Next, Debt!debtVars
<1>2. ASSUME NEW a \in Attempts, AttemptStep(a)
      PROVE  Debt!Next \/ UNCHANGED Debt!debtVars
  <2>1. CASE MarkClose(a)
    BY <2>1, MarkRecords DEF MarkClose, Debt!Next, Debt!debtVars
  <2>2. CASE Finish(a)
    BY <2>2, FinishSettles DEF Finish, Debt!Next, Debt!debtVars
  <2>3. CASE Deliver(a)
    <3>1. delivered' = delivered \/ delivered' > delivered
      BY <2>3 DEF Deliver, Newest, TypeOK, Attempt
    <3>2. QED
      BY <2>3, <3>1 DEF Deliver, Debt!Next, Debt!Receive, Debt!debtVars
  <2>4. CASE OpenClose(a)
    BY <2>4 DEF OpenClose, AbsentRowIsEmpty, EmptyRow, Debt!debtVars
  <2>5. CASE ClaimClose(a) \/ ClaimTimer(a) \/ Renew(a)
    BY <2>5 DEF ClaimClose, ClaimTimer, ClaimUpload, Renew, TypeOK, Row, Debt!debtVars
  <2>6. CASE LeaveToHolder(a) \/ RenewThrows(a) \/ RegisterDashboard(a) \/ Snapshot(a)
             \/ StartReplay(a) \/ SendFails(a) \/ Crash(a)
    BY <2>6 DEF LeaveToHolder, RenewThrows, RegisterDashboard, Snapshot, StartReplay,
      SendFails, Crash, Debt!debtVars
  <2>7. CASE EndReplay(a)
    <3>1. \/ UNCHANGED <<delivered, vouched>>
          \/ delivered' > delivered /\ UNCHANGED vouched
          \/ vouched' > vouched /\ UNCHANGED delivered
      BY <2>7 DEF EndReplay, Newest, TypeOK, Attempt
    <3>2. QED
      BY <2>7, <3>1 DEF EndReplay, Debt!Next, Debt!Receive, Debt!Excuse, Debt!debtVars
  <2>8. QED
    BY <1>2, <2>1, <2>2, <2>3, <2>4, <2>5, <2>6, <2>7 DEF AttemptStep
<1>3. CASE RegistryStep
  <2>1. CASE Unregister
    BY <2>1 DEF Unregister, EmptyRow, Debt!Next, Debt!Forget
  <2>2. CASE Archive \/ Unarchive \/ Register
    BY <2>2 DEF Archive, Unarchive, Register, AbsentRowIsEmpty, EmptyRow, TypeOK, Row,
      Debt!debtVars
  <2>3. QED
    BY <1>3, <2>1, <2>2 DEF RegistryStep
<1>4. CASE Tick \/ UNCHANGED vars
  BY <1>4 DEF Tick, vars, Debt!debtVars
<1>5. QED
  BY <1>1, <1>2, <1>3, <1>4 DEF Next

\* The lease, its generations and its takeovers implement the promise: a debt is
\* settled only as far as the dashboard has what was promised, or an event replay
\* has answered for it, and a paid debt is opened by a new mark alone.
THEOREM LeaseImplementsDebt == Spec => ImplementsDebt
<1>1. Init => Debt!Init
  BY DEF Init, EmptyRow, Debt!Init
<1>2. QED
  BY <1>1, StepImplementsDebt, LeaseInvariantHolds, PTL DEF Spec, ImplementsDebt, Debt!Spec
=============================================================================
