----------------------------- MODULE UploadLease -----------------------------
(***************************************************************************)
(* The registry row that records which dashboard upload a project owes,    *)
(* shared by every server process of the machine (project-upload-state.ts),*)
(* and the processes that act on it: tool calls that write the store and   *)
(* mark the row afterwards, timers that pay the debt of an idle store, and *)
(* explicit closes that upload at once (dashboard-upload.ts,               *)
(* dashboard-upload-scheduler.ts, checkpoint-backfill.ts).                 *)
(*                                                                         *)
(* Every SQL statement is one atomic step; everything a process does       *)
(* between two statements, or across an await, interleaves with the other  *)
(* processes.  The dashboard is external: it accepts a snapshot, refuses   *)
(* it, or accepts it and loses the answer.                                 *)
(***************************************************************************)
EXTENDS Integers, FiniteSets

CONSTANTS
  Writers,     \* tool calls that change the store, in any process
  Timers,      \* automatic attempts: one per server that opened the project
  Closes,      \* explicit attempts: a session or sprint close
  QUIET,       \* UPLOAD_QUIET_MS, in clock ticks
  MAXWAIT,     \* UPLOAD_MAX_WAIT_MS
  LEASE,       \* UPLOAD_LEASE_MS
  None         \* SQL NULL

Attempts == Timers \cup Closes

ASSUME DurationsAreNaturals == QUIET \in Nat /\ MAXWAIT \in Nat /\ LEASE \in Nat
ASSUME LeaseIsPositive == LEASE > 0
ASSUME NoneIsNoNumber == None \notin Int
ASSUME AttemptKindsDiffer == Timers \cap Closes = {}

VARIABLES
  now,         \* the machine's clock, shared by the processes
  store,       \* number of committed writes: the version of the store
  registered,  \* metadata.dashboard_registered of the store
  row,         \* the project's row of the registry
  unmarked,    \* per writer: the write it committed and has not marked yet, or None
  att,         \* per attempt: where it is, and what it learnt
  claims,      \* number of claims so far: a token is the number of its claim
  delivered,   \* newest version the dashboard has received
  vouched,     \* newest version an event replay answered for in part (history)
  marks        \* the marks the row took since it was inserted (history)

vars == <<now, store, registered, row, unmarked, att, claims, delivered,
          vouched, marks>>

MaybeNat == Nat \cup {None}

Row == [status : {"absent", "active", "archived"},
        firstOwedAt : MaybeNat, latestWriteAt : MaybeNat, firstAfterClaimAt : MaybeNat,
        generation : Nat, leaseToken : MaybeNat, leaseExpiresAt : MaybeNat,
        blocked : {0, 1}]

\* Mutant: the backoff column without its default.
EmptyRowNoDefault(status) ==
  [status |-> status, firstOwedAt |-> None, latestWriteAt |-> None,
   firstAfterClaimAt |-> None, generation |-> 0, leaseToken |-> None,
   leaseExpiresAt |-> None, blocked |-> None]

EmptyRow(status) ==
  [status |-> status, firstOwedAt |-> None, latestWriteAt |-> None,
   firstAfterClaimAt |-> None, generation |-> 0, leaseToken |-> None,
   leaseExpiresAt |-> None, blocked |-> 0]

Attempt == [pc : {"idle", "opened", "owed", "held", "sending", "replaying", "done"},
            token : MaybeNat, generation : Nat, snapshot : Nat,
            lease : {"kept", "lost"}, outcome : {"none", "success", "failed", "blocked"}]

IdleAttempt == [pc |-> "idle", token |-> None, generation |-> 0, snapshot |-> 0,
                lease |-> "kept", outcome |-> "none"]

Mark == [version : Nat, at : Nat, generation : Nat]

TypeOK ==
  /\ now \in Nat
  /\ store \in Nat
  /\ registered \in BOOLEAN
  /\ row \in Row
  /\ unmarked \in [Writers -> MaybeNat]
  /\ att \in [Attempts -> Attempt]
  /\ claims \in Nat
  /\ delivered \in Nat
  /\ vouched \in Nat
  /\ marks \in SUBSET Mark

Init ==
  /\ now = 0
  /\ store = 0
  /\ registered \in BOOLEAN
  /\ row = EmptyRow("active")
  /\ unmarked = [w \in Writers |-> None]
  /\ att = [a \in Attempts |-> IdleAttempt]
  /\ claims = 0
  /\ delivered = 0
  /\ vouched = 0
  /\ marks = {}

-----------------------------------------------------------------------------
(* The statements of project-upload-state.ts.                              *)

Active == row.status = "active"

Coalesce(x, y) == IF x = None THEN y ELSE x

\* markUploadOwed: the first owed time is kept, the latest write time moves; a
\* mark that finds a lease token also dates the debt that survives that lease.
MarkUploadOwed(version) ==
  /\ row' = [row EXCEPT
       !.firstOwedAt = Coalesce(@, now),
       !.latestWriteAt = now,
       !.firstAfterClaimAt = IF row.leaseToken = None THEN @ ELSE Coalesce(@, now),
       !.generation = @ + 1]
  /\ marks' = marks \cup
       {[version |-> version, at |-> now, generation |-> row.generation + 1]}

\* Mutant: a lease never runs out.
LeaseIsFreeIfReturned == row.leaseToken = None

LeaseIsFree == row.leaseToken # None => row.leaseExpiresAt <= now

\* Mutant: the timer forgets the backoff.
DueDespiteBackoff ==
  /\ row.firstOwedAt # None
  /\ \/ row.latestWriteAt # None /\ row.latestWriteAt <= now - QUIET
     \/ row.firstOwedAt <= now - MAXWAIT

\* An automatic attempt waits for a quiet store, or for the longest wait.
Due ==
  /\ row.blocked = 0
  /\ row.firstOwedAt # None
  /\ \/ row.latestWriteAt # None /\ row.latestWriteAt <= now - QUIET
     \/ row.firstOwedAt <= now - MAXWAIT

\* claimUpload: UPDATE ... RETURNING takes the lease and reads the generation.
ClaimUpload(a) ==
  /\ Active
  /\ LeaseIsFree
  /\ a \in Closes \/ Due
  /\ claims' = claims + 1
  /\ row' = [row EXCEPT !.leaseToken = claims', !.leaseExpiresAt = now + LEASE,
                        !.firstAfterClaimAt = None]
  /\ att' = [att EXCEPT ![a] = [IdleAttempt EXCEPT
       !.pc = "held", !.token = claims', !.generation = row.generation]]

\* Mutant: the fence forgets whose lease it is.
HoldsLeaseOfAnyone(a) == row.leaseToken # None /\ row.leaseExpiresAt > now

\* The fence of renewUploadLease and finishUpload.
HoldsLease(a) ==
  /\ row.leaseToken # None
  /\ row.leaseToken = att[a].token
  /\ row.leaseExpiresAt > now

\* Mutant: a success pays whatever is owed, also what was marked since the claim.
FinishUploadPaysAll(a) ==
  LET success == att[a].outcome = "success" IN
  row' = [row EXCEPT
       !.leaseToken = None,
       !.leaseExpiresAt = None,
       !.blocked = IF success THEN 0 ELSE IF att[a].outcome = "blocked" THEN 1 ELSE @,
       !.firstOwedAt = IF success THEN None ELSE @,
       !.latestWriteAt = IF success THEN None ELSE @,
       !.firstAfterClaimAt = None]

\* Mutant: a failure makes sure that there is a debt to pay.
FinishUploadReopens(a) ==
  LET success == att[a].outcome = "success"
      unchangedSince == row.generation = att[a].generation
  IN row' = [row EXCEPT
       !.leaseToken = None,
       !.leaseExpiresAt = None,
       !.blocked = IF success THEN 0
                   ELSE IF att[a].outcome = "blocked" THEN 1 ELSE @,
       !.firstOwedAt = IF ~success THEN Coalesce(@, now)
                       ELSE IF unchangedSince THEN None
                       ELSE Coalesce(row.firstAfterClaimAt, @),
       !.latestWriteAt = IF ~success THEN Coalesce(@, now)
                         ELSE IF unchangedSince THEN None ELSE @,
       !.firstAfterClaimAt = None]

\* finishUpload: debt is dropped only by a success, and then only as far as the
\* generation that the claim read; a failure keeps it and may block the timers.
FinishUpload(a) ==
  LET success == att[a].outcome = "success"
      unchangedSince == row.generation = att[a].generation
  IN row' = [row EXCEPT
       !.leaseToken = None,
       !.leaseExpiresAt = None,
       !.blocked = IF success THEN 0
                   ELSE IF att[a].outcome = "blocked" THEN 1 ELSE @,
       !.firstOwedAt = IF ~success THEN @
                       ELSE IF unchangedSince THEN None
                       ELSE Coalesce(row.firstAfterClaimAt, @),
       !.latestWriteAt = IF success /\ unchangedSince THEN None ELSE @,
       !.firstAfterClaimAt = None]

-----------------------------------------------------------------------------
(* Time, and the tool calls that write the store.                          *)

Tick ==
  /\ now' = now + 1
  /\ UNCHANGED <<store, registered, row, unmarked, att, claims, delivered, vouched, marks>>

\* A tool call commits a write; the mark is a later step of the same call.
Write(w) ==
  /\ unmarked[w] = None
  /\ store' = store + 1
  /\ unmarked' = [unmarked EXCEPT ![w] = store']
  /\ UNCHANGED <<now, registered, row, att, claims, delivered, vouched, marks>>

\* markDashboardUploadOwed: nothing for an unregistered store, and a mark that
\* finds no active row is only logged.
MarkWrite(w) ==
  /\ unmarked[w] # None
  /\ unmarked' = [unmarked EXCEPT ![w] = None]
  /\ IF registered /\ Active
       THEN MarkUploadOwed(unmarked[w])
       ELSE UNCHANGED <<row, marks>>
  /\ UNCHANGED <<now, store, registered, att, claims, delivered, vouched>>

\* The process dies, or the call answers an error, after its write committed.
DropMark(w) ==
  /\ unmarked[w] # None
  /\ unmarked' = [unmarked EXCEPT ![w] = None]
  /\ UNCHANGED <<now, store, registered, row, att, claims, delivered, vouched, marks>>

-----------------------------------------------------------------------------
(* An upload attempt: withUploadLease around triggerCheckpointBackfill's   *)
(* send.                                                                   *)

MoveTo(a, pc) == att' = [att EXCEPT ![a].pc = pc]

\* An explicit close registers a project that the registry does not know.
OpenClose(a) ==
  /\ a \in Closes
  /\ att[a].pc = "idle"
  /\ MoveTo(a, "opened")
  /\ row' = IF row.status = "absent" THEN EmptyRow("active") ELSE row
  /\ UNCHANGED <<now, store, registered, unmarked, claims, delivered, vouched, marks>>

\* It then marks the upload owed, and gives up when the row is not active.
MarkClose(a) ==
  /\ att[a].pc = "opened"
  /\ IF Active
       THEN MarkUploadOwed(store) /\ MoveTo(a, "owed")
       ELSE att' = [att EXCEPT ![a] = IdleAttempt] /\ UNCHANGED <<row, marks>>
  /\ UNCHANGED <<now, store, registered, unmarked, claims, delivered, vouched>>

ClaimClose(a) ==
  /\ att[a].pc = "owed"
  /\ ClaimUpload(a)
  /\ UNCHANGED <<now, store, registered, unmarked, delivered, vouched, marks>>

\* The claim changed no row: the close returns, and leaves its mark.
LeaveToHolder(a) ==
  /\ att[a].pc = "owed"
  /\ ~(Active /\ LeaseIsFree)
  /\ att' = [att EXCEPT ![a] = IdleAttempt]
  /\ UNCHANGED <<now, store, registered, row, unmarked, claims, delivered, vouched, marks>>

\* One firing of the scheduler's timer (launch), which never registers.
ClaimTimer(a) ==
  /\ a \in Timers
  /\ att[a].pc = "idle"
  /\ registered
  /\ ClaimUpload(a)
  /\ UNCHANGED <<now, store, registered, unmarked, delivered, vouched, marks>>

Uploading(a) == att[a].pc \in {"held", "sending", "replaying"}

\* The keep-alive interval: renewUploadLease, or the loss of the lease noted.
Renew(a) ==
  /\ Uploading(a)
  /\ IF HoldsLease(a) /\ Active
       THEN row' = [row EXCEPT !.leaseExpiresAt = now + LEASE] /\ UNCHANGED att
       ELSE att' = [att EXCEPT ![a].lease = "lost"] /\ UNCHANGED row
  /\ UNCHANGED <<now, store, registered, unmarked, claims, delivered, vouched, marks>>

\* The keep-alive statement throws (a busy registry): the lease counts as lost.
RenewThrows(a) ==
  /\ Uploading(a)
  /\ att' = [att EXCEPT ![a].lease = "lost"]
  /\ UNCHANGED <<now, store, registered, row, unmarked, claims, delivered, vouched, marks>>

\* checkAndRegister under an explicit close: the dashboard creates the project.
RegisterDashboard(a) ==
  /\ a \in Closes
  /\ att[a].pc = "held"
  /\ ~registered
  /\ registered' = TRUE
  /\ UNCHANGED <<now, store, row, unmarked, att, claims, delivered, vouched, marks>>

Newest(x, y) == IF x > y THEN x ELSE y

\* withUploadSnapshot's backup reads the store after the claim.  A close whose
\* registration the dashboard accepted sends it even if the store kept no trace.
Snapshot(a) ==
  /\ att[a].pc = "held"
  /\ registered \/ a \in Closes
  /\ att' = [att EXCEPT ![a].pc = "sending", ![a].snapshot = store]
  /\ UNCHANGED <<now, store, registered, row, unmarked, claims, delivered, vouched, marks>>

\* The dashboard has the snapshot; its answer may still be lost.
Deliver(a) ==
  /\ att[a].pc = "sending"
  /\ delivered' = Newest(att[a].snapshot, delivered)
  /\ \E outcome \in {"success", "failed"} :
       att' = [att EXCEPT ![a].pc = "done", ![a].outcome = outcome]
  /\ UNCHANGED <<now, store, registered, row, unmarked, claims, vouched, marks>>

\* A close that checkAndRegister gave no slug (it threw, or the registration was
\* refused, or the project has no name) falls back to rbookDbBackfill, which
\* reads the events it will send at once.
StartReplay(a) ==
  /\ a \in Closes
  /\ att[a].pc = "held"
  /\ att' = [att EXCEPT ![a].pc = "replaying", ![a].snapshot = store]
  /\ UNCHANGED <<now, store, registered, row, unmarked, claims, delivered, vouched, marks>>

\* The replay succeeds when no push failed, and that says nothing of what it left
\* out: what lies before the cursor or is of a kind the dashboard does not take,
\* all of it over the large-delta limit, the rest after the overall timeout.
EndReplay(a) ==
  /\ att[a].pc = "replaying"
  /\ \E whole \in BOOLEAN, outcome \in {"success", "failed"} :
       /\ delivered' = IF whole THEN Newest(att[a].snapshot, delivered) ELSE delivered
       /\ vouched' = IF ~whole /\ outcome = "success"
                     THEN Newest(att[a].snapshot, vouched) ELSE vouched
       /\ att' = [att EXCEPT ![a].pc = "done", ![a].outcome = outcome]
  /\ UNCHANGED <<now, store, registered, row, unmarked, claims, marks>>

\* uploadFailure, or an exception of send: a refusal that blocks, or any other.
SendFails(a) ==
  /\ Uploading(a)
  /\ \E outcome \in {"failed", "blocked"} :
       att' = [att EXCEPT ![a].pc = "done", ![a].outcome = outcome]
  /\ UNCHANGED <<now, store, registered, row, unmarked, claims, delivered, vouched, marks>>

\* The end of withUploadLease: a lost lease is not finished at all.
Finish(a) ==
  /\ att[a].pc = "done"
  /\ IF att[a].lease = "kept" /\ HoldsLease(a) THEN FinishUpload(a) ELSE UNCHANGED row
  /\ att' = [att EXCEPT ![a] = IdleAttempt]
  /\ UNCHANGED <<now, store, registered, unmarked, claims, delivered, vouched, marks>>

\* The process of an attempt dies; the row keeps whatever it had written.
Crash(a) ==
  /\ att[a].pc # "idle"
  /\ att' = [att EXCEPT ![a] = IdleAttempt]
  /\ UNCHANGED <<now, store, registered, row, unmarked, claims, delivered, vouched, marks>>

-----------------------------------------------------------------------------
(* The registry operations that other tools run on the row at any time.    *)

Archive ==
  /\ Active
  /\ row' = [row EXCEPT !.status = "archived"]
  /\ UNCHANGED <<now, store, registered, unmarked, att, claims, delivered, vouched, marks>>

Unarchive ==
  /\ row.status = "archived"
  /\ row' = [row EXCEPT !.status = "active"]
  /\ UNCHANGED <<now, store, registered, unmarked, att, claims, delivered, vouched, marks>>

\* register: inserts a row, or un-archives it and keeps its upload columns.
Register ==
  /\ row' = IF row.status = "absent" THEN EmptyRow("active")
            ELSE [row EXCEPT !.status = "active"]
  /\ UNCHANGED <<now, store, registered, unmarked, att, claims, delivered, vouched, marks>>

\* unregister deletes the row, and with it every mark and the lease.
Unregister ==
  /\ row.status # "absent"
  /\ row' = EmptyRow("absent")
  /\ marks' = {}
  /\ UNCHANGED <<now, store, registered, unmarked, att, claims, delivered, vouched>>

WriterStep(w) == Write(w) \/ MarkWrite(w) \/ DropMark(w)

AttemptStep(a) ==
  \/ OpenClose(a) \/ MarkClose(a) \/ ClaimClose(a) \/ LeaveToHolder(a)
  \/ ClaimTimer(a)
  \/ Renew(a) \/ RenewThrows(a)
  \/ RegisterDashboard(a) \/ Snapshot(a) \/ Deliver(a)
  \/ StartReplay(a) \/ EndReplay(a) \/ SendFails(a)
  \/ Finish(a) \/ Crash(a)

RegistryStep == Archive \/ Unarchive \/ Register \/ Unregister

Next ==
  \/ Tick
  \/ \E w \in Writers : WriterStep(w)
  \/ \E a \in Attempts : AttemptStep(a)
  \/ RegistryStep

Spec == Init /\ [][Next]_vars

-----------------------------------------------------------------------------
(* Correctness.                                                            *)

\* The oldest unpaid mark dates the debt: whatever failures, takeovers, lost
\* leases, partial payments and archivals happened, a mark the row took is
\* contained in a snapshot the dashboard received, or the row still owes an
\* upload since a time no later than that mark, or an event replay has answered
\* for it without sending all of it.  (The MAXWAIT bound on the wait of a write
\* rests on this; finishUpload's generation test and upload_first_after_claim_at
\* implement it.)
DebtDatesFromOldestUnpaidMark ==
  \A m \in marks :
    \/ m.version <= delivered
    \/ row.firstOwedAt # None /\ row.firstOwedAt <= m.at
    \/ m.version <= vouched

\* "Each upload sends a consistent snapshot of the whole SQLite file" (README.md:
\* 361): what is no longer owed, the dashboard has.  The event replay of an
\* explicit close counts as an upload and sends events, or none.
PaidMarksAreDelivered ==
  \A m \in marks :
    m.version <= delivered \/ (row.firstOwedAt # None /\ row.firstOwedAt <= m.at)

\* The columns that make up a debt come and go together, so that claimUpload's
\* comparisons never meet a NULL half of a debt: finishUpload writes the two
\* under different conditions.
DebtColumnsAgree ==
  /\ (row.firstOwedAt = None) <=> (row.latestWriteAt = None)
  /\ row.firstOwedAt # None => row.firstOwedAt <= row.latestWriteAt
  /\ row.firstAfterClaimAt # None =>
       /\ row.firstOwedAt # None
       /\ row.firstOwedAt <= row.firstAfterClaimAt
       /\ row.firstAfterClaimAt <= row.latestWriteAt

\* "Only successful explicit attempts can clear an auth backoff": the statement
\* clears it on any success, and relies on the claim and on the fence to keep
\* an automatic attempt from succeeding over it.
BackoffClearedOnlyByClose ==
  [][row.blocked = 1 /\ row'.blocked = 0 =>
       \/ \E a \in Closes : Finish(a) /\ att[a].outcome = "success"
       \/ row'.status = "absent"]_vars

\* A holder that was overtaken leaves no trace: only the attempt of the latest
\* claim ever gives the lease back or changes the debt when it ends.
OnlyLatestClaimCommits ==
  [][\A a \in Attempts : Finish(a) /\ row' # row => att[a].token = claims]_vars

Debt == INSTANCE UploadDebt WITH promises <- marks, since <- row.firstOwedAt,
                                 excused <- vouched

\* The row implements the promise of UploadDebt: every step of a process, a
\* writer or the registry is a step of the debt or leaves it alone, so that a
\* debt is settled only as far as the dashboard has what was promised, or an
\* event replay has answered for it, and no failure opens a debt that was paid.
ImplementsDebt == Debt!Spec

-----------------------------------------------------------------------------
(* The inductive invariant behind them.                                    *)

\* Nothing recorded lies in the future of the clock, the store or the row.
NothingAhead ==
  /\ row.firstOwedAt # None => row.firstOwedAt <= now
  /\ row.latestWriteAt # None => row.latestWriteAt <= now
  /\ row.firstAfterClaimAt # None => row.firstAfterClaimAt <= now
  /\ \A w \in Writers : unmarked[w] # None => unmarked[w] <= store
  /\ \A m \in marks : m.version <= store /\ m.generation <= row.generation

\* Tokens are never reissued: the row holds none or that of the latest claim.
TokensAreFresh ==
  /\ row.leaseToken # None => row.leaseToken = claims
  /\ \A a \in Attempts : att[a].token # None => att[a].token <= claims

Owns(a) == row.leaseToken # None /\ att[a].token = row.leaseToken

\* What the owner of the lease may rely on when it finishes.
OwnerKnows(a) ==
  /\ a \in Timers => row.blocked = 0
  /\ att[a].generation <= row.generation
  /\ \A m \in marks : m.generation > att[a].generation =>
       row.firstAfterClaimAt # None /\ row.firstAfterClaimAt <= m.at
  /\ \A m \in marks : (\/ att[a].pc \in {"sending", "replaying"}
                           \/ att[a].outcome = "success")
                          /\ m.generation <= att[a].generation
                        => m.version <= att[a].snapshot
  /\ att[a].outcome = "success" => att[a].snapshot <= delivered \/ att[a].snapshot <= vouched

OwnersKnow == \A a \in Attempts : Owns(a) => OwnerKnows(a)

OutcomeIsLast == \A a \in Attempts : att[a].pc # "done" => att[a].outcome = "none"

AbsentRowIsEmpty == row.status = "absent" => row = EmptyRow("absent") /\ marks = {}

\* Together they are preserved by every step, and imply the safety properties:
\* what a success may clear is decided by facts the owner recorded when it
\* claimed the lease and when it read the store.
LeaseInvariant ==
  /\ TypeOK
  /\ NothingAhead
  /\ DebtColumnsAgree
  /\ TokensAreFresh
  /\ OutcomeIsLast
  /\ OwnersKnow
  /\ AbsentRowIsEmpty
  /\ DebtDatesFromOldestUnpaidMark

=============================================================================
