------------------------------ MODULE CollabSync ------------------------------
(***************************************************************************)
(* One mutable value of a shared project -- the status of a mission, the    *)
(* status of a sprint, or the project's name -- in the stores of several    *)
(* editors and on the broker (the hosted dashboard) they push to and pull   *)
(* from.                                                                   *)
(*                                                                         *)
(* A tool call first commits the edit in its own store, then propagates it: *)
(* pull what the broker has, stamp the edit with a wall clock time and a    *)
(* counter, record it locally, push it, and follow the broker if a later    *)
(* edit won (last writer wins).  Every request is awaited, so the other     *)
(* calls on the store run in between.  The soft-lock is advisory, no step   *)
(* waits for it, and it is left out.                                       *)
(***************************************************************************)
EXTENDS Integers, Sequences

CONSTANTS
  Stores,      \* a store per editor's machine
  Processes,   \* calls that may be in flight on each store
  Values,      \* the values the field takes
  Initial,     \* the value it was created with, everywhere
  None,        \* NULL
  Unshared,    \* values that handlers write without propagating them
  Newcomers,   \* stores that are still to be cloned from the broker
  Fallible,    \* stores whose requests may fail and processes die
  EmitOnlyIfChanged,  \* TRUE for sprints and the name, FALSE for missions
  PageLimit,   \* events per page of a pull
  Step,        \* milliseconds from one instant to the next
  Ahead        \* how far the wall clock of each store is ahead

ASSUME ValuesAreSound == /\ Initial \in Values /\ None \notin Values
                         /\ Unshared \subseteq Values
ASSUME StoresAreSound == Newcomers \cup Fallible \subseteq Stores
ASSUME EmissionIsAChoice == EmitOnlyIfChanged \in BOOLEAN
ASSUME PagesHoldEvents == PageLimit \in Nat \ {0}
ASSUME ClocksAreSound == Step \in Nat /\ Ahead \in [Stores -> Nat]
ASSUME NoneIsNoTime == None \notin Nat

VARIABLES
  row,       \* the field in each store; None before the clone
  recorded,  \* metadata mutable_status: the edit that won here, if any is known
  counter,   \* metadata mutable_origin_seq
  cursor,    \* metadata pull_cursor: how much of the log was pulled
  log,       \* the broker's rbook_sync_log
  mirror,    \* the broker's value, and the edit it is from
  call,      \* the tool calls in flight
  instant,   \* time
  edit,      \* history: the last edit here that changed the value
  unsettled  \* history: stores with an edit the broker has not answered, or
             \* with a page they were told to pull again

vars == <<row, recorded, counter, cursor, log, mirror, call, instant, edit, unsettled>>

Calls == Stores \X Processes
StoreOf(c) == c[1]

\* Date.now() on the machine of s.
Date(s) == Step * instant + Ahead[s]

\* A value with its ordering, as mutable_status keeps it.
Ordering == [value : Values \cup {None}, at : Nat \cup {None}, seq : Nat \cup {None}]

Event == [value : Values, at : Nat, seq : Nat, by : Stores]

Call == [pc : {"idle", "edited", "decided", "pull", "merge", "cursor", "stamp", "write",
               "record", "send", "accepted", "superseded", "settle"},
         value : Values \cup {None}, at : Nat \cup {None}, seq : Nat \cup {None},
         since : Nat, to : Nat, more : {0, 1}, pages : {0, 1}]

IdleCall == [pc |-> "idle", value |-> None, at |-> None, seq |-> None,
             since |-> 0, to |-> 0, more |-> 0, pages |-> 0]

TypeOK ==
  /\ row \in [Stores -> Values \cup {None}]
  /\ recorded \in [Stores -> Ordering]
  /\ counter \in [Stores -> Nat]
  /\ cursor \in [Stores -> Nat]
  /\ log \in Seq(Event)
  /\ mirror \in Ordering /\ mirror.value # None
  /\ call \in [Calls -> Call]
  /\ instant \in Nat
  /\ edit \in [Stores -> [value : Values \cup {None}, at : Nat]]
  /\ unsettled \subseteq Stores

Init ==
  /\ row = [s \in Stores |-> IF s \in Newcomers THEN None ELSE Initial]
  /\ recorded = [s \in Stores |-> [value |-> None, at |-> None, seq |-> None]]
  /\ counter = [s \in Stores |-> 0]
  /\ cursor = [s \in Stores |-> 0]
  /\ log = <<>>
  /\ mirror = [value |-> Initial, at |-> None, seq |-> None]
  /\ call = [c \in Calls |-> IdleCall]
  /\ instant = 0
  /\ edit = [s \in Stores |-> [value |-> None, at |-> 0]]
  /\ unsettled = {}

\* Mutant: the first writer wins.
WinsIfEarlier(event, current) ==
  current.at # None =>
    /\ event.at <= current.at
    /\ event.at = current.at /\ current.seq # None => event.seq >= current.seq

\* incomingWins: the later time; then the higher counter, a NULL one being
\* lowest; and the newcomer when all is equal or nothing is known.
Wins(event, current) ==
  current.at # None =>
    /\ event.at >= current.at
    /\ event.at = current.at /\ current.seq # None => event.seq >= current.seq

Return(c) == call' = [call EXCEPT ![c] = IdleCall]

-----------------------------------------------------------------------------
(* The edit, and whether to propagate it (maybePropagateMutableStatus).    *)

\* The handler commits the new value.  A mission's transition changes the status;
\* a sprint or the project may be given the value it has.
Edit(c, v) ==
  LET s == StoreOf(c) IN
  /\ call[c].pc = "idle"
  /\ row[s] # None
  /\ v = row[s] => EmitOnlyIfChanged
  /\ row' = [row EXCEPT ![s] = v]
  /\ call' = [call EXCEPT ![c].pc = "edited"]
  /\ IF v = row[s] THEN UNCHANGED <<edit, unsettled>>
     ELSE /\ edit' = [edit EXCEPT ![s] = [value |-> v, at |-> Date(s)]]
          /\ unsettled' = unsettled \cup {s}
  /\ UNCHANGED <<recorded, counter, cursor, log, mirror, instant>>

\* The value, re-read, is the recorded winner: there is nothing to emit.
Suppressed(c) ==
  /\ call[c].pc = "edited"
  /\ EmitOnlyIfChanged
  /\ recorded[StoreOf(c)].value = row[StoreOf(c)]

Decide(c) ==
  /\ call[c].pc = "edited"
  /\ IF Suppressed(c) THEN Return(c)
     ELSE call' = [call EXCEPT ![c].pc = "decided", ![c].value = row[StoreOf(c)]]
  /\ UNCHANGED <<row, recorded, counter, cursor, log, mirror, instant, edit, unsettled>>

\* A handler that writes the field and does not propagate: rbook_mission(update),
\* or the demotion of this sprint by the opening of another.
WriteUnshared(s, v) ==
  /\ row[s] \notin {None, v}
  /\ row' = [row EXCEPT ![s] = v]
  /\ UNCHANGED <<recorded, counter, cursor, log, mirror, call, instant, edit, unsettled>>

-----------------------------------------------------------------------------
(* syncPull: before a push, or asked for with rbook_db(pull).              *)

OpenPull(c) ==
  LET s == StoreOf(c) IN
  /\ call[c].pc \in {"idle", "decided"}
  /\ row[s] # None
  /\ call' = [call EXCEPT ![c].pc = "pull", ![c].since = cursor[s]]
  /\ UNCHANGED <<row, recorded, counter, cursor, log, mirror, instant, edit, unsettled>>

PageEnd(since) ==
  IF since + PageLimit < Len(log) THEN since + PageLimit ELSE Len(log)

FetchPage(c) ==
  LET end == PageEnd(call[c].since) IN
  /\ call[c].pc = "pull"
  /\ call' = [call EXCEPT ![c].pc = "merge", ![c].to = end,
                          ![c].more = IF end < Len(log) THEN 1 ELSE 0]
  /\ UNCHANGED <<row, recorded, counter, cursor, log, mirror, instant, edit, unsettled>>

\* Event i of the page is the one that stands after all of them are merged.
StandsIn(i, since, to) ==
  \A j \in since + 1 .. to :
    /\ Wins(log[i], log[j])
    /\ j > i => ~Wins(log[j], log[i])

\* The page, merged in one transaction (applyInboundMutableStatus): its events
\* win or lose against what is recorded, one after the other.
MergePage(c) ==
  LET s == StoreOf(c)  page == call[c].since + 1 .. call[c].to IN
  /\ call[c].pc = "merge"
  /\ \/ /\ \A i \in page : ~Wins(log[i], recorded[s])
        /\ UNCHANGED <<row, recorded>>
     \/ \E i \in page :
          /\ StandsIn(i, call[c].since, call[c].to)
          /\ Wins(log[i], recorded[s])
          /\ row' = [row EXCEPT ![s] = log[i].value]
          /\ recorded' = [recorded EXCEPT ![s] =
               [value |-> log[i].value, at |-> log[i].at, seq |-> log[i].seq]]
  /\ call' = [call EXCEPT ![c].pc = "cursor"]
  /\ UNCHANGED <<counter, cursor, log, mirror, instant, edit, unsettled>>

\* The transaction fails: the answer asks to reset the cursor and pull again.
RollBackPage(c) ==
  /\ StoreOf(c) \in Fallible
  /\ call[c].pc = "merge"
  /\ call' = [call EXCEPT ![c].pc = "cursor"]
  /\ unsettled' = unsettled \cup {StoreOf(c)}
  /\ UNCHANGED <<row, recorded, counter, cursor, log, mirror, instant, edit>>

\* The pull is over: the push follows, if the call has something to push.
FinishPull(c) ==
  IF call[c].value = None THEN Return(c)
  ELSE call' = [call EXCEPT ![c] = [IdleCall EXCEPT !.pc = "stamp", !.value = call[c].value]]

PersistCursor(c) ==
  /\ call[c].pc = "cursor"
  /\ cursor' = [cursor EXCEPT ![StoreOf(c)] = call[c].to]
  /\ IF call[c].more = 1
       THEN call' = [call EXCEPT ![c].pc = "pull", ![c].since = call[c].to, ![c].pages = 1]
       ELSE FinishPull(c)
  /\ UNCHANGED <<row, recorded, counter, log, mirror, instant, edit, unsettled>>

\* A page after the first fails: the pull succeeds with what it has.
StopPull(c) ==
  /\ StoreOf(c) \in Fallible
  /\ call[c].pc = "pull"
  /\ call[c].pages = 1
  /\ FinishPull(c)
  /\ UNCHANGED <<row, recorded, counter, cursor, log, mirror, instant, edit, unsettled>>

-----------------------------------------------------------------------------
(* pushMutableStatus, after its pull.                                      *)

\* Date.now(), and the read half of nextOriginSeq.
TakeSeq(c) ==
  LET s == StoreOf(c) IN
  /\ call[c].pc = "stamp"
  /\ call' = [call EXCEPT ![c].pc = "write", ![c].at = Date(s),
                          ![c].seq = counter[s] + 1]
  /\ UNCHANGED <<row, recorded, counter, cursor, log, mirror, instant, edit, unsettled>>

\* The write half, and the row (applyLocalMutableStatus) ...
WriteLocal(c) ==
  LET s == StoreOf(c) IN
  /\ call[c].pc = "write"
  /\ counter' = [counter EXCEPT ![s] = call[c].seq]
  /\ row' = [row EXCEPT ![s] = call[c].value]
  /\ unsettled' = unsettled \cup {s}
  /\ call' = [call EXCEPT ![c].pc = "record"]
  /\ UNCHANGED <<recorded, cursor, log, mirror, instant, edit>>

\* ... then its ordering.
Record(c) ==
  /\ call[c].pc = "record"
  /\ recorded' = [recorded EXCEPT ![StoreOf(c)] =
       [value |-> call[c].value, at |-> call[c].at, seq |-> call[c].seq]]
  /\ call' = [call EXCEPT ![c].pc = "send"]
  /\ UNCHANGED <<row, counter, cursor, log, mirror, instant, edit, unsettled>>

\* The broker logs the event, resolves it with the same rule, and answers with
\* the winner.
Deliver(c) ==
  LET event == [value |-> call[c].value, at |-> call[c].at, seq |-> call[c].seq,
                by |-> StoreOf(c)]
  IN
  /\ call[c].pc = "send"
  /\ log' = Append(log, event)
  /\ IF Wins(event, mirror)
       THEN /\ mirror' = [value |-> event.value, at |-> event.at, seq |-> event.seq]
            /\ call' = [call EXCEPT ![c].pc = "accepted"]
       ELSE /\ call' = [call EXCEPT ![c].pc = "superseded", ![c].value = mirror.value,
                                    ![c].at = mirror.at, ![c].seq = None]
            /\ UNCHANGED mirror
  /\ UNCHANGED <<row, recorded, counter, cursor, instant, edit, unsettled>>

Accepted(c) ==
  /\ call[c].pc = "accepted"
  /\ unsettled' = unsettled \ {StoreOf(c)}
  /\ Return(c)
  /\ UNCHANGED <<row, recorded, counter, cursor, log, mirror, instant, edit>>

\* Mutant: the conflict is surfaced, and the local row left at our edit.
KeepLoser(c) ==
  /\ call[c].pc = "superseded"
  /\ call' = [call EXCEPT ![c].pc = "settle"]
  /\ UNCHANGED <<row, recorded, counter, cursor, log, mirror, instant, edit, unsettled>>

\* The row follows the broker's winner, whatever it holds by now ...
Converge(c) ==
  /\ call[c].pc = "superseded"
  /\ row' = [row EXCEPT ![StoreOf(c)] = call[c].value]
  /\ call' = [call EXCEPT ![c].pc = "settle"]
  /\ UNCHANGED <<recorded, counter, cursor, log, mirror, instant, edit, unsettled>>

\* Mutant: the winner is recorded with the time of the answer.
SettleAtNow(c) ==
  LET s == StoreOf(c) IN
  /\ call[c].pc = "settle"
  /\ recorded' = [recorded EXCEPT ![s] =
       [value |-> call[c].value, at |-> Date(s), seq |-> None]]
  /\ unsettled' = unsettled \ {s}
  /\ Return(c)
  /\ UNCHANGED <<row, counter, cursor, log, mirror, instant, edit>>

\* ... and so does the ordering, whose counter the answer does not carry.
Settle(c) ==
  LET s == StoreOf(c) IN
  /\ call[c].pc = "settle"
  /\ recorded' = [recorded EXCEPT ![s] =
       [value |-> call[c].value, at |-> call[c].at, seq |-> None]]
  /\ unsettled' = unsettled \ {s}
  /\ Return(c)
  /\ UNCHANGED <<row, counter, cursor, log, mirror, instant, edit>>

\* The process dies, or a request fails or goes unanswered: what is committed,
\* here and at the broker, stays, and the answer is at most a warning.
Interrupt(c) ==
  /\ StoreOf(c) \in Fallible
  /\ call[c].pc # "idle"
  /\ Return(c)
  /\ UNCHANGED <<row, recorded, counter, cursor, log, mirror, instant, edit, unsettled>>

-----------------------------------------------------------------------------

\* Mutant: a snapshot without a log position leaves none.
CloneWithoutCursor(s) ==
  /\ row[s] = None
  /\ row' = [row EXCEPT ![s] = mirror.value]
  /\ cursor' = [cursor EXCEPT ![s] = None]
  /\ UNCHANGED <<recorded, counter, log, mirror, call, instant, edit, unsettled>>

\* syncBootstrap: the value and the cursor come with the snapshot, its ordering
\* does not.
Clone(s) ==
  /\ row[s] = None
  /\ row' = [row EXCEPT ![s] = mirror.value]
  /\ cursor' = [cursor EXCEPT ![s] = Len(log)]
  /\ UNCHANGED <<recorded, counter, log, mirror, call, instant, edit, unsettled>>

Tick ==
  /\ instant' = instant + 1
  /\ UNCHANGED <<row, recorded, counter, cursor, log, mirror, call, edit, unsettled>>

CallStep(c) ==
  \/ \E v \in Values : Edit(c, v)
  \/ Decide(c)
  \/ OpenPull(c) \/ FetchPage(c) \/ MergePage(c) \/ RollBackPage(c) \/ PersistCursor(c)
  \/ StopPull(c)
  \/ TakeSeq(c) \/ WriteLocal(c) \/ Record(c) \/ Deliver(c)
  \/ Accepted(c) \/ Converge(c) \/ Settle(c)
  \/ Interrupt(c)

Next ==
  \/ \E c \in Calls : CallStep(c)
  \/ \E s \in Stores : Clone(s) \/ \E v \in Unshared : WriteUnshared(s, v)
  \/ Tick

Spec == Init /\ [][Next]_vars

-----------------------------------------------------------------------------
(* Correctness.                                                            *)

Resting(s) == \A p \in Processes : call[<<s, p>>].pc = "idle"

\* Convergence: a store at rest that has pulled all of the log, and whose edits
\* the broker has answered, holds what the broker holds.
Converged ==
  \A s \in Stores :
    (/\ Resting(s) /\ row[s] # None /\ s \notin unsettled
     /\ cursor[s] = Len(log)) => row[s] = mirror.value

\* A stale remote edit does not clobber a fresher local one: at rest, a store
\* whose calls do not fail holds the last edit made in it, unless one that is not
\* older won.
EditSurvives ==
  \A s \in Stores \ Fallible :
    Resting(s) /\ edit[s].value # None =>
      \/ row[s] = edit[s].value
      \/ recorded[s].at # None /\ recorded[s].at >= edit[s].at

\* The broker has the event of value v and time t.
Logged(v, t) == \E i \in DOMAIN log : log[i].value = v /\ log[i].at = t

\* The change guard compares with what won here, by a push, a pull or a lost
\* conflict, and what it suppresses the broker knows: in a store whose calls do not
\* fail, whatever fails in the others.
SuppressedIsKnown ==
  \A c \in Calls : StoreOf(c) \notin Fallible /\ Suppressed(c) =>
    Logged(recorded[StoreOf(c)].value, recorded[StoreOf(c)].at)

\* An edit whose push failed can be repeated to propagate it ("The local edit is
\* kept; retry to propagate it"): what the guard suppresses is never one that the
\* broker has not got.
RetryIsSent ==
  \A c \in Calls : Suppressed(c) =>
    Logged(recorded[StoreOf(c)].value, recorded[StoreOf(c)].at)

\* origin_seq never goes back ("The contract is MONOTONIC, not gapless").
OriginSeqMonotonic ==
  [][\A s \in Stores : counter'[s] >= counter[s]]_vars

=============================================================================
